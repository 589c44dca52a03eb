------------------------------- MODULE Fetching -------------------------------
(***************************************************************************)
(* The Runs of a Binding that reads a Google spreadsheet, one workbook of  *)
(* OneDrive or the objects of a Salesforce org: the token they begin with, *)
(* the requests they make while the provider throttles, refuses and fails, *)
(* the credential lapses or is withdrawn, and the sheet and the Binding's  *)
(* configuration are edited; what they land, and when they take the        *)
(* Connection out of service.                                              *)
(***************************************************************************)
EXTENDS Tables, Requests

CONSTANTS Setups,     \* [source, backend, provider]
          Contents,   \* what the file each of them reads may hold
          Configs,    \* the configurations each may be given
          Materials,  \* what may be stored as its credential, as the fields
                      \* there are in it and in the Connection's metadata
          Afters,     \* what Retry-After may say
          MaxPages,   \* bound: pages of a query's records
          MaxEdits,   \* bound: edits of the file
          MaxReconfigurations \* bound: edits of Binding.config

\* A backend that mints tokens mints them for one provider.
ASSUME FetchingAssumption ==
    \A s \in Setups :
        /\ s.source \in {"sheets", "workbook", "soql"}
        /\ s.provider \in {"google", "microsoft", "salesforce"}
        /\ s.backend = "google_workspace" => s.provider = "google"
        /\ s.backend = "entra" => s.provider = "microsoft"
        /\ s.backend = "salesforce" => s.provider = "salesforce"

\* Sheets have texts in their cells, and worksheets names of their own.
Grid == Seq(Seq(DOMAIN Identifier \cup Blanks \cup {Null}))
IsWorkbook(sheets) ==
    /\ \A s \in sheets :
          /\ s.grid \in Grid
          /\ \A m \in s.merged :
                {m.top, m.left, m.bottom, m.right} \subseteq Nat \ {0}
    /\ \A s, t \in sheets : s.name = t.name => s = t
ASSUME ContentsAssumption ==
    \A s \in Setups : \A c \in Contents[s] :
        /\ s.source = "sheets" => c \in Grid
        /\ s.source = "workbook" => c = Null \/ IsWorkbook(c)

VARIABLES
    \* the provider
    credential, \* good, or withdrawn, lapsed or missing from the store
    content,    \* what the file holds
    edits,      \* its modification time, or content tag
    \* the Binding
    setup, config, reconfigured, standing,
    stored,     \* the fields of the credential's material
    mark,       \* modification time or content tag in dlt's state, 0 if none
    table,      \* the landing table
    run,        \* the Run that is executing
    \* history
    blame,      \* what was really wrong when the Connection was blocked
    since,      \* how far the latest edit has come: edited, running, landed
    stale       \* the configuration was edited after the mark was recorded

providerVars == <<credential, content, edits>>
bindingVars == <<setup, config, reconfigured, stored>>
landedVars == <<mark, table, stale>>
vars == <<providerVars, bindingVars, landedVars, standing, run, blame, since>>

Idle == [pc |-> "idle"]
Running == run # Idle
Mints == setup.backend \in {"google_workspace", "entra", "salesforce"}
Renews == setup.backend = "google_workspace"

-----------------------------------------------------------------------------
(* Configuration *)

\* sheets.validate_config
SheetsValid(c) ==
    /\ c.header \/ \A k \in c.key : k[1] = "column"
    /\ c.skip_unchanged => c.key # {}
\* excel.validate_config
WorkbookValid(c) == c.header \in Nat /\ c.skip \in Nat
\* salesforce _validate_object, with MIN_BATCH_SIZE and MAX_BATCH_SIZE
ObjectValid(c) == /\ c.initial => c.cursor
                  /\ c.batch \in {0} \cup 200 .. 2000
Valid(c) == CASE setup.source = "sheets" -> SheetsValid(c)
              [] setup.source = "workbook" -> WorkbookValid(c)
              [] OTHER -> ObjectValid(c)

\* The fields of an object are all of them, unless some are named.
Describes(c) == ~ c.fields

FirstStep(c) ==
    CASE setup.source = "sheets" ->
            IF c.skip_unchanged THEN "modified" ELSE "values"
      [] setup.source = "workbook" -> "item"
      [] OTHER -> IF Describes(c) THEN "describe" ELSE "query"

-----------------------------------------------------------------------------
(* What the provider may answer; why is what no client is told *)

Reply(status, reason, after, why) ==
    [status |-> status, reason |-> reason, after |-> after, why |-> why]

Trouble ==
    {Reply(0, "none", 0, "network")}
    \cup {Reply(429, "none", after, "throttled") : after \in Afters}
    \cup CASE setup.provider = "google" ->
                {Reply(403, "quota", 0, "throttled"),
                 Reply(403, "scope", 0, "forbidden"),
                 Reply(500, "none", 0, "outage")}
           [] setup.provider = "microsoft" ->
                {Reply(503, "none", after, "outage") : after \in Afters}
                \cup {Reply(403, "scope", 0, "forbidden"),
                      Reply(404, "none", 0, "gone")}
           [] OTHER ->
                {Reply(403, "REQUEST_LIMIT_EXCEEDED", 0, "throttled"),
                 Reply(503, "REQUEST_LIMIT_EXCEEDED", 0, "throttled"),
                 Reply(500, "none", 0, "outage"),
                 Reply(403, "INSUFFICIENT_ACCESS", 0, "forbidden"),
                 Reply(400, "MALFORMED_QUERY", 0, "mistake")}

Rejection(why) == Reply(401, "INVALID_SESSION_ID", 0, why)

\* A token outlives the grant it was minted from, for a while.
Answers ==
    Trouble
    \cup (IF run.token # "lapsed" /\ credential # "lapsed"
          THEN {Reply(200, "none", 0, "none")} ELSE {})
    \cup (IF run.token = "lapsed" THEN {Rejection("lapsed")} ELSE {})
    \cup (IF credential \in {"withdrawn", "lapsed"}
          THEN {Rejection("dead")} ELSE {})

Refusal(code, expired, reached, why) ==
    [code |-> code, expired |-> expired, reached |-> reached, why |-> why]

\* How a token endpoint refuses: the grant is gone, this host's clock is
\* wrong, the endpoint is busy or is not reached, and then what is in the way
\* may have a certificate of its own that "has expired".
Refusals ==
    {Refusal("none", expired, FALSE,
             IF expired THEN "certificate" ELSE "network") :
        expired \in BOOLEAN}
    \cup {Refusal("temporarily_unavailable", FALSE, TRUE, "outage"),
          Refusal(IF setup.provider = "microsoft" THEN "AADSTS700024"
                  ELSE "invalid_grant", FALSE, TRUE, "clock")}
    \cup IF credential # "withdrawn" THEN {}
         ELSE IF setup.provider = "microsoft"
         THEN {Refusal(code, FALSE, TRUE, "dead") :
                 code \in {"AADSTS7000215", "AADSTS7000222", "AADSTS90002",
                           "invalid_grant", "invalid_client"}}
         ELSE {Refusal("invalid_grant", expired, TRUE, "dead") :
                 expired \in BOOLEAN}

-----------------------------------------------------------------------------
(* A Run ends *)

\* _fail, and before it _block_for_credentials.
Fail(error, why) ==
    /\ run' = Idle
    /\ standing' = IF error \in CredentialErrors THEN "revoked" ELSE standing
    /\ blame' = IF error \in CredentialErrors THEN why ELSE blame
    /\ since' = IF since = "running" THEN "edited" ELSE since
    /\ UNCHANGED <<providerVars, bindingVars, landedVars>>

Go(next) ==
    /\ run' = next
    /\ UNCHANGED <<providerVars, bindingVars, landedVars, standing, blame,
                   since>>

\* The process is killed.  What it left behind is reaped with its lease.
Die == Running /\ Fail("none", "none")

-----------------------------------------------------------------------------
(* Credentials *)

\* What a backend raises without asking anyone; "none" if it raises nothing.
AllauthError ==
    CASE credential \in {"missing", "withdrawn"} -> "CredentialsRevoked"
      [] credential = "lapsed" -> "CredentialsExpired"
      [] OTHER -> "none"
StoredError == IF credential = "missing" THEN "CredentialsRevoked" ELSE "none"
StoreError == IF setup.backend = "allauth" THEN AllauthError ELSE StoredError

\* Which material makes a credential; a Salesforce flow that is not named
\* follows from what there is.
GoogleKey == {"client_email", "private_key", "token_uri"} \subseteq stored
EntraKey == /\ "client_id" \in stored
            /\ {"client_secret", "certificate_data"} \cap stored # {}
Flow == IF "refresh_token" \in stored /\ "jwt_bearer" \notin stored
        THEN "refresh_token" ELSE "jwt_bearer"
AssertionParts == {"client_id", "username", "private_key"}
RefreshParts == {"client_id", "refresh_token"}
SalesforceKey == (IF Flow = "refresh_token" THEN RefreshParts
                  ELSE AssertionParts) \subseteq stored
Usable == CASE setup.backend = "google_workspace" -> GoogleKey
            [] setup.backend = "entra" -> EntraKey
            [] setup.backend = "salesforce" -> SalesforceKey
            [] OTHER -> TRUE

Refused == \E e \in Refusals : Fail(TokenError(setup.provider, e), e.why)

NoCredential ==
    /\ ~ Running /\ standing = "active"
    /\ StoreError # "none"
    /\ Fail(StoreError, "dead")

NoToken ==
    /\ ~ Running /\ standing = "active"
    /\ StoreError = "none" /\ Mints /\ Usable
    /\ Refused

\* Material that is there and makes no credential is a mistake in the
\* configuration; only where there is none at all it is gone.
Unusable ==
    /\ ~ Running /\ standing = "active"
    /\ StoreError = "none" /\ ~ Usable
    /\ Fail("ConfigurationError", "mistake")

Misconfigured ==
    /\ ~ Running /\ standing = "active"
    /\ StoreError = "none" /\ Usable /\ ~ Valid(config)
    /\ Mints => credential = "good"
    /\ Fail("ConfigurationError", "mistake")

Begin ==
    /\ ~ Running /\ standing = "active"
    /\ StoreError = "none" /\ Usable /\ Valid(config)
    /\ Mints => credential = "good"
    /\ run' = [pc |-> FirstStep(config), spent |-> FirstTry,
               token |-> "fresh", config |-> config, mark |-> mark,
               rows |-> {}, pages |-> 0]
    /\ since' = IF since = "edited" THEN "running" ELSE since
    /\ UNCHANGED <<providerVars, bindingVars, landedVars, standing, blame>>

\* The lifetime of the token a Run was given ends; at most once in a Run.
Lapse ==
    /\ Running /\ Mints /\ run.token = "fresh"
    /\ Go([run EXCEPT !.token = "lapsed"])

\* Google's credentials are refreshed as a request is authorized, the others
\* are a token and nothing else.
Requesting == Running /\ run.pc # "landing"
Renewing == Requesting /\ Renews /\ run.token = "lapsed"

Renew ==
    /\ Renewing
    /\ \/ /\ credential # "withdrawn"
          /\ Go([run EXCEPT !.token = "renewed"])
       \/ Refused

-----------------------------------------------------------------------------
(* Requests *)

\* The answers to the request that is due, in three parts: those to try
\* again after, to go on with, and to give up at.
Due == Requesting /\ ~ Renewing

Throttled ==
    /\ Due
    /\ \E a \in Answers :
          /\ Retries(setup.provider, a, run.spent)
          /\ Go([run EXCEPT !.spent = Retried(setup.provider, a, @)])

GiveUp ==
    /\ Due
    /\ \E a \in Answers :
          /\ a.status # 200
          /\ ~ Retries(setup.provider, a, run.spent)
          /\ Fail(RequestError(setup.provider, a), a.why)

Answered == Due /\ \E a \in Answers : a.status = 200
Step(pc) == [run EXCEPT !.pc = pc, !.spent = FirstTry]

\* Content that has not changed is not read again, if it has a key.
Skips(c) == \/ setup.source = "sheets" /\ c.skip_unchanged
            \/ setup.source = "workbook" /\ c.key # {}

\* The modification time is read before the content it is recorded with.
Tag == edits
Unchanged == mark = Tag
ReadTag ==
    /\ Answered
    /\ run.pc \in {"modified", "item"}
    /\ LET after == IF run.pc = "item" THEN "content" ELSE "values"
       IN  Go(CASE ~ Skips(run.config) -> Step(after)
                [] Skips(run.config) /\ Unchanged -> Step("landing")
                [] OTHER -> [Step(after) EXCEPT !.mark = Tag])

Parsed(c) == IF setup.source = "sheets" THEN RowsFromValues(content, c)
             ELSE RowsForWorkbook(content, c)

\* One batchGet for all ranges; or the file's bytes.
ReadContent ==
    /\ Answered
    /\ run.pc \in {"values", "content"}
    /\ LET read == Parsed(run.config)
       IN  IF read.ok THEN Go([Step("landing") EXCEPT !.rows = read.rows])
           ELSE Fail("SourceError", "mistake")

\* An answer that does not have as many ranges as were asked for.
ShortAnswer ==
    /\ Answered
    /\ run.pc = "values"
    /\ Fail("SourceError", "outage")

ReadObjects ==
    /\ Answered
    /\ \/ /\ run.pc = "describe"
          /\ Go(Step("query"))
       \/ /\ run.pc \in {"query", "more"}
          /\ run.pages < MaxPages
          /\ Go([Step("more") EXCEPT !.pages = @ + 1])
       \/ /\ run.pc \in {"query", "more"}
          /\ Go(Step("landing"))

-----------------------------------------------------------------------------
(* The rows are loaded, and dlt's state with them *)

SameKey(a, b, key) ==
    /\ a.sheet = b.sheet
    /\ \A k \in key : /\ k \in DOMAIN a.cells \cap DOMAIN b.cells
                      /\ a.cells[k] = b.cells[k]

\* Of rows that share a merge key any one is kept.
Merged(rows, key) ==
    {kept \cup {r \in table : \A q \in rows : ~ SameKey(r, q, key)} :
        kept \in {p \in SUBSET rows :
                    \A r \in rows : \E q \in p :
                       /\ SameKey(q, r, key)
                       /\ \A o \in p : SameKey(o, r, key) => o = q}}

Replaces(c) == setup.source # "soql" /\ c.key = {}

\* Mutant: the modification time is read when the rows have been loaded.
RecordedLate == IF run.mark = mark THEN mark ELSE Tag

Recorded == run.mark

Land ==
    /\ Running /\ run.pc = "landing"
    /\ table' \in CASE setup.source = "soql" -> {table}
                    [] Replaces(run.config) -> {run.rows}
                    [] OTHER -> Merged(run.rows, run.config.key)
    /\ mark' = Recorded
    /\ stale' = IF Recorded # mark THEN run.config # config ELSE stale
    /\ since' = IF since = "running" THEN "landed" ELSE since
    /\ run' = Idle
    /\ UNCHANGED <<providerVars, bindingVars, standing, blame>>

-----------------------------------------------------------------------------
(* Everyone else *)

Edit ==
    /\ edits <= MaxEdits
    /\ \E c \in Contents[setup] \ {content} : content' = c
    /\ edits' = edits + 1
    /\ since' = "edited"
    /\ UNCHANGED <<credential, bindingVars, landedVars, standing, run, blame>>

Reconfigure ==
    /\ reconfigured < MaxReconfigurations
    /\ \E c \in Configs[setup] \ {config} : config' = c
    /\ reconfigured' = reconfigured + 1
    /\ since' = "edited"
    /\ stale' = TRUE
    /\ UNCHANGED <<providerVars, setup, stored, mark, table, standing, run,
                   blame>>

\* The stored material is rotated, with or without a slip.
Rotate ==
    /\ ~ Running
    /\ \E s \in Materials[setup] \ {stored} : stored' = s
    /\ UNCHANGED <<providerVars, setup, config, reconfigured, landedVars,
                   standing, run, blame, since>>

\* What is stored is read as a Run begins: it is as good as gone before it.
Lose ==
    /\ credential = "good"
    /\ credential' \in {"withdrawn"} \cup (IF Mints THEN {} ELSE {"lapsed"})
                       \cup (IF Running THEN {} ELSE {"missing"})
    /\ UNCHANGED <<content, edits, bindingVars, landedVars, standing, run,
                   blame, since>>

Init ==
    /\ setup \in Setups
    /\ config \in Configs[setup]
    /\ content \in Contents[setup]
    /\ stored \in Materials[setup]
    /\ credential = "good"
    /\ edits = 1
    /\ reconfigured = 0
    /\ standing = "active"
    /\ mark = 0
    /\ table = {}
    /\ run = Idle
    /\ blame = "none"
    /\ since = "edited"
    /\ stale = FALSE

Execute == \/ Renew \/ Throttled \/ GiveUp \/ ReadTag \/ ReadContent
           \/ ReadObjects \/ Land
Next == \/ NoCredential \/ NoToken \/ Unusable \/ Misconfigured \/ Begin
        \/ Lapse \/ Execute \/ ShortAnswer \/ Die
        \/ Edit \/ Reconfigure \/ Rotate \/ Lose

Spec == Init /\ [][Next]_vars
\* One thread executes a Run, and every request of it ends, by a timeout at
\* the latest.
FairSpec == Spec /\ WF_vars(Execute)

-----------------------------------------------------------------------------
(* What the landing table should show, told from the grid *)

Sheets == IF setup.source = "sheets"
          THEN {[name |-> Null, hidden |-> FALSE, grid |-> content]}
          ELSE {s \in content : IF config.sheets = {}
                                THEN ~ s.hidden \/ config.hidden
                                ELSE s.name \in config.sheets}
HeaderRow == IF setup.source = "sheets" THEN (IF config.header THEN 1 ELSE 0)
             ELSE config.header
SkippedRows == IF setup.source = "sheets" THEN 0 ELSE config.skip

\* A merged range is one cell to whoever looks at the sheet.
CellAt(s, n, j) ==
    LET over == IF /\ setup.source = "workbook" /\ config.unmerge
                   /\ j \in DOMAIN s.grid[n]
                THEN {m \in s.merged : n \in m.top .. m.bottom
                                       /\ j \in m.left .. m.right} ELSE {}
    IN  IF over = {} THEN Cell(s.grid[n], j)
        ELSE LET m == CHOOSE m \in over : TRUE
             IN  Cell(s.grid[m.top], m.left)

\* The columns in which the n-th row shows something, and the rows below the
\* header that do, down to the last that something was entered in.
Filled(s, n) == {j \in DOMAIN s.grid[n] : ~ IsBlank(CellAt(s, n, j))}
EnteredBelow(s, n) ==
    \E m \in DOMAIN s.grid :
       m >= n /\ \E j \in DOMAIN s.grid[m] : ~ IsBlank(s.grid[m][j])
Entered(s) == {n \in DOMAIN s.grid : /\ n > HeaderRow + SkippedRows
                                     /\ EnteredBelow(s, n)
                                     /\ Filled(s, n) # {}}

\* The column that a merge key names is the first with a header named so; if
\* the key may be a suffixed name, such as id_2, the one that got that name.
Heading(s) == IF HeaderRow = 0 \/ s.grid = <<>> THEN <<>>
              ELSE [j \in DOMAIN s.grid[HeaderRow] |->
                      CellAt(s, HeaderRow, j)]
Reserved == IF setup.source = "sheets" THEN {RowNumberColumn} ELSE {}
Suffixed(k) == \/ Len(k) = 3 /\ k[1] = "column"
               \/ \E text \in DOMAIN Identifier :
                     Identifier[text] # <<>> /\ Front(k) = Identifier[text]
KeyAt(s, k) ==
    LET heading == Heading(s)
        width == Width(s.grid)
        columns == ColumnNames(heading, width, Reserved)
    IN  IF Suffixed(k) THEN Min({j \in 1 .. width : columns[j] = k})
        ELSE Min({j \in 1 .. width : BaseName(heading, j) = k})
KeyOf(s, n) == [k \in config.key |-> CellAt(s, n, KeyAt(s, k))]
Keyed(s, n) == \A k \in config.key : ~ IsBlank(KeyOf(s, n)[k])

\* A column of the sheet's that is named like one of the file's is lost.
Kept(s, j) == \/ setup.source = "sheets"
              \/ BaseName(Heading(s), j) \notin FileColumns

\* r shows the n-th row of s, if at[j] is the column of the j-th cells.
Shows(r, s, n, at) ==
    /\ r.sheet = s.name
    /\ r.number = n
    /\ \A j \in Filled(s, n) :
          Kept(s, j) => /\ at[j] \in DOMAIN r.cells
                        /\ r.cells[at[j]] = CellAt(s, n, j)

Lands(s, n, at) ==
    \E r \in table : \E m \in Entered(s) :
       /\ Shows(r, s, m, at)
       /\ IF config.key = {} THEN m = n ELSE KeyOf(s, m) = KeyOf(s, n)

Names == UNION {DOMAIN r.cells : r \in table}
Placings(width) == {at \in [1 .. width -> Names \cup {<<>>}] :
                      \A i, j \in 1 .. width :
                         (at[i] = at[j] /\ at[i] # <<>>) => i = j}

-----------------------------------------------------------------------------
(* Properties *)

\* A Connection is taken out of service only for a credential that is dead,
\* never for a throttle, an outage, a missing permission or a bad sheet.  Known
\* mistakes: Entra's and Salesforce's tokens are never renewed, so a Run that
\* outlives its token is taken for a revocation; a host whose clock is wrong is
\* refused as one with a bad key is; and a failure to reach Google's token
\* endpoint that is worded "expired" is taken for the credential's expiry.
BlamedForCause ==
    standing = "revoked" =>
        \/ blame = "dead" /\ credential # "good"
        \/ blame = "lapsed" /\ setup.backend \in {"entra", "salesforce"}
        \/ blame = "clock" /\ Mints
        \/ blame = "certificate" /\ Renews

\* Once a Run that began after the latest edit has succeeded, every row of the
\* sheets the Binding names is landed, each cell in a column of its own: under
\* the one row of its key if it has one; without a key by itself, and nothing
\* else is.  Not so if the configuration was edited and the content was not:
\* what is recorded of the content then speaks for the old configuration.  Nor
\* if the key is one of the file's own columns, whose contents are the file's.
LandsTheSheet ==
    (/\ since = "landed" /\ setup.source # "soql"
     /\ ~ (stale /\ Unchanged /\ Skips(config))
     /\ setup.source = "workbook" => config.key \cap FileColumns = {}) =>
        /\ \A s \in Sheets : \E at \in Placings(Width(s.grid)) :
              \A n \in Entered(s) : Keyed(s, n) => Lands(s, n, at)
        /\ config.key # {} =>
              \A r, q \in table :
                 (SameKey(r, q, config.key)
                  /\ \E s \in Sheets : r.sheet = s.name
                        /\ \E n \in Entered(s) :
                              /\ Keyed(s, n)
                              /\ \A k \in config.key :
                                    r.cells[k] = KeyOf(s, n)[k])
                 => r = q
        /\ config.key = {} =>
              \A r \in table :
                 /\ \E s \in Sheets : /\ r.sheet = s.name
                                      /\ r.number \in Entered(s)
                 /\ \A q \in table :
                       (r.sheet = q.sheet /\ r.number = q.number) => r = q

\* However long the provider throttles or fails, and on whichever level that
\* is retried, a Run ends.
EveryRunEnds == Running ~> ~ Running
==============================================================================
