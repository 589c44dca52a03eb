---------------------------- MODULE FetchingProofs ----------------------------
(***************************************************************************)
(* That a Connection is taken out of service for cause, and that what is   *)
(* landed is what the sheets show: for every setup, sheet, configuration,  *)
(* Retry-After and number of edits.  A table is told to show the rows that *)
(* the content is read as (LandInv), and these to be the cells that are    *)
(* seen (ReadAs), which rests on how columns are named.                    *)
(***************************************************************************)
EXTENDS Fetching, FiniteSetTheorems, SequenceTheorems, WellFoundedInduction,
        TLAPS

\* The refusals of a token endpoint, by what is wrong.
LEMMA RefusalCases ==
    ASSUME NEW e \in Refusals
    PROVE  \/ /\ e.code = "none" /\ ~ e.reached
              /\ e.why = "certificate" /\ e.expired
           \/ /\ e.code = "none" /\ ~ e.reached
              /\ e.why = "network" /\ ~ e.expired
           \/ /\ e.code = "temporarily_unavailable" /\ e.reached
              /\ e.why = "outage" /\ ~ e.expired
           \/ e.why = "clock"
           \/ e.why = "dead" /\ credential = "withdrawn"
<1>1. CASE e = Refusal("none", TRUE, FALSE, "certificate")
  BY <1>1 DEF Refusal
<1>2. CASE e = Refusal("none", FALSE, FALSE, "network")
  BY <1>2 DEF Refusal
<1>3. CASE e = Refusal("temporarily_unavailable", FALSE, TRUE, "outage")
  BY <1>3 DEF Refusal
<1>4. CASE \E code : e = Refusal(code, FALSE, TRUE, "clock")
  BY <1>4 DEF Refusal
<1>5. CASE /\ credential = "withdrawn"
           /\ \E code, x : e = Refusal(code, x, TRUE, "dead")
  BY <1>5 DEF Refusal
<1>6. \/ \E x \in BOOLEAN :
            e = Refusal("none", x, FALSE,
                        IF x THEN "certificate" ELSE "network")
      \/ e = Refusal("temporarily_unavailable", FALSE, TRUE, "outage")
      \/ \E code : e = Refusal(code, FALSE, TRUE, "clock")
      \/ /\ credential = "withdrawn"
         /\ \E code, x : e = Refusal(code, x, TRUE, "dead")
  BY DEF Refusals
<1> QED
  BY <1>1, <1>2, <1>3, <1>4, <1>5, <1>6

\* What is wrong when a backend is refused a token in a way that blocks the
\* Connection: the credential, the clock, or the certificate of Google's
\* endpoint.
LEMMA RefusalBlamed ==
    ASSUME setup \in Setups, Mints, NEW e \in Refusals,
           TokenError(setup.provider, e) \in CredentialErrors
    PROVE  \/ e.why = "dead" /\ credential = "withdrawn"
           \/ e.why = "clock"
           \/ e.why = "certificate" /\ Renews
<1>1. CASE setup.provider = "google"
  <2>1. Renews
    BY <1>1, FetchingAssumption DEF Mints, Renews
  <2> QED
    BY <1>1, <2>1, RefusalCases
       DEF TokenError, GoogleRefreshError, REVOKED_OAUTH_ERRORS,
           CredentialErrors
<1>2. CASE setup.provider = "microsoft"
  BY <1>2, RefusalCases DEF TokenError, EntraError, CredentialErrors
<1>3. CASE setup.provider = "salesforce"
  BY <1>3, RefusalCases DEF TokenError, SalesforceOauthError, CredentialErrors
<1> QED
  BY <1>1, <1>2, <1>3, FetchingAssumption

\* What is wrong when a request is answered in a way that blocks it: the
\* token has lapsed, or the grant it was minted from is gone.
LEMMA AnswerBlamed ==
    ASSUME setup \in Setups, NEW a \in Answers, a.status # 200,
           RequestError(setup.provider, a) \in CredentialErrors
    PROVE  \/ a.why = "lapsed" /\ run.token = "lapsed"
           \/ a.why = "dead" /\ credential \in {"withdrawn", "lapsed"}
<1>1. ASSUME NEW t \in Trouble
      PROVE  RequestError(setup.provider, t) \notin CredentialErrors
  <2>1. t.status # 401 /\ t.reason # "INVALID_SESSION_ID"
    BY DEF Trouble, Reply
  <2>2. CASE setup.provider = "google"
    BY <2>1, <2>2 DEF RequestError, GoogleError, CredentialErrors
  <2>3. CASE setup.provider = "microsoft"
    BY <2>1, <2>3 DEF RequestError, GraphError, CredentialErrors
  <2>4. CASE setup.provider = "salesforce"
    BY <2>1, <2>4
       DEF RequestError, SalesforceError, CredentialError, CredentialErrors
  <2> QED
    BY <2>2, <2>3, <2>4, FetchingAssumption
<1>2. \/ a \in Trouble
      \/ a = Reply(200, "none", 0, "none")
      \/ a = Rejection("lapsed") /\ run.token = "lapsed"
      \/ a = Rejection("dead") /\ credential \in {"withdrawn", "lapsed"}
  BY Zenon DEF Answers
<1>3. CASE a = Reply(200, "none", 0, "none")
  BY <1>3 DEF Reply
<1>4. ASSUME NEW why, a = Rejection(why)
      PROVE  a.why = why
  BY <1>4 DEF Rejection, Reply
<1> QED
  BY <1>1, <1>2, <1>3, <1>4
-----------------------------------------------------------------------------
(* The invariant *)

IsRun(r) == r = [pc |-> r.pc, spent |-> r.spent, token |-> r.token,
                 config |-> r.config, mark |-> r.mark, rows |-> r.rows,
                 pages |-> r.pages]

Credentials == {"good", "withdrawn", "lapsed", "missing"}

\* Only a token that was minted for the Run lapses while it goes on.
Tokened(r) == r = Idle \/ (IsRun(r) /\ (r.token = "lapsed" => Mints))

FetchInv ==
    /\ setup \in Setups
    /\ credential \in Credentials
    /\ Tokened(run)
    /\ BlamedForCause

\* A Run that ends for an error that is no credential's changes nobody's
\* standing; one that ends for a credential's error says why.
LEMMA FailBlames ==
    ASSUME FetchInv, NEW error, NEW why, Fail(error, why),
           error \in CredentialErrors =>
              \/ why = "dead" /\ credential # "good"
              \/ why = "lapsed" /\ setup.backend \in {"entra", "salesforce"}
              \/ why = "clock" /\ Mints
              \/ why = "certificate" /\ Renews
    PROVE  FetchInv'
<1>1. UNCHANGED <<setup, credential>> /\ run' = Idle
  BY DEF Fail, bindingVars, providerVars
<1>2. CASE error \in CredentialErrors
  BY <1>1, <1>2 DEF FetchInv, Fail, BlamedForCause, Tokened, Mints, Renews
<1>3. CASE error \notin CredentialErrors
  BY <1>1, <1>3 DEF FetchInv, Fail, BlamedForCause, Tokened, Mints, Renews
<1> QED
  BY <1>2, <1>3

LEMMA RefusedBlames ==
    ASSUME FetchInv, Mints, Refused
    PROVE  FetchInv'
<1>1. PICK e \in Refusals : Fail(TokenError(setup.provider, e), e.why)
  BY DEF Refused
<1>2. TokenError(setup.provider, e) \in CredentialErrors =>
          \/ e.why = "dead" /\ credential = "withdrawn"
          \/ e.why = "clock"
          \/ e.why = "certificate" /\ Renews
  BY RefusalBlamed DEF FetchInv
<1> QED
  BY <1>1, <1>2, FailBlames

\* Steps that end no Run for an error keep the invariant when they keep what
\* the Run knows of its token.
LEMMA Keeps ==
    ASSUME FetchInv, UNCHANGED <<setup, standing, blame>>,
           credential' \in Credentials,
           credential # "good" => credential' # "good",
           Tokened(run')
    PROVE  FetchInv'
BY DEF FetchInv, BlamedForCause, Tokened, Mints, Renews

\* A Run that goes on with the same token.
LEMMA GoesOn ==
    ASSUME FetchInv, NEW r, Go(r), IsRun(r),
           r.token = "lapsed" => Mints
    PROVE  FetchInv'
<1>1. UNCHANGED <<setup, credential, standing, blame>> /\ run' = r
  BY DEF Go, providerVars, bindingVars
<1>2. Tokened(run')
  BY <1>1 DEF Tokened
<1> QED
  BY <1>1, <1>2, Keeps DEF FetchInv

\* What a step of a Run changes, but for its token.
At(r, pc) == [r EXCEPT !.pc = pc, !.spent = FirstTry]
WithPc(r, x) == [r EXCEPT !.pc = x]
WithSpent(r, x) == [r EXCEPT !.spent = x]
WithMark(r, x) == [r EXCEPT !.mark = x]
WithRows(r, x) == [r EXCEPT !.rows = x]
WithPages(r, x) == [r EXCEPT !.pages = x]
WithToken(r, x) == [r EXCEPT !.token = x]

SameToken(s, r) == IsRun(s) /\ s.token = r.token

LEMMA FieldsKeep ==
    ASSUME NEW r, IsRun(r), NEW x
    PROVE  /\ SameToken(WithPc(r, x), r)
           /\ SameToken(WithSpent(r, x), r)
           /\ SameToken(WithMark(r, x), r)
           /\ SameToken(WithRows(r, x), r)
           /\ SameToken(WithPages(r, x), r)
<1>1. SameToken(WithPc(r, x), r)
  BY DEF IsRun, SameToken, WithPc
<1>2. SameToken(WithSpent(r, x), r)
  BY DEF IsRun, SameToken, WithSpent
<1>3. SameToken(WithMark(r, x), r)
  BY DEF IsRun, SameToken, WithMark
<1>4. SameToken(WithRows(r, x), r)
  BY DEF IsRun, SameToken, WithRows
<1>5. SameToken(WithPages(r, x), r)
  BY DEF IsRun, SameToken, WithPages
<1> QED
  BY <1>1, <1>2, <1>3, <1>4, <1>5

LEMMA AtKeeps ==
    ASSUME NEW r, IsRun(r), NEW pc
    PROVE  SameToken(At(r, pc), r)
<1>1. At(r, pc) = WithSpent(WithPc(r, pc), FirstTry)
  BY DEF At, WithSpent, WithPc
<1> QED
  BY <1>1, FieldsKeep DEF SameToken

LEMMA TokenSet ==
    ASSUME NEW r, IsRun(r), NEW x
    PROVE  IsRun(WithToken(r, x)) /\ WithToken(r, x).token = x
BY DEF IsRun, WithToken

LEMMA FetchStep == FetchInv /\ [Next]_vars => FetchInv'
<1> SUFFICES ASSUME FetchInv, [Next]_vars PROVE FetchInv'
  OBVIOUS
<1>0. Running => IsRun(run) /\ (run.token = "lapsed" => Mints)
  BY DEF FetchInv, Tokened, Running
<1>1. CASE NoCredential
  <2>1. Fail(StoreError, "dead") /\ StoreError # "none"
    BY <1>1 DEF NoCredential
  <2>2. credential # "good"
    BY <2>1 DEF StoreError, AllauthError, StoredError
  <2> QED
    BY <2>1, <2>2, FailBlames
<1>2. CASE NoToken
  BY <1>2, RefusedBlames DEF NoToken
<1>3. CASE Unusable \/ Misconfigured
  <2>1. Fail("ConfigurationError", "mistake")
    BY <1>3 DEF Unusable, Misconfigured
  <2> QED
    BY <2>1, FailBlames DEF CredentialErrors
<1>4. CASE Begin
  <2>1. UNCHANGED <<setup, credential, standing, blame>>
    BY <1>4 DEF Begin, providerVars, bindingVars
  <2>2. IsRun(run') /\ run'.token = "fresh"
    BY <1>4 DEF Begin, IsRun
  <2> QED
    BY <2>1, <2>2, Keeps DEF Tokened, FetchInv
<1>5. CASE Lapse
  <2>1. Go(WithToken(run, "lapsed")) /\ IsRun(run) /\ Mints
    BY <1>0, <1>5 DEF Lapse, WithToken
  <2>2. IsRun(WithToken(run, "lapsed"))
    BY <2>1, TokenSet
  <2> QED
    BY <2>1, <2>2, GoesOn
<1>6. CASE Renew
  <2>1. Renewing /\ Mints /\ IsRun(run)
    BY <1>0, <1>6 DEF Renew, Renewing, Requesting, Renews, Mints
  <2>2. CASE Go(WithToken(run, "renewed"))
    <3>1. /\ IsRun(WithToken(run, "renewed"))
          /\ WithToken(run, "renewed").token = "renewed"
      BY <2>1, TokenSet
    <3> QED
      BY <2>2, <3>1, GoesOn
  <2>3. CASE Refused
    BY <2>1, <2>3, RefusedBlames
  <2> QED
    BY <1>6, <2>2, <2>3 DEF Renew, WithToken
<1>7. CASE Throttled
  <2>1. IsRun(run) /\ (run.token = "lapsed" => Mints)
    BY <1>0, <1>7 DEF Throttled, Due, Requesting
  <2>2. PICK x : Go(WithSpent(run, x))
    BY <1>7 DEF Throttled, WithSpent
  <2> QED
    BY <2>1, <2>2, FieldsKeep, GoesOn DEF SameToken
<1>8. CASE GiveUp
  <2>1. PICK a \in Answers : /\ a.status # 200
                             /\ Fail(RequestError(setup.provider, a), a.why)
    BY <1>8 DEF GiveUp
  <2>2. RequestError(setup.provider, a) \in CredentialErrors =>
            \/ a.why = "lapsed" /\ run.token = "lapsed"
            \/ a.why = "dead" /\ credential \in {"withdrawn", "lapsed"}
    BY <2>1, AnswerBlamed DEF FetchInv
  <2>3. run.token = "lapsed" => setup.backend \in {"entra", "salesforce"}
    BY <1>0, <1>8 DEF GiveUp, Due, Requesting, Renewing, Mints, Renews
  <2> QED
    BY <2>1, <2>2, <2>3, FailBlames
<1>9. CASE ReadTag \/ ReadContent \/ ReadObjects
  <2>1. IsRun(run) /\ (run.token = "lapsed" => Mints)
    BY <1>0, <1>9 DEF ReadTag, ReadContent, ReadObjects, Answered, Due,
                      Requesting
  <2>2. \A pc : SameToken(Step(pc), run)
    <3>1. \A pc : Step(pc) = At(run, pc)
      BY DEF Step, At
    <3> QED
      BY <2>1, <3>1, AtKeeps
  <2>s. ASSUME NEW r, Go(r), SameToken(r, run)
        PROVE  FetchInv'
    BY <2>1, <2>s, GoesOn DEF SameToken
  <2>f. \A pc, x : /\ SameToken(WithMark(Step(pc), x), run)
                   /\ SameToken(WithRows(Step(pc), x), run)
                   /\ SameToken(WithPages(Step(pc), x), run)
    BY <2>2, FieldsKeep DEF SameToken
  <2>3. CASE ReadTag
    <3>1. PICK pc, x : Go(Step(pc)) \/ Go(WithMark(Step(pc), x))
      BY <2>3 DEF ReadTag, WithMark
    <3> QED
      BY <2>2, <2>s, <2>f, <3>1
  <2>4. CASE ReadContent
    <3>1. \/ \E pc, x : Go(WithRows(Step(pc), x))
          \/ Fail("SourceError", "mistake")
      BY <2>4 DEF ReadContent, WithRows
    <3>2. CASE Fail("SourceError", "mistake")
      BY <3>2, FailBlames DEF CredentialErrors
    <3>3. ASSUME NEW pc, NEW x, Go(WithRows(Step(pc), x))
          PROVE  FetchInv'
      BY <2>s, <2>f, <3>3
    <3> QED
      BY <3>1, <3>2, <3>3
  <2>5. CASE ReadObjects
    <3>1. PICK pc, x : Go(Step(pc)) \/ Go(WithPages(Step(pc), x))
      BY <2>5 DEF ReadObjects, WithPages
    <3> QED
      BY <2>2, <2>s, <2>f, <3>1
  <2> QED
    BY <1>9, <2>3, <2>4, <2>5
<1>10. CASE ShortAnswer
  <2>1. Fail("SourceError", "outage")
    BY <1>10 DEF ShortAnswer
  <2> QED
    BY <2>1, FailBlames DEF CredentialErrors
<1>11. CASE Die
  <2>1. Fail("none", "none")
    BY <1>11 DEF Die
  <2> QED
    BY <2>1, FailBlames DEF CredentialErrors
<1>12. CASE Land
  <2>1. UNCHANGED <<setup, credential, standing, blame>> /\ run' = Idle
    BY <1>12 DEF Land, providerVars, bindingVars
  <2> QED
    BY <2>1, Keeps DEF Tokened, FetchInv
<1>13. CASE Edit \/ Reconfigure \/ Rotate
  <2>1. UNCHANGED <<setup, credential, standing, blame, run>>
    BY <1>13 DEF Edit, Reconfigure, Rotate, providerVars, bindingVars
  <2> QED
    BY <2>1, Keeps DEF FetchInv
<1>14. CASE Lose
  <2>1. UNCHANGED <<setup, standing, blame, run>> /\ credential = "good"
    BY <1>14 DEF Lose, bindingVars
  <2>2. credential' \in Credentials
    BY <1>14 DEF Lose, Credentials
  <2> QED
    BY <2>1, <2>2, Keeps DEF FetchInv
<1>15. CASE UNCHANGED vars
  <2>1. UNCHANGED <<setup, credential, standing, blame, run>>
    BY <1>15 DEF vars, providerVars, bindingVars
  <2> QED
    BY <2>1, Keeps DEF FetchInv
<1> QED
  BY <1>1, <1>2, <1>3, <1>4, <1>5, <1>6, <1>7, <1>8, <1>9, <1>10, <1>11,
     <1>12, <1>13, <1>14, <1>15 DEF Next, Execute
-----------------------------------------------------------------------------
(* Theorem *)

\* A Connection is taken out of service for a dead credential and for three
\* mistakes, and for nothing else a provider or a sheet can do.
THEOREM OnlyBlamedForCause == Spec => []BlamedForCause
<1>1. Init => FetchInv
  BY DEF Init, FetchInv, Credentials, Tokened, BlamedForCause
<1>2. FetchInv => BlamedForCause
  BY DEF FetchInv
<1> QED
  BY <1>1, <1>2, FetchStep, PTL DEF Spec
-----------------------------------------------------------------------------
(* What is landed *)

\* The table shows rows: it is these, or holds for each the one row of its key.
Reflects(rows, key) ==
    IF key = {} THEN table = rows
    ELSE \A r \in rows :
            \E q \in rows \cap table :
               /\ SameKey(q, r, key)
               /\ \A o \in table : SameKey(o, r, key) => o = q

TableShows == /\ Valid(config)
              /\ Parsed(config).ok
              /\ Reflects(Parsed(config).rows, config.key)

\* No edit since the Run that lands, or has landed, the latest one.
Settled == since \in {"running", "landed"}

TagRead(r) == IF Skips(r.config) THEN /\ r.mark # mark
                                      /\ Settled => r.mark = edits
              ELSE r.mark = mark
Skipping(r) == /\ Skips(r.config) /\ r.rows = {} /\ r.mark = mark
               /\ Settled => mark = edits
Holding(r) ==
    /\ TagRead(r)
    /\ (Settled \/ (Skips(r.config) /\ r.mark = edits)) =>
          Parsed(r.config).ok /\ r.rows = Parsed(r.config).rows

RunLands(r) ==
    /\ Valid(r.config)
    /\ r.mark \in 0 .. edits
    /\ r.config = config \/ stale
    /\ Settled => r.config = config
    /\ \/ /\ r.pc \in {"modified", "item"}
          /\ r.mark = mark /\ r.rows = {}
       \/ /\ r.pc \in {"values", "content"}
          /\ TagRead(r)
       \/ /\ r.pc = "landing"
          /\ Skipping(r) \/ Holding(r)

LandInv ==
    setup.source # "soql" =>
        /\ edits \in Nat \ {0} /\ mark \in 0 .. edits
        /\ since \in {"edited", "running", "landed"}
        /\ since = "running" => Running
        /\ Running => RunLands(run)
        /\ (mark = edits /\ ~ stale /\ Skips(config)) => TableShows
        /\ (since = "landed" /\ ~ (stale /\ mark = edits /\ Skips(config))) =>
              TableShows

LEMMA ShowsKept ==
    ASSUME UNCHANGED <<setup, content, config, table>>
    PROVE  TableShows' = TableShows
<1>1. Valid(config)' = Valid(config)
  BY DEF Valid, SheetsValid, WorkbookValid, ObjectValid
<1>2. Parsed(config)' = Parsed(config)
  BY DEF Parsed
<1> QED
  BY <1>1, <1>2 DEF TableShows, Reflects

LEMMA SkipsKept ==
    ASSUME UNCHANGED setup, NEW c
    PROVE  Skips(c)' = Skips(c) /\ Valid(c)' = Valid(c)
BY DEF Skips, Valid

LEMMA ParsedKept ==
    ASSUME UNCHANGED <<setup, content>>, NEW c
    PROVE  Parsed(c)' = Parsed(c)
BY DEF Parsed

\* A Run that ends for an error lands nothing.
LEMMA FailLands ==
    ASSUME LandInv, NEW error, NEW why, Fail(error, why)
    PROVE  LandInv'
<1>1. /\ UNCHANGED <<setup, content, config, table, edits, mark, stale>>
      /\ run' = Idle
      /\ since' = IF since = "running" THEN "edited" ELSE since
  BY DEF Fail, providerVars, bindingVars, landedVars
<1>2. TableShows' = TableShows /\ Skips(config)' = Skips(config)
  BY <1>1, ShowsKept DEF Skips
<1> HIDE DEF TableShows, Skips
<1> QED
  BY <1>1, <1>2 DEF LandInv, Running

\* A step that changes the Run, and nothing that it is about.
LEMMA RunGoes ==
    ASSUME LandInv, NEW r, run' = r,
           UNCHANGED <<setup, content, config, table, edits, mark, stale,
                       since>>,
           setup.source # "soql" =>
              RunLands(r) \/ (r = Idle /\ since # "running")
    PROVE  LandInv'
<1>2. TableShows' = TableShows /\ Skips(config)' = Skips(config)
  BY ShowsKept DEF Skips
<1>3. ASSUME setup.source # "soql", RunLands(r)
      PROVE  RunLands(r)'
  <2>1. /\ Skips(r.config)' = Skips(r.config)
        /\ Valid(r.config)' = Valid(r.config)
        /\ Parsed(r.config)' = Parsed(r.config)
    BY SkipsKept, ParsedKept
  <2> QED
    BY <1>3, <2>1 DEF RunLands, Settled, TagRead, Skipping, Holding
<1>4. RunLands(r) => r # Idle
  BY DEF RunLands, Idle
<1>5. setup.source # "soql" /\ r # Idle => RunLands(run)'
  BY <1>3
<1> QED
  BY <1>2, <1>4, <1>5 DEF LandInv, Running

LEMMA GoLands ==
    ASSUME LandInv, NEW r, Go(r), setup.source # "soql" => RunLands(r)
    PROVE  LandInv'
<1>1. /\ UNCHANGED <<setup, content, config, table, edits, mark, stale, since>>
      /\ run' = r
  BY DEF Go, providerVars, bindingVars, landedVars
<1> QED
  BY <1>1, RunGoes

LEMMA NothingLands ==
    ASSUME LandInv,
           UNCHANGED <<setup, content, config, table, edits, mark, stale,
                       since, run>>
    PROVE  LandInv'
<1>1. setup.source # "soql" =>
         RunLands(run) \/ (run = Idle /\ since # "running")
  BY DEF LandInv, Running
<1> QED
  BY <1>1, RunGoes

\* What a Run lands does not depend on its token and its attempts.
LEMMA SameLands ==
    ASSUME NEW r, NEW s, RunLands(r),
           s.pc = r.pc, s.config = r.config, s.mark = r.mark, s.rows = r.rows
    PROVE  RunLands(s)
BY DEF RunLands, TagRead, Skipping, Holding

LEMMA TriesOn ==
    ASSUME NEW r, IsRun(r), RunLands(r), NEW x
    PROVE  RunLands(WithToken(r, x)) /\ RunLands(WithSpent(r, x))
<1>1. /\ WithToken(r, x).pc = r.pc /\ WithToken(r, x).config = r.config
      /\ WithToken(r, x).mark = r.mark /\ WithToken(r, x).rows = r.rows
  BY DEF IsRun, WithToken
<1>2. /\ WithSpent(r, x).pc = r.pc /\ WithSpent(r, x).config = r.config
      /\ WithSpent(r, x).mark = r.mark /\ WithSpent(r, x).rows = r.rows
  BY DEF IsRun, WithSpent
<1> QED
  BY <1>1, <1>2, SameLands

\* A Run begins with what is recorded, under the present configuration.
LEMMA BeginLands ==
    ASSUME setup \in Setups, LandInv, Begin, setup.source # "soql"
    PROVE  LandInv'
<1>1. /\ UNCHANGED <<setup, content, config, table, edits, mark, stale>>
      /\ since' = IF since = "edited" THEN "running" ELSE since
      /\ Valid(config)
  BY DEF Begin, providerVars, bindingVars, landedVars
<1>2. /\ run'.pc = FirstStep(config)
      /\ run'.config = config /\ run'.mark = mark /\ run'.rows = {}
  BY DEF Begin
<1>3. TableShows' = TableShows /\ Skips(config)' = Skips(config)
  BY <1>1, ShowsKept DEF Skips
<1>4. \/ FirstStep(config) \in {"modified", "item"}
      \/ FirstStep(config) = "values" /\ ~ Skips(config)
  <2>1. CASE setup.source = "sheets"
    BY <2>1 DEF FirstStep, Skips
  <2>2. CASE setup.source = "workbook"
    BY <2>2 DEF FirstStep
  <2>3. CASE setup.source \notin {"sheets", "workbook"}
    BY <2>3, FetchingAssumption
  <2> QED
    BY <2>1, <2>2, <2>3
<1>5. Valid(config)'
  BY <1>1, SkipsKept
<1>6. mark \in 0 .. edits
  BY DEF LandInv
<1>7. RunLands(run)'
  <2> HIDE DEF TableShows, Skips
  <2>1. \/ FirstStep(config) \in {"modified", "item"}
        \/ FirstStep(config) = "values" /\ TagRead(run)'
    BY <1>1, <1>2, <1>3, <1>4 DEF TagRead
  <2> QED
    BY <1>1, <1>2, <1>5, <1>6, <2>1 DEF RunLands
<1>8. Running'
  BY <1>7 DEF RunLands, Running, Idle
<1> QED
  BY <1>1, <1>3, <1>7, <1>8 DEF LandInv

SameWork(s, r) == s.config = r.config /\ s.mark = r.mark /\ s.rows = r.rows

LEMMA StepWork ==
    ASSUME NEW r, IsRun(r), NEW pc, NEW x
    PROVE  /\ At(r, pc).pc = pc /\ SameWork(At(r, pc), r)
           /\ WithMark(At(r, pc), x).pc = pc
           /\ WithMark(At(r, pc), x).config = r.config
           /\ WithMark(At(r, pc), x).mark = x
           /\ WithMark(At(r, pc), x).rows = r.rows
<1>1. At(r, pc).pc = pc /\ SameWork(At(r, pc), r)
  BY DEF IsRun, At, SameWork
<1>2. IsRun(At(r, pc))
  BY AtKeeps DEF SameToken
<1>3. ASSUME NEW s, IsRun(s)
      PROVE  /\ WithMark(s, x).pc = s.pc /\ WithMark(s, x).config = s.config
             /\ WithMark(s, x).mark = x /\ WithMark(s, x).rows = s.rows
  BY <1>3 DEF IsRun, WithMark
<1> QED
  BY <1>1, <1>2, <1>3 DEF SameWork

\* The tag is read: the Run skips the content, or reads it after the tag.
LEMMA TagLands ==
    ASSUME LandInv, Running, IsRun(run), ReadTag
    PROVE  LandInv'
<1>1. SUFFICES ASSUME setup.source # "soql"
               PROVE  LandInv'
  BY DEF LandInv, ReadTag, Go, bindingVars
<1>2. RunLands(run) /\ run.pc \in {"modified", "item"}
  BY <1>1 DEF LandInv, ReadTag
<1>3. run.mark = mark /\ run.rows = {}
  BY <1>2 DEF RunLands
<1> DEFINE after == IF run.pc = "item" THEN "content" ELSE "values"
<1>4. \A pc, x : /\ At(run, pc).pc = pc /\ SameWork(At(run, pc), run)
                 /\ WithMark(At(run, pc), x).pc = pc
                 /\ WithMark(At(run, pc), x).config = run.config
                 /\ WithMark(At(run, pc), x).mark = x
                 /\ WithMark(At(run, pc), x).rows = run.rows
  BY StepWork
<1>5. \/ ~ Skips(run.config) /\ Go(At(run, after))
      \/ Skips(run.config) /\ mark = edits /\ Go(At(run, "landing"))
      \/ /\ Skips(run.config) /\ mark # edits
         /\ Go(WithMark(At(run, after), edits))
  BY DEF ReadTag, Step, At, WithMark, Unchanged, Tag
<1>6. after \in {"values", "content"}
  OBVIOUS
<1>7. /\ Valid(run.config)
      /\ run.mark \in 0 .. edits
      /\ run.config = config \/ stale
      /\ Settled => run.config = config
  BY <1>2 DEF RunLands
<1>8. edits \in 0 .. edits
  BY <1>1 DEF LandInv
<1> HIDE DEF after
<1>9. CASE ~ Skips(run.config) /\ Go(At(run, after))
  <2>1. RunLands(At(run, after))
    BY <1>3, <1>4, <1>6, <1>7, <1>9 DEF RunLands, TagRead, SameWork
  <2> QED
    BY <1>9, <2>1, GoLands
<1>10. CASE Skips(run.config) /\ mark = edits /\ Go(At(run, "landing"))
  <2>1. RunLands(At(run, "landing"))
    BY <1>3, <1>4, <1>7, <1>10
       DEF RunLands, Skipping, SameWork
  <2> QED
    BY <1>10, <2>1, GoLands
<1>11. CASE /\ Skips(run.config) /\ mark # edits
            /\ Go(WithMark(At(run, after), edits))
  <2>1. RunLands(WithMark(At(run, after), edits))
    BY <1>3, <1>4, <1>6, <1>7, <1>8, <1>11 DEF RunLands, TagRead
  <2> QED
    BY <1>11, <2>1, GoLands
<1> QED
  BY <1>5, <1>9, <1>10, <1>11

\* The content is read: the Run holds what is in it.
LEMMA ContentLands ==
    ASSUME LandInv, Running, IsRun(run), ReadContent
    PROVE  LandInv'
<1>1. CASE Fail("SourceError", "mistake")
  BY <1>1, FailLands
<1>2. CASE ~ Fail("SourceError", "mistake")
  <2> DEFINE read == Parsed(run.config)
             r == WithRows(At(run, "landing"), read.rows)
  <2>1. read.ok /\ Go(r) /\ run.pc \in {"values", "content"}
    BY <1>2 DEF ReadContent, Step, At, WithRows
  <2>2. /\ r.pc = "landing" /\ r.config = run.config
        /\ r.mark = run.mark /\ r.rows = read.rows
    BY DEF IsRun, At, WithRows
  <2>3. ASSUME setup.source # "soql" PROVE RunLands(run)
    BY <2>3 DEF LandInv
  <2> HIDE DEF r
  <2>4. ASSUME setup.source # "soql" PROVE RunLands(r)
    BY <2>1, <2>2, <2>3, <2>4 DEF RunLands, Holding, TagRead
  <2> QED
    BY <2>1, <2>4, GoLands
<1> QED
  BY <1>1, <1>2

\* Whatever the rows, the table shows them when they have been merged.
LEMMA MergedShow ==
    ASSUME NEW rows, NEW key, key # {}, table' \in Merged(rows, key)
    PROVE  Reflects(rows, key)'
<1>1. PICK kept \in SUBSET rows :
         /\ \A r \in rows : \E q \in kept :
               /\ SameKey(q, r, key)
               /\ \A o \in kept : SameKey(o, r, key) => o = q
         /\ table' = kept \cup {r \in table :
                                  \A q \in rows : ~ SameKey(r, q, key)}
  BY DEF Merged
<1>2. ASSUME NEW r \in rows
      PROVE  \E q \in rows \cap table' :
                /\ SameKey(q, r, key)
                /\ \A o \in table' : SameKey(o, r, key) => o = q
  <2>1. PICK q \in kept : /\ SameKey(q, r, key)
                          /\ \A o \in kept : SameKey(o, r, key) => o = q
    BY <1>1
  <2>2. \A o \in table' : SameKey(o, r, key) => o = q
    BY <1>1, <2>1
  <2> QED
    BY <1>1, <2>1, <2>2
<1> QED
  BY <1>2 DEF Reflects

LEMMA NothingMerged ==
    ASSUME NEW key, NEW t \in Merged({}, key)
    PROVE  t = table
BY DEF Merged

\* Only a key lets a Run skip content that has not changed.
LEMMA SkipsKeyed ==
    ASSUME setup \in Setups, setup.source # "soql", NEW c, Valid(c), Skips(c)
    PROVE  c.key # {}
<1>1. setup.source \in {"sheets", "workbook"}
  BY FetchingAssumption
<1>2. CASE setup.source = "sheets"
  <2>1. SheetsValid(c)
    BY <1>2 DEF Valid
  <2> QED
    BY <1>2, <2>1 DEF Skips, SheetsValid
<1>3. CASE setup.source = "workbook"
  BY <1>3 DEF Skips
<1> QED
  BY <1>1, <1>2, <1>3

\* A Run that has skipped the content leaves the table as it is.
LEMMA SkippedLands ==
    ASSUME setup \in Setups, setup.source # "soql", LandInv, Land,
           Skipping(run)
    PROVE  LandInv'
<1>1. Running /\ RunLands(run)
  BY DEF LandInv, Land
<1>2. run.config.key # {}
  BY <1>1, SkipsKeyed DEF RunLands, Skipping
<1>3. /\ UNCHANGED <<setup, config, content, edits, mark, stale>>
      /\ since' = IF since = "running" THEN "landed" ELSE since
      /\ run' = Idle
  BY DEF Land, Recorded, Skipping, providerVars, bindingVars
<1>4. table' = table
  <2>1. table' \in Merged(run.rows, run.config.key)
    BY <1>2 DEF Land, Replaces
  <2> QED
    BY <2>1, NothingMerged DEF Skipping
<1>5. TableShows' = TableShows /\ Skips(config)' = Skips(config)
  BY <1>3, <1>4, ShowsKept DEF Skips
<1>6. Settled => run.config = config /\ mark = edits
  BY <1>1 DEF RunLands, Skipping
<1>7. Skips(run.config)
  BY DEF Skipping
<1> HIDE DEF TableShows, Skips
<1>8. (mark = edits /\ ~ stale /\ Skips(config)) => TableShows
  BY DEF LandInv
<1>9. since = "running" =>
         (~ (stale /\ mark = edits /\ Skips(config)) => TableShows)
  BY <1>6, <1>7, <1>8 DEF Settled
<1> QED
  BY <1>3, <1>5, <1>8, <1>9 DEF LandInv, Running

\* A Run that holds what it has read makes the table show it.
LEMMA HeldLands ==
    ASSUME setup \in Setups, setup.source # "soql", LandInv, Land,
           Holding(run)
    PROVE  LandInv'
<1>1. Running /\ RunLands(run)
  BY DEF LandInv, Land
<1>3. /\ UNCHANGED <<setup, config, content, edits>>
      /\ mark' = run.mark
      /\ stale' = IF run.mark # mark THEN run.config # config ELSE stale
      /\ since' = IF since = "running" THEN "landed" ELSE since
      /\ run' = Idle
  BY DEF Land, Recorded, providerVars, bindingVars
<1> PICK rows, key : rows = run.rows /\ key = run.config.key
  OBVIOUS
<1>4. Reflects(rows, key)'
  <2>1. CASE key = {}
    <3>1. table' = rows
      BY <2>1 DEF Land, Replaces
    <3> QED
      BY <2>1, <3>1 DEF Reflects
  <2>2. CASE key # {}
    <3>1. table' \in Merged(rows, key)
      BY <2>2 DEF Land, Replaces
    <3> QED
      BY <2>2, <3>1, MergedShow
  <2> QED
    BY <2>1, <2>2
<1>5. Parsed(config)' = Parsed(config) /\ Skips(config)' = Skips(config)
  BY <1>3, ParsedKept DEF Skips
<1>6. ASSUME run.config = config,
             Settled \/ (Skips(run.config) /\ run.mark = edits)
      PROVE  TableShows'
  <2>1. Parsed(config).ok /\ rows = Parsed(config).rows /\ key = config.key
    BY <1>6 DEF Holding
  <2>2. /\ Parsed(config)'.ok /\ rows = Parsed(config)'.rows
        /\ key = config'.key
    BY <1>3, <1>5, <2>1
  <2>3. Valid(config)'
    <3>1. Valid(config)
      BY <1>1, <1>6 DEF RunLands
    <3> QED
      BY <1>3, <3>1, SkipsKept
  <2> QED
    BY <1>4, <2>2, <2>3 DEF TableShows, Reflects
<1> HIDE DEF TableShows, Skips
<1>7. TagRead(run)
  BY DEF Holding
<1>8. /\ run.mark \in 0 .. edits
      /\ run.config = config \/ stale
      /\ Settled => run.config = config
  BY <1>1 DEF RunLands
<1>9. (mark' = edits /\ ~ stale' /\ Skips(config)) => TableShows'
  BY <1>3, <1>6, <1>7, <1>8 DEF TagRead
<1>10. since' = "landed" => TableShows'
  BY <1>3, <1>6, <1>8 DEF Settled
<1>11. since' \in {"edited", "running", "landed"} /\ since' # "running"
  BY <1>3 DEF LandInv
<1> QED
  BY <1>3, <1>5, <1>8, <1>9, <1>10, <1>11 DEF LandInv, Running

LEMMA LandLands ==
    ASSUME setup \in Setups, LandInv, Land
    PROVE  LandInv'
<1>1. CASE setup.source = "soql"
  BY <1>1 DEF LandInv, Land, bindingVars
<1>2. CASE setup.source # "soql"
  <2>1. Skipping(run) \/ Holding(run)
    BY <1>2 DEF LandInv, Land, RunLands
  <2> QED
    BY <1>2, <2>1, SkippedLands, HeldLands
<1> QED
  BY <1>1, <1>2

\* A Run that is under way does not know of an edit.
LEMMA EditLands ==
    ASSUME LandInv, Edit
    PROVE  LandInv'
<1>1. /\ UNCHANGED <<setup, config, table, mark, stale, run>>
      /\ edits' = edits + 1
      /\ since' = "edited"
  BY DEF Edit, bindingVars, landedVars
<1>2. ASSUME setup.source # "soql", Running
      PROVE  RunLands(run)'
  <2>1. RunLands(run)
    BY <1>2 DEF LandInv
  <2>2. /\ Skips(run.config)' = Skips(run.config)
        /\ Valid(run.config)' = Valid(run.config)
    BY <1>1, SkipsKept
  <2>3. edits \in Nat /\ run.mark \in 0 .. edits
    BY <1>2, <2>1 DEF LandInv, RunLands
  <2>4. run.mark \in 0 .. edits' /\ run.mark # edits'
    BY <1>1, <2>3
  <2>5. ~ Settled'
    BY <1>1 DEF Settled
  <2>6. TagRead(run) => TagRead(run)'
    BY <1>1, <2>2, <2>5 DEF TagRead
  <2>7. Skipping(run) => Skipping(run)'
    BY <1>1, <2>2, <2>5 DEF Skipping
  <2>8. Holding(run) => Holding(run)'
    BY <1>1, <2>4, <2>5, <2>6 DEF Holding
  <2> QED
    BY <1>1, <2>1, <2>2, <2>4, <2>5, <2>6, <2>7, <2>8 DEF RunLands
<1>3. ASSUME setup.source # "soql"
      PROVE  /\ edits' \in Nat \ {0} /\ mark \in 0 .. edits'
             /\ mark # edits'
  BY <1>1, <1>3 DEF LandInv
<1> QED
  BY <1>1, <1>2, <1>3 DEF LandInv, Running

\* Nor of the configuration's.
LEMMA ReconfigureLands ==
    ASSUME LandInv, Reconfigure
    PROVE  LandInv'
<1>1. /\ UNCHANGED <<setup, content, edits, table, mark, run>>
      /\ since' = "edited" /\ stale' = TRUE
  BY DEF Reconfigure, providerVars
<1>2. ASSUME setup.source # "soql", Running
      PROVE  RunLands(run)'
  <2>1. RunLands(run)
    BY <1>2 DEF LandInv
  <2>2. /\ Skips(run.config)' = Skips(run.config)
        /\ Valid(run.config)' = Valid(run.config)
        /\ Parsed(run.config)' = Parsed(run.config)
    BY <1>1, SkipsKept, ParsedKept
  <2>3. ~ Settled'
    BY <1>1 DEF Settled
  <2>4. TagRead(run) => TagRead(run)'
    BY <1>1, <2>2, <2>3 DEF TagRead
  <2>5. Skipping(run) => Skipping(run)'
    BY <1>1, <2>2, <2>3 DEF Skipping
  <2>6. Holding(run) => Holding(run)'
    BY <1>1, <2>2, <2>3, <2>4 DEF Holding
  <2> QED
    BY <1>1, <2>1, <2>2, <2>3, <2>4, <2>5, <2>6 DEF RunLands
<1> QED
  BY <1>1, <1>2 DEF LandInv, Running

LEMMA LandStep == FetchInv /\ LandInv /\ [Next]_vars => LandInv'
<1> SUFFICES ASSUME FetchInv, LandInv, [Next]_vars PROVE LandInv'
  OBVIOUS
<1>0. setup \in Setups /\ (Running => IsRun(run))
  BY DEF FetchInv, Tokened, Running
<1>1. CASE NoCredential \/ NoToken \/ Unusable \/ Misconfigured \/ Die
           \/ ShortAnswer
  <2>1. \E error, why : Fail(error, why)
    BY <1>1 DEF NoCredential, NoToken, Unusable, Misconfigured, Die,
                ShortAnswer, Refused
  <2> QED
    BY <2>1, FailLands
<1>2. CASE Begin
  <2>1. CASE setup.source = "soql"
    BY <1>2, <2>1 DEF LandInv, Begin, bindingVars
  <2> QED
    BY <1>0, <1>2, <2>1, BeginLands
<1>3. CASE Lapse
  <2>1. Go(WithToken(run, "lapsed")) /\ IsRun(run) /\ Running
    BY <1>0, <1>3 DEF Lapse, WithToken
  <2>2. setup.source # "soql" => RunLands(WithToken(run, "lapsed"))
    BY <2>1, TriesOn DEF LandInv
  <2> QED
    BY <2>1, <2>2, GoLands
<1>4. CASE Renew
  <2>1. IsRun(run) /\ Running
    BY <1>0, <1>4 DEF Renew, Renewing, Requesting
  <2>2. CASE Go(WithToken(run, "renewed"))
    <3>1. setup.source # "soql" => RunLands(WithToken(run, "renewed"))
      BY <2>1, TriesOn DEF LandInv
    <3> QED
      BY <2>2, <3>1, GoLands
  <2>3. CASE Refused
    BY <2>3, FailLands DEF Refused
  <2> QED
    BY <1>4, <2>2, <2>3 DEF Renew, WithToken
<1>5. CASE Throttled
  <2>1. IsRun(run) /\ Running
    BY <1>0, <1>5 DEF Throttled, Due, Requesting
  <2>2. PICK x : Go(WithSpent(run, x))
    BY <1>5 DEF Throttled, WithSpent
  <2>3. setup.source # "soql" => RunLands(WithSpent(run, x))
    BY <2>1, TriesOn DEF LandInv
  <2> QED
    BY <2>2, <2>3, GoLands
<1>6. CASE GiveUp
  <2>1. \E error, why : Fail(error, why)
    BY <1>6 DEF GiveUp
  <2> QED
    BY <2>1, FailLands
<1>7. CASE ReadTag \/ ReadContent \/ ReadObjects
  <2>1. IsRun(run) /\ Running
    BY <1>0, <1>7 DEF ReadTag, ReadContent, ReadObjects, Answered, Due,
                      Requesting
  <2>2. CASE ReadTag
    BY <2>1, <2>2, TagLands
  <2>3. CASE ReadContent
    BY <2>1, <2>3, ContentLands
  <2>4. CASE ReadObjects
    <3>1. run.pc \in {"describe", "query", "more"}
      BY <2>4 DEF ReadObjects
    <3>2. setup.source = "soql"
      BY <2>1, <3>1 DEF LandInv, RunLands
    <3> QED
      BY <2>4, <3>2 DEF LandInv, ReadObjects, Go, bindingVars
  <2> QED
    BY <1>7, <2>2, <2>3, <2>4
<1>8. CASE Land
  BY <1>0, <1>8, LandLands
<1>9. CASE Edit
  BY <1>9, EditLands
<1>10. CASE Reconfigure
  BY <1>10, ReconfigureLands
<1>11. CASE Rotate \/ Lose \/ UNCHANGED vars
  <2>1. UNCHANGED <<setup, content, config, table, edits, mark, stale, since,
                    run>>
    BY <1>11 DEF Rotate, Lose, vars, providerVars, bindingVars, landedVars
  <2> QED
    BY <2>1, NothingLands
<1> QED
  BY <1>1, <1>2, <1>3, <1>4, <1>5, <1>6, <1>7, <1>8, <1>9, <1>10, <1>11
     DEF Next, Execute

\* The Binding is configured, and its file filled, as its setup allows.
Chosen == /\ setup \in Setups
          /\ config \in Configs[setup]
          /\ content \in Contents[setup]

LEMMA ChosenStep == Chosen /\ [Next]_vars => Chosen'
<1> SUFFICES ASSUME Chosen, [Next]_vars PROVE Chosen'
  OBVIOUS
<1>1. ASSUME \E error, why : Fail(error, why) PROVE Chosen'
  BY <1>1 DEF Chosen, Fail, providerVars, bindingVars
<1>2. ASSUME \E r : Go(r) PROVE Chosen'
  BY <1>2 DEF Chosen, Go, providerVars, bindingVars
<1>3. CASE NoCredential \/ NoToken \/ Unusable \/ Misconfigured \/ Die
           \/ ShortAnswer \/ GiveUp
  BY <1>1, <1>3 DEF NoCredential, NoToken, Unusable, Misconfigured, Die,
                    ShortAnswer, GiveUp, Refused
<1>4. CASE Lapse \/ Renew \/ Throttled
  BY <1>1, <1>2, <1>4 DEF Lapse, Renew, Throttled, Refused
<1>5. CASE ReadTag
  BY <1>2, <1>5, Zenon DEF ReadTag
<1>6. CASE ReadContent
  BY <1>1, <1>2, <1>6 DEF ReadContent
<1>7. CASE ReadObjects
  BY <1>2, <1>7 DEF ReadObjects
<1>8. CASE Begin \/ Land \/ Rotate \/ Lose \/ UNCHANGED vars
  BY <1>8 DEF Begin, Land, Rotate, Lose, vars, Chosen, providerVars,
              bindingVars
<1>9. CASE Edit \/ Reconfigure
  BY <1>9 DEF Edit, Reconfigure, Chosen, providerVars, bindingVars
<1> QED
  BY <1>3, <1>4, <1>5, <1>6, <1>7, <1>8, <1>9 DEF Next, Execute

LEMMA InitLands == Init => LandInv
<1> SUFFICES ASSUME Init PROVE LandInv
  OBVIOUS
<1> QED
  BY DEF Init, LandInv, Running
-----------------------------------------------------------------------------
(* Least and greatest *)

\* A set of natural numbers that is not empty has a least element.
LEMMA LeastIs ==
    ASSUME NEW T \in SUBSET Nat, T # {}
    PROVE  \E m \in T : \A n \in T : m <= n
<1> DEFINE R == OpToRel(<, Nat)
<1>1. IsWellFoundedOn(R, Nat)
  BY NatLessThanWellFounded
<1>2. PICK m \in T : \A n \in T : ~ (<<n, m>> \in R)
  <2> HIDE DEF R
  <2> QED
    BY <1>1, WFMin, Zenon
<1>3. \A n \in T : ~ (n < m)
  BY <1>2 DEF OpToRel
<1> QED
  BY <1>3

LEMMA MinIs ==
    ASSUME NEW T \in SUBSET Nat, T # {}
    PROVE  Min(T) \in T /\ \A n \in T : Min(T) <= n
BY LeastIs DEF Min

LEMMA MaxIs ==
    ASSUME NEW S \in SUBSET Nat, S # {}, NEW b \in Nat, \A n \in S : n <= b
    PROVE  Max(S) \in S /\ \A n \in S : n <= Max(S)
<1> DEFINE T == {b - n : n \in S}
<1>1. T \in SUBSET Nat
  <2>1. \A n \in S : b - n \in Nat
    OBVIOUS
  <2> QED
    BY <2>1
<1>2. T # {}
  OBVIOUS
<1>3. PICK d \in T : \A n \in T : d <= n
  <2> HIDE DEF T
  <2> QED
    BY <1>1, <1>2, LeastIs
<1>4. PICK m \in S : d = b - m
  OBVIOUS
<1>5. \A n \in S : b - m <= b - n
  BY <1>3, <1>4
<1>6. \A n \in S : m >= n
  <2> SUFFICES ASSUME NEW n \in S PROVE m >= n
    OBVIOUS
  <2>1. m \in Nat /\ n \in Nat /\ b - m <= b - n
    BY <1>5
  <2> QED
    BY <2>1
<1> QED
  BY <1>6 DEF Max
-----------------------------------------------------------------------------
(* Column names *)


\* Appending tells apart and lengthens.
LEMMA Appended ==
    ASSUME NEW S, NEW base \in Seq(S), NEW n \in Nat
    PROVE  /\ Append(base, n) \in Seq(S \cup Nat)
           /\ Len(Append(base, n)) = Len(base) + 1
           /\ Append(base, n)[Len(base) + 1] = n
<1>1. base \in Seq(S \cup Nat)
  OBVIOUS
<1> QED
  BY <1>1

LEMMA Counted ==
    ASSUME NEW c \in Nat
    PROVE  IsFiniteSet(2 .. c + 2) /\ Cardinality(2 .. c + 2) = c + 1
<1> DEFINE d == c + 2
<1>1. 2 \in Int /\ d \in Int /\ ~ (2 > d) /\ d - 2 + 1 = c + 1
  OBVIOUS
<1>2. /\ IsFiniteSet(2 .. d)
      /\ Cardinality(2 .. d) = IF 2 > d THEN 0 ELSE d - 2 + 1
  <2> HIDE DEF d
  <2> QED
    BY <1>1, FS_Interval
<1> QED
  BY <1>1, <1>2

\* Among one name more than are taken one is free.
LEMMA SomeIsFree ==
    ASSUME NEW S, NEW base \in Seq(S), NEW taken, IsFiniteSet(taken)
    PROVE  \E n \in 2 .. Cardinality(taken) + 2 : Append(base, n) \notin taken
<1> DEFINE c == Cardinality(taken)
           f == [n \in 2 .. c + 2 |-> Append(base, n)]
<1>1. c \in Nat
  BY FS_CardinalityType
<1>2. SUFFICES ASSUME \A n \in 2 .. c + 2 : Append(base, n) \in taken
               PROVE  FALSE
  OBVIOUS
<1>3. f \in [2 .. c + 2 -> taken]
  BY <1>2
<1>4. IsFiniteSet(2 .. c + 2) /\ Cardinality(2 .. c + 2) = c + 1
  BY <1>1, Counted
<1>5. PICK i \in 2 .. c + 2, j \in 2 .. c + 2 : i # j /\ f[i] = f[j]
  <2>1. Cardinality(taken) < Cardinality(2 .. c + 2)
    BY <1>1, <1>4
  <2> HIDE DEF f
  <2> QED
    BY <1>3, <1>4, <2>1, FS_PigeonHole
<1>6. i \in Nat /\ j \in Nat
  BY <1>1
<1>7. Append(base, i)[Len(base) + 1] = i /\ Append(base, j)[Len(base) + 1] = j
  BY <1>6, Appended
<1> QED
  BY <1>5, <1>7

\* The name that is chosen is not taken, and it is the base itself or the base
\* with a suffix.
LEMMA FreeIs ==
    ASSUME NEW S, NEW base \in Seq(S), NEW taken, IsFiniteSet(taken)
    PROVE  /\ Free(base, taken) \notin taken
           /\ base \notin taken => Free(base, taken) = base
           /\ base \in taken => \E n \in Nat :
                                   Free(base, taken) = Append(base, n)
<1> DEFINE T == {n \in 2 .. Cardinality(taken) + 2 :
                    Append(base, n) \notin taken}
<1>1. Cardinality(taken) \in Nat
  BY FS_CardinalityType
<1>2. T \in SUBSET Nat /\ T # {}
  BY <1>1, SomeIsFree
<1>3. Min(T) \in T
  <2> HIDE DEF T
  <2> QED
    BY <1>2, MinIs
<1>4. Min(T) \in Nat /\ Append(base, Min(T)) \notin taken
  BY <1>1, <1>3
<1>5. Free(base, taken) = IF base \notin taken THEN base
                          ELSE Append(base, Min(T))
  BY DEF Free
<1> HIDE DEF T
<1> QED
  BY <1>4, <1>5

Grown(header, reserved, names, i) ==
    Append(names, Free(BaseName(header, i), reserved \cup Range(names)))

Follows(names, header, width, reserved) ==
    names = [i \in 0 .. width |->
               IF i = 0 THEN <<>>
               ELSE Grown(header, reserved, names[i - 1], i)]

\* The columns can be named one by one.
LEMMA NamesExist ==
    ASSUME NEW header, NEW width \in Nat, NEW reserved
    PROVE  \E names : Follows(names, header, width, reserved)
<1> DEFINE G(s, i) == Grown(header, reserved, s, i)
           P(w) == \E f : f = [i \in 0 .. w |-> IF i = 0 THEN <<>>
                                               ELSE G(f[i - 1], i)]
           T == {w \in Nat : ~ P(w)}
<1>1. SUFFICES ASSUME T # {} PROVE FALSE
  BY DEF Follows
<1>2. PICK m \in T : \A n \in T : m <= n
  <2>1. T \in SUBSET Nat
    OBVIOUS
  <2> HIDE DEF T
  <2> QED
    BY <1>1, <2>1, LeastIs
<1> HIDE DEF G
<1>3. m \in Nat /\ ~ P(m)
  BY <1>2
<1>4. m # 0
  <2>1. SUFFICES P(0)
    BY <1>3
  <2> DEFINE f == [i \in 0 .. 0 |-> <<>>]
  <2>2. f = [i \in 0 .. 0 |-> IF i = 0 THEN <<>> ELSE G(f[i - 1], i)]
    OBVIOUS
  <2> HIDE DEF f
  <2> QED
    BY <2>2
<1>5. m - 1 \in Nat /\ m - 1 \notin T
  BY <1>2, <1>3, <1>4
<1>6. PICK f : f = [i \in 0 .. m - 1 |-> IF i = 0 THEN <<>>
                                        ELSE G(f[i - 1], i)]
  BY <1>5
<1> DEFINE g == [i \in 0 .. m |-> IF i = m THEN G(f[m - 1], m) ELSE f[i]]
<1>7. \A i \in 0 .. m : g[i] = IF i = 0 THEN <<>> ELSE G(g[i - 1], i)
  <2> SUFFICES ASSUME NEW i \in 0 .. m
               PROVE  g[i] = IF i = 0 THEN <<>> ELSE G(g[i - 1], i)
    OBVIOUS
  <2>1. CASE i = 0
    BY <1>3, <1>4, <1>6, <2>1
  <2>2. CASE i = m
    BY <1>3, <1>4, <2>2
  <2>3. CASE i # 0 /\ i # m
    BY <1>3, <1>4, <1>6, <2>3
  <2> QED
    BY <2>1, <2>2, <2>3
<1>8. g = [i \in 0 .. m |-> IF i = 0 THEN <<>> ELSE G(g[i - 1], i)]
  <2>1. g = [i \in 0 .. m |-> g[i]]
    OBVIOUS
  <2> HIDE DEF g
  <2> QED
    BY <1>7, <2>1
<1> QED
  <2> HIDE DEF g
  <2> QED
    BY <1>3, <1>8

LEMMA NamesAre ==
    ASSUME NEW header, NEW width \in Nat, NEW reserved
    PROVE  \E names : /\ Follows(names, header, width, reserved)
                      /\ ColumnNames(header, width, reserved) = names[width]
<1> DEFINE n == CHOOSE names : Follows(names, header, width, reserved)
<1>1. Follows(n, header, width, reserved)
  BY NamesExist
<1>2. ColumnNames(header, width, reserved) = n[width]
  BY DEF ColumnNames, Follows, Grown
<1> QED
  BY <1>1, <1>2

\* Texts that may stand in a header.
Text(cell) == IsBlank(cell) \/ cell \in DOMAIN Identifier

LEMMA BaseIs ==
    ASSUME NEW header, NEW i \in Nat, Text(Cell(header, i))
    PROVE  \E S : BaseName(header, i) \in Seq(S) \ {<<>>}
<1> DEFINE text == Cell(header, i)
<1>1. CASE IsBlank(text)
  <2>1. BaseName(header, i) = <<"column", i>>
    BY <1>1 DEF BaseName
  <2>2. <<"column", i>> \in Seq({"column", i}) \ {<<>>}
    OBVIOUS
  <2> QED
    BY <2>1, <2>2
<1>2. CASE ~ IsBlank(text)
  <2>1. text \in DOMAIN Identifier
    BY <1>2 DEF Text
  <2> DEFINE n == Identifier[text]
  <2>2. IsTuple(n)
    BY <2>1, TablesAssumption
  <2>3. n \in Seq({n[j] : j \in 1 .. Len(n)})
    <3> HIDE DEF n
    <3> QED
      BY <2>2 DEF IsTuple
  <2>4. BaseName(header, i) = IF n = <<>> THEN <<"column", i>> ELSE n
    BY <1>2 DEF BaseName
  <2>5. CASE n = <<>>
    <3>1. BaseName(header, i) = <<"column", i>>
      BY <2>4, <2>5
    <3>2. <<"column", i>> \in Seq({"column", i}) \ {<<>>}
      OBVIOUS
    <3> QED
      BY <3>1, <3>2
  <2>6. CASE n # <<>>
    BY <2>3, <2>4, <2>6
  <2> QED
    BY <2>5, <2>6
<1> QED
  BY <1>1, <1>2

LEMMA AppendIs ==
    ASSUME NEW S, NEW s \in Seq(S), NEW x
    PROVE  Append(s, x) = [i \in 1 .. Len(s) + 1 |->
                             IF i = Len(s) + 1 THEN x ELSE s[i]]
<1> DEFINE a == Append(s, x)
           T == S \cup {x}
<1>1. s \in Seq(T) /\ x \in T
  OBVIOUS
<1>2. /\ a \in Seq(T) /\ Len(a) = Len(s) + 1
      /\ \A i \in 1 .. Len(s) : a[i] = s[i]
      /\ a[Len(s) + 1] = x
  <2> HIDE DEF T
  <2> QED
    BY <1>1, AppendProperties
<1>3. a = [i \in 1 .. Len(s) + 1 |-> a[i]]
  <2>1. DOMAIN a = 1 .. Len(s) + 1 /\ a = [i \in DOMAIN a |-> a[i]]
    <3> HIDE DEF a, T
    <3> QED
      BY <1>2
  <2> QED
    BY <2>1
<1> HIDE DEF a
<1>4. \A i \in 1 .. Len(s) + 1 :
         a[i] = IF i = Len(s) + 1 THEN x ELSE s[i]
  <2>1. Len(s) \in Nat
    OBVIOUS
  <2> QED
    BY <1>2, <2>1
<1>5. a = [i \in 1 .. Len(s) + 1 |-> IF i = Len(s) + 1 THEN x ELSE s[i]]
  BY <1>3, <1>4
<1> QED
  BY <1>5 DEF a

Nth(header, reserved, names, i) ==
    Free(BaseName(header, i), reserved \cup Range(names[i - 1]))

Reads(header, reserved, names, i) ==
    names[i] = [j \in 1 .. i |-> Nth(header, reserved, names, j)]

\* The i-th name is the first that is free when those before it are taken.
LEMMA NamesRead ==
    ASSUME NEW header, NEW width \in Nat, NEW reserved, NEW names,
           Follows(names, header, width, reserved), NEW i \in 0 .. width
    PROVE  Reads(header, reserved, names, i)
<1> DEFINE N(j) == Nth(header, reserved, names, j)
           Q(k) == names[k] = [j \in 1 .. k |-> N(j)]
           T == {k \in 0 .. width : ~ Q(k)}
<1>1. names[0] = <<>>
  BY DEF Follows
<1>2. \A k \in 1 .. width : names[k] = Append(names[k - 1], N(k))
  <2> SUFFICES ASSUME NEW k \in 1 .. width
               PROVE  names[k] = Append(names[k - 1], N(k))
    OBVIOUS
  <2>1. k \in 0 .. width /\ k # 0
    OBVIOUS
  <2>2. names[k] = Grown(header, reserved, names[k - 1], k)
    BY <2>1 DEF Follows
  <2> QED
    BY <2>2 DEF Grown, Nth
<1> HIDE DEF N
<1>3. SUFFICES ASSUME T # {} PROVE FALSE
  <2>1. ASSUME T = {} PROVE Q(i)
    BY <2>1
  <2> QED
    BY <2>1 DEF N, Reads
<1>4. PICK m \in T : \A n \in T : m <= n
  <2>1. T \in SUBSET Nat
    OBVIOUS
  <2> HIDE DEF T
  <2> QED
    BY <1>3, <2>1, LeastIs
<1>5. m # 0
  BY <1>1, <1>4
<1>6. m \in 1 .. width /\ m - 1 \in 0 .. width
  BY <1>4, <1>5
<1>7. Q(m - 1)
  BY <1>4, <1>6
<1> DEFINE s == [j \in 1 .. m - 1 |-> N(j)]
<1>8. s \in Seq({N(j) : j \in 1 .. m}) /\ Len(s) = m - 1
  BY <1>6
<1>9. Append(s, N(m)) = [j \in 1 .. m |-> N(j)]
  <2>1. Append(s, N(m)) = [j \in 1 .. Len(s) + 1 |->
                             IF j = Len(s) + 1 THEN N(m) ELSE s[j]]
    <3> HIDE DEF s
    <3> QED
      BY <1>8, AppendIs
  <2>2. Len(s) + 1 = m
    BY <1>6, <1>8
  <2>3. \A j \in 1 .. m : (IF j = m THEN N(m) ELSE s[j]) = N(j)
    BY <1>6
  <2> HIDE DEF s
  <2> QED
    BY <2>1, <2>2, <2>3
<1>10. Q(m)
  BY <1>2, <1>6, <1>7, <1>9
<1> QED
  BY <1>4, <1>10

LEMMA PrefixFinite ==
    ASSUME NEW n \in Nat, NEW s, s = [i \in 1 .. n |-> s[i]]
    PROVE  IsFiniteSet(Range(s))
<1>1. IsFiniteSet(1 .. n)
  BY FS_Interval
<1>2. s \in Surjection(1 .. n, Range(s))
  BY DEF Surjection, Range
<1> QED
  BY <1>1, <1>2, FS_Surjection

\* Each column has a name of its own, none that is reserved, and that of its
\* header unless it is taken.
TellApart(columns, header, width, reserved) ==
    /\ DOMAIN columns = 1 .. width
    /\ \A i \in 1 .. width :
          /\ columns[i] \notin reserved
          /\ \A j \in 1 .. width : columns[i] = columns[j] => i = j
          /\ \/ columns[i] = BaseName(header, i)
             \/ /\ BaseName(header, i) \in reserved \cup
                       {columns[j] : j \in 1 .. i - 1}
                /\ \E n \in Nat : columns[i] = Append(BaseName(header, i), n)

\* Whatever the header says, the names of the columns tell them apart.
THEOREM NamesAreDistinct ==
    ASSUME NEW header, NEW width \in Nat, NEW reserved,
           IsFiniteSet(reserved), \A i \in 1 .. width : Text(Cell(header, i))
    PROVE  TellApart(ColumnNames(header, width, reserved), header, width,
                     reserved)
<1> DEFINE base(i) == BaseName(header, i)
           columns == ColumnNames(header, width, reserved)
<1>1. PICK names : /\ Follows(names, header, width, reserved)
                   /\ columns = names[width]
  BY NamesAre
<1> DEFINE taken(i) == reserved \cup Range(names[i - 1])
           N(i) == Free(base(i), taken(i))
<1>2. \A i \in 0 .. width : names[i] = [j \in 1 .. i |-> N(j)]
  <2> SUFFICES ASSUME NEW i \in 0 .. width
               PROVE  names[i] = [j \in 1 .. i |-> N(j)]
    OBVIOUS
  <2>1. Follows(names, header, width, reserved)
    BY <1>1
  <2>2. Reads(header, reserved, names, i)
    BY <2>1, NamesRead
  <2>3. \A j : Nth(header, reserved, names, j) = N(j)
    BY DEF Nth
  <2> QED
    BY <2>2, <2>3 DEF Reads
<1>3. \A i \in 1 .. width : IsFiniteSet(taken(i))
  <2> SUFFICES ASSUME NEW i \in 1 .. width PROVE IsFiniteSet(taken(i))
    OBVIOUS
  <2> HIDE DEF N
  <2> DEFINE s == names[i - 1]
  <2>0. i - 1 \in Nat /\ i - 1 \in 0 .. width
    OBVIOUS
  <2>1. s = [j \in 1 .. i - 1 |-> N(j)]
    BY <1>2, <2>0
  <2>2. s = [j \in 1 .. i - 1 |-> s[j]]
    <3> HIDE DEF s
    <3> QED
      BY <2>1
  <2>3. IsFiniteSet(Range(s))
    <3> HIDE DEF s
    <3> QED
      BY <2>0, <2>2, PrefixFinite
  <2> QED
    BY <2>3, FS_Union
<1>4. \A i \in 1 .. width :
         /\ N(i) \notin taken(i)
         /\ \/ N(i) = base(i)
            \/ base(i) \in taken(i) /\ \E n \in Nat : N(i) = Append(base(i), n)
  <2> SUFFICES ASSUME NEW i \in 1 .. width
               PROVE  /\ N(i) \notin taken(i)
                      /\ \/ N(i) = base(i)
                         \/ /\ base(i) \in taken(i)
                            /\ \E n \in Nat : N(i) = Append(base(i), n)
    OBVIOUS
  <2>1. PICK S : base(i) \in Seq(S)
    BY BaseIs
  <2>2. IsFiniteSet(taken(i))
    BY <1>3
  <2> HIDE DEF base, taken
  <2> QED
    BY <2>1, <2>2, FreeIs
<1> HIDE DEF N
<1>5. \A i \in 1 .. width : taken(i) = reserved \cup {N(j) : j \in 1 .. i - 1}
  <2> SUFFICES ASSUME NEW i \in 1 .. width
               PROVE  Range(names[i - 1]) = {N(j) : j \in 1 .. i - 1}
    OBVIOUS
  <2>1. names[i - 1] = [j \in 1 .. i - 1 |-> N(j)]
    BY <1>2
  <2> QED
    BY <2>1 DEF Range
<1>6. columns = [j \in 1 .. width |-> N(j)]
  BY <1>1, <1>2
<1> HIDE DEF columns, taken, base
<1>7. \A i, j \in 1 .. width : j < i => N(i) # N(j)
  <2> SUFFICES ASSUME NEW i \in 1 .. width, NEW j \in 1 .. width, j < i
               PROVE  N(i) # N(j)
    OBVIOUS
  <2>1. j \in 1 .. i - 1
    OBVIOUS
  <2> QED
    BY <1>4, <1>5, <2>1
<1>8. \A i, j \in 1 .. width : N(i) = N(j) => i = j
  BY <1>7
<1>9. \A i \in 1 .. width :
         {N(j) : j \in 1 .. i - 1} = {columns[j] : j \in 1 .. i - 1}
  BY <1>6
<1>10. ASSUME NEW i \in 1 .. width
       PROVE  /\ columns[i] \notin reserved
              /\ \A j \in 1 .. width : columns[i] = columns[j] => i = j
              /\ \/ columns[i] = base(i)
                 \/ /\ base(i) \in reserved \cup
                           {columns[j] : j \in 1 .. i - 1}
                    /\ \E n \in Nat : columns[i] = Append(base(i), n)
  <2>1. taken(i) = reserved \cup {columns[j] : j \in 1 .. i - 1}
    BY <1>5, <1>9
  <2>2. columns[i] = N(i)
    BY <1>6
  <2>3. columns[i] \notin reserved
    BY <1>4, <2>1, <2>2
  <2>4. \A j \in 1 .. width : columns[i] = columns[j] => i = j
    BY <1>6, <1>8
  <2> QED
    BY <1>4, <2>1, <2>2, <2>3, <2>4
<1>11. DOMAIN columns = 1 .. width
  BY <1>6
<1> QED
  BY <1>10, <1>11 DEF columns, base, TellApart

\* What columns are called does not depend on those to their right.
LEMMA NamesPrefix ==
    ASSUME NEW header, NEW other, NEW reserved, NEW width \in Nat,
           NEW n \in 0 .. width,
           \A j \in 1 .. n : Cell(header, j) = Cell(other, j)
    PROVE  \A j \in 1 .. n : ColumnNames(header, n, reserved)[j]
                             = ColumnNames(other, width, reserved)[j]
<1>1. PICK names : /\ Follows(names, header, n, reserved)
                   /\ ColumnNames(header, n, reserved) = names[n]
  BY NamesAre
<1>2. PICK others : /\ Follows(others, other, width, reserved)
                    /\ ColumnNames(other, width, reserved) = others[width]
  BY NamesAre
<1> DEFINE T == {i \in 0 .. n : names[i] # others[i]}
<1>3. T = {}
  <2> SUFFICES ASSUME T # {} PROVE FALSE
    OBVIOUS
  <2>1. PICK m \in T : \A i \in T : m <= i
    <3>1. T \in SUBSET Nat
      OBVIOUS
    <3> HIDE DEF T
    <3> QED
      BY <3>1, LeastIs
  <2>2. names[0] = <<>> /\ others[0] = <<>>
    BY <1>1, <1>2 DEF Follows
  <2>3. m \in 1 .. n /\ m \in 1 .. width /\ m - 1 \in 0 .. n
        /\ names[m - 1] = others[m - 1]
    <3>1. m \in 1 .. n
      BY <2>1, <2>2
    <3>2. m - 1 \in 0 .. n /\ m - 1 \notin T
      BY <2>1, <3>1
    <3> QED
      BY <3>1, <3>2
  <2>4. names[m] = Grown(header, reserved, names[m - 1], m)
    BY <1>1, <2>3 DEF Follows
  <2>5. others[m] = Grown(other, reserved, others[m - 1], m)
    BY <1>2, <2>3 DEF Follows
  <2>6. BaseName(header, m) = BaseName(other, m)
    BY <2>3 DEF BaseName
  <2> QED
    BY <2>1, <2>3, <2>4, <2>5, <2>6 DEF Grown
<1>4. Reads(other, reserved, others, n) /\ Reads(other, reserved, others, width)
  BY <1>2, NamesRead
<1>5. ASSUME NEW j \in 1 .. n PROVE names[n][j] = others[width][j]
  <2>1. names[n] = others[n] /\ j \in 1 .. width
    BY <1>3
  <2>2. others[n][j] = Nth(other, reserved, others, j)
    BY <1>4 DEF Reads
  <2>3. others[width][j] = Nth(other, reserved, others, j)
    BY <1>4, <2>1 DEF Reads
  <2> QED
    BY <2>1, <2>2, <2>3
<1> QED
  BY <1>1, <1>2, <1>5

\* Once the latest edit has come through, the table shows the rows that the
\* present content is read as under the present configuration.
ShowsContent ==
    (/\ since = "landed" /\ setup.source # "soql"
     /\ ~ (stale /\ Unchanged /\ Skips(config))) => TableShows

\* Every edit of the file and of the configuration lands, for every content
\* and configuration, whatever fails or is edited in the meantime.
THEOREM ContentLanded == Spec => []ShowsContent
<1>1. Init => FetchInv /\ LandInv
  <2>1. Init => FetchInv
    BY DEF Init, FetchInv, Credentials, Tokened, BlamedForCause
  <2> QED
    BY <2>1, InitLands
<1>2. LandInv => ShowsContent
  BY DEF LandInv, ShowsContent, Unchanged, Tag
<1> QED
  BY <1>1, <1>2, FetchStep, LandStep, PTL DEF Spec
-----------------------------------------------------------------------------
(* The sheets that are read, and the rows they are read as *)

ReadHeader(s) ==
    IF setup.source = "sheets"
    THEN IF config.header THEN s.grid[1] ELSE <<>>
    ELSE IF config.header = 0 THEN <<>>
         ELSE SheetGrid(s, config.unmerge)[config.header]
ReadWidth(s) ==
    IF setup.source = "sheets" THEN Width(s.grid)
    ELSE Width(SheetGrid(s, config.unmerge))
ReadColumns(s) == ColumnNames(ReadHeader(s), ReadWidth(s), Reserved)

ReadRow(s, n) ==
    IF setup.source = "sheets" THEN RowRecord(s.grid[n], ReadColumns(s), n)
    ELSE Stamped([number |-> n, sheet |-> s.name,
                  cells |-> [c \in Range(ReadColumns(s)) |->
                               SheetGrid(s, config.unmerge)[n]
                                  [Position(ReadColumns(s), c)]]])

\* The columns of a sheet that is read, and what the row of one that shows
\* something is read as.
ColumnsRead(s) ==
    LET columns == ReadColumns(s)
    IN  /\ Width(s.grid) \in Nat
        /\ \E w \in 0 .. Width(s.grid) : DOMAIN columns = 1 .. w
        /\ \A i, j \in DOMAIN columns : columns[i] = columns[j] => i = j
RowRead(s, n) ==
    LET row == ReadRow(s, n)
        columns == ReadColumns(s)
    IN  /\ row.sheet = s.name /\ row.number = n
        /\ \A j \in Filled(s, n) : Kept(s, j) =>
              /\ j \in DOMAIN columns
              /\ columns[j] \in DOMAIN row.cells
              /\ row.cells[columns[j]] = CellAt(s, n, j)
        /\ \A k \in config.key : /\ k \in DOMAIN row.cells
                                 /\ row.cells[k] = KeyOf(s, n)[k]

\* The rows that are read, told from the sheets.
ReadAs(rows) ==
    /\ \A s, t \in Sheets : s.name = t.name => s = t
    /\ \A s \in Sheets : Entered(s) # {} => ColumnsRead(s)
    /\ \A s \in Sheets : \A n \in Entered(s) : Keyed(s, n) => RowRead(s, n)
    /\ \A r : r \in rows <=> \E s \in Sheets : \E n \in Entered(s) :
                                Keyed(s, n) /\ r = ReadRow(s, n)

\* Where the columns of a sheet are that is read, as the table shows.
Places(s) == [j \in 1 .. Width(s.grid) |->
                IF j \in DOMAIN ReadColumns(s) /\ ReadColumns(s)[j] \in Names
                THEN ReadColumns(s)[j] ELSE <<>>]

LEMMA PlacesAre ==
    ASSUME NEW s, ColumnsRead(s)
    PROVE  Places(s) \in Placings(Width(s.grid))
<1> DEFINE columns == ReadColumns(s)
           width == Width(s.grid)
           at == Places(s)
<1>1. \A i, j \in DOMAIN columns : columns[i] = columns[j] => i = j
  BY DEF ColumnsRead
<1>2. at = [j \in 1 .. width |->
              IF j \in DOMAIN columns /\ columns[j] \in Names
              THEN columns[j] ELSE <<>>]
  BY DEF Places
<1> HIDE DEF columns, width, at
<1>3. at \in [1 .. width -> Names \cup {<<>>}]
  BY <1>2
<1>4. ASSUME NEW i \in 1 .. width, NEW j \in 1 .. width,
             at[i] = at[j], at[i] # <<>>
      PROVE  i = j
  BY <1>1, <1>2, <1>4
<1>5. at \in Placings(width)
  BY <1>3, <1>4 DEF Placings
<1> QED
  BY <1>5 DEF at, width

LEMMA NoPlaces ==
    ASSUME NEW width
    PROVE  [j \in 1 .. width |-> <<>>] \in Placings(width)
BY DEF Placings

\* A row that is in the table as it was read shows where its sheet's cells are.
LEMMA RowShows ==
    ASSUME NEW s, NEW n, RowRead(s, n), ReadRow(s, n) \in table,
           ColumnsRead(s)
    PROVE  Shows(ReadRow(s, n), s, n, Places(s))
<1> DEFINE r == ReadRow(s, n)
           columns == ReadColumns(s)
           at == Places(s)
<1>1. r.sheet = s.name /\ r.number = n
  BY DEF RowRead
<1>2. PICK w \in 0 .. Width(s.grid) : DOMAIN columns = 1 .. w
  BY DEF ColumnsRead
<1>3. ASSUME NEW j \in Filled(s, n), Kept(s, j)
      PROVE  at[j] \in DOMAIN r.cells /\ r.cells[at[j]] = CellAt(s, n, j)
  <2>1. /\ j \in DOMAIN columns
        /\ columns[j] \in DOMAIN r.cells
        /\ r.cells[columns[j]] = CellAt(s, n, j)
    BY <1>3 DEF RowRead
  <2>2. columns[j] \in Names
    BY <2>1 DEF Names
  <2>3. j \in 1 .. Width(s.grid)
    <3>1. Width(s.grid) \in Nat
      BY DEF ColumnsRead
    <3> HIDE DEF columns
    <3> QED
      BY <1>2, <2>1, <3>1
  <2>4. at[j] = columns[j]
    BY <2>1, <2>2, <2>3 DEF Places
  <2> QED
    BY <2>1, <2>4
<1> HIDE DEF r, at
<1>4. Shows(r, s, n, at)
  BY <1>1, <1>3 DEF Shows
<1> QED
  BY <1>4 DEF r, at

\* Every row with a key is landed, under that key.
LEMMA RowsLand ==
    ASSUME NEW rows, ReadAs(rows), Reflects(rows, config.key),
           NEW s \in Sheets, NEW n \in Entered(s), Keyed(s, n)
    PROVE  Lands(s, n, Places(s))
<1> DEFINE key == config.key
           at == Places(s)
<1>1. ColumnsRead(s) /\ RowRead(s, n) /\ ReadRow(s, n) \in rows
  BY DEF ReadAs
<1>2. CASE key = {}
  <2>1. ReadRow(s, n) \in table
    BY <1>1, <1>2 DEF Reflects
  <2>2. Shows(ReadRow(s, n), s, n, at)
    BY <1>1, <2>1, RowShows
  <2> QED
    BY <1>2, <2>1, <2>2 DEF Lands
<1>3. CASE key # {}
  <2>1. PICK q \in rows \cap table : SameKey(q, ReadRow(s, n), key)
    BY <1>1, <1>3 DEF Reflects
  <2>2. PICK t \in Sheets : \E m \in Entered(t) :
           Keyed(t, m) /\ q = ReadRow(t, m) /\ RowRead(t, m)
    BY <2>1 DEF ReadAs
  <2> PICK m \in Entered(t) :
         Keyed(t, m) /\ q = ReadRow(t, m) /\ RowRead(t, m)
    BY <2>2
  <2>3. t = s
    <3>1. t.name = s.name
      BY <1>1, <2>1, <2>2 DEF SameKey, RowRead
    <3> QED
      BY <3>1 DEF ReadAs
  <2>4. Shows(q, s, m, at)
    BY <1>1, <2>1, <2>2, <2>3, RowShows
  <2>5. KeyOf(s, m) = KeyOf(s, n)
    <3>1. \A k \in key : KeyOf(s, m)[k] = KeyOf(s, n)[k]
      BY <1>1, <2>1, <2>2, <2>3 DEF SameKey, RowRead
    <3>2. \A i : KeyOf(s, i) = [k \in key |-> KeyOf(s, i)[k]]
      BY DEF KeyOf
    <3> QED
      BY <3>1, <3>2
  <2> QED
    BY <1>3, <2>1, <2>2, <2>3, <2>4, <2>5 DEF Lands
<1> QED
  BY <1>2, <1>3

\* There is one row for each key that the sheets show.
LEMMA KeysLandOnce ==
    ASSUME NEW rows, ReadAs(rows), Reflects(rows, config.key),
           config.key # {}, NEW r \in table, NEW q \in table,
           SameKey(r, q, config.key),
           NEW s \in Sheets, r.sheet = s.name, NEW n \in Entered(s),
           Keyed(s, n), \A k \in config.key : r.cells[k] = KeyOf(s, n)[k]
    PROVE  r = q
<1> DEFINE o == ReadRow(s, n)
<1>1. RowRead(s, n) /\ o \in rows
  BY DEF ReadAs
<1>2. SameKey(r, o, config.key) /\ SameKey(q, o, config.key)
  BY <1>1 DEF SameKey, RowRead
<1>3. \E p \in rows \cap table :
         \A t \in table : SameKey(t, o, config.key) => t = p
  BY <1>1 DEF Reflects
<1> QED
  BY <1>2, <1>3

LEMMA RowsShown ==
    ASSUME NEW rows, ReadAs(rows), Reflects(rows, config.key)
    PROVE  /\ \A s \in Sheets : \E at \in Placings(Width(s.grid)) :
                 \A n \in Entered(s) : Keyed(s, n) => Lands(s, n, at)
           /\ config.key # {} =>
                 \A r, q \in table :
                    (SameKey(r, q, config.key)
                     /\ \E s \in Sheets : r.sheet = s.name
                           /\ \E n \in Entered(s) :
                                 /\ Keyed(s, n)
                                 /\ \A k \in config.key :
                                       r.cells[k] = KeyOf(s, n)[k])
                    => r = q
           /\ config.key = {} =>
                 \A r \in table :
                    /\ \E s \in Sheets : /\ r.sheet = s.name
                                         /\ r.number \in Entered(s)
                    /\ \A q \in table :
                          (r.sheet = q.sheet /\ r.number = q.number) => r = q
<1>1. ASSUME NEW s \in Sheets
      PROVE  \E at \in Placings(Width(s.grid)) :
                \A n \in Entered(s) : Keyed(s, n) => Lands(s, n, at)
  <2>1. CASE Entered(s) = {}
    BY <2>1, NoPlaces
  <2>2. CASE Entered(s) # {}
    <3>1. Places(s) \in Placings(Width(s.grid))
      BY <2>2, PlacesAre DEF ReadAs
    <3>2. \A n \in Entered(s) : Keyed(s, n) => Lands(s, n, Places(s))
      BY RowsLand
    <3> QED
      BY <3>1, <3>2
  <2> QED
    BY <2>1, <2>2
<1>2. ASSUME config.key = {}, NEW r \in table
      PROVE  /\ \E s \in Sheets : /\ r.sheet = s.name
                                  /\ r.number \in Entered(s)
             /\ \A q \in table :
                   (r.sheet = q.sheet /\ r.number = q.number) => r = q
  <2>1. table = rows
    BY <1>2 DEF Reflects
  <2>2. ASSUME NEW q \in table
        PROVE  \E s \in Sheets : \E n \in Entered(s) :
                  /\ q = ReadRow(s, n) /\ q.sheet = s.name /\ q.number = n
    BY <2>1 DEF ReadAs, RowRead
  <2>3. \A s, t \in Sheets : s.name = t.name => s = t
    BY DEF ReadAs
  <2> QED
    BY <2>2, <2>3
<1> QED
  BY <1>1, <1>2, KeysLandOnce
-----------------------------------------------------------------------------
(* The columns of a sheet *)

\* Finitely many numbers have a bound.
LEMMA Bounded ==
    ASSUME NEW n \in Nat, NEW f, \A i \in 1 .. n : f[i] \in Nat
    PROVE  \E b \in Nat : \A i \in 1 .. n : f[i] <= b
<1> DEFINE Q(m) == \E b \in Nat : \A i \in 1 .. m : f[i] <= b
           T == {m \in 0 .. n : ~ Q(m)}
<1>1. Q(0)
  OBVIOUS
<1>2. SUFFICES ASSUME T # {} PROVE FALSE
  <2>1. n \notin T
    BY <1>2
  <2> QED
    BY <2>1
<1>3. PICK m \in T : \A k \in T : m <= k
  <2>1. T \in SUBSET Nat
    OBVIOUS
  <2> HIDE DEF T
  <2> QED
    BY <1>2, <2>1, LeastIs
<1>4. m \in 1 .. n /\ m - 1 \in 0 .. n /\ m - 1 \notin T
  <2> HIDE DEF Q
  <2> QED
    BY <1>1, <1>3
<1>5. PICK b \in Nat : \A i \in 1 .. m - 1 : f[i] <= b
  BY <1>4
<1>6. f[m] \in Nat
  BY <1>4
<1>7. PICK a \in Nat : b <= a /\ f[m] <= a
  <2>1. \A x, y \in Nat : x <= y \/ y <= x
    OBVIOUS
  <2> QED
    BY <1>6, <2>1
<1>8. \A i \in 1 .. m : f[i] <= a
  <2> SUFFICES ASSUME NEW i \in 1 .. m PROVE f[i] <= a
    OBVIOUS
  <2>1. CASE i = m
    BY <1>7, <2>1
  <2>2. CASE i # m
    <3>1. i \in 1 .. m - 1 /\ f[i] \in Nat
      BY <1>4, <2>2
    <3> QED
      BY <1>5, <1>7, <3>1
  <2> QED
    BY <2>1, <2>2
<1> QED
  BY <1>3, <1>8

\* A grid is as wide as its longest row.
LEMMA WidthIs ==
    ASSUME NEW T, NEW grid \in Seq(Seq(T))
    PROVE  /\ Width(grid) \in Nat
           /\ \A i \in DOMAIN grid :
                 Len(grid[i]) \in Nat /\ Len(grid[i]) <= Width(grid)
           /\ \/ Width(grid) = 0
              \/ \E i \in DOMAIN grid : Width(grid) = Len(grid[i])
<1> DEFINE n == Len(grid)
           f == [i \in 1 .. n |-> Len(grid[i])]
           S == {0} \cup {Len(grid[i]) : i \in DOMAIN grid}
<1>1. n \in Nat /\ DOMAIN grid = 1 .. n
  OBVIOUS
<1>2. \A i \in 1 .. n : grid[i] \in Seq(T)
  OBVIOUS
<1>3. \A i \in 1 .. n : Len(grid[i]) \in Nat
  BY <1>2
<1>4. PICK b \in Nat : \A i \in 1 .. n : f[i] <= b
  <2>1. \A i \in 1 .. n : f[i] \in Nat
    BY <1>3
  <2> HIDE DEF n, f
  <2> QED
    BY <1>1, <2>1, Bounded
<1>5. S \in SUBSET Nat /\ S # {} /\ \A i \in S : i <= b
  BY <1>1, <1>3, <1>4
<1>6. Max(S) \in S /\ \A i \in S : i <= Max(S)
  <2> HIDE DEF S
  <2> QED
    BY <1>5, MaxIs
<1>7. Width(grid) = Max(S)
  BY DEF Width
<1> HIDE DEF n
<1> QED
  BY <1>1, <1>3, <1>5, <1>6, <1>7

\* What a name is without a suffix, if it is one that was suffixed.
LEMMA FrontIs ==
    ASSUME NEW S, NEW base \in Seq(S), NEW n \in Nat
    PROVE  Front(Append(base, n)) = base
<1> DEFINE a == Append(base, n)
           m == Len(base)
           T == S \cup Nat
<1>1. a \in Seq(T) /\ Len(a) = m + 1 /\ m \in Nat
  BY Appended
<1>2. \A i \in 1 .. m : a[i] = base[i]
  OBVIOUS
<1>3. Front(a) = [i \in 1 .. m |-> a[i]]
  <2>1. Front(a) = SubSeq(a, 1, m)
    <3> HIDE DEF a, m
    <3> QED
      BY <1>1 DEF Front
  <2>2. 1 + m - 1 = m
    BY <1>1
  <2> HIDE DEF a, m, T
  <2>3. SubSeq(a, 1, m) \in Seq(T) /\ Len(SubSeq(a, 1, m)) = m
        /\ \A i \in 1 .. m : SubSeq(a, 1, m)[i] = a[i]
    BY <1>1
  <2>4. SubSeq(a, 1, m) = [i \in 1 .. m |-> SubSeq(a, 1, m)[i]]
    BY <2>3
  <2> QED
    BY <2>1, <2>3, <2>4
<1>4. base = [i \in 1 .. m |-> base[i]]
  OBVIOUS
<1> HIDE DEF a, m
<1> QED
  BY <1>2, <1>3, <1>4 DEF a

\* The column of a name that no suffix made is the first headed so.
LEMMA PlainName ==
    ASSUME NEW header, NEW i \in Nat, Text(Cell(header, i)), NEW n \in Nat,
           NEW k, k = Append(BaseName(header, i), n)
    PROVE  Suffixed(k)
<1> DEFINE text == Cell(header, i)
<1>1. PICK S : BaseName(header, i) \in Seq(S) \ {<<>>}
  BY BaseIs
<1>2. Front(k) = BaseName(header, i)
  BY <1>1, FrontIs
<1>3. CASE BaseName(header, i) = <<"column", i>>
  <2>1. <<"column", i>> \in Seq({"column", i}) /\ Len(<<"column", i>>) = 2
        /\ <<"column", i>>[1] = "column"
    OBVIOUS
  <2> DEFINE base == <<"column", i>>
  <2> HIDE DEF base
  <2>2. base \in Seq({"column", i}) /\ Len(base) = 2 /\ base[1] = "column"
        /\ k = Append(base, n)
    BY <1>3, <2>1 DEF base
  <2>3. Len(k) = 3
    <3>1. PICK T : base \in Seq(T)
      BY <2>2
    <3>2. Len(Append(base, n)) = Len(base) + 1
      BY <3>1, Appended
    <3> QED
      BY <2>2, <3>2
  <2>4. k[1] = "column"
    <3>1. k = [j \in 1 .. 3 |-> IF j = 3 THEN n ELSE base[j]]
      BY <2>2, AppendIs
    <3> QED
      BY <2>2, <3>1
  <2> QED
    BY <2>3, <2>4 DEF Suffixed
<1>4. CASE BaseName(header, i) # <<"column", i>>
  <2>1. ~ IsBlank(text) /\ Identifier[text] = BaseName(header, i)
    BY <1>4 DEF BaseName
  <2>2. text \in DOMAIN Identifier /\ Identifier[text] # <<>>
    BY <1>1, <2>1 DEF Text
  <2> QED
    BY <1>2, <2>1, <2>2 DEF Suffixed
<1> QED
  BY <1>3, <1>4

\* Each column is where its name says, a column that is kept has a name that
\* is none of the file's, and a merge key is found where it is looked for.
ColumnsPlaced(s) ==
    LET columns == ReadColumns(s)
        width == ReadWidth(s)
    IN  /\ DOMAIN columns = 1 .. width
        /\ \A i, j \in 1 .. width : columns[i] = columns[j] => i = j
        /\ \A j \in 1 .. width : Position(columns, columns[j]) = j
        /\ \A j \in 1 .. width :
              setup.source = "workbook" /\ columns[j] \in FileColumns =>
                 ~ Kept(s, j)
        /\ \A k \in Range(columns) :
              /\ Position(columns, k) = KeyAt(s, k)
              /\ KeyAt(s, k) \in 1 .. width
              /\ columns[KeyAt(s, k)] = k

Headed(s) ==
    /\ Width(s.grid) \in Nat
    /\ ReadWidth(s) \in 0 .. Width(s.grid)
    /\ \A j \in 1 .. ReadWidth(s) :
          /\ Cell(ReadHeader(s), j) = Cell(Heading(s), j)
          /\ Text(Cell(ReadHeader(s), j))

LEMMA FilesAre ==
    ASSUME NEW c \in FileColumns
    PROVE  Len(c) = 1
BY DEF FileColumns

LEMMA ColumnsAre ==
    ASSUME NEW s, Headed(s), setup.source \in {"sheets", "workbook"}
    PROVE  ColumnsPlaced(s)
<1> DEFINE columns == ReadColumns(s)
           width == ReadWidth(s)
           header == ReadHeader(s)
           base(j) == BaseName(header, j)
<1>1. width \in Nat /\ IsFiniteSet(Reserved)
      /\ \A j \in 1 .. width : Text(Cell(header, j))
  <2>1. IsFiniteSet({}) /\ IsFiniteSet({RowNumberColumn})
    BY FS_EmptySet, FS_Singleton
  <2> QED
    BY <2>1 DEF Headed, Reserved
<1>2. /\ DOMAIN columns = 1 .. width
      /\ \A i \in 1 .. width :
            /\ columns[i] \notin Reserved
            /\ \A j \in 1 .. width : columns[i] = columns[j] => i = j
            /\ \/ columns[i] = base(i)
               \/ /\ base(i) \in Reserved \cup {columns[j] : j \in 1 .. i - 1}
                  /\ \E n \in Nat : columns[i] = Append(base(i), n)
  <2> DEFINE header0 == ReadHeader(s)
             width0 == ReadWidth(s)
             reserved0 == Reserved
  <2>1. columns = ColumnNames(header0, width0, reserved0)
    BY DEF ReadColumns
  <2>2. width0 \in Nat /\ IsFiniteSet(reserved0)
        /\ \A j \in 1 .. width0 : Text(Cell(header0, j))
    BY <1>1
  <2> HIDE DEF columns, header0, width0, reserved0
  <2>3. TellApart(columns, header0, width0, reserved0)
    BY <2>1, <2>2, NamesAreDistinct
  <2> QED
    BY <2>3 DEF header0, width0, reserved0, TellApart
<1>3. \A j \in 1 .. width : BaseName(Heading(s), j) = base(j)
  BY DEF Headed, BaseName
<1>4. \A j \in 1 .. width : \E S : base(j) \in Seq(S) \ {<<>>}
  BY <1>1, BaseIs
<1>5. \A k : \A j \in 1 .. width : \A n \in Nat :
         k = Append(base(j), n) => Suffixed(k)
  <2> SUFFICES ASSUME NEW k, NEW j \in 1 .. width, NEW n \in Nat,
                      k = Append(base(j), n)
               PROVE  Suffixed(k)
    OBVIOUS
  <2>1. j \in Nat /\ Text(Cell(header, j))
    BY <1>1
  <2> HIDE DEF header
  <2> QED
    BY <2>1, PlainName
<1>6. width <= Width(s.grid) /\ Width(s.grid) \in Nat
  BY DEF Headed
<1> HIDE DEF columns, width, header, base
<1>7. \A i, j \in 1 .. width : columns[i] = columns[j] => i = j
  BY <1>2
<1>8. \A j \in 1 .. width : Position(columns, columns[j]) = j
  BY <1>2, <1>7 DEF Position
<1>9. ASSUME NEW j \in 1 .. width, setup.source = "workbook",
             columns[j] \in FileColumns
      PROVE  ~ Kept(s, j)
  <2>1. CASE columns[j] = base(j)
    BY <1>3, <1>9, <2>1 DEF Kept
  <2>2. ASSUME NEW n \in Nat, columns[j] = Append(base(j), n) PROVE FALSE
    <3>1. PICK S : base(j) \in Seq(S) \ {<<>>}
      BY <1>4
    <3>2. Len(columns[j]) = Len(base(j)) + 1
      BY <2>2, <3>1, Appended
    <3>3. Len(base(j)) \in Nat /\ Len(base(j)) # 0
      BY <3>1
    <3>4. Len(columns[j]) = 1
      BY <1>9, FilesAre
    <3> DEFINE l == Len(columns[j])
               m == Len(base(j))
    <3>5. l = m + 1 /\ m \in Nat /\ m # 0 /\ l = 1
      BY <3>2, <3>3, <3>4
    <3> HIDE DEF l, m
    <3> QED
      BY <3>5
  <2> QED
    BY <1>2, <2>1, <2>2
<1>9a. \A j \in 1 .. width : columns[j] =
          ColumnNames(Heading(s), Width(s.grid), Reserved)[j]
  <2>1. columns = ColumnNames(header, width, Reserved)
    BY DEF columns, header, width, ReadColumns
  <2>2. \A j \in 1 .. width : Cell(header, j) = Cell(Heading(s), j)
    BY DEF Headed, header, width
  <2>3. width \in 0 .. Width(s.grid)
    BY DEF Headed, width
  <2> QED
    BY <1>6, <2>1, <2>2, <2>3, NamesPrefix
<1>10. ASSUME NEW k \in Range(columns)
       PROVE  /\ Position(columns, k) = KeyAt(s, k)
              /\ KeyAt(s, k) \in 1 .. width
              /\ columns[KeyAt(s, k)] = k
  <2> DEFINE wide == ColumnNames(Heading(s), Width(s.grid), Reserved)
             T == {j \in 1 .. Width(s.grid) :
                     IF Suffixed(k) THEN wide[j] = k
                     ELSE BaseName(Heading(s), j) = k}
  <2>1. PICK p \in 1 .. width : columns[p] = k
    BY <1>2 DEF Range
  <2>2. \A j \in 1 .. width : wide[j] = columns[j]
    BY <1>9a
  <2>3. \A j \in 1 .. width : j \in T <=>
           IF Suffixed(k) THEN columns[j] = k ELSE base(j) = k
    BY <1>1, <1>3, <1>6, <2>2
  <2>4. p \in T
    BY <1>2, <1>5, <2>1, <2>3
  <2>5. ASSUME NEW i \in 1 .. width, i < p PROVE i \notin T
    <3>1. CASE Suffixed(k)
      BY <1>7, <2>1, <2>3, <2>5, <3>1
    <3>2. CASE ~ Suffixed(k)
      <4> SUFFICES ASSUME base(i) = k PROVE FALSE
        BY <2>3, <3>2
      <4>1. columns[i] # k
        BY <1>7, <2>1, <2>5
      <4>2. k \in Reserved \cup {columns[j] : j \in 1 .. i - 1}
        BY <1>2, <4>1
      <4>3. k \notin Reserved
        BY <1>2, <2>1
      <4>4. PICK j \in 1 .. i - 1 : columns[j] = k
        BY <4>2, <4>3
      <4>5. j \in 1 .. width /\ j < p
        BY <1>1, <2>5, <4>4 DEF width
      <4> QED
        BY <1>7, <2>1, <4>4, <4>5
    <3> QED
      BY <3>1, <3>2
  <2>6. Min(T) \in T /\ Min(T) <= p
    <3>1. T \in SUBSET Nat
      BY <1>6
    <3> HIDE DEF T
    <3> QED
      BY <2>4, <3>1, MinIs
  <2>7. Min(T) = p
    <3> DEFINE i == Min(T)
    <3>1. i \in 1 .. Width(s.grid)
      BY <2>6
    <3> HIDE DEF i, T
    <3> QED
      BY <1>1, <1>6, <2>5, <2>6, <3>1 DEF width, i
  <2>8. KeyAt(s, k) = Min(T)
    BY DEF KeyAt
  <2> QED
    BY <1>8, <2>1, <2>7, <2>8
<1> QED
  BY <1>2, <1>7, <1>8, <1>9, <1>10 DEF ColumnsPlaced, columns, width

LEMMA PlacedRead ==
    ASSUME NEW s, Headed(s), ColumnsPlaced(s)
    PROVE  ColumnsRead(s)
BY DEF Headed, ColumnsPlaced, ColumnsRead
-----------------------------------------------------------------------------
(* A range of a spreadsheet is read as the sheet it shows *)

Texts == DOMAIN Identifier \cup Blanks \cup {Null}

LEMMA CellIs ==
    ASSUME NEW row \in Seq(Texts), NEW i \in Nat \ {0}
    PROVE  /\ Cell(row, i) \in Texts /\ Text(Cell(row, i))
           /\ i \notin DOMAIN row => Cell(row, i) = Null
           /\ i \in DOMAIN row => Cell(row, i) = row[i]
<1>1. Cell(row, i) \in Texts
  BY DEF Cell, Texts
<1> QED
  BY <1>1 DEF Texts, Text, IsBlank, Cell

\* The header shows what the cells of its row do.
LEMMA HeadingIs ==
    ASSUME NEW s, s.grid \in Grid, HeaderRow \in DOMAIN s.grid,
           HeaderRow # 0, NEW j \in Nat \ {0}
    PROVE  Cell(Heading(s), j) = CellAt(s, HeaderRow, j)
<1> DEFINE row == s.grid[HeaderRow]
           show == [i \in DOMAIN row |-> CellAt(s, HeaderRow, i)]
<1>1. row \in Seq(Texts)
  BY DEF Grid, Texts
<1>2. Heading(s) = show
  BY DEF Heading
<1>3. DOMAIN row = 1 .. Len(row) /\ Len(row) \in Nat
  BY <1>1
<1>4. Len(show) = Len(row)
  <2> HIDE DEF row
  <2> QED
    BY <1>3
<1>5. CASE j \in DOMAIN row
  <2>1. show[j] = CellAt(s, HeaderRow, j)
    BY <1>5
  <2>2. j <= Len(show)
    BY <1>3, <1>4, <1>5
  <2> QED
    BY <1>2, <2>1, <2>2 DEF Cell
<1>6. CASE j \notin DOMAIN row
  <2>1. ~ (j <= Len(show))
    BY <1>3, <1>4, <1>6
  <2>2. CellAt(s, HeaderRow, j) = Cell(row, j)
    BY <1>6 DEF CellAt
  <2>3. Cell(row, j) = Null
    BY <1>1, <1>6, CellIs
  <2> QED
    BY <1>2, <2>1, <2>2, <2>3 DEF Cell
<1> QED
  BY <1>5, <1>6

TheRange == [name |-> Null, hidden |-> FALSE, grid |-> content]

LEMMA RangeHeaded ==
    ASSUME setup.source = "sheets", content \in Grid, content # <<>>
    PROVE  Headed(TheRange)
<1> DEFINE s == TheRange
<1>1. s.grid = content
  BY DEF TheRange
<1>2. content \in Seq(Seq(Texts))
  BY DEF Grid, Texts
<1>3. Width(content) \in Nat
  BY <1>2, WidthIs
<1>4. ReadWidth(s) = Width(content)
  BY <1>1 DEF ReadWidth
<1>5. 1 \in DOMAIN content /\ content[1] \in Seq(Texts)
  BY <1>2
<1>6. ASSUME NEW j \in 1 .. Width(content)
      PROVE  /\ Cell(ReadHeader(s), j) = Cell(Heading(s), j)
             /\ Text(Cell(ReadHeader(s), j))
  <2>0. j \in Nat \ {0}
    BY <1>3
  <2>1. CASE config.header
    <3>1. HeaderRow = 1 /\ ReadHeader(s) = content[1]
      BY <1>1, <2>1 DEF HeaderRow, ReadHeader
    <3>2. Cell(Heading(s), j) = CellAt(s, 1, j)
      BY <1>1, <1>5, <2>0, <3>1, HeadingIs
    <3>3. CellAt(s, 1, j) = Cell(content[1], j)
      BY <1>1 DEF CellAt
    <3> QED
      BY <1>5, <2>0, <3>1, <3>2, <3>3, CellIs
  <2>2. CASE ~ config.header
    <3>1. ReadHeader(s) = <<>> /\ Heading(s) = <<>>
      BY <2>2 DEF ReadHeader, Heading, HeaderRow
    <3>2. Cell(<<>>, j) = Null
      BY <2>0 DEF Cell
    <3> QED
      BY <3>1, <3>2 DEF Text, IsBlank
  <2> QED
    BY <2>1, <2>2
<1> QED
  BY <1>1, <1>3, <1>4, <1>6 DEF Headed

\* What a row of the range is read as.
RangeReads(n) ==
    LET row == ReadRow(TheRange, n)
    IN  /\ row.sheet = Null /\ row.number = n
        /\ Populated(row) <=> Filled(TheRange, n) # {}
        /\ \A k \in config.key :
              /\ k \in DOMAIN row.cells
              /\ row.cells[k] = CellValue(KeyOf(TheRange, n)[k])
        /\ \A j \in Filled(TheRange, n) :
              /\ j \in DOMAIN ReadColumns(TheRange)
              /\ ReadColumns(TheRange)[j] \in DOMAIN row.cells
              /\ row.cells[ReadColumns(TheRange)[j]] = CellAt(TheRange, n, j)

LEMMA RangeRow ==
    ASSUME setup.source = "sheets", content \in Grid, content # <<>>,
           ColumnsPlaced(TheRange), Width(content) \in Nat,
           NEW n \in DOMAIN content,
           config.key \subseteq Range(ReadColumns(TheRange))
    PROVE  RangeReads(n)
<1> DEFINE s == TheRange
           columns == ReadColumns(s)
           width == Width(content)
           row == ReadRow(s, n)
           line == content[n]
<1>1. s.grid = content
  BY DEF TheRange
<1>2. ReadWidth(s) = width /\ DOMAIN columns = 1 .. width
  BY <1>1 DEF ReadWidth, ColumnsPlaced
<1>3. \A j : CellAt(s, n, j) = Cell(line, j)
  BY <1>1 DEF CellAt
<1>4. /\ row.sheet = Null /\ row.number = n
      /\ row.cells = [c \in Range(columns) |->
                        CellValue(Cell(line, Position(columns, c)))]
  BY <1>1 DEF ReadRow, RowRecord
<1>5. \A j \in 1 .. width : columns[j] \in Range(columns)
                            /\ Position(columns, columns[j]) = j
  BY <1>2 DEF ColumnsPlaced, Range
<1>6. \A k \in config.key : Position(columns, k) = KeyAt(s, k)
  BY DEF ColumnsPlaced
<1>7. line \in Seq(Texts) /\ Len(line) \in Nat /\ Len(line) <= width
      /\ DOMAIN line = 1 .. Len(line)
  <2>1. content \in Seq(Seq(Texts))
    BY DEF Grid, Texts
  <2> QED
    BY <2>1, WidthIs
<1>8. \A k \in config.key : KeyOf(s, n)[k] = CellAt(s, n, KeyAt(s, k))
  BY DEF KeyOf
<1>9. \A j : j \in Filled(s, n) <=> j \in 1 .. Len(line)
                                    /\ ~ IsBlank(Cell(line, j))
  BY <1>1, <1>3, <1>7 DEF Filled
<1>10. \A c \in Range(columns) : \E j \in 1 .. width : columns[j] = c
  BY <1>2 DEF Range
<1>11. \A j \in 1 .. width : ~ IsBlank(Cell(line, j)) => j \in 1 .. Len(line)
  <2> SUFFICES ASSUME NEW j \in 1 .. width, ~ IsBlank(Cell(line, j))
               PROVE  j \in 1 .. Len(line)
    OBVIOUS
  <2>1. j <= Len(line)
    BY DEF Cell, IsBlank
  <2> QED
    BY <1>7, <2>1
<1>12. \A cell : /\ CellValue(cell) = Null <=> IsBlank(cell)
                 /\ ~ IsBlank(cell) => CellValue(cell) = cell
  BY DEF CellValue, IsBlank
<1>13. \A j \in 1 .. Len(line) : j \in 1 .. width
  BY <1>7
<1> HIDE DEF s, columns, width, row, line
<1>14. \A j \in 1 .. width : /\ columns[j] \in DOMAIN row.cells
                             /\ row.cells[columns[j]] = CellValue(Cell(line, j))
  BY <1>4, <1>5
<1>15. Populated(row) <=> Filled(s, n) # {}
  <2>1. ASSUME NEW j \in Filled(s, n) PROVE Populated(row)
    BY <1>9, <1>12, <1>13, <1>14, <2>1 DEF Populated
  <2>2. ASSUME NEW c \in DOMAIN row.cells, row.cells[c] # Null
        PROVE  Filled(s, n) # {}
    <3>1. c \in Range(columns)
      BY <1>4
    <3>2. PICK j \in 1 .. width : columns[j] = c
      BY <1>10, <3>1
    <3>3. ~ IsBlank(Cell(line, j))
      BY <1>12, <1>14, <2>2, <3>2
    <3> QED
      BY <1>9, <1>11, <3>3
  <2> QED
    BY <2>1, <2>2 DEF Populated
<1>16. \A k \in config.key : /\ k \in DOMAIN row.cells
                             /\ row.cells[k] = CellValue(KeyOf(s, n)[k])
  BY <1>3, <1>4, <1>6, <1>8 DEF s, columns
<1>17. \A j \in Filled(s, n) : /\ j \in DOMAIN columns
                               /\ columns[j] \in DOMAIN row.cells
                               /\ row.cells[columns[j]] = CellAt(s, n, j)
  BY <1>2, <1>3, <1>9, <1>12, <1>13, <1>14
<1> QED
  BY <1>4, <1>15, <1>16, <1>17 DEF s, columns, row, RangeReads

\* The rows of a range are those of what it shows.
LEMMA RangeReadAs ==
    ASSUME setup.source = "sheets", content \in Grid,
           Parsed(config).ok
    PROVE  ReadAs(Parsed(config).rows)
<1> DEFINE s == TheRange
           columns == ReadColumns(s)
           first == IF config.header THEN 2 ELSE 1
           rows == Parsed(config).rows
           R(n) == ReadRow(s, n)
<1>1. Sheets = {s} /\ s.name = Null /\ s.grid = content
  BY DEF Sheets, TheRange
<1>2. CASE content = <<>>
  <2>1. rows = {}
    BY <1>2 DEF Parsed, RowsFromValues
  <2>2. Entered(s) = {}
    BY <1>1, <1>2 DEF Entered
  <2> QED
    BY <1>1, <2>1, <2>2 DEF ReadAs
<1>3. CASE content # <<>>
  <2>1. Headed(s)
    BY <1>3, RangeHeaded
  <2>2. ColumnsPlaced(s) /\ ColumnsRead(s) /\ Width(content) \in Nat
    BY <1>1, <2>1, ColumnsAre, PlacedRead DEF Headed
  <2>3. Parsed(config) = RowsFromValues(content, config)
    BY DEF Parsed
  <2>4. columns = ColumnNames(IF config.header THEN content[1] ELSE <<>>,
                              Width(content), {RowNumberColumn})
    BY <1>1 DEF ReadColumns, ReadHeader, ReadWidth, Reserved
  <2>5. \A n : R(n) = RowRecord(content[n], columns, n)
    BY <1>1 DEF ReadRow
  <2> DEFINE records == {R(n) : n \in first .. Len(content)}
             filled == {r \in records : Populated(r)}
             keyless == {r \in filled : \E k \in config.key :
                                            r.cells[k] = Null}
  <2>6. /\ config.key \subseteq Range(columns)
        /\ rows = filled \ keyless
    <3> DEFINE names == ColumnNames(IF config.header THEN content[1]
                                    ELSE <<>>,
                                    Width(content), {RowNumberColumn})
               lines == {RowRecord(content[n], names, n) :
                           n \in first .. Len(content)}
               full == {r \in lines : Populated(r)}
               lost == {r \in full : \E k \in config.key : r.cells[k] = Null}
    <3>1. RowsFromValues(content, config) =
             IF content = <<>> THEN [ok |-> TRUE, rows |-> {}]
             ELSE IF \/ ~ config.key \subseteq Range(names)
                     \/ lost # {} /\ config.missing = "error"
                  THEN [ok |-> FALSE, rows |-> {}]
             ELSE [ok |-> TRUE, rows |-> full \ lost]
      BY Zenon DEF RowsFromValues
    <3>2. names = columns
      BY <2>4
    <3>3. lines = records
      <4> HIDE DEF names, columns, R
      <4> QED
        BY <2>5, <3>2
    <3>4. full = filled /\ lost = keyless
      BY <3>3
    <3> HIDE DEF names, columns, full, lost, filled, keyless
    <3>5. config.key \subseteq Range(names) /\ rows = full \ lost
      BY <1>3, <2>3, <3>1
    <3> QED
      BY <3>2, <3>4, <3>5
  <2>7. DOMAIN content = 1 .. Len(content) /\ Len(content) \in Nat
    BY DEF Grid
  <2>8. \A n \in 1 .. Len(content) : RangeReads(n)
    BY <1>3, <2>2, <2>6, <2>7, RangeRow
  <2>9. \A n : n \in Entered(s) <=>
              n \in first .. Len(content) /\ Filled(s, n) # {}
    <3> SUFFICES ASSUME NEW n
                 PROVE  n \in Entered(s) <=>
                        n \in first .. Len(content) /\ Filled(s, n) # {}
      OBVIOUS
    <3>1. HeaderRow + SkippedRows = first - 1 /\ first \in {1, 2}
      BY DEF HeaderRow, SkippedRows
    <3>2. n \in DOMAIN content /\ n > first - 1 <=>
             n \in first .. Len(content)
      BY <2>7, <3>1
    <3>3. ASSUME n \in DOMAIN content, Filled(s, n) # {}
          PROVE  EnteredBelow(s, n)
      <4>1. \A j : CellAt(s, n, j) = Cell(content[n], j)
        BY <1>1 DEF CellAt
      <4>2. PICK j \in DOMAIN content[n] : ~ IsBlank(Cell(content[n], j))
        BY <1>1, <3>3, <4>1 DEF Filled
      <4>3. ~ IsBlank(content[n][j])
        BY <4>2 DEF Cell, IsBlank
      <4>4. n >= n
        BY <2>7, <3>3
      <4> QED
        BY <1>1, <3>3, <4>2, <4>3, <4>4 DEF EnteredBelow
    <3> QED
      BY <1>1, <3>1, <3>2, <3>3 DEF Entered
  <2>10. first .. Len(content) \subseteq 1 .. Len(content)
    BY <2>7
  <2>11. \A cell : /\ CellValue(cell) = Null <=> IsBlank(cell)
                   /\ ~ IsBlank(cell) => CellValue(cell) = cell
    BY DEF CellValue, IsBlank
  <2>12. \A n \in Entered(s) : Keyed(s, n) => RowRead(s, n)
    <3> SUFFICES ASSUME NEW n \in Entered(s), Keyed(s, n)
                 PROVE  RowRead(s, n)
      OBVIOUS
    <3>1. RangeReads(n)
      BY <2>8, <2>9, <2>10
    <3>2. \A k \in config.key : R(n).cells[k] = KeyOf(s, n)[k]
      BY <2>11, <3>1 DEF RangeReads, Keyed
    <3> QED
      BY <1>1, <3>1, <3>2 DEF RangeReads, RowRead
  <2>13. ASSUME NEW n \in first .. Len(content)
         PROVE  R(n) \in filled \ keyless <=>
                   Filled(s, n) # {} /\ Keyed(s, n)
    <3>1. RangeReads(n)
      BY <2>8, <2>10
    <3>2. R(n) \in records
      OBVIOUS
    <3>3. Populated(R(n)) <=> Filled(s, n) # {}
      BY <3>1 DEF RangeReads
    <3>4. (\E k \in config.key : R(n).cells[k] = Null) <=> ~ Keyed(s, n)
      BY <2>11, <3>1 DEF RangeReads, Keyed
    <3> HIDE DEF records, R
    <3> QED
      BY <3>2, <3>3, <3>4
  <2>14. \A r : r \in rows <=> \E n \in Entered(s) :
                                  Keyed(s, n) /\ r = R(n)
    <3>1. \A r : r \in rows => \E n \in first .. Len(content) : r = R(n)
      BY <2>6
    <3> HIDE DEF records, filled, keyless, R, rows, first
    <3> QED
      BY <2>6, <2>9, <2>13, <3>1
  <2> HIDE DEF s, rows
  <2>15. \A r : r \in rows <=> \E t \in Sheets : \E n \in Entered(t) :
                                  Keyed(t, n) /\ r = ReadRow(t, n)
    BY <1>1, <2>14
  <2> QED
    BY <1>1, <2>2, <2>12, <2>15 DEF ReadAs, rows
<1> QED
  BY <1>2, <1>3
-----------------------------------------------------------------------------
(* A worksheet is read as it shows *)

FilledIn(g, i) == {j \in DOMAIN g[i] : ~ IsBlank(g[i][j])}
LastRow(s) == Max({0} \cup {i \in DOMAIN s.grid : FilledIn(s.grid, i) # {}})
Upper(s) == SubSeq(s.grid, 1, LastRow(s))
Shown(s) == IF config.unmerge THEN FillMerged(Upper(s), s.merged)
            ELSE Upper(s)
WidthOf(s) ==
    Max({0} \cup UNION {FilledIn(Shown(s), i) : i \in DOMAIN Shown(s)})

\* The grid of a worksheet, told from what its cells show.
GridShows(s) ==
    LET grid == SheetGrid(s, config.unmerge)
    IN  /\ Width(s.grid) \in Nat
        /\ LastRow(s) \in 0 .. Len(s.grid) /\ DOMAIN s.grid = 1 .. Len(s.grid)
        /\ WidthOf(s) \in 0 .. Width(s.grid)
        /\ DOMAIN grid = 1 .. LastRow(s) /\ Len(grid) = LastRow(s)
        /\ \A i \in 1 .. LastRow(s) :
              /\ DOMAIN grid[i] = 1 .. WidthOf(s)
              /\ Len(grid[i]) = WidthOf(s)
              /\ \A j \in 1 .. WidthOf(s) :
                    grid[i][j] = CellAt(s, i, j) /\ Text(grid[i][j])
              /\ \A j : j \in Filled(s, i) <=>
                           j \in 1 .. WidthOf(s) /\ ~ IsBlank(CellAt(s, i, j))
        /\ \A i \in DOMAIN s.grid : EnteredBelow(s, i) <=> i <= LastRow(s)

LEMMA LastIs ==
    ASSUME NEW s, s.grid \in Grid
    PROVE  /\ LastRow(s) \in 0 .. Len(s.grid)
           /\ \A i \in DOMAIN s.grid : EnteredBelow(s, i) <=> i <= LastRow(s)
<1> DEFINE n == Len(s.grid)
           S == {0} \cup {i \in DOMAIN s.grid : FilledIn(s.grid, i) # {}}
<1>1. n \in Nat /\ DOMAIN s.grid = 1 .. n
  BY DEF Grid
<1>2. S \in SUBSET Nat /\ S # {} /\ \A i \in S : i <= n
  BY <1>1
<1>3. Max(S) \in S /\ \A i \in S : i <= Max(S)
  <2> HIDE DEF S, n
  <2> QED
    BY <1>1, <1>2, MaxIs
<1>4. LastRow(s) = Max(S)
  BY DEF LastRow
<1>5. \A m \in DOMAIN s.grid :
         (\E j \in DOMAIN s.grid[m] : ~ IsBlank(s.grid[m][j])) <=> m \in S
  BY <1>1 DEF FilledIn
<1>6. S \subseteq 0 .. n /\ \A i \in S : i # 0 => i \in DOMAIN s.grid
  BY <1>1
<1> HIDE DEF S, n
<1>7. LastRow(s) \in 0 .. n
  BY <1>3, <1>4, <1>6
<1>8. ASSUME NEW i \in DOMAIN s.grid
      PROVE  EnteredBelow(s, i) <=> i <= LastRow(s)
  <2>1. ASSUME EnteredBelow(s, i) PROVE i <= LastRow(s)
    <3>1. PICK m \in S : m \in DOMAIN s.grid /\ m >= i
      BY <1>5, <2>1 DEF EnteredBelow
    <3>2. m <= LastRow(s)
      BY <1>3, <1>4, <3>1
    <3> QED
      BY <1>1, <1>7, <3>1, <3>2
  <2>2. ASSUME i <= LastRow(s) PROVE EnteredBelow(s, i)
    <3>1. LastRow(s) # 0 /\ LastRow(s) >= i
      BY <1>1, <1>7, <2>2
    <3>2. LastRow(s) \in S /\ LastRow(s) \in DOMAIN s.grid
      BY <1>3, <1>4, <1>6, <3>1
    <3> QED
      BY <1>5, <3>1, <3>2 DEF EnteredBelow
  <2> QED
    BY <2>1, <2>2
<1> QED
  BY <1>7, <1>8 DEF n

\* The rows that are kept show what those of the sheet do.
LEMMA ShownIs ==
    ASSUME setup.source = "workbook", NEW s, s.grid \in Grid,
           \A m \in s.merged :
              {m.top, m.left, m.bottom, m.right} \subseteq Nat \ {0}
    PROVE  /\ DOMAIN Shown(s) = 1 .. LastRow(s)
           /\ \A i \in 1 .. LastRow(s) :
                 /\ DOMAIN Shown(s)[i] = DOMAIN s.grid[i]
                 /\ \A j \in DOMAIN s.grid[i] :
                       Shown(s)[i][j] = CellAt(s, i, j)
<1>1. LastRow(s) \in Nat /\ LastRow(s) <= Len(s.grid) /\ Len(s.grid) \in Nat
  BY LastIs DEF Grid
<1>2. s.grid \in Seq(Seq(Texts))
  BY DEF Grid, Texts
<1>3. /\ DOMAIN Upper(s) = 1 .. LastRow(s)
      /\ \A i \in 1 .. LastRow(s) : Upper(s)[i] = s.grid[i]
  <2> DEFINE g == s.grid
             l == LastRow(s)
  <2> HIDE DEF g, l
  <2>1. l \in Nat /\ l <= Len(g) /\ g \in Seq(Seq(Texts))
    BY <1>1, <1>2 DEF g, l
  <2>2. SubSeq(g, 1, l) \in Seq(Seq(Texts)) /\ Len(SubSeq(g, 1, l)) = l
        /\ \A i \in 1 .. l : SubSeq(g, 1, l)[i] = g[i]
    BY <2>1
  <2>3. DOMAIN SubSeq(g, 1, l) = 1 .. l
    BY <2>2
  <2> QED
    BY <2>2, <2>3 DEF Upper, g, l
<1>4. \A i \in 1 .. LastRow(s) : s.grid[i] \in Seq(Texts)
  BY <1>1, <1>2
<1>5. CASE ~ config.unmerge
  <2>1. Shown(s) = Upper(s)
    BY <1>5 DEF Shown
  <2>2. ASSUME NEW i \in 1 .. LastRow(s), NEW j \in DOMAIN s.grid[i]
        PROVE  s.grid[i][j] = CellAt(s, i, j)
    <3>1. CellAt(s, i, j) = Cell(s.grid[i], j)
      BY <1>5 DEF CellAt
    <3>2. j \in Nat \ {0}
      BY <1>4
    <3> QED
      BY <1>4, <3>1, <3>2, CellIs
  <2> QED
    BY <1>3, <2>1, <2>2
<1>6. CASE config.unmerge
  <2> DEFINE u == Upper(s)
             over(i, j) == {m \in s.merged : i \in m.top .. m.bottom
                                             /\ j \in m.left .. m.right}
             top(i, j) == CHOOSE m \in over(i, j) : TRUE
  <2>1. Shown(s) = [i \in DOMAIN u |-> [j \in DOMAIN u[i] |->
                      IF over(i, j) = {} THEN u[i][j]
                      ELSE Cell(u[top(i, j).top], top(i, j).left)]]
    BY <1>6 DEF Shown, FillMerged
  <2>2. ASSUME NEW i \in 1 .. LastRow(s), NEW j \in DOMAIN s.grid[i]
        PROVE  /\ CellAt(s, i, j) =
                     IF over(i, j) = {} THEN Cell(s.grid[i], j)
                     ELSE Cell(s.grid[top(i, j).top], top(i, j).left)
               /\ Cell(s.grid[i], j) = u[i][j]
               /\ over(i, j) # {} => u[top(i, j).top] = s.grid[top(i, j).top]
    <3>1. CellAt(s, i, j) = IF over(i, j) = {} THEN Cell(s.grid[i], j)
                    ELSE Cell(s.grid[top(i, j).top], top(i, j).left)
      BY <1>6, <2>2 DEF CellAt
    <3>2. j \in Nat \ {0} /\ Cell(s.grid[i], j) = s.grid[i][j]
      BY <1>4, CellIs
    <3>3. ASSUME over(i, j) # {}
          PROVE  u[top(i, j).top] = s.grid[top(i, j).top]
      <4> DEFINE m == top(i, j)
      <4>1. m \in over(i, j)
        BY <3>3
      <4>2. m \in s.merged /\ i \in m.top .. m.bottom
        BY <4>1
      <4> HIDE DEF m
      <4>3. m.top \in Nat \ {0} /\ m.bottom \in Nat
        BY <4>2
      <4>4. m.top \in 1 .. LastRow(s)
        BY <1>1, <4>2, <4>3
      <4> QED
        BY <1>3, <4>4 DEF m
    <3> QED
      BY <1>3, <3>1, <3>2, <3>3
  <2> HIDE DEF u, over, top
  <2>3. /\ DOMAIN u = 1 .. LastRow(s)
        /\ \A i \in 1 .. LastRow(s) : u[i] = s.grid[i]
    BY <1>3 DEF u
  <2>4. DOMAIN Shown(s) = 1 .. LastRow(s)
    BY <2>1, <2>3
  <2>5. ASSUME NEW i \in 1 .. LastRow(s)
        PROVE  /\ DOMAIN Shown(s)[i] = DOMAIN s.grid[i]
               /\ \A j \in DOMAIN s.grid[i] : Shown(s)[i][j] = CellAt(s, i, j)
    <3>1. Shown(s)[i] = [j \in DOMAIN s.grid[i] |->
                           IF over(i, j) = {} THEN u[i][j]
                           ELSE Cell(u[top(i, j).top], top(i, j).left)]
      BY <2>1, <2>3
    <3>2. DOMAIN Shown(s)[i] = DOMAIN s.grid[i]
      BY <3>1
    <3>3. ASSUME NEW j \in DOMAIN s.grid[i]
          PROVE  Shown(s)[i][j] = CellAt(s, i, j)
      <4>1. Shown(s)[i][j] = IF over(i, j) = {} THEN u[i][j]
                             ELSE Cell(u[top(i, j).top], top(i, j).left)
        BY <3>1
      <4> QED
        BY <2>2, <4>1
    <3> QED
      BY <3>2, <3>3
  <2> QED
    BY <2>4, <2>5
<1> QED
  BY <1>5, <1>6

\* A worksheet with texts in its cells, and ranges that are merged.
IsSheet(s) == /\ s.grid \in Grid
              /\ \A m \in s.merged :
                    {m.top, m.left, m.bottom, m.right} \subseteq Nat \ {0}

LEMMA TextsShown ==
    ASSUME setup.source = "workbook", NEW s, IsSheet(s),
           NEW i \in 1 .. Len(s.grid), NEW j \in Nat \ {0}
    PROVE  Text(CellAt(s, i, j))
<1> DEFINE over == {m \in s.merged : i \in m.top .. m.bottom
                                     /\ j \in m.left .. m.right}
           m == CHOOSE m \in over : TRUE
<1>1. \A k \in 1 .. Len(s.grid) : s.grid[k] \in Seq(Texts)
  BY DEF IsSheet, Grid, Texts
<1>2. CellAt(s, i, j) \in {Cell(s.grid[i], j), Cell(s.grid[m.top], m.left)}
      /\ (over = {} => CellAt(s, i, j) = Cell(s.grid[i], j))
  BY DEF CellAt
<1>3. Text(Cell(s.grid[i], j))
  BY <1>1, CellIs
<1>4. ASSUME over # {} PROVE Text(Cell(s.grid[m.top], m.left))
  <2>1. m \in over
    BY <1>4
  <2>2. m \in s.merged /\ i \in m.top .. m.bottom
    BY <2>1
  <2> HIDE DEF m
  <2>3. m.top \in Nat \ {0} /\ m.bottom \in Nat /\ m.left \in Nat \ {0}
    BY <2>2 DEF IsSheet
  <2>4. Len(s.grid) \in Nat
    BY DEF IsSheet, Grid
  <2>5. m.top \in 1 .. Len(s.grid)
    BY <2>2, <2>3, <2>4
  <2> QED
    BY <1>1, <2>3, <2>5, CellIs DEF m
<1> HIDE DEF over, m
<1> QED
  BY <1>2, <1>3, <1>4

LEMMA GridIs ==
    ASSUME setup.source = "workbook", NEW s, IsSheet(s)
    PROVE  GridShows(s)
<1> DEFINE l == LastRow(s)
           w == WidthOf(s)
           n == Len(s.grid)
           grid == SheetGrid(s, config.unmerge)
<1>1. /\ l \in 0 .. n /\ n \in Nat /\ DOMAIN s.grid = 1 .. n
      /\ \A i \in DOMAIN s.grid : EnteredBelow(s, i) <=> i <= l
  BY LastIs DEF IsSheet, Grid
<1>2. /\ DOMAIN Shown(s) = 1 .. l
      /\ \A i \in 1 .. l :
            /\ DOMAIN Shown(s)[i] = DOMAIN s.grid[i]
            /\ \A j \in DOMAIN s.grid[i] : Shown(s)[i][j] = CellAt(s, i, j)
  BY ShownIs DEF IsSheet
<1>3. /\ Width(s.grid) \in Nat
      /\ \A i \in 1 .. n :
            /\ Len(s.grid[i]) \in Nat /\ Len(s.grid[i]) <= Width(s.grid)
            /\ DOMAIN s.grid[i] = 1 .. Len(s.grid[i])
            /\ s.grid[i] \in Seq(Texts)
  <2>1. s.grid \in Seq(Seq(Texts))
    BY DEF IsSheet, Grid, Texts
  <2>2. \A i \in 1 .. n : s.grid[i] \in Seq(Texts)
    BY <1>1, <2>1
  <2>3. \A i \in 1 .. n : DOMAIN s.grid[i] = 1 .. Len(s.grid[i])
    BY <2>2
  <2> QED
    BY <1>1, <2>1, <2>2, <2>3, WidthIs
<1>4. grid = [i \in DOMAIN Shown(s) |-> [j \in 1 .. w |-> Cell(Shown(s)[i], j)]]
  BY Zenon DEF SheetGrid, Shown, Upper, LastRow, WidthOf, FilledIn
<1>5. \A i \in 1 .. l : FilledIn(Shown(s), i) = Filled(s, i)
  <2> SUFFICES ASSUME NEW i \in 1 .. l
               PROVE  FilledIn(Shown(s), i) = Filled(s, i)
    OBVIOUS
  <2>1. /\ DOMAIN Shown(s)[i] = DOMAIN s.grid[i]
        /\ \A j \in DOMAIN s.grid[i] : Shown(s)[i][j] = CellAt(s, i, j)
    BY <1>2
  <2> QED
    BY <2>1 DEF FilledIn, Filled
<1>6. \A i \in 1 .. l : Filled(s, i) \subseteq 1 .. Len(s.grid[i])
                        /\ i \in 1 .. n
  BY <1>1, <1>3 DEF Filled
<1> DEFINE S == {0} \cup UNION {FilledIn(Shown(s), i) : i \in DOMAIN Shown(s)}
<1> HIDE DEF l, n
<1>7. \A j \in S : j = 0 \/ \E i \in 1 .. l : j \in Filled(s, i)
  BY <1>2, <1>5
<1>8. \A i \in 1 .. l : \A j \in Filled(s, i) : j \in S
  BY <1>2, <1>5
<1>9. S \in SUBSET Nat /\ S # {} /\ \A j \in S : j <= Width(s.grid)
  <2>1. 0 \in S
    OBVIOUS
  <2> HIDE DEF S
  <2>2. ASSUME NEW j \in S PROVE j \in Nat /\ j <= Width(s.grid)
    <3>1. CASE j = 0
      BY <1>3, <3>1
    <3>2. ASSUME NEW i \in 1 .. l, j \in Filled(s, i)
          PROVE  j \in Nat /\ j <= Width(s.grid)
      <4>1. j \in 1 .. Len(s.grid[i]) /\ i \in 1 .. n
        BY <1>6, <3>2
      <4> QED
        BY <1>3, <4>1
    <3> QED
      BY <1>7, <3>1, <3>2
  <2> QED
    BY <2>1, <2>2
<1>10. w = Max(S) /\ Max(S) \in S /\ \A j \in S : j <= Max(S)
  <2>1. w = Max(S)
    BY DEF WidthOf
  <2> HIDE DEF S, w
  <2> QED
    BY <1>3, <1>9, <2>1, MaxIs
<1> HIDE DEF S, w
<1>11. w \in 0 .. Width(s.grid) /\ w \in Nat
  <2>1. w \in S
    BY <1>10
  <2>2. w \in Nat /\ w <= Width(s.grid)
    BY <1>9, <2>1
  <2> QED
    BY <1>3, <2>2
<1>12. DOMAIN grid = 1 .. l /\ Len(grid) = l
       /\ \A i \in 1 .. l : grid[i] = [j \in 1 .. w |-> Cell(Shown(s)[i], j)]
  <2>1. DOMAIN grid = 1 .. l
        /\ \A i \in 1 .. l : grid[i] = [j \in 1 .. w |-> Cell(Shown(s)[i], j)]
    BY <1>2, <1>4
  <2>2. l \in Nat
    BY <1>1
  <2> HIDE DEF grid
  <2> QED
    BY <2>1, <2>2
<1> HIDE DEF grid
<1>13. ASSUME NEW i \in 1 .. l
       PROVE  /\ DOMAIN grid[i] = 1 .. w /\ Len(grid[i]) = w
              /\ \A j \in 1 .. w :
                    grid[i][j] = CellAt(s, i, j) /\ Text(grid[i][j])
              /\ \A j : j \in Filled(s, i) <=>
                           j \in 1 .. w /\ ~ IsBlank(CellAt(s, i, j))
  <2> DEFINE row == Shown(s)[i]
             m == Len(s.grid[i])
  <2>1. i \in 1 .. n /\ m \in Nat /\ DOMAIN s.grid[i] = 1 .. m
        /\ s.grid[i] \in Seq(Texts)
    BY <1>3, <1>6
  <2>2. DOMAIN row = 1 .. m
        /\ \A j \in 1 .. m : row[j] = CellAt(s, i, j)
    BY <1>2, <2>1
  <2>3. Len(row) = m
    <3> HIDE DEF row, m
    <3> QED
      BY <2>1, <2>2
  <2>4. ASSUME NEW j \in Nat \ {0} PROVE Cell(row, j) = CellAt(s, i, j)
    <3>1. CASE j <= m
      <4>1. j \in 1 .. m
        BY <2>1, <3>1
      <4> QED
        BY <2>2, <2>3, <3>1, <4>1 DEF Cell
    <3>2. CASE ~ (j <= m)
      <4>1. Cell(row, j) = Null
        BY <2>3, <3>2 DEF Cell
      <4>2. j \notin DOMAIN s.grid[i]
        BY <2>1, <3>2
      <4>3. CellAt(s, i, j) = Cell(s.grid[i], j)
        BY <4>2 DEF CellAt
      <4>4. Cell(s.grid[i], j) = Null
        BY <2>1, <4>2, CellIs
      <4> QED
        BY <4>1, <4>3, <4>4
    <3> QED
      BY <3>1, <3>2
  <2>5. DOMAIN grid[i] = 1 .. w
        /\ \A j \in 1 .. w : grid[i][j] = CellAt(s, i, j)
    <3>1. grid[i] = [j \in 1 .. w |-> Cell(row, j)]
      BY <1>12
    <3>2. \A j \in 1 .. w : j \in Nat \ {0}
      BY <1>11
    <3> HIDE DEF row
    <3> QED
      BY <2>4, <3>1, <3>2
  <2>6. Len(grid[i]) = w
    BY <1>11, <2>5
  <2>7. \A j \in 1 .. w : Text(CellAt(s, i, j))
    BY <1>11, <2>1, TextsShown DEF n
  <2>8. ASSUME NEW j
        PROVE  j \in Filled(s, i) <=> j \in 1 .. w /\ ~ IsBlank(CellAt(s, i, j))
    <3>1. ASSUME j \in Filled(s, i)
          PROVE  j \in 1 .. w /\ ~ IsBlank(CellAt(s, i, j))
      <4>1. j \in 1 .. m /\ ~ IsBlank(CellAt(s, i, j))
        BY <2>1, <3>1 DEF Filled
      <4>2. j <= w
        BY <1>8, <1>10, <3>1
      <4> HIDE DEF m
      <4> QED
        BY <1>11, <2>1, <4>1, <4>2
    <3>2. ASSUME j \in 1 .. w, ~ IsBlank(CellAt(s, i, j))
          PROVE  j \in Filled(s, i)
      <4>1. j \in Nat \ {0} /\ Cell(row, j) = CellAt(s, i, j)
        BY <1>11, <2>4, <3>2
      <4>2. j <= m
        BY <2>3, <3>2, <4>1 DEF Cell, IsBlank
      <4>3. j \in 1 .. m
        BY <2>1, <4>1, <4>2
      <4> QED
        BY <2>1, <3>2, <4>3 DEF Filled
    <3> QED
      BY <3>1, <3>2
  <2> QED
    BY <2>5, <2>6, <2>7, <2>8
<1> QED
  BY <1>1, <1>3, <1>11, <1>12, <1>13 DEF GridShows, l, w, n, grid

LEMMA GridWidth ==
    ASSUME NEW s, GridShows(s), LastRow(s) # 0
    PROVE  Width(SheetGrid(s, config.unmerge)) = WidthOf(s)
<1> DEFINE grid == SheetGrid(s, config.unmerge)
           w == WidthOf(s)
           l == LastRow(s)
           S == {0} \cup {Len(grid[i]) : i \in DOMAIN grid}
<1>1. /\ w \in Nat /\ l \in Nat /\ DOMAIN grid = 1 .. l
      /\ \A i \in 1 .. l : Len(grid[i]) = w
  <2>1. LastRow(s) \in 0 .. Len(s.grid) /\ WidthOf(s) \in 0 .. Width(s.grid)
    BY DEF GridShows
  <2> QED
    BY <2>1 DEF GridShows
<1>2. 1 \in 1 .. l
  BY <1>1
<1>3. Width(grid) = Max(S)
  BY DEF Width
<1> HIDE DEF grid, w, l
<1>4. S = {0, w}
  BY <1>1, <1>2
<1>5. Max(S) \in S /\ \A i \in S : i <= Max(S)
  <2>1. S \in SUBSET Nat /\ S # {} /\ \A i \in S : i <= w
    BY <1>1, <1>4
  <2> HIDE DEF S
  <2> QED
    BY <1>1, <2>1, MaxIs
<1>6. Max(S) = w
  BY <1>1, <1>4, <1>5
<1> QED
  BY <1>3, <1>6 DEF grid, w

LEMMA SheetHeaded ==
    ASSUME setup.source = "workbook", NEW s, IsSheet(s),
           config.header \in Nat, config.header <= LastRow(s), LastRow(s) # 0
    PROVE  Headed(s)
<1> DEFINE grid == SheetGrid(s, config.unmerge)
<1>1. GridShows(s)
  BY GridIs
<1>2. ReadWidth(s) = WidthOf(s)
  BY <1>1, GridWidth DEF ReadWidth
<1>3. /\ WidthOf(s) \in 0 .. Width(s.grid) /\ Width(s.grid) \in Nat
      /\ LastRow(s) \in 0 .. Len(s.grid) /\ DOMAIN s.grid = 1 .. Len(s.grid)
  BY <1>1 DEF GridShows
<1>4. Len(s.grid) \in Nat
  BY DEF IsSheet, Grid
<1>5. HeaderRow = config.header
  BY DEF HeaderRow
<1>6. ASSUME NEW j \in 1 .. WidthOf(s)
      PROVE  /\ Cell(ReadHeader(s), j) = Cell(Heading(s), j)
             /\ Text(Cell(ReadHeader(s), j))
  <2>1. j \in Nat \ {0}
    BY <1>3
  <2>2. CASE config.header = 0
    <3>1. ReadHeader(s) = <<>> /\ Heading(s) = <<>>
      BY <1>5, <2>2 DEF ReadHeader, Heading
    <3>2. Cell(<<>>, j) = Null
      BY <2>1 DEF Cell
    <3> QED
      BY <3>1, <3>2 DEF Text, IsBlank
  <2>3. CASE config.header # 0
    <3> DEFINE h == config.header
    <3>1. h \in 1 .. LastRow(s) /\ h \in 1 .. Len(s.grid)
      BY <1>3, <1>4, <2>3
    <3>2. ReadHeader(s) = grid[h]
      BY <2>3 DEF ReadHeader
    <3>3. Cell(Heading(s), j) = CellAt(s, h, j)
      <4>1. s.grid \in Grid
        BY DEF IsSheet
      <4> QED
        BY <1>3, <1>5, <2>1, <2>3, <3>1, <4>1, HeadingIs
    <3>4. Len(grid[h]) = WidthOf(s) /\ grid[h][j] = CellAt(s, h, j)
          /\ Text(grid[h][j])
      BY <1>1, <3>1 DEF GridShows
    <3>5. Cell(grid[h], j) = grid[h][j]
      BY <1>3, <3>4 DEF Cell
    <3> QED
      BY <3>2, <3>3, <3>4, <3>5
  <2> QED
    BY <2>2, <2>3
<1> QED
  BY <1>2, <1>3, <1>6 DEF Headed

\* What a row of a worksheet is before the file's columns come to it.
Raw(s, n) == [number |-> n, sheet |-> s.name,
              cells |-> [c \in Range(ReadColumns(s)) |->
                           SheetGrid(s, config.unmerge)[n]
                              [Position(ReadColumns(s), c)]]]

SheetReads(s, n) ==
    LET row == ReadRow(s, n)
        columns == ReadColumns(s)
    IN  /\ row = Stamped(Raw(s, n))
        /\ row.sheet = s.name /\ row.number = n
        /\ DOMAIN Raw(s, n).cells = Range(columns)
        /\ config.key \subseteq Range(columns) =>
              \A k \in config.key :
                 /\ Raw(s, n).cells[k] = KeyOf(s, n)[k]
                 /\ k \in DOMAIN row.cells
                 /\ row.cells[k] = KeyOf(s, n)[k]
        /\ \A j \in Filled(s, n) : Kept(s, j) =>
              /\ j \in DOMAIN columns
              /\ columns[j] \in DOMAIN row.cells
              /\ row.cells[columns[j]] = CellAt(s, n, j)

LEMMA SheetRow ==
    ASSUME setup.source = "workbook", NEW s, IsSheet(s),
           GridShows(s), ColumnsPlaced(s), ReadWidth(s) = WidthOf(s),
           NEW n \in 1 .. LastRow(s),
           \A k \in config.key : k \notin FileColumns
    PROVE  SheetReads(s, n)
<1> DEFINE columns == ReadColumns(s)
           w == WidthOf(s)
           line == SheetGrid(s, config.unmerge)[n]
           raw == Raw(s, n)
           row == ReadRow(s, n)
<1>1. row = Stamped(raw)
  BY DEF ReadRow, Raw
<1>2. /\ raw.number = n /\ raw.sheet = s.name
      /\ raw.cells = [c \in Range(columns) |-> line[Position(columns, c)]]
  BY DEF Raw
<1>3. /\ row.number = n /\ row.sheet = s.name
      /\ row.cells = [c \in DOMAIN raw.cells |->
                        IF c \in FileColumns THEN Stamp(raw, c)
                        ELSE raw.cells[c]]
  <2>1. raw = [number |-> raw.number, sheet |-> raw.sheet,
               cells |-> raw.cells]
    BY DEF Raw
  <2> HIDE DEF raw
  <2> QED
    BY <1>1, <1>2, <2>1 DEF Stamped
<1>4. /\ DOMAIN columns = 1 .. w
      /\ \A j \in 1 .. w : /\ Position(columns, columns[j]) = j
                           /\ columns[j] \in FileColumns => ~ Kept(s, j)
  BY DEF ColumnsPlaced
<1>4a. \A k \in Range(columns) :
          Position(columns, k) = KeyAt(s, k) /\ KeyAt(s, k) \in 1 .. w
  BY DEF ColumnsPlaced
<1>5. \A j \in 1 .. w : line[j] = CellAt(s, n, j)
  BY DEF GridShows
<1>6. \A j \in Filled(s, n) : j \in 1 .. w
  BY DEF GridShows
<1>7. \A k \in config.key : KeyOf(s, n)[k] = CellAt(s, n, KeyAt(s, k))
  BY DEF KeyOf
<1>8. \A j \in 1 .. w : columns[j] \in Range(columns)
  BY <1>4 DEF Range
<1> HIDE DEF columns, w, line, raw, row
<1>9. \A j \in Filled(s, n) : Kept(s, j) =>
         /\ j \in DOMAIN columns
         /\ columns[j] \in DOMAIN row.cells
         /\ row.cells[columns[j]] = CellAt(s, n, j)
  <2> SUFFICES ASSUME NEW j \in Filled(s, n), Kept(s, j)
               PROVE  /\ j \in DOMAIN columns
                      /\ columns[j] \in DOMAIN row.cells
                      /\ row.cells[columns[j]] = CellAt(s, n, j)
    OBVIOUS
  <2>1. j \in 1 .. w /\ columns[j] \notin FileColumns
    BY <1>4, <1>6
  <2>2. raw.cells[columns[j]] = CellAt(s, n, j)
    BY <1>2, <1>4, <1>5, <1>8, <2>1
  <2> QED
    BY <1>2, <1>3, <1>4, <1>8, <2>1, <2>2
<1>10. ASSUME config.key \subseteq Range(columns), NEW k \in config.key
       PROVE  /\ raw.cells[k] = KeyOf(s, n)[k]
              /\ k \in DOMAIN row.cells
              /\ row.cells[k] = KeyOf(s, n)[k]
  <2>1. raw.cells[k] = line[KeyAt(s, k)] /\ KeyAt(s, k) \in 1 .. w
    <3>1. k \in Range(columns)
      BY <1>10
    <3>2. Position(columns, k) = KeyAt(s, k) /\ KeyAt(s, k) \in 1 .. w
      BY <1>4a, <3>1, Zenon
    <3> QED
      BY <1>2, <3>1, <3>2
  <2>2. raw.cells[k] = KeyOf(s, n)[k]
    BY <1>5, <1>7, <1>10, <2>1
  <2> QED
    BY <1>2, <1>3, <1>10, <2>2
<1>11. DOMAIN raw.cells = Range(columns)
  BY <1>2
<1> QED
  BY <1>1, <1>3, <1>9, <1>10, <1>11 DEF SheetReads, columns, raw, row

\* The rows of a worksheet are those of what it shows.
LEMMA SheetEntered ==
    ASSUME setup.source = "workbook", NEW s, GridShows(s),
           WorkbookValid(config), NEW n
    PROVE  n \in Entered(s) <=>
              /\ n \in config.header + config.skip + 1 .. LastRow(s)
              /\ \E j \in 1 .. WidthOf(s) : ~ IsBlank(CellAt(s, n, j))
<1> DEFINE first == config.header + config.skip + 1
<1>1. config.header \in Nat /\ config.skip \in Nat
  BY DEF WorkbookValid
<1>2. HeaderRow + SkippedRows = first - 1 /\ first \in Nat \ {0}
  BY <1>1 DEF HeaderRow, SkippedRows
<1>3. LastRow(s) \in Nat /\ DOMAIN s.grid = 1 .. Len(s.grid)
      /\ LastRow(s) <= Len(s.grid) /\ Len(s.grid) \in Int
      /\ \A i \in DOMAIN s.grid : EnteredBelow(s, i) <=> i <= LastRow(s)
  <2>1. LastRow(s) \in 0 .. Len(s.grid) /\ DOMAIN s.grid = 1 .. Len(s.grid)
        /\ Len(s.grid) \in Int
    <3>1. Len(SheetGrid(s, config.unmerge)) = LastRow(s)
      BY DEF GridShows
    <3> QED
      BY DEF GridShows
  <2> QED
    BY <2>1 DEF GridShows
<1>4. \A i \in 1 .. LastRow(s) : Filled(s, i) # {} <=>
         \E j \in 1 .. WidthOf(s) : ~ IsBlank(CellAt(s, i, j))
  BY DEF GridShows
<1>5. n \in DOMAIN s.grid /\ n > first - 1 /\ EnteredBelow(s, n) <=>
         n \in first .. LastRow(s)
  BY <1>2, <1>3
<1>6. n \in first .. LastRow(s) => n \in 1 .. LastRow(s)
  BY <1>2, <1>3
<1> QED
  BY <1>2, <1>4, <1>5, <1>6 DEF Entered

\* The records that a worksheet is read as.
LEMMA SheetIsRead ==
    ASSUME setup.source = "workbook", NEW s, GridShows(s),
           WorkbookValid(config), NEW r
    PROVE  r \in SheetRecords(s, SheetGrid(s, config.unmerge), config) <=>
              \E n \in Entered(s) : r = Raw(s, n)
<1> DEFINE grid == SheetGrid(s, config.unmerge)
           columns == ReadColumns(s)
           first == config.header + config.skip + 1
           lines == {m \in first .. Len(grid) :
                       \E j \in DOMAIN grid[m] : ~ IsBlank(grid[m][j])}
<1>1. columns = ColumnNames(IF config.header = 0 THEN <<>>
                            ELSE grid[config.header], Width(grid), {})
  BY DEF ReadColumns, ReadHeader, ReadWidth, Reserved
<1>2. SheetRecords(s, grid, config) = {Raw(s, n) : n \in lines}
  <2> DEFINE names == ColumnNames(IF config.header = 0 THEN <<>>
                                  ELSE grid[config.header], Width(grid), {})
  <2>1. SheetRecords(s, grid, config) =
           {[number |-> n, sheet |-> s.name,
             cells |-> [c \in Range(names) |->
                          grid[n][Position(names, c)]]] : n \in lines}
    BY Zenon DEF SheetRecords
  <2>2. names = columns
    BY <1>1
  <2>3. \A n : Raw(s, n) =
           [number |-> n, sheet |-> s.name,
            cells |-> [c \in Range(columns) |->
                         grid[n][Position(columns, c)]]]
    BY DEF Raw
  <2> HIDE DEF names, columns, lines, grid
  <2> QED
    BY <2>1, <2>2, <2>3
<1>3. Len(grid) = LastRow(s) /\ config.header \in Nat /\ config.skip \in Nat
      /\ LastRow(s) \in 0 .. Len(s.grid)
      /\ \A i \in 1 .. LastRow(s) :
            /\ DOMAIN grid[i] = 1 .. WidthOf(s)
            /\ \A j \in 1 .. WidthOf(s) : grid[i][j] = CellAt(s, i, j)
  BY DEF GridShows, WorkbookValid
<1>4. \A n : n \in lines <=> n \in Entered(s)
  <2> SUFFICES ASSUME NEW n PROVE n \in lines <=> n \in Entered(s)
    OBVIOUS
  <2>1. n \in first .. LastRow(s) => n \in 1 .. LastRow(s)
    BY <1>3
  <2>2. n \in Entered(s) <=>
           /\ n \in first .. LastRow(s)
           /\ \E j \in 1 .. WidthOf(s) : ~ IsBlank(CellAt(s, n, j))
    BY SheetEntered
  <2> HIDE DEF first, grid
  <2> QED
    BY <1>3, <2>1, <2>2
<1> HIDE DEF lines
<1> QED
  BY <1>2, <1>4 DEF grid

Selected == SelectSheets(content, config)
Used == {s \in Selected : SheetGrid(s, config.unmerge) # <<>>}

\* What a workbook has to be to be read.
LEMMA BookIsRead ==
    ASSUME WorksheetRecords(content, config).ok
    PROVE  /\ content # Null
           /\ \A s \in Used :
                 ~ (config.header > Len(SheetGrid(s, config.unmerge)))
           /\ WorksheetRecords(content, config).rows =
                 UNION {SheetRecords(s, SheetGrid(s, config.unmerge), config) :
                          s \in Used}
<1> DEFINE read == WorksheetRecords(content, config)
           grid == [s \in Selected |-> SheetGrid(s, config.unmerge)]
           used == {s \in Selected : grid[s] # <<>>}
<1>1. read = IF \/ content = Null
                \/ \E n \in config.sheets : \A s \in content : s.name # n
                \/ \E s \in used : config.header > Len(grid[s])
             THEN [ok |-> FALSE, rows |-> {}]
             ELSE [ok |-> TRUE,
                   rows |-> UNION {SheetRecords(s, grid[s], config) :
                                     s \in used}]
  BY Zenon DEF WorksheetRecords, Selected
<1>2. \A s \in Selected : grid[s] = SheetGrid(s, config.unmerge)
  OBVIOUS
<1>3. used = Used
  BY <1>2 DEF Used
<1> HIDE DEF read, grid, used
<1>4. /\ content # Null
      /\ \A s \in used : ~ (config.header > Len(grid[s]))
      /\ read.rows = UNION {SheetRecords(s, grid[s], config) : s \in used}
  BY <1>1 DEF read
<1>5. \A s \in used : grid[s] = SheetGrid(s, config.unmerge)
  BY <1>2, <1>3 DEF Used
<1>6. {SheetRecords(s, grid[s], config) : s \in used} =
         {SheetRecords(s, SheetGrid(s, config.unmerge), config) : s \in Used}
  BY <1>3, <1>5
<1> QED
  BY <1>3, <1>4, <1>5, <1>6 DEF read

LEMMA BookReadAs ==
    ASSUME setup.source = "workbook", content = Null \/ IsWorkbook(content),
           WorkbookValid(config), Parsed(config).ok,
           \A k \in config.key : k \notin FileColumns
    PROVE  ReadAs(Parsed(config).rows)
<1> DEFINE read == WorksheetRecords(content, config)
           rows == Parsed(config).rows
           blank == {r \in read.rows :
                       \E k \in config.key : IsBlank(r.cells[k])}
<1>1. /\ read.ok
      /\ \A r \in read.rows : config.key \subseteq DOMAIN r.cells
      /\ rows = {Stamped(r) : r \in read.rows \ blank}
  <2>1. Parsed(config) =
           IF \/ ~ read.ok
              \/ \E r \in read.rows : ~ config.key \subseteq DOMAIN r.cells
              \/ blank # {} /\ config.missing = "error"
           THEN [ok |-> FALSE, rows |-> {}]
           ELSE [ok |-> TRUE, rows |-> {Stamped(r) : r \in read.rows \ blank}]
    <3>1. Parsed(config) = RowsForWorkbook(content, config)
      BY DEF Parsed
    <3> QED
      BY <3>1, Zenon DEF RowsForWorkbook
  <2> HIDE DEF read, blank
  <2> QED
    BY <2>1
<1>2. /\ content # Null
      /\ \A s \in Used : ~ (config.header > Len(SheetGrid(s, config.unmerge)))
      /\ read.rows = UNION {SheetRecords(s, SheetGrid(s, config.unmerge),
                                         config) : s \in Used}
  BY <1>1, BookIsRead
<1>3. Selected = Sheets
  BY DEF Selected, SelectSheets, Sheets
<1>4. /\ \A s \in Sheets : IsSheet(s)
      /\ \A s, t \in Sheets : s.name = t.name => s = t
  <2>1. IsWorkbook(content) /\ Sheets \subseteq content
    BY <1>2 DEF Sheets
  <2> QED
    BY <2>1 DEF IsWorkbook, IsSheet
<1>5. \A s \in Sheets : GridShows(s)
  BY <1>4, GridIs
<1>6. ASSUME NEW s \in Sheets, LastRow(s) # 0
      PROVE  /\ s \in Used /\ ColumnsRead(s)
             /\ \A n \in 1 .. LastRow(s) : SheetReads(s, n)
  <2>1. GridShows(s) /\ IsSheet(s)
    BY <1>4, <1>5
  <2>2. Len(SheetGrid(s, config.unmerge)) = LastRow(s) /\ LastRow(s) \in Int
    BY <2>1 DEF GridShows
  <2>3. s \in Used
    <3> DEFINE grid == SheetGrid(s, config.unmerge)
    <3>1. grid # <<>>
      <4> HIDE DEF grid
      <4>1. Len(grid) # 0
        BY <1>6, <2>2 DEF grid
      <4> QED
        BY <4>1
    <3> QED
      BY <1>3, <3>1 DEF Used
  <2>4. config.header \in Nat /\ config.header <= LastRow(s)
    BY <1>2, <2>2, <2>3 DEF WorkbookValid
  <2>5. Headed(s)
    BY <1>6, <2>1, <2>4, SheetHeaded
  <2>6. ColumnsPlaced(s)
    BY <2>5, ColumnsAre
  <2>7. ReadWidth(s) = WidthOf(s)
    BY <1>6, <2>1, GridWidth DEF ReadWidth
  <2> QED
    BY <2>1, <2>3, <2>5, <2>6, <2>7, PlacedRead, SheetRow
<1>7. \A s \in Sheets : \A n \in Entered(s) :
         n \in 1 .. LastRow(s) /\ LastRow(s) # 0
  <2> SUFFICES ASSUME NEW s \in Sheets, NEW n \in Entered(s)
               PROVE  n \in 1 .. LastRow(s) /\ LastRow(s) # 0
    OBVIOUS
  <2>1. n \in config.header + config.skip + 1 .. LastRow(s)
    BY <1>5, SheetEntered
  <2>2. config.header \in Nat /\ config.skip \in Nat
    BY DEF WorkbookValid
  <2>3. LastRow(s) \in Int
    BY <1>5 DEF GridShows
  <2> QED
    BY <2>1, <2>2, <2>3
<1>8. \A r : r \in read.rows <=>
         \E s \in Sheets : \E n \in Entered(s) : r = Raw(s, n)
  <2>1. \A s \in Sheets : \A r :
           r \in SheetRecords(s, SheetGrid(s, config.unmerge), config) <=>
              \E n \in Entered(s) : r = Raw(s, n)
    BY <1>5, SheetIsRead
  <2>2. Used \subseteq Sheets
    BY <1>3 DEF Used
  <2>3. \A s \in Sheets : \A n \in Entered(s) : s \in Used
    BY <1>6, <1>7
  <2> HIDE DEF read
  <2> QED
    BY <1>2, <2>1, <2>2, <2>3
<1>9. ASSUME NEW s \in Sheets, NEW n \in Entered(s)
      PROVE  /\ ColumnsRead(s) /\ SheetReads(s, n)
             /\ config.key \subseteq Range(ReadColumns(s))
             /\ Raw(s, n) \in read.rows
             /\ Raw(s, n) \in blank <=> ~ Keyed(s, n)
             /\ ReadRow(s, n) = Stamped(Raw(s, n))
  <2>1. ColumnsRead(s) /\ SheetReads(s, n)
    BY <1>6, <1>7
  <2>2. Raw(s, n) \in read.rows
    BY <1>8
  <2>3. config.key \subseteq Range(ReadColumns(s))
    BY <1>1, <2>1, <2>2 DEF SheetReads
  <2>4. \A k \in config.key : Raw(s, n).cells[k] = KeyOf(s, n)[k]
    BY <2>1, <2>3 DEF SheetReads
  <2>5. (\E k \in config.key : IsBlank(Raw(s, n).cells[k])) <=> ~ Keyed(s, n)
    BY <2>4 DEF Keyed
  <2>6. ReadRow(s, n) = Stamped(Raw(s, n))
    BY <2>1 DEF SheetReads
  <2> HIDE DEF read
  <2>7. Raw(s, n) \in blank <=> ~ Keyed(s, n)
    BY <2>2, <2>5
  <2> QED
    BY <2>1, <2>2, <2>3, <2>6, <2>7
<1>10. \A s \in Sheets : \A n \in Entered(s) : Keyed(s, n) => RowRead(s, n)
  BY <1>9 DEF SheetReads, RowRead
<1>11. \A s \in Sheets : Entered(s) # {} => ColumnsRead(s)
  BY <1>9
<1> HIDE DEF read, blank, rows
<1>12. \A r : r \in rows <=> \E s \in Sheets : \E n \in Entered(s) :
                                Keyed(s, n) /\ r = ReadRow(s, n)
  <2>1. ASSUME NEW r \in rows
        PROVE  \E s \in Sheets : \E n \in Entered(s) :
                  Keyed(s, n) /\ r = ReadRow(s, n)
    <3>1. PICK q \in read.rows \ blank : r = Stamped(q)
      BY <1>1, <2>1
    <3>2. PICK s \in Sheets : \E n \in Entered(s) : q = Raw(s, n)
      BY <1>8, <3>1
    <3>3. PICK n \in Entered(s) : q = Raw(s, n)
      BY <3>2
    <3> QED
      BY <1>9, <3>1, <3>3
  <2>2. ASSUME NEW s \in Sheets, NEW n \in Entered(s), Keyed(s, n)
        PROVE  ReadRow(s, n) \in rows
    BY <1>1, <1>9, <2>2
  <2> QED
    BY <2>1, <2>2
<1> QED
  BY <1>4, <1>10, <1>11, <1>12 DEF ReadAs, rows

\* What is landed is what whoever looks at the sheets sees there.
THEOREM SheetLanded == Spec => []LandsTheSheet
<1>1. Chosen /\ ShowsContent => LandsTheSheet
  <2> SUFFICES ASSUME Chosen, ShowsContent,
                      since = "landed", setup.source # "soql",
                      ~ (stale /\ Unchanged /\ Skips(config)),
                      setup.source = "workbook" =>
                         config.key \cap FileColumns = {}
               PROVE  LandsTheSheet
    BY DEF LandsTheSheet
  <2>1. TableShows
    BY DEF ShowsContent
  <2>2. setup.source \in {"sheets", "workbook"}
    BY FetchingAssumption DEF Chosen
  <2>4. CASE setup.source = "sheets"
    <3>1. content \in Grid
      BY <2>4, ContentsAssumption DEF Chosen
    <3> QED
      BY <2>1, <2>4, <3>1, RangeReadAs, RowsShown
         DEF TableShows, LandsTheSheet
  <2>5. CASE setup.source = "workbook"
    <3>1. content = Null \/ IsWorkbook(content)
      BY <2>5, ContentsAssumption DEF Chosen
    <3>2. WorkbookValid(config)
      BY <2>1, <2>5 DEF TableShows, Valid
    <3>3. ReadAs(Parsed(config).rows)
      BY <2>1, <2>5, <3>1, <3>2, BookReadAs DEF TableShows
    <3> QED
      BY <2>1, <3>3, RowsShown DEF TableShows, LandsTheSheet
  <2> QED
    BY <2>2, <2>4, <2>5
<1>2. Init => Chosen
  BY DEF Init, Chosen
<1> QED
  BY <1>1, <1>2, ChosenStep, ContentLanded, PTL DEF Spec
==============================================================================
