-------------------------------- MODULE Sync --------------------------------
(***************************************************************************)
(* What every source does around its own feed: a provider whose items      *)
(* change, a Run that reads them into one load package, and the package    *)
(* loaded together with dlt's resource state, or neither of the two.       *)
(*                                                                         *)
(* The provider is the sequence of its changes.  An item's version is the  *)
(* position of its latest change, and a row of the landing table is the    *)
(* version it shows, 0 for a row that is absent or marked deleted.  One    *)
(* module per kind of feed adds what happens between Begin and Load;       *)
(* Sources composes them.                                                  *)
(***************************************************************************)
EXTENDS Naturals, Sequences, FiniteSets, FiniteSetsExt

CONSTANTS Kinds,       \* the kinds of source
          Items,       \* files, folders, messages or records
          MaxChanges   \* bound: changes at the provider, for each kind

ASSUME SyncAssumption == IsFiniteSet(Items) /\ MaxChanges \in [Kinds -> Nat]

VARIABLES
    \* the provider
    log,     \* its changes: item (id), place or stamp (at), gone
    floor,   \* it serves no history from before this position
    \* the Binding
    kind,    \* which source it names
    conf,    \* the scope its configuration names
    res,     \* dlt's resource state, as the last load left it
    table,   \* the version each item's row shows
    job,     \* the Run that is reading, and its package
    \* history
    tied,    \* items whose row was picked among several of one package
    missed   \* items whose row what was read since cannot have corrected

vars == <<log, floor, kind, conf, res, table, job, tied, missed>>
hostVars == <<log, floor, kind>>
landed == <<res, table, tied, missed>>

\* What f says, and g where f says nothing.
Over(f, g) ==
    [x \in DOMAIN f \cup DOMAIN g |-> IF x \in DOMAIN f THEN f[x] ELSE g[x]]

Now == Len(log)
Versions == 0 .. MaxChanges[kind]
Idle == [pc |-> "idle"]
Reading(k, pc) == kind = k /\ job.pc = pc

\* The position of i's latest change up to m; 0 if there is none.
LastOf(i, m) == Max({0} \cup {n \in 1 .. m : log[n].id = i})
Entry(i, m) == log[LastOf(i, m)]
Alive(i, m) == LastOf(i, m) # 0 /\ ~ Entry(i, m).gone
Changed(i, from) == LastOf(i, Now) > from

\* A record read now, and a tombstone.
Record(i) == <<i, LastOf(i, Now)>>
Tombstone(i) == <<i, 0>>

-----------------------------------------------------------------------------
(* The provider *)

Change(i, at, gone) ==
    /\ Now < MaxChanges[kind]
    /\ log' = Append(log, [id |-> i, at |-> at, gone |-> gone])
    /\ UNCHANGED <<floor, kind, conf, landed, job>>

\* A delta link, a page token, a history id or the recycle bin expires.  A
\* feed that expires between two Runs is as good as one that does so when the
\* next has begun.  Databases, plain APIs and files keep none.
Expire ==
    /\ kind \notin {"sql", "rest", "bucket"}
    /\ floor < Now
    /\ job = Idle => kind = "soql"
    /\ floor' = Now
    /\ UNCHANGED <<log, kind, conf, landed, job>>

-----------------------------------------------------------------------------
(* A Run *)

\* build_source: the resource starts from the loaded state.
Begin(start) ==
    /\ job = Idle
    /\ job' = Over(start, [batch |-> {}, res |-> res, scope |-> conf])
    /\ UNCHANGED <<hostVars, conf, landed>>

\* The resource goes on; what it yielded so far is in its batch.
Go(next) ==
    /\ \E fields \in {next} : job' = Over(fields, job)
    /\ UNCHANGED <<hostVars, conf, landed>>

Yield(rows) == job.batch \cup rows

\* The resource is exhausted, having yielded the last rows; for the items in
\* unseen it would have yielded nothing, whatever became of them.
Finish(state, rows, unseen) ==
    /\ job' = [pc |-> "extracted", batch |-> Yield(rows), res |-> state,
               scope |-> job.scope, unseen |-> unseen]
    /\ UNCHANGED <<hostVars, conf, landed>>

Picks == {b[1] : b \in job.batch}

Of(i) == {b \in job.batch : b[1] = i}
Stamp(version) == log[version].at
Newest(i) == {b \in Of(i) : \A c \in Of(i) : Stamp(c[2]) <= Stamp(b[2])}

\* Mutant: no dedup_sort hint for any cursor.
NoHint == FALSE

\* _dedup_sort_column: rows of one item in one package are ordered by a cursor
\* that is a column; nothing orders those of a feed, or of a cursor that is a
\* JSONPath.
Sorted == kind = "rest" /\ job.scope = "column"
Candidates(i) == IF Sorted THEN Newest(i) ELSE Of(i)

\* Rows that nothing at all tells apart.
Ties(i) == Cardinality(IF kind = "rest" /\ job.scope = "column"
                       THEN Newest(i) ELSE Of(i)) > 1

\* dlt's merge: rows and resource state become visible together, and of the
\* candidates any one is kept.
Load ==
    /\ job.pc = "extracted"
    /\ \E pick \in [Picks -> Versions] :
          /\ \A i \in Picks : <<i, pick[i]>> \in Candidates(i)
          /\ table' = Over(pick, table)
    /\ tied' = (tied \ Picks) \cup {i \in Picks : Ties(i)}
    /\ res' = job.res
    /\ missed' = (missed \ Picks) \cup job.unseen
    /\ job' = Idle
    /\ UNCHANGED <<hostVars, conf>>

\* An exception, a kill, or a working directory that is lost.
Fail ==
    /\ job # Idle
    /\ job' = Idle
    /\ UNCHANGED <<hostVars, conf, landed>>

\* The Binding is pointed at another folder or drive.  A Run that is reading
\* has its scope: it is as good as after it.
Repoint(s) ==
    /\ job = Idle
    /\ conf # s
    /\ conf' = s
    /\ UNCHANGED <<hostVars, landed, job>>
=============================================================================
