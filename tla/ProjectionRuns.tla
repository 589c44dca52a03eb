--------------------------- MODULE ProjectionRuns ---------------------------
(***************************************************************************)
(* The ProjectionRuns of one Projection: services/projections.py           *)
(* (dispatch_after_run, the sweeper, retry, replay, update_mapping) and    *)
(* projections/runner.py (execute, dispatch_pending), run by workers that  *)
(* share nothing but the rows.                                             *)
(*                                                                         *)
(* A call works on the Projection object it loaded, so each worker keeps   *)
(* the mapping version of its copy (snap); a status is written back by a   *)
(* plain save except in the claim.  The rows a load landed are one unit:   *)
(* writing them is one batch handed to the target.                         *)
(***************************************************************************)
EXTENDS Naturals, FiniteSets

CONSTANTS Workers,      \* processes that execute, dispatch and sweep
          MaxRows,      \* bound: ProjectionRun rows
          MaxLoads,     \* bound: loads the Binding lands
          MaxVersions,  \* bound: mapping versions
          MaxRequests,  \* bound: retries and replays asked for
          MaxFaults     \* bound: failures, kills, redeliveries and live
                        \* executions that outlast the timeout

ASSUME ProjectionAssumption ==
    /\ MaxRows \in Nat
    /\ MaxLoads \in Nat
    /\ MaxVersions \in Nat \ {0}
    /\ MaxRequests \in Nat
    /\ MaxFaults \in Nat

Rows == 1 .. MaxRows
Loads == 1 .. MaxLoads
NoRow == 0

VARIABLES
    version,   \* Projection.version
    active,    \* Projection.enabled and status ACTIVE
    landed,    \* load ids of the Binding's succeeded Runs
    status,    \* ProjectionRun.status, absent before the row exists
    pversion,  \* ProjectionRun.projection_version
    loads,     \* ProjectionRun.load_ids
    full,      \* rows whose mode is FULL
    old,       \* rows past PROJECTION_QUEUE_GRACE, or DEFAULT_RUN_TIMEOUT
    sent,      \* rows the queue still has to deliver
    pc,        \* what each worker is doing
    cur,       \* the row it executes
    snap,      \* the version of the Projection object it holds
    left,      \* loads it has not written yet
    listed,    \* rows its reaping query returned and it has not treated
    todo,      \* load ids it is about to queue
    back,      \* where it goes after an execution: idle, or on reaping
    \* history
    claims,    \* how often each row was claimed
    wrote,     \* loads the execution of each row wrote
    host,      \* the mapping version the target last saw each load under
    requests, faults, overruns

projectionVars == <<version, active>>
rowVars == <<status, pversion, loads, full>>
workVars == <<pc, cur, snap, left, listed, todo, back>>
hostVars == <<wrote, host>>
countVars == <<requests, faults, overruns>>
vars == <<projectionVars, landed, rowVars, old, sent, workVars, claims,
          hostVars, countVars>>

ProjectionRunStatus ==
    {"absent", "queued", "running", "succeeded", "failed", "superseded"}
Terminal == {"succeeded", "failed", "superseded"}

TypeOK ==
    /\ version \in 1 .. MaxVersions
    /\ active \in BOOLEAN
    /\ landed \subseteq Loads
    /\ status \in [Rows -> ProjectionRunStatus]
    /\ pversion \in [Rows -> 0 .. MaxVersions]
    /\ loads \in [Rows -> SUBSET Loads]
    /\ full \subseteq Rows
    /\ old \subseteq Rows
    /\ sent \subseteq Rows
    /\ pc \in [Workers -> {"idle", "landed", "dispatch", "loaded", "running",
                           "rescue", "abandon", "create"}]
    /\ cur \in [Workers -> Rows \cup {NoRow}]
    /\ snap \in [Workers -> 0 .. MaxVersions]
    /\ left \in [Workers -> SUBSET Loads]
    /\ listed \in [Workers -> SUBSET Rows]
    /\ todo \in [Workers -> SUBSET Loads]
    /\ back \in [Workers -> {"idle", "rescue"}]
    /\ claims \in [Rows -> Nat]
    /\ wrote \in [Rows -> SUBSET Loads]
    /\ host \in [Loads -> 0 .. MaxVersions]
    /\ requests \in Nat
    /\ faults \in Nat
    /\ overruns \in Nat

Init ==
    /\ version = 1
    /\ active = TRUE
    /\ landed = {}
    /\ status = [r \in Rows |-> "absent"]
    /\ pversion = [r \in Rows |-> 0]
    /\ loads = [r \in Rows |-> {}]
    /\ full = {}
    /\ old = {}
    /\ sent = {}
    /\ pc = [w \in Workers |-> "idle"]
    /\ cur = [w \in Workers |-> NoRow]
    /\ snap = [w \in Workers |-> 0]
    /\ left = [w \in Workers |-> {}]
    /\ listed = [w \in Workers |-> {}]
    /\ todo = [w \in Workers |-> {}]
    /\ back = [w \in Workers |-> "idle"]
    /\ claims = [r \in Rows |-> 0]
    /\ wrote = [r \in Rows |-> {}]
    /\ host = [l \in Loads |-> 0]
    /\ requests = 0
    /\ faults = 0
    /\ overruns = 0

-----------------------------------------------------------------------------
Least(ids) == {i \in ids : \A j \in ids : i <= j}
NewRow == Least({r \in Rows : status[r] = "absent"})

Fault == faults < MaxFaults /\ faults' = faults + 1
Request == requests < MaxRequests /\ requests' = requests + 1

Set(f, w, value) == [f EXCEPT ![w] = value]

\* ProjectionRun.objects.create(...), QUEUED by default.
Create(r, v, ids, mode) ==
    /\ status' = Set(status, r, "queued")
    /\ pversion' = Set(pversion, r, v)
    /\ loads' = Set(loads, r, ids)
    /\ full' = IF mode = "full" THEN full \cup {r} ELSE full

\* The worker is about to execute row r with a Projection at version v.
Load(w, r, v) ==
    /\ pc' = Set(pc, w, "loaded")
    /\ cur' = Set(cur, w, r)
    /\ snap' = Set(snap, w, v)

\* execute returns: to the reaping loop it was called from, or for good.
Done(w) ==
    /\ pc' = Set(pc, w, back[w])
    /\ cur' = Set(cur, w, NoRow)
    /\ left' = Set(left, w, {})
    /\ UNCHANGED <<snap, listed, todo, back>>

\* Out of whatever the worker was doing.
Drop(w) ==
    /\ pc' = Set(pc, w, "idle")
    /\ cur' = Set(cur, w, NoRow)
    /\ snap' = Set(snap, w, 0)
    /\ left' = Set(left, w, {})
    /\ listed' = Set(listed, w, {})
    /\ todo' = Set(todo, w, {})
    /\ back' = Set(back, w, "idle")

-----------------------------------------------------------------------------
(* The mapping *)

\* update_mapping: the version and the verdict of validation in one
\* transaction.
UpdateMapping ==
    /\ version < MaxVersions
    /\ version' = version + 1
    /\ active' \in BOOLEAN
    /\ UNCHANGED <<landed, rowVars, old, sent, workVars, claims, hostVars,
                   countVars>>

ActivateProjection ==
    /\ ~ active
    /\ landed # {}
    /\ active' = TRUE
    /\ UNCHANGED <<version, landed, rowVars, old, sent, workVars, claims,
                   hostVars, countVars>>

-----------------------------------------------------------------------------
(* Queueing *)

\* A Run of the Binding is saved as succeeded, by this worker.
LandRun(w) ==
    /\ pc[w] = "idle"
    /\ \E l \in Least(Loads \ landed) :
          /\ landed' = landed \cup {l}
          /\ todo' = Set(todo, w, {l})
    /\ pc' = Set(pc, w, "landed")
    /\ UNCHANGED <<projectionVars, rowVars, old, sent, cur, snap, left, listed,
                   back, claims, hostVars, countVars>>

\* refresh_projection_drift: the schema of the Run may change the verdict.
RefreshDrift(w) ==
    /\ pc[w] = "landed"
    /\ active' \in BOOLEAN
    /\ pc' = Set(pc, w, "dispatch")
    /\ UNCHANGED <<version, landed, rowVars, old, sent, cur, snap, left, listed,
                   todo, back, claims, hostVars, countVars>>

\* dispatch_after_run, with PROJECTION_DISPATCH unset (executed here) or set.
DispatchAfterRun(w) ==
    /\ pc[w] = "dispatch"
    /\ todo' = Set(todo, w, {})
    /\ IF active
       THEN \E r \in NewRow :
               /\ Create(r, version, todo[w], "incremental")
               /\ \/ Load(w, r, version) /\ UNCHANGED sent
                  \/ /\ sent' = sent \cup {r}
                     /\ pc' = Set(pc, w, "idle")
                     /\ UNCHANGED <<cur, snap>>
       ELSE /\ pc' = Set(pc, w, "idle")
            /\ UNCHANGED <<rowVars, sent, cur, snap>>
    /\ UNCHANGED <<projectionVars, landed, old, left, listed, back, claims,
                   hostVars, countVars>>

\* execute_projection_run: the queue delivers a row id, and will again when the
\* acknowledgement is lost; the worker loads row and Projection.
Deliver(w, r) ==
    /\ pc[w] = "idle"
    /\ r \in sent
    /\ \/ sent' = sent \ {r} /\ UNCHANGED faults
       \/ UNCHANGED sent /\ Fault
    /\ Load(w, r, version)
    /\ UNCHANGED <<projectionVars, landed, rowVars, old, left, listed, todo,
                   back, claims, hostVars, requests, overruns>>

\* retry_projection_run
Retry(w, failed) ==
    /\ pc[w] = "idle"
    /\ status[failed] = "failed"
    /\ Request
    /\ \E r \in NewRow :
          /\ Create(r, version, loads[failed],
                    IF failed \in full THEN "full" ELSE "incremental")
          /\ Load(w, r, version)
    /\ UNCHANGED <<projectionVars, landed, old, sent, left, listed, todo, back,
                   claims, hostVars, faults, overruns>>

\* replay_projection: a FULL row carries no load ids.
Replay(w) ==
    /\ pc[w] = "idle"
    /\ Request
    /\ \E r \in NewRow : /\ Create(r, version, {}, "full")
                         /\ Load(w, r, version)
    /\ UNCHANGED <<projectionVars, landed, old, sent, left, listed, todo, back,
                   claims, hostVars, faults, overruns>>

-----------------------------------------------------------------------------
(* execute *)

\* Mutant: no version check.
NeverSuperseded(w) == FALSE

\* The row was queued against an older mapping than the one in hand.
Superseded(w) == pversion[cur[w]] < snap[w]

\* _finish(SUPERSEDED), whatever the row says by now.
Supersede(w) ==
    /\ pc[w] = "loaded"
    /\ Superseded(w)
    /\ status' = Set(status, cur[w], "superseded")
    /\ Done(w)
    /\ UNCHANGED <<projectionVars, landed, pversion, loads, full, old, sent,
                   claims, hostVars, countVars>>

\* Mutant: the claim by a save instead of an UPDATE from QUEUED.
ClaimBySave(w) ==
    /\ pc[w] = "loaded"
    /\ ~ Superseded(w)
    /\ status' = Set(status, cur[w], "running")
    /\ claims' = Set(claims, cur[w], claims[cur[w]] + 1)
    /\ left' = Set(left, w, loads[cur[w]])
    /\ pc' = Set(pc, w, "running")
    /\ UNCHANGED <<projectionVars, landed, pversion, loads, full, old, sent,
                   cur, snap, listed, todo, back, hostVars, countVars>>

\* The conditional UPDATE from QUEUED, and the scope _run reads.
Claim(w) ==
    /\ pc[w] = "loaded"
    /\ ~ Superseded(w)
    /\ status[cur[w]] = "queued"
    /\ status' = Set(status, cur[w], "running")
    /\ claims' = Set(claims, cur[w], claims[cur[w]] + 1)
    /\ old' = old \ {cur[w]}
    /\ left' = Set(left, w, IF cur[w] \in full THEN landed ELSE loads[cur[w]])
    /\ pc' = Set(pc, w, "running")
    /\ UNCHANGED <<projectionVars, landed, pversion, loads, full, sent, cur,
                   snap, listed, todo, back, hostVars, countVars>>

\* The UPDATE matched nothing: the row is returned as it is.
ClaimRefused(w) ==
    /\ pc[w] = "loaded"
    /\ ~ Superseded(w)
    /\ status[cur[w]] # "queued"
    /\ Done(w)
    /\ UNCHANGED <<projectionVars, landed, rowVars, old, sent, claims,
                   hostVars, countVars>>

\* The rows come ordered by load id; the target applies the batch.
Write(w) ==
    /\ pc[w] = "running"
    /\ \E l \in Least(left[w]) :
          /\ left' = Set(left, w, left[w] \ {l})
          /\ wrote' = Set(wrote, cur[w], wrote[cur[w]] \cup {l})
          /\ host' = Set(host, l, snap[w])
    /\ UNCHANGED <<projectionVars, landed, rowVars, old, sent, pc, cur, snap,
                   listed, todo, back, claims, countVars>>

\* Mutant: the last, partial batch is never handed to the target.
FinishUnflushed(w) ==
    /\ pc[w] = "running"
    /\ Cardinality(left[w]) <= 1
    /\ status' = Set(status, cur[w], "succeeded")
    /\ Done(w)
    /\ UNCHANGED <<projectionVars, landed, pversion, loads, full, old, sent,
                   claims, hostVars, countVars>>

\* _finish(SUCCEEDED)
Finish(w) ==
    /\ pc[w] = "running"
    /\ left[w] = {}
    /\ status' = Set(status, cur[w], "succeeded")
    /\ Done(w)
    /\ UNCHANGED <<projectionVars, landed, pversion, loads, full, old, sent,
                   claims, hostVars, countVars>>

\* A row, the mapping or the writer raises, or the worker is interrupted: both
\* are recorded, and an interrupt also ends the caller's loop.
Fail(w) ==
    /\ pc[w] = "running"
    /\ Fault
    /\ status' = Set(status, cur[w], "failed")
    /\ Done(w) \/ Drop(w)
    /\ UNCHANGED <<projectionVars, landed, pversion, loads, full, old, sent,
                   claims, hostVars, requests, overruns>>

-----------------------------------------------------------------------------
(* The sweeper: reap_stale_projection_runs, then dispatch_pending *)

\* QUEUED too long, loaded with their Projection by one query.
SelectDropped(w) ==
    /\ pc[w] = "idle"
    /\ listed' = Set(listed, w, {r \in old : status[r] = "queued" /\ active})
    /\ snap' = Set(snap, w, version)
    /\ back' = Set(back, w, "rescue")
    /\ pc' = Set(pc, w, "rescue")
    /\ UNCHANGED <<projectionVars, landed, rowVars, old, sent, cur, left, todo,
                   claims, hostVars, countVars>>

Rescue(w) ==
    /\ pc[w] = "rescue"
    /\ \E r \in Least(listed[w]) :
          /\ Load(w, r, snap[w])
          /\ listed' = Set(listed, w, listed[w] \ {r})
    /\ UNCHANGED <<projectionVars, landed, rowVars, old, sent, left, todo,
                   back, claims, hostVars, countVars>>

\* Mutant: without started_at__lt.
SelectEveryRunning(w) ==
    /\ pc[w] = "rescue"
    /\ listed[w] = {}
    /\ listed' = Set(listed, w, {r \in Rows : status[r] = "running"})
    /\ back' = Set(back, w, "idle")
    /\ pc' = Set(pc, w, "abandon")
    /\ UNCHANGED <<projectionVars, landed, rowVars, old, sent, cur, snap, left,
                   todo, claims, hostVars, countVars>>

\* RUNNING too long.
SelectAbandoned(w) ==
    /\ pc[w] = "rescue"
    /\ listed[w] = {}
    /\ listed' = Set(listed, w, {r \in old : status[r] = "running"})
    /\ back' = Set(back, w, "idle")
    /\ pc' = Set(pc, w, "abandon")
    /\ UNCHANGED <<projectionVars, landed, rowVars, old, sent, cur, snap, left,
                   todo, claims, hostVars, countVars>>

\* Mutant: the error_type in place of the status.
FailAsAbandoned(w) ==
    /\ pc[w] = "abandon"
    /\ \E r \in Least(listed[w]) :
          /\ status' = Set(status, r, "abandoned")
          /\ listed' = Set(listed, w, listed[w] \ {r})
    /\ UNCHANGED <<projectionVars, landed, pversion, loads, full, old, sent,
                   pc, cur, snap, left, todo, back, claims, hostVars,
                   countVars>>

\* One save per row of the list, without looking at the row again.
FailAbandoned(w) ==
    /\ pc[w] = "abandon"
    /\ \E r \in Least(listed[w]) :
          /\ status' = Set(status, r, "failed")
          /\ listed' = Set(listed, w, listed[w] \ {r})
    /\ UNCHANGED <<projectionVars, landed, pversion, loads, full, old, sent,
                   pc, cur, snap, left, todo, back, claims, hostVars,
                   countVars>>

InFlight == {"queued", "running"}

\* Mutant: a failed row still answers for its loads.
AnsweredByFailures(l) == \E r \in Rows : l \in loads[r] /\ status[r] # "absent"

\* Projected, or in flight: dispatch_pending leaves these loads alone.
Answered(l) ==
    \E r \in Rows : l \in loads[r] /\ status[r] \in InFlight \cup {"succeeded"}
Outstanding == {l \in landed : ~ Answered(l)}

\* dispatch_pending reads the Runs and the rows...
SweepRead(w) ==
    /\ pc[w] = "abandon"
    /\ listed[w] = {}
    /\ IF active /\ Outstanding # {}
       THEN /\ todo' = Set(todo, w, Outstanding)
            /\ snap' = Set(snap, w, version)
            /\ pc' = Set(pc, w, "create")
       ELSE /\ pc' = Set(pc, w, "idle")
            /\ UNCHANGED <<todo, snap>>
    /\ UNCHANGED <<projectionVars, landed, rowVars, old, sent, cur, left,
                   listed, back, claims, hostVars, countVars>>

\* ...and queues what nobody answers for, then executes it.
SweepCreate(w) ==
    /\ pc[w] = "create"
    /\ \E r \in NewRow :
          /\ Create(r, snap[w], todo[w], "incremental")
          /\ Load(w, r, snap[w])
    /\ todo' = Set(todo, w, {})
    /\ UNCHANGED <<projectionVars, landed, old, sent, left, listed, back,
                   claims, hostVars, countVars>>

-----------------------------------------------------------------------------
(* Failure and time *)

\* The worker is killed: a claimed row stays RUNNING.
Crash(w) ==
    /\ pc[w] # "idle"
    /\ Fault
    /\ Drop(w)
    /\ UNCHANGED <<projectionVars, landed, rowVars, old, sent, claims,
                   hostVars, requests, overruns>>

Executes(w, r) == pc[w] = "running" /\ cur[w] = r
Alive(r) == \E w \in Workers : Executes(w, r)

\* A row gets too old for its status; under a live execution that is an overrun.
Age(r) ==
    /\ status[r] \in InFlight
    /\ r \notin old
    /\ old' = old \cup {r}
    /\ IF status[r] = "running" /\ Alive(r)
       THEN Fault /\ overruns' = overruns + 1
       ELSE UNCHANGED <<faults, overruns>>
    /\ UNCHANGED <<projectionVars, landed, rowVars, sent, workVars, claims,
                   hostVars, requests>>

-----------------------------------------------------------------------------
\* What a worker does next in a call it has begun.
Progress(w) ==
    \/ RefreshDrift(w) \/ DispatchAfterRun(w)
    \/ Supersede(w) \/ Claim(w) \/ ClaimRefused(w) \/ Write(w) \/ Finish(w)
    \/ Rescue(w) \/ SelectAbandoned(w) \/ FailAbandoned(w)
    \/ SweepRead(w) \/ SweepCreate(w)

Next ==
    \/ UpdateMapping
    \/ ActivateProjection
    \/ \E w \in Workers : \/ LandRun(w)
                          \/ \E r \in Rows : Deliver(w, r) \/ Retry(w, r)
                          \/ Replay(w)
                          \/ SelectDropped(w)
                          \/ Progress(w)
                          \/ Fail(w)
                          \/ Crash(w)
    \/ \E r \in Rows : Age(r)

\* Workers that live go on, rows get old, and the beat entry for the sweeper
\* finds an idle worker.  Nothing says the queue ever delivers.
Fairness ==
    /\ \A w \in Workers : WF_vars(Progress(w))
    /\ \A r \in Rows : WF_vars(~ Alive(r) /\ Age(r))
    /\ WF_vars(\E w \in Workers : SelectDropped(w))

Spec == Init /\ [][Next]_vars
FairSpec == Spec /\ Fairness

-----------------------------------------------------------------------------
(* Properties *)

\* Whoever claims the row runs it: a second delivery, a rescue by the sweeper
\* and the worker that was slow to start never execute one row twice.
ClaimedOnce == \A r \in Rows : claims[r] <= 1

\* "A ProjectionRun records the version it ran": the mapping in the worker's
\* hand is the one the row was queued against, however old its copy is.
RunsItsVersion ==
    \A w \in Workers : pc[w] = "running" => snap[w] = pversion[cur[w]]

\* Loads leave the sweeper's set difference only when they were written: a row
\* that is succeeded wrote every load it names.
SucceededMeansWritten ==
    \A r \in Rows : status[r] = "succeeded" => loads[r] \subseteq wrote[r]

\* History is rewritten only after the mapping changed under the row or a live
\* execution was taken for an abandoned one.
VerdictStands ==
    [][\A r \in Rows :
          status[r] \in Terminal /\ status'[r] # status[r]
              => pversion[r] < version \/ overruns > 0]_vars

\* Whatever was dropped, failed, superseded or killed, every landed load is
\* projected in the end while the Projection stays active.
Projected(l) == \E r \in Rows : status[r] = "succeeded" /\ l \in loads[r]
EveryLoadProjected ==
    \A l \in Loads : l \in landed ~> Projected(l) \/ ~ active
=============================================================================
