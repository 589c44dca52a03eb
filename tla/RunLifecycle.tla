---------------------------- MODULE RunLifecycle ----------------------------
(***************************************************************************)
(* One Binding's ingestion: services/runs.py (enqueue_run, run_binding,    *)
(* _drain_pending_if_needed, _succeed, _fail, reap_stale_runs) and         *)
(* landing/runner.py (execute, _verify, drain_pending), run by several     *)
(* workers and the reaper against one Run table and one dlt pipeline.      *)
(*                                                                         *)
(* run_binding is cut where another process can see or change what it      *)
(* reads: at each save of a Run, each dlt stage and each reading of the    *)
(* pipeline.  The lease is LeaseContract's, which Lease.tla implements.    *)
(* dlt itself is external: a load package is extracted, normalized, loaded;*)
(* its load id is the package.                                             *)
(***************************************************************************)
EXTENDS LeaseContract, Naturals, FiniteSets

CONSTANTS MaxRuns,      \* bound: Run rows in a behaviour
          MaxPackages,  \* bound: packages extracted in a behaviour
          MaxRepeats,   \* bound: Runs whose task is delivered a second time
          MaxOverruns,  \* bound: leases that expire under a live holder
          MaxFaults     \* bound: those two together

ASSUME RunAssumption == /\ MaxRuns \in Nat
                        /\ MaxPackages \in Nat
                        /\ MaxRepeats \in Nat
                        /\ MaxOverruns \in Nat
                        /\ MaxFaults \in Nat

\* Ids are time-ordered (uuid7, dlt's load ids), so the next one is the least
\* that is not used.
Runs == 1 .. MaxRuns
Packages == 1 .. MaxPackages
NoRun == 0

VARIABLES
    status,    \* Run.status, absent before the row exists
    recovery,  \* the Runs with trigger RECOVERY
    loads,     \* Run.dlt_load_ids
    pc,        \* where each worker is in run_binding
    cur,       \* the Run each worker executes
    rec,       \* the recovery Run it is draining into, or NoRun
    got,       \* the load ids of its LoadInfo
    stage,     \* dlt: where each package is
    extractor, \* dlt: the Run whose source filled the package
    reaping,   \* reap_stale_runs: idle, select, save
    stale,     \* the Runs its SELECT returned and it has not saved yet
    \* history
    delivered, \* Runs whose run_binding task reached a worker
    repeated,  \* Runs whose task reached a worker twice
    fetched,   \* Runs whose latest execution consulted the source
    dropped,   \* load ids lost by a worker between landing and recording
    overruns   \* leases that expired under a live holder

runVars == <<status, recovery, loads>>
dltVars == <<stage, extractor>>
workVars == <<pc, cur, rec, got>>
reapVars == <<reaping, stale>>
queueVars == <<delivered, repeated>>
vars == <<leaseVars, runVars, dltVars, workVars, reapVars, queueVars,
          fetched, dropped, overruns>>

RunStatus == {"absent", "queued", "running", "succeeded", "failed", "skipped"}
Finished == {"succeeded", "failed", "skipped"}

\* Inside the try of run_binding.
Working == {"check", "execute", "extract", "normalize", "load", "loading",
            "verify", "record", "fail", "release"}
InFlight == Working \cup {"start"}

TypeOK ==
    /\ LeaseTypeOK
    /\ status \in [Runs -> RunStatus]
    /\ recovery \subseteq Runs
    /\ loads \in [Runs -> SUBSET Packages]
    /\ delivered \subseteq Runs
    /\ repeated \subseteq Runs
    /\ pc \in [Workers -> {"idle", "acquire", "skip"} \cup InFlight]
    /\ cur \in [Workers -> Runs \cup {NoRun}]
    /\ rec \in [Workers -> Runs \cup {NoRun}]
    /\ got \in [Workers -> SUBSET Packages]
    /\ stage \in [Packages -> {"unused", "extracted", "normalized", "loaded"}]
    /\ extractor \in [Packages -> Runs \cup {NoRun}]
    /\ reaping \in {"idle", "select", "save"}
    /\ stale \subseteq Runs
    /\ fetched \subseteq Runs
    /\ dropped \subseteq Packages
    /\ overruns \in Nat

Init ==
    /\ LeaseInit
    /\ status = [r \in Runs |-> "absent"]
    /\ recovery = {}
    /\ loads = [r \in Runs |-> {}]
    /\ delivered = {}
    /\ repeated = {}
    /\ pc = [w \in Workers |-> "idle"]
    /\ cur = [w \in Workers |-> NoRun]
    /\ rec = [w \in Workers |-> NoRun]
    /\ got = [w \in Workers |-> {}]
    /\ stage = [p \in Packages |-> "unused"]
    /\ extractor = [p \in Packages |-> NoRun]
    /\ reaping = "idle"
    /\ stale = {}
    /\ fetched = {}
    /\ dropped = {}
    /\ overruns = 0

In(s) == {p \in Packages : stage[p] = s}
Leftover == In("extracted") \cup In("normalized")

\* Mutant: asking only for what load() would pick up.
HasNormalized == In("normalized") # {}

\* runner.has_pending_data: dlt's answer, which covers both stages.
HasPending == Leftover # {}

\* Rows not created yet, and not about to be by a call in progress.
Unborn == {r \in Runs : status[r] = "absent" /\ \A w \in Workers : cur[w] # r}
NewId(ids) == {i \in ids : \A j \in ids : i <= j}

WithinFaults == overruns + Cardinality(repeated) < MaxFaults

\* A holder works on past its lease; locks.renew is never called.
Overrun ==
    /\ overruns < MaxOverruns /\ WithinFaults
    /\ overruns' = overruns + 1

Goto(w, l) == pc' = [pc EXCEPT ![w] = l]

-----------------------------------------------------------------------------
(* Getting work to a worker *)

\* enqueue_run: at most one row is queued, the dedupe_key sees to it.
EnqueueRun ==
    /\ \A r \in Runs : status[r] # "queued"
    /\ \E r \in NewId(Unborn) : status' = [status EXCEPT ![r] = "queued"]
    /\ UNCHANGED <<leaseVars, recovery, loads, dltVars, workVars, reapVars,
                   queueVars, fetched, dropped, overruns>>

Begin(w, r) ==
    /\ pc[w] = "idle"
    /\ Goto(w, "acquire")
    /\ cur' = [cur EXCEPT ![w] = r]
    /\ UNCHANGED <<leaseVars, runVars, dltVars, rec, got, reapVars, fetched,
                   dropped, overruns>>

\* run_binding_task(binding_id, run_id) reaches a worker, whatever the row says
\* by now.  The broker may deliver it again, and enqueue_run hands the queued
\* Run it collides with to its caller, who dispatches it again.
DeliverTask(w, r) ==
    /\ \/ status[r] = "queued" /\ r \notin delivered /\ UNCHANGED repeated
       \/ /\ r \in delivered
          /\ Cardinality(repeated) < MaxRepeats /\ WithinFaults
          /\ repeated' = repeated \cup {r}
    /\ delivered' = delivered \cup {r}
    /\ Begin(w, r)

\* run_binding(binding) without a Run, as the API's run action calls it.
CallInline(w) ==
    /\ \E r \in NewId(Unborn) : Begin(w, r)
    /\ UNCHANGED queueVars

-----------------------------------------------------------------------------
(* run_binding: the lease and the first save *)

Acquire(w) ==
    /\ pc[w] = "acquire"
    /\ \/ Grant(w, FALSE) /\ UNCHANGED overruns
       \/ Grant(w, TRUE) /\ Overrun
    /\ Goto(w, "start")
    /\ UNCHANGED <<runVars, dltVars, cur, rec, got, reapVars, queueVars,
                   fetched, dropped>>

AcquireRefused(w) ==
    /\ pc[w] = "acquire"
    /\ ~ Grantable
    /\ Goto(w, "skip")
    /\ UNCHANGED <<leaseVars, runVars, dltVars, cur, rec, got, reapVars,
                   queueVars, fetched, dropped, overruns>>

\* _record_skip saves SKIPPED on the Run it was given, whatever it says.
RecordSkip(w) ==
    /\ pc[w] = "skip"
    /\ status' = [status EXCEPT ![cur[w]] = "skipped"]
    /\ Goto(w, "idle")
    /\ cur' = [cur EXCEPT ![w] = NoRun]
    /\ UNCHANGED <<leaseVars, recovery, loads, dltVars, rec, got, reapVars,
                   queueVars, fetched, dropped, overruns>>

\* _start: the save leaves dlt_load_ids alone.
Start(w) ==
    /\ pc[w] = "start"
    /\ status' = [status EXCEPT ![cur[w]] = "running"]
    /\ fetched' = fetched \ {cur[w]}
    /\ Goto(w, "check")
    /\ UNCHANGED <<leaseVars, recovery, loads, dltVars, cur, rec, got,
                   reapVars, queueVars, dropped, overruns>>

-----------------------------------------------------------------------------
(* run_binding: the try block *)

\* Load ids that have landed and are not saved on a Run yet.
InHand(w) == IF pc[w] \in {"verify", "record"} THEN got[w] ELSE {}
DropInHand(w) ==
    /\ dropped' = dropped \cup InHand(w)
    /\ got' = [got EXCEPT ![w] = {}]

\* Some exception: the Binding is not runnable, its source or credentials
\* cannot be had, a selected resource is missing, extraction or normalize
\* raises, _verify cannot read the other Runs.  (Which one, and its effect on
\* Binding and Connection, is not modelled here.)
Raise(w) ==
    /\ pc[w] \in {"check", "execute", "extract", "normalize", "verify"}
    /\ DropInHand(w)
    /\ Goto(w, "fail")
    /\ UNCHANGED <<leaseVars, runVars, dltVars, cur, rec, reapVars, queueVars,
                   fetched, overruns>>

\* _drain_pending_if_needed
NothingToDrain(w) ==
    /\ pc[w] = "check"
    /\ ~ HasPending
    /\ Goto(w, "execute")
    /\ UNCHANGED <<leaseVars, runVars, dltVars, cur, rec, got, reapVars,
                   queueVars, fetched, dropped, overruns>>

OpenRecovery(w) ==
    /\ pc[w] = "check"
    /\ HasPending
    /\ \E r \in NewId(Unborn) :
          /\ status' = [status EXCEPT ![r] = "running"]
          /\ recovery' = recovery \cup {r}
          /\ rec' = [rec EXCEPT ![w] = r]
    /\ Goto(w, "normalize")
    /\ UNCHANGED <<leaseVars, loads, dltVars, cur, got, reapVars, queueVars,
                   fetched, dropped, overruns>>

\* execute refuses a pending package, otherwise calls pipeline.run(source).
ExecutePending(w) ==
    /\ pc[w] = "execute"
    /\ Goto(w, IF HasPending THEN "fail" ELSE "extract")
    /\ UNCHANGED <<leaseVars, runVars, dltVars, cur, rec, got, reapVars,
                   queueVars, fetched, dropped, overruns>>

\* dlt: pipeline.run with something pending loads that and exits.
ExtractNothingLoadPending(w) ==
    /\ pc[w] = "extract"
    /\ Leftover # {}
    /\ Goto(w, "normalize")
    /\ UNCHANGED <<leaseVars, runVars, dltVars, cur, rec, got, reapVars,
                   queueVars, fetched, dropped, overruns>>

\* dlt: otherwise the source is consulted; it may have nothing new.
Extract(w) ==
    /\ pc[w] = "extract"
    /\ Leftover = {}
    /\ fetched' = fetched \cup {cur[w]}
    /\ \/ \E p \in NewId(In("unused")) :
             /\ stage' = [stage EXCEPT ![p] = "extracted"]
             /\ extractor' = [extractor EXCEPT ![p] = cur[w]]
       \/ UNCHANGED dltVars
    /\ Goto(w, "normalize")
    /\ UNCHANGED <<leaseVars, runVars, cur, rec, got, reapVars, queueVars,
                   dropped, overruns>>

Advance(from, to, ps) ==
    [p \in Packages |-> IF p \in ps /\ stage[p] = from THEN to ELSE stage[p]]

\* pipeline.normalize(), by pipeline.run or by drain_pending.
Normalize(w) ==
    /\ pc[w] = "normalize"
    /\ stage' = Advance("extracted", "normalized", Packages)
    /\ Goto(w, "load")
    /\ UNCHANGED <<leaseVars, runVars, extractor, cur, rec, got, reapVars,
                   queueVars, fetched, dropped, overruns>>

\* pipeline.load() picks every normalized package, whoever extracted it.
StartLoad(w) ==
    /\ pc[w] = "load"
    /\ got' = [got EXCEPT ![w] = In("normalized")]
    /\ Goto(w, "loading")
    /\ UNCHANGED <<leaseVars, runVars, dltVars, cur, rec, reapVars, queueVars,
                   fetched, dropped, overruns>>

FinishLoad(w) ==
    /\ pc[w] = "loading"
    /\ stage' = Advance("normalized", "loaded", got[w])
    /\ Goto(w, "verify")
    /\ UNCHANGED <<leaseVars, runVars, extractor, cur, rec, got, reapVars,
                   queueVars, fetched, dropped, overruns>>

\* Mutant: failed jobs are not looked at.
LoadFailsUnseen(w) ==
    /\ pc[w] = "loading"
    /\ got[w] # {}
    /\ got' = [got EXCEPT ![w] = {}]
    /\ Goto(w, "verify")
    /\ UNCHANGED <<leaseVars, runVars, dltVars, cur, rec, reapVars, queueVars,
                   fetched, dropped, overruns>>

\* The load raises, or reports failed jobs and _verify raises: some package
\* stays pending and no load id is recorded.
LoadFails(w) ==
    /\ pc[w] = "loading"
    /\ \E done \in SUBSET got[w] :
          /\ done # got[w]
          /\ stage' = Advance("normalized", "loaded", done)
    /\ got' = [got EXCEPT ![w] = {}]
    /\ Goto(w, "fail")
    /\ UNCHANGED <<leaseVars, runVars, extractor, cur, rec, reapVars,
                   queueVars, fetched, dropped, overruns>>

\* The Run in hand: the recovery Run while draining.
Hand(w) == IF rec[w] # NoRun THEN rec[w] ELSE cur[w]

\* _verify: load ids another Run of the Binding already has.
Stolen(w) == \E r \in Runs \ {Hand(w)} : got[w] \cap loads[r] # {}

\* drain_pending does not return while anything is pending.
StillPending(w) == rec[w] # NoRun /\ HasPending

Verify(w) ==
    /\ pc[w] = "verify"
    /\ ~ Stolen(w)
    /\ ~ StillPending(w)
    /\ Goto(w, "record")
    /\ UNCHANGED <<leaseVars, runVars, dltVars, cur, rec, got, reapVars,
                   queueVars, fetched, dropped, overruns>>

VerifyFails(w) ==
    /\ pc[w] = "verify"
    /\ Stolen(w) \/ StillPending(w)
    /\ got' = [got EXCEPT ![w] = {}]
    /\ Goto(w, "fail")
    /\ UNCHANGED <<leaseVars, runVars, dltVars, cur, rec, reapVars,
                   queueVars, fetched, dropped, overruns>>

-----------------------------------------------------------------------------
(* run_binding: the verdict *)

\* Mutant: update_fields without dlt_load_ids.
SucceedWithoutLoads(w, r, next) ==
    /\ pc[w] = "record"
    /\ status' = [status EXCEPT ![r] = "succeeded"]
    /\ got' = [got EXCEPT ![w] = {}]
    /\ Goto(w, next)
    /\ UNCHANGED <<leaseVars, loads, recovery, dltVars, cur, reapVars,
                   queueVars, fetched, dropped, overruns>>

\* _succeed: dlt_load_ids is overwritten by this execution's.
Succeed(w, r, next) ==
    /\ pc[w] = "record"
    /\ status' = [status EXCEPT ![r] = "succeeded"]
    /\ loads' = [loads EXCEPT ![r] = got[w]]
    /\ got' = [got EXCEPT ![w] = {}]
    /\ Goto(w, next)
    /\ UNCHANGED <<leaseVars, recovery, dltVars, cur, reapVars, queueVars,
                   fetched, dropped, overruns>>

\* Mutant: the drained load ids recorded on the Run that drains.
DrainedOntoCaller(w) ==
    /\ rec[w] # NoRun
    /\ Succeed(w, cur[w], "execute")
    /\ rec' = [rec EXCEPT ![w] = NoRun]

\* The Binding is saved after the recovery Run, which may raise.
RecoverySucceeds(w) ==
    /\ rec[w] # NoRun
    /\ \E next \in {"execute", "fail"} : Succeed(w, rec[w], next)
    /\ rec' = [rec EXCEPT ![w] = NoRun]

RunSucceeds(w) ==
    /\ rec[w] = NoRun
    /\ Succeed(w, cur[w], "release")
    /\ UNCHANGED rec

\* Mutant: a status only a ProjectionRun has.
FailAsSuperseded(w, r, next) ==
    /\ pc[w] = "fail"
    /\ status' = [status EXCEPT ![r] = "superseded"]
    /\ Goto(w, next)
    /\ UNCHANGED <<leaseVars, recovery, loads, dltVars, cur, got, reapVars,
                   queueVars, fetched, dropped, overruns>>

\* _fail saves FAILED and leaves dlt_load_ids alone.
Fail(w, r, next) ==
    /\ pc[w] = "fail"
    /\ status' = [status EXCEPT ![r] = "failed"]
    /\ Goto(w, next)
    /\ UNCHANGED <<leaseVars, recovery, loads, dltVars, cur, got, reapVars,
                   queueVars, fetched, dropped, overruns>>

\* The recovery Run is failed first and the exception raised again.
RecoveryFails(w) ==
    /\ rec[w] # NoRun
    /\ Fail(w, rec[w], "fail")
    /\ rec' = [rec EXCEPT ![w] = NoRun]

\* The save of _succeed or _fail raises: the recovery Run keeps its status.
RecoveryUnsaved(w) ==
    /\ pc[w] \in {"record", "fail"}
    /\ rec[w] # NoRun
    /\ rec' = [rec EXCEPT ![w] = NoRun]
    /\ DropInHand(w)
    /\ Goto(w, "fail")
    /\ UNCHANGED <<leaseVars, runVars, dltVars, cur, reapVars, queueVars,
                   fetched, overruns>>

RunFails(w) ==
    /\ rec[w] = NoRun
    /\ Fail(w, cur[w], "release")
    /\ UNCHANGED rec

\* Out of run_binding, with whatever had landed and was not saved.
Leave(w) ==
    /\ DropInHand(w)
    /\ pc' = [pc EXCEPT ![w] = "idle"]
    /\ cur' = [cur EXCEPT ![w] = NoRun]
    /\ rec' = [rec EXCEPT ![w] = NoRun]

\* The finally clause.
ReleaseLease(w) ==
    /\ pc[w] = "release"
    /\ Release(w)
    /\ Leave(w)
    /\ UNCHANGED <<runVars, dltVars, reapVars, queueVars, fetched, overruns>>

-----------------------------------------------------------------------------
(* Failure and time *)

\* The worker is killed.
Crash(w) ==
    /\ pc[w] # "idle"
    /\ IF w \in holders THEN Abandon(w) ELSE UNCHANGED leaseVars
    /\ Leave(w)
    /\ UNCHANGED <<runVars, dltVars, reapVars, queueVars, fetched, overruns>>

\* A BaseException, or an exception out of the Run's own _succeed or _fail: the
\* lease is released and the Run keeps the status it has.
Interrupt(w) ==
    /\ pc[w] \in Working \ {"release"}
    /\ Release(w)
    /\ Leave(w)
    /\ UNCHANGED <<runVars, dltVars, reapVars, queueVars, fetched, overruns>>

\* The timeout of the lease passes.
LeaseExpires ==
    /\ ~ expired
    /\ Expire
    /\ IF lease \in Workers THEN Overrun ELSE UNCHANGED overruns
    /\ UNCHANGED <<runVars, dltVars, workVars, reapVars, queueVars, fetched,
                   dropped>>

-----------------------------------------------------------------------------
(* reap_stale_runs *)

\* Mutant: every lease counts as expired.
ReapEveryLease ==
    /\ reaping = "idle"
    /\ lease' = Free
    /\ expired' = FALSE
    /\ reaping' = "select"
    /\ UNCHANGED <<holders, runVars, dltVars, workVars, stale, queueVars,
                   fetched, dropped, overruns>>

\* Mutant: the reaper looks for stale Runs without reaping leases first.
ReapNoLease ==
    /\ reaping = "idle"
    /\ reaping' = "select"
    /\ UNCHANGED <<leaseVars, runVars, dltVars, workVars, stale, queueVars,
                   fetched, dropped, overruns>>

ReapLeases ==
    /\ reaping = "idle"
    /\ IF lease # Free /\ expired THEN Reap ELSE UNCHANGED leaseVars
    /\ reaping' = "select"
    /\ UNCHANGED <<runVars, dltVars, workVars, stale, queueVars, fetched,
                   dropped, overruns>>

\* Mutant: without binding__lock__isnull.
SelectEveryRunning ==
    /\ reaping = "select"
    /\ stale' = {r \in Runs : status[r] = "running"}
    /\ reaping' = IF stale' = {} THEN "idle" ELSE "save"
    /\ UNCHANGED <<leaseVars, runVars, dltVars, workVars, queueVars, fetched,
                   dropped, overruns>>

\* status=RUNNING, binding__lock__isnull=True
SelectStale ==
    /\ reaping = "select"
    /\ stale' = {r \in Runs : status[r] = "running" /\ lease = Free}
    /\ reaping' = IF stale' = {} THEN "idle" ELSE "save"
    /\ UNCHANGED <<leaseVars, runVars, dltVars, workVars, queueVars, fetched,
                   dropped, overruns>>

\* One save per selected row, without looking at the row again.
FailStale ==
    /\ reaping = "save"
    /\ \E r \in stale :
          /\ status' = [status EXCEPT ![r] = "failed"]
          /\ stale' = stale \ {r}
    /\ reaping' = IF stale' = {} THEN "idle" ELSE "save"
    /\ UNCHANGED <<leaseVars, recovery, loads, dltVars, workVars, queueVars,
                   fetched, dropped, overruns>>

Reaper == ReapLeases \/ SelectStale \/ FailStale

-----------------------------------------------------------------------------
\* What a worker does next in a run_binding it has begun.
Progress(w) ==
    \/ Acquire(w) \/ AcquireRefused(w) \/ RecordSkip(w) \/ Start(w)
    \/ NothingToDrain(w) \/ OpenRecovery(w)
    \/ ExecutePending(w) \/ ExtractNothingLoadPending(w) \/ Extract(w)
    \/ Normalize(w) \/ StartLoad(w) \/ FinishLoad(w) \/ LoadFails(w)
    \/ Raise(w)
    \/ Verify(w) \/ VerifyFails(w)
    \/ RecoverySucceeds(w) \/ RunSucceeds(w)
    \/ RecoveryFails(w) \/ RecoveryUnsaved(w) \/ RunFails(w)
    \/ ReleaseLease(w)

Step ==
    \/ EnqueueRun
    \/ \E w \in Workers : \/ \E r \in Runs : DeliverTask(w, r)
                          \/ CallInline(w)
                          \/ Progress(w)
                          \/ Interrupt(w)
    \/ LeaseExpires
    \/ Reaper

Next == Step \/ \E w \in Workers : Crash(w)

\* A worker that lives goes on, a lease nobody holds runs out, and the beat
\* entry for reap_stale_runs keeps firing.  Nothing says new work arrives.
Fairness ==
    /\ \A w \in Workers : WF_vars(Progress(w))
    /\ WF_vars(lease = Orphan /\ LeaseExpires)
    /\ WF_vars(Reaper)

Spec == Init /\ [][Next]_vars
FairSpec == Spec /\ Fairness

-----------------------------------------------------------------------------
(* Properties *)

\* The Run was handed to run_binding more than once.
Repeated(r) == r \in repeated

\* "One Run per Binding, enforced by a database lease": as long as no lease
\* expired under its holder, two workers are never both between acquire and
\* release, whatever crashes, takeovers and reaps happened.
OneInFlight ==
    overruns = 0 =>
        \A v, w \in Workers : pc[v] \in InFlight /\ pc[w] \in InFlight => v = w

\* "pipeline.run() did not raise" is not success: a Run that is succeeded and
\* is not a recovery has consulted its source, not loaded a leftover package.
SucceededMeansFetched ==
    overruns = 0 =>
        \A r \in Runs \ recovery : status[r] = "succeeded" => r \in fetched

\* Rows are credited to the Run that extracted them, or to a recovery Run.
CreditedToExtractor ==
    overruns = 0 =>
        \A r \in Runs \ recovery : \A p \in loads[r] : extractor[p] = r

\* The window of the incremental projection, the load ids of succeeded Runs,
\* misses a landed package only if it is about to be recorded, its worker was
\* killed or raised before recording it, a lease overran or a Run was
\* dispatched twice.
Credited(p) == \E r \in Runs : status[r] = "succeeded" /\ p \in loads[r]
LandedIsCredited ==
    \/ overruns > 0
    \/ \E r \in Runs : Repeated(r)
    \/ \A p \in In("loaded") \ dropped :
          Credited(p) \/ \E w \in Workers : p \in InHand(w)

\* A Run is never recorded as succeeded while a package is still pending:
\* "a health signal reporting green for a Binding that has stopped syncing".
BecomesSucceeded(r) == status[r] # "succeeded" /\ status'[r] = "succeeded"
GreenMeansDrained ==
    [][\A r \in Runs :
          BecomesSucceeded(r) => Leftover = {} \/ overruns > 0]_vars

\* What a Run ended as is what it stays, for a Run dispatched once: no reaper,
\* takeover or late worker rewrites it.
FinishedStaysFinished ==
    [][\A r \in Runs :
          status[r] \in Finished /\ status'[r] # status[r]
              => overruns > 0 \/ Repeated(r)]_vars

\* The reaper's snapshot may be old, yet the Run it fails is nobody's.
ExecutedBy(r, w) == pc[w] \in Working /\ r \in {cur[w], rec[w]}
ReaperSparesTheLiving ==
    [][\A r \in Runs :
          FailStale /\ status[r] # status'[r]
              => \/ overruns > 0 \/ Repeated(r)
                 \/ \A w \in Workers : ~ ExecutedBy(r, w)]_vars

\* No Run stays running for ever, whoever was killed: the worker ends it or
\* the reaper does.  Workers that are killed one after the other could keep a
\* lease row in the reaper's way for ever, so the kills have to stop.
KillsStop == <>[][Step]_vars
RunningEnds ==
    KillsStop =>
        \A r \in Runs : status[r] = "running" ~> status[r] # "running"
=============================================================================
