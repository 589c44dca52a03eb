------------------------------ MODULE RunProofs ------------------------------
(***************************************************************************)
(* What the run of RunLifecycle.tla checks for two workers and three Runs, *)
(* for any number of workers, Runs, packages, redeliveries and overruns:   *)
(* first the lease around the pipeline and what a Run may take credit for, *)
(* then what the Run table says of the pipeline.  A landed package is      *)
(* credited, a green Run left nothing pending, a verdict stands and the    *)
(* reaper fails nobody's Run.                                              *)
(***************************************************************************)
EXTENDS RunLifecycle, TLAPS

-----------------------------------------------------------------------------
(* Types *)

\* A worker that is in run_binding has a Run in hand.
Employed == \A w \in Workers : pc[w] # "idle" => cur[w] \in Runs

Typed == TypeOK /\ Employed

\* The types of every variable survive every step.
LEMMA TypeStep == Typed /\ [Next]_vars => Typed'
<1> SUFFICES ASSUME Typed, [Next]_vars PROVE Typed'
  OBVIOUS
<1> USE LeaseAssumption, RunAssumption
    DEF Typed, Employed, TypeOK, LeaseTypeOK, InFlight, Working, RunStatus,
        NewId, Unborn, In, Goto, runVars, dltVars, workVars, reapVars,
        queueVars, leaseVars
<1>1. CASE EnqueueRun
  BY <1>1 DEF EnqueueRun
<1>2. ASSUME NEW w \in Workers, NEW r \in Runs, DeliverTask(w, r)
      PROVE  Typed'
  BY <1>2 DEF DeliverTask, Begin
<1>3. ASSUME NEW w \in Workers, CallInline(w) PROVE Typed'
  BY <1>3 DEF CallInline, Begin
<1>4. ASSUME NEW w \in Workers, Acquire(w) PROVE Typed'
  <2>1. overruns' \in Nat
    <3>1. UNCHANGED overruns \/ Overrun
      BY <1>4, Zenon DEF Acquire
    <3> QED
      BY <3>1 DEF Overrun
  <2>2. LeaseTypeOK'
    BY <1>4 DEF Acquire, Grant
  <2>3. /\ pc' = [pc EXCEPT ![w] = "start"]
        /\ cur' = cur
        /\ pc[w] # "idle"
    BY <1>4 DEF Acquire
  <2>4. /\ Employed'
        /\ pc' \in [Workers -> {"idle", "acquire", "skip"} \cup InFlight]
    BY <2>3
  <2> QED
    BY <1>4, <2>1, <2>2, <2>4 DEF Acquire
<1>5. ASSUME NEW w \in Workers, AcquireRefused(w) PROVE Typed'
  BY <1>5 DEF AcquireRefused
<1>6. ASSUME NEW w \in Workers, RecordSkip(w) PROVE Typed'
  BY <1>6 DEF RecordSkip
<1>7. ASSUME NEW w \in Workers, Start(w) PROVE Typed'
  BY <1>7 DEF Start
<1>8. ASSUME NEW w \in Workers, NothingToDrain(w) PROVE Typed'
  BY <1>8 DEF NothingToDrain
<1>9. ASSUME NEW w \in Workers, OpenRecovery(w) PROVE Typed'
  BY <1>9 DEF OpenRecovery
<1>10. ASSUME NEW w \in Workers, ExecutePending(w) PROVE Typed'
  BY <1>10 DEF ExecutePending
<1>11. ASSUME NEW w \in Workers, ExtractNothingLoadPending(w) PROVE Typed'
  BY <1>11 DEF ExtractNothingLoadPending
<1>12. ASSUME NEW w \in Workers, Extract(w) PROVE Typed'
  BY <1>12 DEF Extract
<1>13. ASSUME NEW w \in Workers, Normalize(w) PROVE Typed'
  BY <1>13 DEF Normalize, Advance
<1>14. ASSUME NEW w \in Workers, StartLoad(w) PROVE Typed'
  BY <1>14 DEF StartLoad
<1>15. ASSUME NEW w \in Workers, FinishLoad(w) PROVE Typed'
  BY <1>15 DEF FinishLoad, Advance
<1>16. ASSUME NEW w \in Workers, LoadFails(w) PROVE Typed'
  BY <1>16 DEF LoadFails, Advance
<1>17. ASSUME NEW w \in Workers, Raise(w) PROVE Typed'
  BY <1>17 DEF Raise, DropInHand, InHand
<1>18. ASSUME NEW w \in Workers, Verify(w) PROVE Typed'
  BY <1>18 DEF Verify
<1>19. ASSUME NEW w \in Workers, VerifyFails(w) PROVE Typed'
  BY <1>19 DEF VerifyFails
<1>20. ASSUME NEW w \in Workers, RecoverySucceeds(w) \/ RunSucceeds(w)
       PROVE  Typed'
  BY <1>20 DEF RecoverySucceeds, RunSucceeds, Succeed
<1>21. ASSUME NEW w \in Workers,
              RecoveryFails(w) \/ RecoveryUnsaved(w) \/ RunFails(w)
       PROVE  Typed'
  BY <1>21 DEF RecoveryFails, RecoveryUnsaved, RunFails, Fail, DropInHand,
               InHand
<1>22. ASSUME NEW w \in Workers, ReleaseLease(w) PROVE Typed'
  BY <1>22 DEF ReleaseLease, Release, Leave, DropInHand, InHand
<1>23. ASSUME NEW w \in Workers, Crash(w) PROVE Typed'
  BY <1>23 DEF Crash, Abandon, Leave, DropInHand, InHand
<1>24. ASSUME NEW w \in Workers, Interrupt(w) PROVE Typed'
  BY <1>24 DEF Interrupt, Release, Leave, DropInHand, InHand
<1>25. CASE LeaseExpires
  BY <1>25 DEF LeaseExpires, Expire, Overrun
<1>26. CASE Reaper
  BY <1>26 DEF Reaper, ReapLeases, Reap, SelectStale, FailStale
<1>27. CASE UNCHANGED vars
  BY <1>27 DEF vars
<1> QED
  BY <1>1, <1>2, <1>3, <1>4, <1>5, <1>6, <1>7, <1>8, <1>9, <1>10, <1>11,
     <1>12, <1>13, <1>14, <1>15, <1>16, <1>17, <1>18, <1>19, <1>20, <1>21,
     <1>22, <1>23, <1>24, <1>25, <1>26, <1>27 DEF Next, Step, Progress

-----------------------------------------------------------------------------
(* One Run at a time *)

\* The holders are the workers between acquire and release, and until a lease
\* has expired under one of them the row is theirs, which leaves room for one.
Held ==
    /\ holders = {w \in Workers : pc[w] \in InFlight}
    /\ overruns = 0 => \A w \in holders : lease = w /\ ~ expired

\* The steps of run_binding that do not touch the lease.
Middle(w) ==
    \/ Start(w) \/ Raise(w) \/ NothingToDrain(w) \/ OpenRecovery(w)
    \/ ExecutePending(w) \/ ExtractNothingLoadPending(w) \/ Extract(w)
    \/ Normalize(w) \/ StartLoad(w) \/ FinishLoad(w) \/ LoadFails(w)
    \/ Verify(w) \/ VerifyFails(w)
    \/ RecoverySucceeds(w) \/ RunSucceeds(w)
    \/ RecoveryFails(w) \/ RecoveryUnsaved(w) \/ RunFails(w)

\* They stay between acquire and release.
LEMMA MiddleStays ==
    ASSUME NEW w \in Workers, Typed, Middle(w)
    PROVE  /\ pc[w] \in InFlight
           /\ pc' = [pc EXCEPT ![w] = pc'[w]]
           /\ pc'[w] \in InFlight
           /\ UNCHANGED <<leaseVars, overruns>>
<1> USE DEF Typed, TypeOK, InFlight, Working, Goto
<1>1. CASE Start(w) \/ Raise(w) \/ NothingToDrain(w)
  BY <1>1 DEF Start, Raise, NothingToDrain
<1>2. CASE OpenRecovery(w)
  BY <1>2 DEF OpenRecovery
<1>3. CASE ExecutePending(w)
  <2> DEFINE l == IF HasPending THEN "fail" ELSE "extract"
  <2>1. l \in {"fail", "extract"}
    OBVIOUS
  <2>2. pc[w] = "execute" /\ pc' = [pc EXCEPT ![w] = l]
    BY <1>3 DEF ExecutePending
  <2> HIDE DEF l
  <2> QED
    BY <1>3, <2>1, <2>2 DEF ExecutePending
<1>4. CASE ExtractNothingLoadPending(w) \/ Extract(w)
  BY <1>4 DEF ExtractNothingLoadPending, Extract
<1>5. CASE Normalize(w) \/ StartLoad(w)
  BY <1>5 DEF Normalize, StartLoad
<1>6. CASE FinishLoad(w) \/ LoadFails(w)
  BY <1>6 DEF FinishLoad, LoadFails
<1>7. CASE Verify(w) \/ VerifyFails(w)
  BY <1>7 DEF Verify, VerifyFails
<1>8. CASE RecoverySucceeds(w) \/ RunSucceeds(w)
  BY <1>8 DEF RecoverySucceeds, RunSucceeds, Succeed
<1>9. CASE RecoveryFails(w) \/ RecoveryUnsaved(w) \/ RunFails(w)
  BY <1>9 DEF RecoveryFails, RecoveryUnsaved, RunFails, Fail
<1> QED
  BY <1>1, <1>2, <1>3, <1>4, <1>5, <1>6, <1>7, <1>8, <1>9 DEF Middle

\* The lease follows the workers through every step.
LEMMA HeldStep == Typed /\ Held /\ [Next]_vars => Held'
<1> SUFFICES ASSUME Typed, Held, [Next]_vars PROVE Held'
  OBVIOUS
<1> USE LeaseAssumption DEF Typed, TypeOK, LeaseTypeOK, Held
<1>1. ASSUME UNCHANGED <<leaseVars, overruns>>, UNCHANGED pc
      PROVE  Held'
  BY <1>1 DEF leaseVars
<1>2. ASSUME NEW w \in Workers, NEW l, UNCHANGED <<leaseVars, overruns>>,
             pc' = [pc EXCEPT ![w] = l], pc[w] \in InFlight <=> l \in InFlight
      PROVE  Held'
  BY <1>2 DEF leaseVars
<1>3. CASE EnqueueRun
  BY <1>1, <1>3 DEF EnqueueRun, workVars
<1>4. ASSUME NEW w \in Workers, NEW r \in Runs, Begin(w, r)
      PROVE  Held'
  BY <1>2, <1>4 DEF Begin, Goto, InFlight, Working
<1>5. ASSUME NEW w \in Workers, Acquire(w) PROVE Held'
  <2> USE <1>5
  <2>1. /\ pc' = [pc EXCEPT ![w] = "start"]
        /\ holders' = holders \cup {w}
        /\ lease' = w
        /\ Grantable
    BY DEF Acquire, Grant, Goto
  <2>2. holders' = {v \in Workers : pc'[v] \in InFlight}
    BY <2>1 DEF InFlight
  <2>3. overruns' = 0 => expired' = FALSE /\ overruns = 0
    <3>1. (Grant(w, FALSE) /\ UNCHANGED overruns) \/ Overrun
      BY Zenon DEF Acquire
    <3> QED
      BY <3>1 DEF Grant, Overrun
  <2>4. overruns = 0 => holders = {}
    BY <2>1 DEF Grantable
  <2> QED
    BY <2>1, <2>2, <2>3, <2>4
<1>6. ASSUME NEW w \in Workers, AcquireRefused(w) PROVE Held'
  BY <1>2, <1>6 DEF AcquireRefused, Goto, InFlight, Working
<1>7. ASSUME NEW w \in Workers, RecordSkip(w) PROVE Held'
  BY <1>2, <1>7 DEF RecordSkip, Goto, InFlight, Working
<1>8. ASSUME NEW w \in Workers, Middle(w) PROVE Held'
  BY <1>2, <1>8, MiddleStays
<1>9. ASSUME NEW w \in Workers, ReleaseLease(w) \/ Interrupt(w) PROVE Held'
  <2>1. /\ Release(w)
        /\ pc' = [pc EXCEPT ![w] = "idle"]
        /\ UNCHANGED overruns
    BY <1>9 DEF ReleaseLease, Interrupt, Leave
  <2>2. holders' = {v \in Workers : pc'[v] \in InFlight}
    BY <2>1 DEF Release, InFlight, Working
  <2> QED
    BY <2>1, <2>2 DEF Release
<1>10. ASSUME NEW w \in Workers, Crash(w) PROVE Held'
  <2>1. /\ IF w \in holders THEN Abandon(w) ELSE UNCHANGED leaseVars
        /\ pc' = [pc EXCEPT ![w] = "idle"]
        /\ UNCHANGED overruns
    BY <1>10 DEF Crash, Leave
  <2>2. holders' = holders \ {w}
    BY <2>1 DEF Abandon, leaseVars
  <2>3. holders' = {v \in Workers : pc'[v] \in InFlight}
    BY <2>1, <2>2 DEF InFlight, Working
  <2>4. \A v \in holders' : lease = v => lease' = v
    BY <2>1, <2>2 DEF Abandon, leaseVars
  <2>5. UNCHANGED expired
    BY <2>1 DEF Abandon, leaseVars
  <2> QED
    BY <2>1, <2>2, <2>3, <2>4, <2>5
<1>11. CASE LeaseExpires
  <2>1. UNCHANGED <<pc, holders, lease>>
    BY <1>11 DEF LeaseExpires, Expire, workVars
  <2>2. overruns' = 0 => overruns = 0 /\ lease \notin Workers
    BY <1>11 DEF LeaseExpires, Overrun
  <2> QED
    BY <2>1, <2>2
<1>12. CASE ReapLeases
  BY <1>12 DEF ReapLeases, Reap, leaseVars, workVars
<1>13. CASE SelectStale \/ FailStale
  BY <1>1, <1>13 DEF SelectStale, FailStale, workVars
<1>14. CASE UNCHANGED vars
  BY <1>1, <1>14 DEF vars, workVars
<1> QED
  BY <1>3, <1>4, <1>5, <1>6, <1>7, <1>8, <1>9, <1>10, <1>11, <1>12, <1>13,
     <1>14
     DEF Next, Step, Progress, Middle, Reaper, DeliverTask, CallInline, NewId,
         Unborn

\* The lease's part of the invariant gives the property the run checks.
LEMMA HeldExcludes == Held => OneInFlight
BY DEF Held, OneInFlight

-----------------------------------------------------------------------------
(* What a succeeded Run stands for *)

\* From the extraction to the verdict.
Ingesting == {"normalize", "load", "loading", "verify", "record"}

\* A worker drains into a Run marked as a recovery, and only in flight.
Recovering ==
    \A w \in Workers :
        rec[w] # NoRun => pc[w] \in InFlight /\ rec[w] \in recovery

\* A load id is a package that exists, and a worker has some in hand only
\* between the load and the verdict.
Known ==
    /\ \A r \in Runs : \A p \in loads[r] : stage[p] # "unused"
    /\ \A w \in Workers : \A p \in got[w] : stage[p] # "unused"
    /\ \A w \in Workers :
          got[w] # {} => pc[w] \in {"loading", "verify", "record"}

\* An execution that is not a recovery extracts into an empty pipeline, has
\* consulted the source from then on, and carries its own packages only.
Fresh(w) ==
    /\ pc[w] = "extract" => Leftover = {}
    /\ pc[w] \in Ingesting /\ rec[w] = NoRun =>
          /\ cur[w] \in fetched
          /\ \A p \in Leftover \cup got[w] : extractor[p] = cur[w]

Ingest ==
    /\ Recovering
    /\ Known
    /\ overruns = 0 => \A w \in Workers : Fresh(w)

RunInv == /\ Typed /\ Held /\ Ingest
          /\ SucceededMeansFetched
          /\ CreditedToExtractor

\* No step takes back an overrun.
LEMMA OverrunsGrow ==
    Typed /\ [Next]_vars => overruns' \in Nat /\ (overruns' = 0 => overruns = 0)
<1> SUFFICES ASSUME Typed, [Next]_vars
             PROVE  overruns' \in Nat /\ (overruns' = 0 => overruns = 0)
  OBVIOUS
<1>1. overruns \in Nat
  BY DEF Typed, TypeOK
<1>2. UNCHANGED overruns \/ Overrun
  <2>1. ASSUME NEW w \in Workers, Acquire(w)
        PROVE  UNCHANGED overruns \/ Overrun
    BY <2>1, Zenon DEF Acquire
  <2>2. ASSUME NEW w \in Workers, Middle(w)
        PROVE  UNCHANGED overruns \/ Overrun
    BY <2>2, MiddleStays
  <2>3. CASE LeaseExpires
    BY <2>3 DEF LeaseExpires
  <2>4. CASE Reaper
    BY <2>4 DEF Reaper, ReapLeases, SelectStale, FailStale
  <2>5. CASE EnqueueRun \/ UNCHANGED vars
    BY <2>5 DEF EnqueueRun, vars
  <2>6. ASSUME NEW w \in Workers, NEW r \in Runs, Begin(w, r)
        PROVE  UNCHANGED overruns \/ Overrun
    BY <2>6 DEF Begin
  <2>7. ASSUME NEW w \in Workers,
               \/ AcquireRefused(w) \/ RecordSkip(w) \/ ReleaseLease(w)
               \/ Crash(w) \/ Interrupt(w)
        PROVE  UNCHANGED overruns \/ Overrun
    BY <2>7 DEF AcquireRefused, RecordSkip, ReleaseLease, Crash, Interrupt
  <2> QED
    BY <2>1, <2>2, <2>3, <2>4, <2>5, <2>6, <2>7
       DEF Next, Step, Progress, Middle, DeliverTask, CallInline, NewId, Unborn
<1> QED
  BY <1>1, <1>2 DEF Overrun

\* Every step outside the middle of run_binding leaves the pipeline and what
\* was fetched and recorded alone, and the workers too but for one that ends
\* up before the middle of run_binding or out of it.
Outside(w) ==
    /\ pc'[w] \notin Ingesting \cup {"extract"}
    /\ rec'[w] \in {NoRun, rec[w]}
    /\ got'[w] \in {{}, got[w]}
    /\ pc[w] \in InFlight /\ pc'[w] \notin InFlight =>
          rec'[w] = NoRun /\ got'[w] = {}
    /\ pc[w] \in Ingesting => got'[w] = {}
    /\ \A v \in Workers \ {w} : /\ pc'[v] = pc[v] /\ cur'[v] = cur[v]
                                 /\ rec'[v] = rec[v] /\ got'[v] = got[v]

LEMMA OutsideSteps ==
    ASSUME Typed, [Next]_vars
    PROVE  \/ \E w \in Workers : Middle(w)
           \/ /\ UNCHANGED <<dltVars, fetched, loads, recovery>>
              /\ UNCHANGED workVars \/ \E w \in Workers : Outside(w)
<1> USE DEF Typed, TypeOK, InFlight, Working, Ingesting, Goto
<1> DEFINE Goal == /\ UNCHANGED <<dltVars, fetched, loads, recovery>>
                   /\ UNCHANGED workVars \/ \E w \in Workers : Outside(w)
<1>1. ASSUME EnqueueRun \/ LeaseExpires \/ Reaper \/ UNCHANGED vars
      PROVE  Goal
  BY <1>1 DEF EnqueueRun, LeaseExpires, Reaper, ReapLeases, SelectStale,
              FailStale, vars, runVars
<1>2. ASSUME NEW w \in Workers, NEW r \in Runs, Begin(w, r)
      PROVE  Goal
  BY <1>2 DEF Begin, Outside, runVars
<1>3. ASSUME NEW w \in Workers, Acquire(w)
      PROVE  Goal
  BY <1>3 DEF Acquire, Outside, runVars
<1>4. ASSUME NEW w \in Workers, AcquireRefused(w) \/ RecordSkip(w)
      PROVE  Goal
  BY <1>4 DEF AcquireRefused, RecordSkip, Outside, runVars
<1>5. ASSUME NEW w \in Workers, ReleaseLease(w) \/ Crash(w) \/ Interrupt(w)
      PROVE  Goal
  BY <1>5 DEF ReleaseLease, Crash, Interrupt, Leave, DropInHand, Outside,
              runVars
<1> QED
  BY <1>1, <1>2, <1>3, <1>4, <1>5
     DEF Next, Step, Progress, Middle, DeliverTask, CallInline, NewId, Unborn

LEMMA RecoveringStep == Typed /\ Recovering /\ [Next]_vars => Recovering'
<1> SUFFICES ASSUME Typed, Recovering, [Next]_vars PROVE Recovering'
  OBVIOUS
<1> USE DEF Typed, TypeOK, Recovering
<1>1. ASSUME NEW w \in Workers, Middle(w) PROVE Recovering'
  <2>1. /\ pc'[w] \in InFlight
        /\ \A v \in Workers \ {w} : pc'[v] = pc[v]
    BY <1>1, MiddleStays
  <2>2. CASE OpenRecovery(w)
    BY <2>1, <2>2 DEF OpenRecovery
  <2>3. CASE RecoverySucceeds(w) \/ RecoveryFails(w) \/ RecoveryUnsaved(w)
    BY <2>1, <2>3 DEF RecoverySucceeds, RecoveryFails, RecoveryUnsaved,
                      Succeed, Fail, runVars
  <2>4. CASE UNCHANGED <<rec, recovery>>
    BY <2>1, <2>4
  <2> QED
    BY <1>1, <2>2, <2>3, <2>4
       DEF Middle, Start, Raise, NothingToDrain, ExecutePending,
           ExtractNothingLoadPending, Extract, Normalize, StartLoad,
           FinishLoad, LoadFails, Verify, VerifyFails, RunSucceeds, RunFails,
           Succeed, Fail, runVars
<1>2. ASSUME NEW w \in Workers, Outside(w), UNCHANGED recovery
      PROVE  Recovering'
  BY <1>2 DEF Outside
<1>3. ASSUME UNCHANGED workVars, UNCHANGED recovery PROVE Recovering'
  BY <1>3 DEF workVars
<1> QED
  BY <1>1, <1>2, <1>3, OutsideSteps

LEMMA KnownStep == Typed /\ Known /\ [Next]_vars => Known'
<1> SUFFICES ASSUME Typed, Known, [Next]_vars PROVE Known'
  OBVIOUS
<1> USE DEF Typed, TypeOK, Known
<1>1. ASSUME NEW w \in Workers, Middle(w) PROVE Known'
  <2>1. \A v \in Workers \ {w} : pc'[v] = pc[v]
    BY <1>1, MiddleStays
  <2>2. CASE /\ UNCHANGED <<dltVars, loads, got>>
             /\ \/ pc[w] \notin {"loading", "verify", "record"}
                \/ pc'[w] = "record"
    BY <2>1, <2>2 DEF dltVars
  <2>3. CASE Extract(w)
    BY <2>1, <2>3 DEF Extract, dltVars, runVars, Goto, NewId, In
  <2>4. CASE Normalize(w) \/ FinishLoad(w)
    <3>1. \A p \in Packages : stage[p] # "unused" => stage'[p] # "unused"
      BY <2>4 DEF Normalize, FinishLoad, Advance
    <3>2. /\ UNCHANGED <<loads, got>>
          /\ pc[w] \notin {"loading", "verify", "record"} \/ pc'[w] = "verify"
      BY <2>4 DEF Normalize, FinishLoad, runVars, Goto
    <3> QED
      BY <2>1, <3>1, <3>2
  <2>5. CASE LoadFails(w)
    <3>1. \A p \in Packages : stage[p] # "unused" => stage'[p] # "unused"
      BY <2>5 DEF LoadFails, Advance
    <3>2. UNCHANGED loads /\ got' = [got EXCEPT ![w] = {}]
      BY <2>5 DEF LoadFails, runVars
    <3> QED
      BY <2>1, <3>1, <3>2
  <2>6. CASE StartLoad(w)
    BY <2>1, <2>6 DEF StartLoad, In, Goto, runVars, dltVars
  <2>7. CASE VerifyFails(w) \/ Raise(w) \/ RecoveryUnsaved(w)
    BY <2>1, <2>7 DEF VerifyFails, Raise, RecoveryUnsaved, DropInHand, Goto,
                      runVars, dltVars
  <2>8. CASE RecoverySucceeds(w)
    BY <2>1, <2>8 DEF RecoverySucceeds, Succeed, Goto, dltVars
  <2>9. CASE RunSucceeds(w)
    BY <2>1, <2>9 DEF RunSucceeds, Succeed, Goto, dltVars
  <2> QED
    BY <1>1, <2>2, <2>3, <2>4, <2>5, <2>6, <2>7, <2>8, <2>9
       DEF Middle, Start, NothingToDrain, OpenRecovery, ExecutePending,
           ExtractNothingLoadPending, Verify, RecoveryFails, RunFails, Fail,
           runVars, Goto
<1>2. ASSUME NEW w \in Workers, Outside(w), UNCHANGED <<dltVars, loads>>
      PROVE  Known'
  BY <1>2 DEF Outside, dltVars, Ingesting, InFlight, Working
<1>3. ASSUME UNCHANGED workVars, UNCHANGED <<dltVars, loads>> PROVE Known'
  BY <1>3 DEF workVars, dltVars
<1> QED
  BY <1>1, <1>2, <1>3, OutsideSteps

AllFresh == overruns = 0 => \A w \in Workers : Fresh(w)

\* As long as one worker is in flight at a time, nobody else adds packages to
\* the pipeline it found empty.
LEMMA FreshStep ==
    Typed /\ Held /\ Recovering /\ Known /\ AllFresh /\ [Next]_vars => AllFresh'
<1> SUFFICES ASSUME Typed, Held, Recovering, Known, AllFresh, [Next]_vars,
                    overruns' = 0, NEW v \in Workers
             PROVE  Fresh(v)'
  BY DEF AllFresh
<1> USE DEF Typed, TypeOK
<1>1. overruns = 0 /\ OneInFlight /\ Fresh(v)
  BY OverrunsGrow, HeldExcludes DEF AllFresh
<1>2. ASSUME NEW w \in Workers, Middle(w) PROVE Fresh(v)'
  <2>1. /\ pc[w] \in InFlight
        /\ \A u \in Workers \ {w} : pc'[u] = pc[u]
    BY <1>2, MiddleStays
  <2>2. CASE v # w
    BY <1>1, <2>1, <2>2 DEF OneInFlight, Fresh, Ingesting, InFlight, Working
  <2>3. CASE v = w
    <3> USE <1>1, <2>3 DEF Goto
    <3>1. CASE pc'[w] \notin Ingesting \cup {"extract"}
      BY <3>1 DEF Fresh, Ingesting
    <3>2. CASE OpenRecovery(w)
      BY <3>2, <3>1, <2>1
         DEF OpenRecovery, Fresh, Ingesting, NewId, Unborn, Runs, NoRun
    <3>3. CASE ExecutePending(w)
      BY <3>3 DEF ExecutePending, HasPending, Fresh, Leftover, In, dltVars,
                  Ingesting
    <3>4. CASE ExtractNothingLoadPending(w)
      BY <3>4 DEF ExtractNothingLoadPending, Fresh
    <3>5. CASE Extract(w)
      <4>1. /\ pc' = [pc EXCEPT ![w] = "normalize"]
            /\ fetched' = fetched \cup {cur[w]}
            /\ UNCHANGED <<cur, rec, got>>
            /\ pc[w] = "extract" /\ Leftover = {}
        BY <3>5 DEF Extract
      <4>2. got[w] = {}
        BY <4>1 DEF Known
      <4>3. \A p \in Leftover' : extractor'[p] = cur[w]
        BY <4>1, <3>5 DEF Extract, Leftover, In, NewId, dltVars
      <4> QED
        BY <4>1, <4>2, <4>3 DEF Fresh, Ingesting
    <3>6. CASE Normalize(w)
      <4>1. Leftover' \subseteq Leftover
        BY <3>6 DEF Normalize, Leftover, In, Advance
      <4> QED
        BY <4>1, <3>6 DEF Normalize, Fresh, Ingesting
    <3>7. CASE StartLoad(w)
      BY <3>7 DEF StartLoad, Fresh, Ingesting, Leftover, In, dltVars
    <3>8. CASE FinishLoad(w)
      <4>1. Leftover' \subseteq Leftover
        BY <3>8 DEF FinishLoad, Leftover, In, Advance
      <4> QED
        BY <4>1, <3>8 DEF FinishLoad, Fresh, Ingesting
    <3>9. CASE Verify(w)
      BY <3>9 DEF Verify, Fresh, Ingesting, Leftover, In, dltVars
    <3> QED
      BY <1>2, <3>1, <3>2, <3>3, <3>4, <3>5, <3>6, <3>7, <3>8, <3>9
         DEF Middle, Start, Raise, NothingToDrain, LoadFails, VerifyFails,
             RecoverySucceeds, RunSucceeds, Succeed, RecoveryFails,
             RecoveryUnsaved, RunFails, Fail, Ingesting
  <2> QED
    BY <2>2, <2>3
<1>3. ASSUME NEW w \in Workers, Outside(w), UNCHANGED <<dltVars, fetched>>
      PROVE  Fresh(v)'
  BY <1>1, <1>3 DEF Outside, Fresh, Ingesting, Leftover, In, dltVars
<1>4. ASSUME UNCHANGED workVars, UNCHANGED <<dltVars, fetched>>
      PROVE  Fresh(v)'
  BY <1>1, <1>4 DEF Fresh, workVars, Leftover, In, dltVars
<1> QED
  BY <1>2, <1>3, <1>4, OutsideSteps

\* Only _succeed makes a Run succeeded, and only _start takes back that its
\* source was consulted.
LEMMA SucceededStep ==
    Typed /\ Recovering /\ AllFresh /\ SucceededMeansFetched /\ [Next]_vars
        => SucceededMeansFetched'
<1> SUFFICES ASSUME Typed, Recovering, AllFresh, SucceededMeansFetched,
                    [Next]_vars, overruns' = 0, NEW r \in Runs,
                    r \notin recovery', status'[r] = "succeeded"
             PROVE  r \in fetched'
  BY DEF SucceededMeansFetched
<1> USE DEF Typed, Employed, TypeOK
<1>1. /\ overruns = 0
      /\ \A w \in Workers : Fresh(w)
      /\ r \notin recovery /\ status[r] = "succeeded" => r \in fetched
  BY OverrunsGrow DEF AllFresh, SucceededMeansFetched
<1>2. ASSUME NEW w \in Workers, Middle(w) PROVE r \in fetched'
  <2>1. CASE Start(w)
    BY <1>1, <2>1 DEF Start, InFlight, runVars
  <2>2. CASE RunSucceeds(w)
    BY <1>1, <2>2 DEF RunSucceeds, Succeed, Fresh, Ingesting
  <2>3. CASE RecoverySucceeds(w)
    BY <1>1, <2>3 DEF RecoverySucceeds, Succeed, Recovering
  <2>4. CASE RecoveryFails(w) \/ RunFails(w)
    BY <1>1, <2>4 DEF RecoveryFails, RunFails, Fail
  <2>5. CASE OpenRecovery(w)
    BY <1>1, <2>5 DEF OpenRecovery
  <2> QED
    BY <1>1, <1>2, <2>1, <2>2, <2>3, <2>4, <2>5
       DEF Middle, Raise, NothingToDrain, ExecutePending,
           ExtractNothingLoadPending, Extract, Normalize, StartLoad,
           FinishLoad, LoadFails, Verify, VerifyFails, RecoveryUnsaved,
           runVars
<1>3. ASSUME UNCHANGED <<fetched, recovery>>,
             status'[r] # "succeeded" \/ status'[r] = status[r]
      PROVE  r \in fetched'
  BY <1>1, <1>3
<1>4. CASE EnqueueRun
  BY <1>3, <1>4 DEF EnqueueRun
<1>5. CASE FailStale
  BY <1>3, <1>5 DEF FailStale
<1>6. ASSUME NEW w \in Workers, RecordSkip(w) PROVE r \in fetched'
  BY <1>3, <1>6 DEF RecordSkip
<1>7. ASSUME UNCHANGED <<runVars, fetched>> PROVE r \in fetched'
  BY <1>3, <1>7 DEF runVars
<1>8. ASSUME NEW w \in Workers,
             \/ Acquire(w) \/ AcquireRefused(w) \/ ReleaseLease(w) \/ Crash(w)
             \/ Interrupt(w) \/ \E q \in Runs : Begin(w, q)
      PROVE  r \in fetched'
  BY <1>7, <1>8 DEF Acquire, AcquireRefused, ReleaseLease, Crash, Interrupt,
                    Begin
<1>9. CASE LeaseExpires \/ ReapLeases \/ SelectStale \/ UNCHANGED vars
  BY <1>7, <1>9 DEF LeaseExpires, ReapLeases, SelectStale, vars
<1> QED
  BY <1>2, <1>4, <1>5, <1>6, <1>8, <1>9
     DEF Next, Step, Progress, Middle, Reaper, DeliverTask, CallInline, NewId,
         Unborn

\* A load id is written by _succeed only, and extraction relabels only a
\* package nobody has recorded.
LEMMA CreditedStep ==
    Typed /\ Recovering /\ Known /\ AllFresh
            /\ CreditedToExtractor /\ [Next]_vars
        => CreditedToExtractor'
<1> SUFFICES ASSUME Typed, Recovering, Known, AllFresh, CreditedToExtractor,
                    [Next]_vars, overruns' = 0, NEW r \in Runs,
                    r \notin recovery', NEW p \in loads'[r]
             PROVE  extractor'[p] = r
  BY Zenon DEF CreditedToExtractor
<1> USE DEF Typed, TypeOK
<1>1. /\ overruns = 0
      /\ \A w \in Workers : Fresh(w)
      /\ r \notin recovery /\ p \in loads[r] => extractor[p] = r
  BY OverrunsGrow DEF AllFresh, CreditedToExtractor
<1>2. ASSUME NEW w \in Workers, Middle(w) PROVE extractor'[p] = r
  <2>1. CASE Extract(w)
    BY <1>1, <2>1 DEF Extract, Known, NewId, In, dltVars, runVars
  <2>2. CASE RunSucceeds(w)
    BY <1>1, <2>2 DEF RunSucceeds, Succeed, Fresh, Ingesting, dltVars
  <2>3. CASE RecoverySucceeds(w)
    BY <1>1, <2>3 DEF RecoverySucceeds, Succeed, Recovering, dltVars
  <2>4. CASE OpenRecovery(w)
    BY <1>1, <2>4 DEF OpenRecovery, dltVars
  <2>5. CASE UNCHANGED <<loads, recovery, extractor>>
    BY <1>1, <2>5
  <2> QED
    BY <1>2, <2>1, <2>2, <2>3, <2>4, <2>5
       DEF Middle, Start, Raise, NothingToDrain, ExecutePending,
           ExtractNothingLoadPending, Normalize, StartLoad, FinishLoad,
           LoadFails, Verify, VerifyFails, RecoveryFails, RecoveryUnsaved,
           RunFails, Fail, runVars, dltVars
<1>3. ASSUME UNCHANGED <<dltVars, loads, recovery>> PROVE extractor'[p] = r
  BY <1>1, <1>3 DEF dltVars
<1> QED
  BY <1>2, <1>3, OutsideSteps

-----------------------------------------------------------------------------
(* The theorems *)

\* The inductive invariant: types, the lease follows the workers in flight,
\* and what an execution has in hand is what its own source gave it.
THEOREM RunInvariant == Spec => []RunInv
<1>1. Init => RunInv
  <2> SUFFICES ASSUME Init PROVE RunInv
    OBVIOUS
  <2> USE LeaseAssumption DEF Init, LeaseInit
  <2>1. Typed
    BY DEF Typed, Employed, TypeOK, LeaseTypeOK, RunStatus
  <2>2. Held
    BY DEF Held, InFlight, Working
  <2>3. Ingest
    BY DEF Ingest, Recovering, Known, Fresh, Ingesting
  <2>4. SucceededMeansFetched /\ CreditedToExtractor
    BY DEF SucceededMeansFetched, CreditedToExtractor
  <2> QED
    BY <2>1, <2>2, <2>3, <2>4 DEF RunInv
<1>2. RunInv /\ [Next]_vars => RunInv'
  BY TypeStep, HeldStep, RecoveringStep, KnownStep, FreshStep, SucceededStep,
     CreditedStep DEF RunInv, Ingest, AllFresh
<1> QED
  BY <1>1, <1>2, PTL DEF Spec

\* Every variable of the Run pipeline keeps its type.
THEOREM RunTypes == Spec => []TypeOK
<1>1. RunInv => TypeOK
  BY DEF RunInv, Typed
<1> QED
  BY <1>1, RunInvariant, PTL

\* "One Run per Binding, enforced by a database lease", for any number of
\* workers, crashes, takeovers and reaps, until a lease overruns.
THEOREM RunExclusion == Spec => []OneInFlight
<1>1. RunInv => OneInFlight
  BY HeldExcludes DEF RunInv
<1> QED
  BY <1>1, RunInvariant, PTL

\* A succeeded Run that is not a recovery consulted its source: draining first
\* and refusing a pending package is enough, whatever crashed before.
THEOREM RunFetched == Spec => []SucceededMeansFetched
<1>1. RunInv => SucceededMeansFetched
  BY DEF RunInv
<1> QED
  BY <1>1, RunInvariant, PTL

\* A load id is recorded on the Run that extracted it or on a recovery Run.
THEOREM RunCredit == Spec => []CreditedToExtractor
<1>1. RunInv => CreditedToExtractor
  BY DEF RunInv
<1> QED
  BY <1>1, RunInvariant, PTL

-----------------------------------------------------------------------------
(* The pipeline between two stages *)

\* What a worker finds where it is: normalize leaves nothing extracted, a load
\* takes all that is normalized, and what it landed is nobody's yet.
Flowing(w) ==
    /\ pc[w] = "load" => In("extracted") = {}
    /\ pc[w] = "loading" =>
          In("extracted") = {} /\ got[w] = In("normalized")
    /\ pc[w] \in {"verify", "record"} =>
          /\ Leftover = {}
          /\ got[w] \subseteq In("loaded")
          /\ \A r \in Runs : got[w] \cap loads[r] = {}

\* A source is consulted over an empty pipeline only, so that a single package
\* is ever pending; a recorded load id has landed.
Pipeline ==
    /\ \A p, q \in Leftover : p = q
    /\ \A r \in Runs : loads[r] \subseteq In("loaded")
    /\ \A w \in Workers : Flowing(w)

PipelineInv == overruns = 0 => Pipeline

\* One worker at a time takes the packages from stage to stage.
LEMMA PipelineStep ==
    Typed /\ Held /\ Recovering /\ Known /\ PipelineInv /\ [Next]_vars
        => PipelineInv'
<1> SUFFICES ASSUME Typed, Held, Recovering, Known, PipelineInv, [Next]_vars,
                    overruns' = 0
             PROVE  Pipeline'
  BY DEF PipelineInv
<1> USE DEF Typed, TypeOK
<1>1. overruns = 0 /\ OneInFlight /\ Pipeline
  BY OverrunsGrow, HeldExcludes DEF PipelineInv
<1>2. ASSUME NEW w \in Workers, Middle(w) PROVE Pipeline'
  <2>1. /\ pc[w] \in InFlight
        /\ pc'[w] \in InFlight
        /\ \A u \in Workers \ {w} : pc'[u] = pc[u] /\ pc[u] \notin InFlight
    <3>1. /\ pc[w] \in InFlight
          /\ pc'[w] \in InFlight
          /\ \A u \in Workers \ {w} : pc'[u] = pc[u]
      BY <1>2, MiddleStays
    <3> QED
      BY <3>1, <1>1 DEF OneInFlight
  <2>2. \A u \in Workers \ {w} : Flowing(u)'
    BY <2>1 DEF Flowing, InFlight, Working
  <2>3. SUFFICES /\ (\A p, q \in Leftover : p = q)'
                 /\ \A r \in Runs : (loads[r] \subseteq In("loaded"))'
                 /\ Flowing(w)'
    BY <2>2 DEF Pipeline
  <2> USE <1>1 DEF Goto, Pipeline
  <2>4. CASE /\ UNCHANGED <<dltVars, loads>>
             /\ pc'[w] \notin {"load", "loading", "verify", "record"}
    BY <2>4 DEF Flowing, Leftover, In, dltVars
  <2>5. CASE Extract(w)
    <3>1. /\ pc'[w] = "normalize"
          /\ loads' = loads
          /\ Leftover = {}
      BY <2>5 DEF Extract, runVars
    <3>2. CASE UNCHANGED dltVars
      BY <3>1, <3>2 DEF Flowing, Leftover, In, dltVars
    <3>3. CASE \E p \in In("unused") :
                 stage' = [stage EXCEPT ![p] = "extracted"]
      <4>1. PICK p \in In("unused") : stage' = [stage EXCEPT ![p] = "extracted"]
        BY <3>3
      <4>2. Leftover' \subseteq {p}
        BY <3>1, <4>1 DEF Leftover, In
      <4>3. In("loaded") \subseteq In("loaded")'
        BY <4>1 DEF In
      <4> QED
        BY <3>1, <4>2, <4>3 DEF Flowing
    <3> QED
      BY <2>5, <3>2, <3>3 DEF Extract, NewId
  <2>6. CASE Normalize(w)
    <3>1. /\ pc'[w] = "load"
          /\ loads' = loads
          /\ stage' = Advance("extracted", "normalized", Packages)
      BY <2>6 DEF Normalize, runVars
    <3>2. /\ Leftover' \subseteq Leftover
          /\ In("loaded")' = In("loaded")
          /\ In("extracted")' = {}
      BY <3>1 DEF Advance, Leftover, In
    <3> QED
      BY <3>1, <3>2 DEF Flowing
  <2>7. CASE StartLoad(w)
    BY <2>7 DEF StartLoad, Flowing, Leftover, In, dltVars, runVars
  <2>8. CASE FinishLoad(w)
    <3>1. /\ pc[w] = "loading" /\ pc'[w] = "verify"
          /\ UNCHANGED <<loads, got>>
          /\ stage' = Advance("normalized", "loaded", got[w])
      BY <2>8 DEF FinishLoad, runVars
    <3>2. In("extracted") = {} /\ got[w] = In("normalized")
      BY <3>1 DEF Flowing
    <3>3. /\ Leftover' = {}
          /\ In("loaded")' = In("loaded") \cup got[w]
      BY <3>1, <3>2 DEF Advance, Leftover, In
    <3>4. \A r \in Runs : got[w] \cap loads[r] = {}
      BY <3>2 DEF In
    <3> QED
      BY <3>1, <3>3, <3>4 DEF Flowing
  <2>9. CASE LoadFails(w)
    <3>1. /\ pc'[w] = "fail"
          /\ loads' = loads
          /\ \E done \in SUBSET got[w] :
                stage' = Advance("normalized", "loaded", done)
      BY <2>9 DEF LoadFails, runVars
    <3>2. /\ Leftover' \subseteq Leftover
          /\ In("loaded") \subseteq In("loaded")'
      BY <3>1 DEF Advance, Leftover, In
    <3> QED
      BY <3>1, <3>2 DEF Flowing
  <2>10. CASE Verify(w)
    BY <2>10 DEF Verify, Flowing, Leftover, In, dltVars, runVars
  <2>11. ASSUME NEW r \in Runs, NEW next \in {"execute", "fail", "release"},
                Succeed(w, r, next)
         PROVE  Pipeline'
    <3>1. /\ pc[w] = "record" /\ pc'[w] = next
          /\ UNCHANGED dltVars
          /\ loads' = [loads EXCEPT ![r] = got[w]]
      BY <2>11 DEF Succeed
    <3>2. got[w] \subseteq In("loaded")
      BY <3>1 DEF Flowing
    <3> QED
      BY <2>2, <3>1, <3>2 DEF Flowing, Leftover, In, dltVars
  <2>12. CASE RecoverySucceeds(w) \/ RunSucceeds(w)
    BY <2>11, <2>12 DEF RecoverySucceeds, RunSucceeds, Employed, InFlight,
                        Working, Succeed
  <2> QED
    BY <1>2, <2>4, <2>5, <2>6, <2>7, <2>8, <2>9, <2>10, <2>12
       DEF Middle, Start, Raise, NothingToDrain, OpenRecovery, ExecutePending,
           ExtractNothingLoadPending, VerifyFails, RecoveryFails,
           RecoveryUnsaved, RunFails, Fail, runVars
<1>3. ASSUME NEW w \in Workers, Outside(w), UNCHANGED <<dltVars, loads>>
      PROVE  Pipeline'
  BY <1>1, <1>3 DEF Outside, Pipeline, Flowing, Ingesting, Leftover, In, dltVars
<1>4. ASSUME UNCHANGED workVars, UNCHANGED <<dltVars, loads>> PROVE Pipeline'
  BY <1>1, <1>4 DEF Pipeline, Flowing, workVars, Leftover, In, dltVars
<1> QED
  BY <1>2, <1>3, <1>4, OutsideSteps

-----------------------------------------------------------------------------
(* The Run table *)

\* What the row of a Run says while a worker has it: created or queued until
\* the lease is had, running until the verdict.  A second delivery may disturb
\* that for its own Run, never for a recovery Run, which is no task's.
Owned(w) ==
    /\ pc[w] = "idle" => cur[w] = NoRun
    /\ cur[w] \notin repeated =>
          /\ pc[w] \in {"acquire", "skip", "start"} =>
                \/ status[cur[w]] = "absent"
                \/ status[cur[w]] = "queued" /\ cur[w] \in delivered
          /\ pc[w] \in Working \ {"release"} => status[cur[w]] = "running"
          /\ pc[w] = "release" => status[cur[w]] \in Finished
    /\ rec[w] # NoRun =>
          /\ pc[w] \in Working \ {"release"}
          /\ status[rec[w]] = "running"
          /\ rec[w] \notin delivered

\* No Run is in two hands.
Apart ==
    \A v, w \in Workers :
        /\ cur[v] # NoRun /\ cur[v] = cur[w] => v = w \/ cur[v] \in repeated
        /\ rec[v] # NoRun /\ rec[v] = rec[w] => v = w
        /\ rec[v] # NoRun => rec[v] # cur[w]

\* A Run the reaper selected has lost its worker and gets no other.
Forsaken ==
    \A r \in stale \ repeated :
        status[r] = "running" /\ \A w \in Workers : r \notin {cur[w], rec[w]}

\* Load ids are on succeeded Runs only.
Unrecorded ==
    \A r \in Runs \ repeated : status[r] # "succeeded" => loads[r] = {}

\* What was delivered had been queued.
Queued ==
    /\ repeated \subseteq delivered
    /\ \A r \in delivered : status[r] # "absent"

Recorded ==
    /\ \A w \in Workers : Owned(w)
    /\ Apart
    /\ Forsaken
    /\ Unrecorded
    /\ Queued

RecordInv == overruns = 0 => Recorded

\* A worker that drops or ends its Run leaves the rest of the table alone.
LEMMA LeaveStep ==
    ASSUME Typed, Recorded, NEW w \in Workers, Leave(w),
           UNCHANGED <<runVars, reapVars, queueVars>>
    PROVE  Recorded'
<1> USE DEF Typed, TypeOK, Recorded, runVars, reapVars, queueVars, Leave
<1>1. \A v \in Workers : Owned(v)'
  BY DEF Owned, Working
<1>2. Apart'
  BY DEF Apart
<1>3. Forsaken'
  BY DEF Forsaken, Runs, NoRun
<1>4. Unrecorded' /\ Queued'
  BY DEF Unrecorded, Queued
<1> QED
  BY <1>1, <1>2, <1>3, <1>4

\* A worker that goes on with the Runs it has.
LEMMA GoOnStep ==
    ASSUME Typed, Recorded, NEW w \in Workers,
           NEW l \in InFlight \cup {"acquire", "skip"},
           pc' = [pc EXCEPT ![w] = l],
           \/ {pc[w], l} \subseteq {"acquire", "skip", "start"}
           \/ pc[w] \in Working \ {"release"} /\ l \in Working \ {"release"},
           UNCHANGED <<runVars, reapVars, queueVars, cur>>,
           rec' = rec \/ rec' = [rec EXCEPT ![w] = NoRun]
    PROVE  Recorded'
<1> USE DEF Typed, TypeOK, Recorded, runVars, reapVars, queueVars
<1>1. \A v \in Workers : Owned(v)'
  BY DEF Owned, Working
<1>2. Apart'
  BY DEF Apart
<1>3. Forsaken'
  BY DEF Forsaken, Runs, NoRun
<1>4. Unrecorded' /\ Queued'
  BY DEF Unrecorded, Queued
<1> QED
  BY <1>1, <1>2, <1>3, <1>4

\* A worker that saves the Run it has: r is its recovery Run, which it lets go
\* of, or the Run itself at the end.
LEMMA VerdictStep ==
    ASSUME Typed, Recorded, NEW w \in Workers, NEW r \in Runs, NEW l,
           NEW s \in Finished,
           pc[w] \in Working \ {"release"},
           pc' = [pc EXCEPT ![w] = l],
           status' = [status EXCEPT ![r] = s],
           rec' = [rec EXCEPT ![w] = NoRun],
           \/ rec[w] = r /\ l \in Working \ {"release"}
           \/ rec[w] = NoRun /\ cur[w] = r /\ l = "release",
           \A q \in Runs : q # r \/ s # "succeeded" => loads'[q] = loads[q],
           UNCHANGED <<reapVars, queueVars, cur>>
    PROVE  Recorded'
<1> USE DEF Typed, TypeOK, Recorded, reapVars, queueVars
<1>1. \A v \in Workers : Owned(v)'
  <2> TAKE v \in Workers
  <2>1. CASE v = w
    BY <2>1 DEF Owned, Working, Apart, NoRun, Runs
  <2>2. CASE v # w
    <3>1. /\ pc'[v] = pc[v] /\ cur'[v] = cur[v] /\ rec'[v] = rec[v]
          /\ Owned(v)
      BY <2>2
    <3>2. cur[v] = r => r \in repeated
      BY <2>2 DEF Apart, NoRun, Runs
    <3>3. rec[v] # NoRun => rec[v] # r
      BY <2>2 DEF Apart, NoRun, Runs
    <3> QED
      BY <3>1, <3>2, <3>3 DEF Owned
  <2> QED
    BY <2>1, <2>2
<1>2. Apart'
  BY DEF Apart
<1>3. Forsaken'
  BY DEF Forsaken, Runs, NoRun
<1>4. Unrecorded'
  <2>1. r \in repeated \/ status[r] = "running"
    BY DEF Owned, NoRun, Runs
  <2> QED
    BY <2>1 DEF Unrecorded
<1>5. Queued'
  BY DEF Queued, Finished
<1> QED
  BY <1>1, <1>2, <1>3, <1>4, <1>5

LEMMA RecordStep ==
    Typed /\ Held /\ RecordInv /\ [Next]_vars => RecordInv'
<1> SUFFICES ASSUME Typed, Held, RecordInv, [Next]_vars,
                    overruns' = 0
             PROVE  Recorded'
  BY DEF RecordInv
<1>1. overruns = 0 /\ Recorded
  BY OverrunsGrow DEF RecordInv
<1> USE <1>1 DEF Typed, Employed, TypeOK, runVars, reapVars, queueVars, Goto
<1>2. CASE EnqueueRun
  <2> USE <1>2 DEF Recorded, EnqueueRun, NewId, Unborn, workVars
  <2>1. \A v \in Workers : Owned(v)'
    BY DEF Owned
  <2>2. Apart'
    BY DEF Apart
  <2>3. Forsaken'
    BY DEF Forsaken
  <2>4. Unrecorded' /\ Queued'
    BY DEF Unrecorded, Queued
  <2> QED
    BY <2>1, <2>2, <2>3, <2>4
<1>3. ASSUME NEW w \in Workers, NEW r \in Runs, Begin(w, r),
             \/ /\ status[r] = "queued" \/ r \in delivered
                /\ r \notin delivered \/ r \in repeated'
                /\ repeated' \in {repeated, repeated \cup {r}}
                /\ delivered' = delivered \cup {r}
             \/ /\ status[r] = "absent"
                /\ UNCHANGED queueVars
                /\ \A v \in Workers : cur[v] # r
      PROVE  Recorded'
  <2> USE <1>3 DEF Recorded, Begin
  <2>1. \A v \in Workers : cur[v] = r => r \in repeated'
    BY DEF Owned, Working, InFlight, Finished, NoRun, Runs
  <2>2. \A v \in Workers : rec[v] # r
    BY DEF Owned, NoRun, Runs
  <2>3. \A v \in Workers : Owned(v)'
    BY <2>1, <2>2 DEF Owned, Working
  <2>4. Apart'
    BY <2>1, <2>2 DEF Apart
  <2>5. Forsaken'
    BY <2>1, <2>2 DEF Forsaken, Owned
  <2>6. Unrecorded' /\ Queued'
    BY DEF Unrecorded, Queued
  <2> QED
    BY <2>3, <2>4, <2>5, <2>6
<1>4. ASSUME NEW w \in Workers, NEW r \in Runs, DeliverTask(w, r)
      PROVE  Recorded'
  BY <1>3, <1>4 DEF DeliverTask
<1>5. ASSUME NEW w \in Workers, CallInline(w) PROVE Recorded'
  BY <1>3, <1>5 DEF CallInline, NewId, Unborn
<1>6. ASSUME NEW w \in Workers, Acquire(w) \/ AcquireRefused(w)
      PROVE  Recorded'
  <2>1. \E l \in {"start", "skip"} :
           pc[w] = "acquire" /\ pc' = [pc EXCEPT ![w] = l]
    BY <1>6 DEF Acquire, AcquireRefused
  <2> QED
    BY <1>6, <2>1, GoOnStep DEF Acquire, AcquireRefused, InFlight
<1>7. ASSUME NEW w \in Workers, RecordSkip(w) PROVE Recorded'
  <2> USE <1>7 DEF Recorded, RecordSkip
  <2>1. \A v \in Workers : Owned(v)'
    BY DEF Owned, Working, Apart, NoRun, Runs
  <2>2. Apart'
    BY DEF Apart
  <2>3. Forsaken'
    BY DEF Forsaken, NoRun, Runs
  <2>4. Unrecorded' /\ Queued'
    BY DEF Unrecorded, Queued, Owned
  <2> QED
    BY <2>1, <2>2, <2>3, <2>4
<1>8. ASSUME NEW w \in Workers, Start(w) PROVE Recorded'
  <2> USE <1>8 DEF Recorded, Start
  <2>1. \A v \in Workers : Owned(v)'
    BY DEF Owned, Working, Apart, NoRun, Runs
  <2>2. Apart'
    BY DEF Apart
  <2>3. Forsaken'
    BY DEF Forsaken, NoRun, Runs
  <2>4. Unrecorded' /\ Queued'
    BY DEF Unrecorded, Queued, Owned
  <2> QED
    BY <2>1, <2>2, <2>3, <2>4
<1>9. ASSUME NEW w \in Workers, OpenRecovery(w) PROVE Recorded'
  <2> USE <1>9 DEF Recorded, OpenRecovery
  <2>1. PICK r \in Unborn : /\ status' = [status EXCEPT ![r] = "running"]
                            /\ rec' = [rec EXCEPT ![w] = r]
    BY DEF NewId
  <2>2. /\ r \in Runs /\ r # NoRun /\ status[r] = "absent"
        /\ \A v \in Workers : cur[v] # r /\ rec[v] # r
    BY DEF Unborn, Owned, NoRun, Runs
  <2>3. \A v \in Workers : Owned(v)'
    BY <2>1, <2>2 DEF Owned, Working, Queued
  <2>4. Apart'
    BY <2>1, <2>2 DEF Apart
  <2>5. Forsaken'
    BY <2>1, <2>2 DEF Forsaken
  <2>6. Unrecorded' /\ Queued'
    BY <2>1, <2>2 DEF Unrecorded, Queued
  <2> QED
    BY <2>3, <2>4, <2>5, <2>6
<1>10. ASSUME NEW w \in Workers,
              \/ Raise(w) \/ NothingToDrain(w) \/ ExecutePending(w)
              \/ ExtractNothingLoadPending(w) \/ Extract(w) \/ Normalize(w)
              \/ StartLoad(w) \/ FinishLoad(w) \/ LoadFails(w)
              \/ Verify(w) \/ VerifyFails(w) \/ RecoveryUnsaved(w)
       PROVE  Recorded'
  <2>1. \E l \in Working \ {"release"} : pc' = [pc EXCEPT ![w] = l]
    <3>1. ASSUME ExecutePending(w)
          PROVE  \E l \in {"fail", "extract"} : pc' = [pc EXCEPT ![w] = l]
      BY <3>1, Zenon DEF ExecutePending
    <3> QED
      BY <1>10, <3>1
         DEF Raise, NothingToDrain, ExtractNothingLoadPending, Extract,
             Normalize, StartLoad, FinishLoad, LoadFails, Verify, VerifyFails,
             RecoveryUnsaved, Working
  <2>2. /\ pc[w] \in Working \ {"release"}
        /\ UNCHANGED <<runVars, reapVars, queueVars, cur>>
        /\ rec' = rec \/ rec' = [rec EXCEPT ![w] = NoRun]
    BY <1>10
       DEF Raise, NothingToDrain, ExecutePending, ExtractNothingLoadPending,
           Extract, Normalize, StartLoad, FinishLoad, LoadFails, Verify,
           VerifyFails, RecoveryUnsaved, Working
  <2> QED
    BY <2>1, <2>2, GoOnStep DEF InFlight
<1>11. ASSUME NEW w \in Workers, NEW r \in Runs, NEW l,
              Succeed(w, r, l) \/ Fail(w, r, l),
              rec' = [rec EXCEPT ![w] = NoRun],
              \/ rec[w] = r /\ l \in Working \ {"release"}
              \/ rec[w] = NoRun /\ cur[w] = r /\ l = "release"
       PROVE  Recorded'
  <2>1. CASE Succeed(w, r, l)
    <3>1. /\ pc[w] \in Working \ {"release"}
          /\ pc' = [pc EXCEPT ![w] = l]
          /\ status' = [status EXCEPT ![r] = "succeeded"]
          /\ \A q \in Runs : q # r => loads'[q] = loads[q]
          /\ UNCHANGED <<reapVars, queueVars, cur>>
      BY <2>1 DEF Succeed, Working
    <3> QED
      BY <1>11, <3>1, VerdictStep DEF Finished
  <2>2. CASE Fail(w, r, l)
    <3>1. /\ pc[w] \in Working \ {"release"}
          /\ pc' = [pc EXCEPT ![w] = l]
          /\ status' = [status EXCEPT ![r] = "failed"]
          /\ \A q \in Runs : loads'[q] = loads[q]
          /\ UNCHANGED <<reapVars, queueVars, cur>>
      BY <2>2 DEF Fail, Working
    <3> QED
      BY <1>11, <3>1, VerdictStep DEF Finished
  <2> QED
    BY <1>11, <2>1, <2>2
<1>12. ASSUME NEW w \in Workers,
              \/ RecoverySucceeds(w) \/ RecoveryFails(w)
              \/ RunSucceeds(w) \/ RunFails(w)
       PROVE  Recorded'
  <2>1. CASE RecoverySucceeds(w) \/ RecoveryFails(w)
    <3>1. PICK l \in {"execute", "fail"} :
             Succeed(w, rec[w], l) \/ Fail(w, rec[w], l)
      BY <2>1 DEF RecoverySucceeds, RecoveryFails
    <3>2. rec[w] \in Runs /\ rec' = [rec EXCEPT ![w] = NoRun]
      BY <2>1 DEF RecoverySucceeds, RecoveryFails
    <3> QED
      BY <1>11, <3>1, <3>2 DEF Working
  <2>2. CASE RunSucceeds(w) \/ RunFails(w)
    <3>1. Succeed(w, cur[w], "release") \/ Fail(w, cur[w], "release")
      BY <2>2 DEF RunSucceeds, RunFails
    <3>2. pc[w] # "idle"
      BY <3>1 DEF Succeed, Fail
    <3>3. /\ cur[w] \in Runs /\ rec[w] = NoRun
          /\ rec' = [rec EXCEPT ![w] = NoRun]
      BY <2>2, <3>2 DEF RunSucceeds, RunFails
    <3> QED
      BY <1>11, <3>1, <3>3
  <2> QED
    BY <1>12, <2>1, <2>2
<1>13. ASSUME NEW w \in Workers, ReleaseLease(w) \/ Crash(w) \/ Interrupt(w)
       PROVE  Recorded'
  BY <1>13, LeaveStep DEF ReleaseLease, Crash, Interrupt
<1>14. CASE LeaseExpires \/ ReapLeases \/ UNCHANGED vars
  <2>1. UNCHANGED <<runVars, workVars, stale, queueVars>>
    BY <1>14 DEF LeaseExpires, ReapLeases, vars
  <2> QED
    BY <2>1 DEF workVars, Recorded, Owned, Apart, Forsaken, Unrecorded,
              Queued
<1>15. CASE SelectStale
  <2>1. /\ UNCHANGED <<runVars, workVars, queueVars>>
        /\ stale' = {r \in Runs : status[r] = "running" /\ lease = Free}
    BY <1>15 DEF SelectStale
  <2>2. Forsaken'
    <3>1. lease = Free => \A w \in Workers : pc[w] \notin InFlight
      BY LeaseAssumption DEF Held, LeaseTypeOK
    <3>2. ASSUME lease = Free, NEW r \in Runs, status[r] = "running",
                 r \notin repeated, NEW w \in Workers
          PROVE  r \notin {cur[w], rec[w]}
      BY <3>1, <3>2 DEF Recorded, Owned, InFlight, NoRun, Runs
    <3> QED
      BY <2>1, <3>2 DEF Forsaken, workVars
  <2> QED
    BY <2>1, <2>2 DEF workVars, Recorded, Owned, Apart, Unrecorded, Queued
<1>16. CASE FailStale
  <2> USE <1>16 DEF Recorded, FailStale, workVars
  <2>1. \A v \in Workers : Owned(v)'
    BY DEF Owned, Forsaken, Queued
  <2>2. Apart'
    BY DEF Apart
  <2>3. Forsaken'
    BY DEF Forsaken
  <2>4. Unrecorded' /\ Queued'
    BY DEF Unrecorded, Queued, Forsaken
  <2> QED
    BY <2>1, <2>2, <2>3, <2>4
<1> QED
  BY <1>2, <1>4, <1>5, <1>6, <1>7, <1>8, <1>9, <1>10, <1>12, <1>13, <1>14,
     <1>15, <1>16
     DEF Next, Step, Progress, Reaper

-----------------------------------------------------------------------------
(* Verdicts *)

\* A verdict is saved on a Run that is running, a skip or a start on one that
\* had not begun.
LEMMA VerdictsStand ==
    ASSUME Typed, Recorded, [Next]_vars,
           NEW r \in Runs \ repeated, status[r] \in Finished
    PROVE  status'[r] = status[r] /\ loads'[r] = loads[r]
<1> USE DEF Typed, Employed, TypeOK, Recorded, Finished
<1>1. ASSUME NEW w \in Workers, RecoverySucceeds(w) \/ RecoveryFails(w)
      PROVE  status'[r] = status[r] /\ loads'[r] = loads[r]
  <2>1. rec[w] # r
    BY <1>1 DEF RecoverySucceeds, RecoveryFails, Owned
  <2> QED
    BY <1>1, <2>1 DEF RecoverySucceeds, RecoveryFails, Succeed, Fail
<1>2. ASSUME NEW w \in Workers, RunSucceeds(w) \/ RunFails(w)
      PROVE  status'[r] = status[r] /\ loads'[r] = loads[r]
  <2>1. cur[w] # r
    BY <1>2 DEF RunSucceeds, RunFails, Succeed, Fail, Owned, Working
  <2> QED
    BY <1>2, <2>1 DEF RunSucceeds, RunFails, Succeed, Fail
<1>3. ASSUME NEW w \in Workers, Start(w) \/ RecordSkip(w)
      PROVE  status'[r] = status[r] /\ loads'[r] = loads[r]
  BY <1>3 DEF Start, RecordSkip, Owned, InFlight
<1>4. ASSUME NEW w \in Workers, OpenRecovery(w)
      PROVE  status'[r] = status[r] /\ loads'[r] = loads[r]
  BY <1>4 DEF OpenRecovery, NewId, Unborn
<1>5. CASE EnqueueRun
  BY <1>5 DEF EnqueueRun, NewId, Unborn
<1>6. CASE FailStale
  BY <1>6 DEF FailStale, Forsaken
<1>7. ASSUME UNCHANGED runVars
      PROVE  status'[r] = status[r] /\ loads'[r] = loads[r]
  BY <1>7 DEF runVars
<1>8. ASSUME NEW w \in Workers,
             \/ Raise(w) \/ NothingToDrain(w) \/ ExecutePending(w)
             \/ ExtractNothingLoadPending(w) \/ Extract(w) \/ Normalize(w)
             \/ StartLoad(w) \/ FinishLoad(w) \/ LoadFails(w)
             \/ Verify(w) \/ VerifyFails(w) \/ RecoveryUnsaved(w)
      PROVE  UNCHANGED runVars
  BY <1>8
     DEF Raise, NothingToDrain, ExecutePending, ExtractNothingLoadPending,
         Extract, Normalize, StartLoad, FinishLoad, LoadFails, Verify,
         VerifyFails, RecoveryUnsaved
<1>9. ASSUME NEW w \in Workers,
             \/ Acquire(w) \/ AcquireRefused(w) \/ ReleaseLease(w) \/ Crash(w)
             \/ Interrupt(w) \/ \E q \in Runs : Begin(w, q)
      PROVE  UNCHANGED runVars
  BY <1>9 DEF Acquire, AcquireRefused, ReleaseLease, Crash, Interrupt, Begin
<1>10. CASE LeaseExpires \/ ReapLeases \/ SelectStale \/ UNCHANGED vars
  BY <1>7, <1>10 DEF LeaseExpires, ReapLeases, SelectStale, vars
<1> QED
  BY <1>1, <1>2, <1>3, <1>4, <1>5, <1>6, <1>7, <1>8, <1>9, <1>10
     DEF Next, Step, Progress, Reaper, DeliverTask, CallInline, NewId, Unborn

\* Only a worker that has verified what it loaded makes a Run succeeded.
LEMMA GreenByVerdict ==
    ASSUME Typed, [Next]_vars, NEW r \in Runs, BecomesSucceeded(r)
    PROVE  \E w \in Workers : pc[w] = "record"
<1> USE DEF Typed, TypeOK, BecomesSucceeded
<1>1. ASSUME NEW w \in Workers, pc[w] # "record" PROVE ~ Middle(w)
  BY <1>1
     DEF Middle, Start, Raise, NothingToDrain, OpenRecovery, ExecutePending,
         ExtractNothingLoadPending, Extract, Normalize, StartLoad, FinishLoad,
         LoadFails, Verify, VerifyFails, RecoverySucceeds, RunSucceeds,
         Succeed, RecoveryFails, RecoveryUnsaved, RunFails, Fail, runVars
<1>2. ~ EnqueueRun /\ ~ FailStale
  BY DEF EnqueueRun, FailStale
<1>3. ~ LeaseExpires /\ ~ ReapLeases /\ ~ SelectStale /\ ~ UNCHANGED vars
  BY DEF LeaseExpires, ReapLeases, SelectStale, vars, runVars
<1>4. ASSUME NEW w \in Workers,
             \/ Acquire(w) \/ AcquireRefused(w) \/ ReleaseLease(w) \/ Crash(w)
             \/ RecordSkip(w) \/ Interrupt(w) \/ \E q \in Runs : Begin(w, q)
      PROVE  FALSE
  BY <1>4 DEF Acquire, AcquireRefused, ReleaseLease, Crash, Interrupt, Begin,
              RecordSkip, runVars
<1> QED
  BY <1>1, <1>2, <1>3, <1>4
     DEF Next, Step, Progress, Middle, Reaper, DeliverTask, CallInline, NewId,
         Unborn

-----------------------------------------------------------------------------
(* Credit *)

\* No lease overran and no task was delivered twice.
Calm == overruns = 0 /\ repeated = {}

\* No step takes back an overrun or a second delivery.
LEMMA CalmBefore ==
    Typed /\ [Next]_vars /\ Calm' => Calm
<1> SUFFICES ASSUME Typed, [Next]_vars, Calm' PROVE repeated = {}
  BY OverrunsGrow DEF Calm
<1>1. ASSUME NEW w \in Workers, NEW r \in Runs, DeliverTask(w, r)
      PROVE  repeated \subseteq repeated'
  BY <1>1 DEF DeliverTask
<1>2. ASSUME UNCHANGED queueVars PROVE repeated \subseteq repeated'
  BY <1>2 DEF queueVars
<1>3. ASSUME NEW w \in Workers, Middle(w) PROVE UNCHANGED queueVars
  BY <1>3
     DEF Middle, Start, Raise, NothingToDrain, OpenRecovery, ExecutePending,
         ExtractNothingLoadPending, Extract, Normalize, StartLoad, FinishLoad,
         LoadFails, Verify, VerifyFails, RecoverySucceeds, RunSucceeds,
         Succeed, RecoveryFails, RecoveryUnsaved, RunFails, Fail
<1>4. ASSUME NEW w \in Workers,
             \/ CallInline(w) \/ Acquire(w) \/ AcquireRefused(w)
             \/ RecordSkip(w) \/ ReleaseLease(w) \/ Crash(w) \/ Interrupt(w)
      PROVE  UNCHANGED queueVars
  BY <1>4 DEF CallInline, Acquire, AcquireRefused, RecordSkip, ReleaseLease,
              Crash, Interrupt
<1>5. ASSUME EnqueueRun \/ LeaseExpires \/ Reaper \/ UNCHANGED vars
      PROVE  UNCHANGED queueVars
  BY <1>5 DEF EnqueueRun, LeaseExpires, Reaper, ReapLeases, SelectStale,
                    FailStale, vars
<1> QED
  BY <1>1, <1>2, <1>3, <1>4, <1>5 DEF Next, Step, Progress, Middle, Calm

\* Every landed package that was not dropped is credited or in hand.
Credits ==
    \A p \in In("loaded") \ dropped :
        Credited(p) \/ \E w \in Workers : p \in InHand(w)

CreditInv == Calm => Credits

\* What a worker had in hand it keeps, records or drops, and what lands passes
\* through somebody's hand.
LEMMA CreditStep ==
    Typed /\ Held /\ Known /\ PipelineInv /\ RecordInv /\ CreditInv
            /\ [Next]_vars
        => CreditInv'
<1> SUFFICES ASSUME Typed, Held, Known, PipelineInv, RecordInv, CreditInv,
                    [Next]_vars, Calm', NEW p \in In("loaded")' \ dropped'
             PROVE  (Credited(p) \/ \E w \in Workers : p \in InHand(w))'
  BY DEF CreditInv, Credits
<1> DEFINE Safe == Credited(p)' \/ \E w \in Workers : p \in InHand(w)'
<1> USE DEF Typed, Employed, TypeOK
<1>1. /\ OneInFlight /\ Pipeline /\ Recorded /\ Credits
      /\ overruns = 0 /\ repeated = {}
  BY CalmBefore, HeldExcludes DEF PipelineInv, RecordInv, CreditInv, Calm
<1>2. p \in Packages
  BY DEF In
<1>3. Credited(p) => Credited(p)'
  BY <1>1, VerdictsStand DEF Credited, Finished
<1>4. ASSUME NEW w \in Workers, p \in InHand(w), Middle(w)
      PROVE  Safe
  <2>1. /\ pc[w] \in {"verify", "record"}
        /\ p \in got[w]
        /\ Flowing(w)
    BY <1>1, <1>4 DEF InHand, Pipeline
  <2>2. CASE Verify(w)
    BY <2>1, <2>2 DEF Verify, InHand, Goto
  <2>3. ~ VerifyFails(w)
    BY <2>1 DEF VerifyFails, Stolen, StillPending, HasPending, Flowing
  <2>4. ~ Raise(w) /\ ~ RecoveryUnsaved(w)
    BY <1>4 DEF Raise, RecoveryUnsaved, DropInHand
  <2>5. ASSUME NEW r \in Runs, NEW l, Succeed(w, r, l) PROVE Safe
    BY <2>1, <2>5 DEF Succeed, Credited
  <2>6. CASE RecoverySucceeds(w) \/ RunSucceeds(w)
    <3>1. rec[w] # NoRun => rec[w] \in Runs
      OBVIOUS
    <3>2. cur[w] \in Runs
      BY <2>1
    <3> QED
      BY <2>5, <2>6, <3>1, <3>2 DEF RecoverySucceeds, RunSucceeds
  <2> QED
    BY <1>4, <2>1, <2>2, <2>3, <2>4, <2>6
       DEF Middle, Start, NothingToDrain, OpenRecovery, ExecutePending,
           ExtractNothingLoadPending, Extract, Normalize, StartLoad,
           FinishLoad, LoadFails, RecoveryFails, RunFails, Fail
<1>5. ASSUME NEW w \in Workers, NEW v \in Workers, v # w, p \in InHand(v),
             Middle(w)
      PROVE  FALSE
  BY <1>1, <1>5, MiddleStays DEF OneInFlight, InHand, InFlight, Working
<1>6. ASSUME NEW w \in Workers, Middle(w), p \notin In("loaded")
      PROVE  Safe
  <2>1. CASE FinishLoad(w)
    <3>1. p \in got[w]
      BY <1>2, <1>6, <2>1 DEF FinishLoad, In, Advance
    <3> QED
      BY <2>1, <3>1 DEF FinishLoad, InHand, Goto
  <2>2. CASE LoadFails(w)
    <3>1. pc[w] = "loading" /\ got[w] \subseteq Leftover
      BY <1>1, <2>2 DEF LoadFails, Pipeline, Flowing, Leftover
    <3>2. PICK done \in SUBSET got[w] :
             /\ done # got[w]
             /\ stage' = Advance("normalized", "loaded", done)
      BY <2>2 DEF LoadFails
    <3>3. p \in done
      BY <1>2, <1>6, <3>2 DEF In, Advance
    <3>4. PICK q \in got[w] : q \notin done
      BY <3>2
    <3> QED
      BY <1>1, <3>1, <3>3, <3>4 DEF Pipeline
  <2>3. ASSUME NEW q \in Packages, stage' = [stage EXCEPT ![q] = "extracted"]
        PROVE  FALSE
    BY <1>2, <1>6, <2>3 DEF In
  <2>4. CASE Extract(w)
    BY <1>2, <1>6, <2>3, <2>4 DEF Extract, NewId, In, dltVars
  <2>5. CASE Normalize(w)
    BY <1>2, <1>6, <2>5 DEF Normalize, In, Advance
  <2> QED
    BY <1>6, <2>1, <2>2, <2>4, <2>5
       DEF Middle, Start, Raise, NothingToDrain, OpenRecovery, ExecutePending,
           ExtractNothingLoadPending, StartLoad, Verify, VerifyFails,
           RecoverySucceeds, RunSucceeds, Succeed, RecoveryFails,
           RecoveryUnsaved, RunFails, Fail, In, dltVars
<1>7. dropped \subseteq dropped'
  <2>1. ASSUME NEW w \in Workers, Middle(w) PROVE dropped \subseteq dropped'
    BY <2>1
       DEF Middle, Start, Raise, NothingToDrain, OpenRecovery, ExecutePending,
           ExtractNothingLoadPending, Extract, Normalize, StartLoad,
           FinishLoad, LoadFails, Verify, VerifyFails, RecoverySucceeds,
           RunSucceeds, Succeed, RecoveryFails, RecoveryUnsaved, RunFails,
           Fail, DropInHand
  <2>2. ASSUME NEW w \in Workers,
               \/ Acquire(w) \/ AcquireRefused(w) \/ ReleaseLease(w)
               \/ Crash(w) \/ RecordSkip(w) \/ Interrupt(w)
               \/ \E q \in Runs : Begin(w, q)
        PROVE  dropped \subseteq dropped'
    BY <2>2 DEF Acquire, AcquireRefused, ReleaseLease, Crash, Interrupt, Begin,
                RecordSkip, Leave, DropInHand
  <2>3. CASE EnqueueRun \/ LeaseExpires \/ Reaper \/ UNCHANGED vars
    BY <2>3 DEF EnqueueRun, LeaseExpires, Reaper, ReapLeases, SelectStale,
                FailStale, vars
  <2> QED
    BY <2>1, <2>2, <2>3
       DEF Next, Step, Progress, Middle, DeliverTask, CallInline, NewId, Unborn
<1>8. ASSUME UNCHANGED <<pc, got, stage>> PROVE Safe
  BY <1>1, <1>3, <1>7, <1>8 DEF Credits, In, InHand
<1>9. ASSUME NEW w \in Workers, UNCHANGED stage,
             \A v \in Workers \ {w} : pc'[v] = pc[v] /\ got'[v] = got[v],
             InHand(w) \subseteq dropped'
      PROVE  Safe
  BY <1>1, <1>3, <1>7, <1>9 DEF Credits, In, InHand
<1>10. ASSUME NEW w \in Workers,
              \/ Acquire(w) \/ AcquireRefused(w) \/ RecordSkip(w)
              \/ \E q \in Runs : Begin(w, q)
       PROVE  Safe
  BY <1>9, <1>10 DEF Acquire, AcquireRefused, RecordSkip, Begin, Goto, InHand,
                     dltVars
<1>11. ASSUME NEW w \in Workers, ReleaseLease(w) \/ Crash(w) \/ Interrupt(w)
       PROVE  Safe
  BY <1>9, <1>11 DEF ReleaseLease, Crash, Interrupt, Leave, DropInHand, dltVars
<1>12. CASE EnqueueRun \/ LeaseExpires \/ Reaper \/ UNCHANGED vars
  BY <1>8, <1>12 DEF EnqueueRun, LeaseExpires, Reaper, ReapLeases, SelectStale,
                     FailStale, vars, workVars, dltVars
<1>13. ASSUME NEW w \in Workers, Middle(w) PROVE Safe
  <2>1. CASE p \notin In("loaded")
    BY <1>6, <1>13, <2>1
  <2>2. CASE p \in In("loaded")
    BY <1>1, <1>3, <1>4, <1>5, <1>7, <1>13, <2>2 DEF Credits
  <2> QED
    BY <2>1, <2>2
<1> QED
  BY <1>10, <1>11, <1>12, <1>13
     DEF Next, Step, Progress, Middle, DeliverTask, CallInline, NewId, Unborn

-----------------------------------------------------------------------------
(* The theorems *)

\* The inductive invariant: that of RunProofs, the flow of the packages and
\* what the rows say of the workers.
LedgerInv == RunInv /\ PipelineInv /\ RecordInv /\ CreditInv

THEOREM LedgerInvariant == Spec => []LedgerInv
<1>1. Init => PipelineInv /\ RecordInv /\ CreditInv
  <2> SUFFICES ASSUME Init PROVE PipelineInv /\ RecordInv /\ CreditInv
    OBVIOUS
  <2> USE DEF Init
  <2>1. Pipeline
    BY DEF Pipeline, Flowing, Leftover, In
  <2>2. Recorded
    BY DEF Recorded, Owned, Apart, Forsaken, Unrecorded, Queued, Working
  <2>3. Credits
    BY DEF Credits, In
  <2> QED
    BY <2>1, <2>2, <2>3 DEF PipelineInv, RecordInv, CreditInv
<1>2. RunInv /\ PipelineInv /\ RecordInv /\ CreditInv /\ [Next]_vars
        => PipelineInv' /\ RecordInv' /\ CreditInv'
  BY PipelineStep, RecordStep, CreditStep DEF RunInv, Ingest
<1> QED
  BY <1>1, <1>2, RunInvariant, PTL DEF Spec, LedgerInv

\* Every landed package is on a succeeded Run, about to be, or known to be
\* lost with its worker: the projections' window misses nothing else.
THEOREM RunCredits == Spec => []LandedIsCredited
<1>1. LedgerInv => LandedIsCredited
  <2> SUFFICES ASSUME LedgerInv, ~ (overruns > 0),
                      ~ (\E r \in Runs : Repeated(r))
               PROVE  Credits
    BY DEF LandedIsCredited, Credits
  <2>1. overruns \in Nat /\ repeated \subseteq Runs
    BY DEF LedgerInv, RunInv, Typed, TypeOK
  <2>2. repeated = {} /\ overruns = 0
    BY <2>1 DEF Repeated
  <2> QED
    BY <2>2 DEF LedgerInv, CreditInv, Calm
<1> QED
  BY <1>1, LedgerInvariant, PTL

\* A Run turns green over an empty pipeline only.
THEOREM RunDrained == Spec => GreenMeansDrained
<1>1. LedgerInv /\ [Next]_vars
        => [\A r \in Runs :
              BecomesSucceeded(r) => Leftover = {} \/ overruns > 0]_vars
  <2> SUFFICES ASSUME LedgerInv, [Next]_vars, NEW r \in Runs,
                      BecomesSucceeded(r), ~ (overruns > 0)
               PROVE  Leftover = {}
    OBVIOUS
  <2>1. Typed /\ Pipeline
    BY DEF LedgerInv, RunInv, PipelineInv, Typed, TypeOK
  <2>2. PICK w \in Workers : pc[w] = "record"
    BY <2>1, GreenByVerdict
  <2> QED
    BY <2>1, <2>2 DEF Pipeline, Flowing
<1> QED
  BY <1>1, LedgerInvariant, PTL DEF Spec, GreenMeansDrained

\* Nobody rewrites the verdict on a Run that was dispatched once, whatever was
\* dispatched twice beside it.
THEOREM RunVerdicts == Spec => FinishedStaysFinished
<1>1. LedgerInv /\ [Next]_vars
        => [\A r \in Runs :
              status[r] \in Finished /\ status'[r] # status[r]
                  => overruns > 0 \/ Repeated(r)]_vars
  <2> SUFFICES ASSUME LedgerInv, [Next]_vars, NEW r \in Runs,
                      status[r] \in Finished, ~ (overruns > 0), ~ Repeated(r)
               PROVE  status'[r] = status[r]
    OBVIOUS
  <2>1. Typed /\ Recorded
    BY DEF LedgerInv, RunInv, RecordInv, Typed, TypeOK
  <2> QED
    BY <2>1, VerdictsStand DEF Repeated
<1> QED
  BY <1>1, LedgerInvariant, PTL DEF Spec, FinishedStaysFinished

\* What the reaper fails is in no worker's hand, however old its SELECT is.
THEOREM RunReaper == Spec => ReaperSparesTheLiving
<1>1. LedgerInv /\ [Next]_vars
        => [\A r \in Runs :
              FailStale /\ status[r] # status'[r]
                  => \/ overruns > 0 \/ Repeated(r)
                     \/ \A w \in Workers : ~ ExecutedBy(r, w)]_vars
  <2> SUFFICES ASSUME LedgerInv, NEW r \in Runs, FailStale,
                      status[r] # status'[r], ~ (overruns > 0), ~ Repeated(r)
               PROVE  \A w \in Workers : ~ ExecutedBy(r, w)
    OBVIOUS
  <2>1. Typed /\ Recorded
    BY DEF LedgerInv, RunInv, RecordInv, Typed, TypeOK
  <2>2. r \in stale \ repeated
    BY <2>1 DEF FailStale, Repeated, Typed, TypeOK
  <2> QED
    BY <2>1, <2>2 DEF Recorded, Forsaken, ExecutedBy
<1> QED
  BY <1>1, LedgerInvariant, PTL DEF Spec, ReaperSparesTheLiving
=============================================================================
