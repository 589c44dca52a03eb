-------------------------- MODULE SchedulingProofs --------------------------
(***************************************************************************)
(* What the safety run of Scheduling.tla checks for two sweeps, two workers*)
(* and one delivery, for any number of each.                               *)
(***************************************************************************)
EXTENDS Scheduling, FiniteSetTheorems, TLAPS

TasksBounded == TaskCount <= MaxTasks
Typed == TypeOK /\ TasksBounded

\* A sweep that is over holds 0.
LEMMA ZeroSlot == 0 \in Slots
BY FS_CardinalityType, SchedulingAssumption DEF Slots

\* What a claim or a push writes is none of the values that are held.
LEMMA NewSlotUnused ==
    NewSlot => /\ slot' \in Slots
               /\ slot' # slot
               /\ \A s \in Schedulers : spc[s] # "idle" => slot' # sel[s]
BY DEF NewSlot, FreeSlots

\* Ending the queued Run leaves the tasks counted and the names typed.
LEMMA UnqueueTyped ==
    ASSUME Typed, NEW left \in Nat, left <= MaxTasks, Unqueue(left)
    PROVE  /\ tasks' \in [TaskKind -> 0 .. MaxTasks]
           /\ TasksBounded'
           /\ queued' = FALSE
           /\ cur' \in [Workers -> TaskKind \cup {"none"}]
<1> USE SchedulingAssumption DEF Typed, TypeOK, Unqueue
<1>1. tasks' = [queued |-> 0, other |-> left]
  OBVIOUS
<1>2. tasks' \in [TaskKind -> 0 .. MaxTasks]
  BY <1>1 DEF TaskKind
<1>3. TasksBounded'
  BY <1>1 DEF TasksBounded, TaskCount
<1>4. cur' \in [Workers -> TaskKind \cup {"none"}]
  BY DEF TaskKind
<1> QED
  BY <1>2, <1>3, <1>4

\* The types, and the bound on the queue, survive every step.
LEMMA TypeStep == Typed /\ [Next]_vars => Typed'
<1> SUFFICES ASSUME Typed, [Next]_vars PROVE Typed'
  OBVIOUS
<1> USE SchedulingAssumption, LeaseAssumption, ZeroSlot
       DEF Typed, TypeOK, TasksBounded, TaskCount, TaskKind, LeaseTypeOK,
           leaseVars, bindingVars, sweepVars, workVars, mailVars
<1>1. ASSUME NEW d \in Deliveries, Change(d)
      PROVE  Typed'
  BY <1>1 DEF Change
<1>2. ASSUME NEW d \in Deliveries, Replayed(d)
      PROVE  Typed'
  BY <1>2 DEF Replayed
<1>3. ASSUME NEW d \in Deliveries, Receive(d)
      PROVE  Typed'
  BY <1>3 DEF Receive
<1>4. ASSUME NEW d \in Deliveries, MarkDirty(d)
      PROVE  Typed'
  BY <1>4 DEF MarkDirty
<1>5. ASSUME NEW d \in Deliveries, OpenWindow(d)
      PROVE  Typed'
  BY <1>5 DEF OpenWindow
<1>6. ASSUME NEW d \in Deliveries, QueueRun(d)
      PROVE  Typed'
  BY <1>6 DEF QueueRun
<1>7. ASSUME NEW s \in Schedulers, Select(s)
      PROVE  Typed'
  BY <1>7 DEF Select, SGoto
<1>8. ASSUME NEW s \in Schedulers, Defer(s)
      PROVE  Typed'
  BY <1>8, NewSlotUnused DEF Defer, Done, SGoto
<1>9. ASSUME NEW s \in Schedulers, Claim(s)
      PROVE  Typed'
  BY <1>9, NewSlotUnused DEF Claim, SGoto
<1>10. ASSUME NEW s \in Schedulers, ClaimLost(s)
      PROVE  Typed'
  BY <1>10 DEF ClaimLost, Done, SGoto
<1>11. ASSUME NEW s \in Schedulers, Dispatch(s)
      PROVE  Typed'
  BY <1>11 DEF Dispatch, Done, SGoto
<1>12. ASSUME NEW w \in Workers, CallInline(w)
      PROVE  Typed'
  BY <1>12 DEF CallInline, Begin, Grant, WGoto
<1>13. ASSUME NEW w \in Workers, Take(w)
      PROVE  Typed'
  <2>1. PICK k \in TaskKind :
           /\ tasks[k] > 0
           /\ \/ tasks' = [tasks EXCEPT ![k] = @ - 1] /\ Begin(w, k)
              \/ Skip(k)
    BY <1>13 DEF Take
  <2>2. CASE Begin(w, k) /\ tasks' = [tasks EXCEPT ![k] = @ - 1]
    <3>1. tasks' \in [TaskKind -> 0 .. MaxTasks] /\ TasksBounded'
      BY <2>1, <2>2
    <3> QED
      BY <2>2, <3>1 DEF Begin, Grant, WGoto
  <2>3. CASE Skip(k) /\ k = "queued"
    <3>1. TaskCount - 1 \in Nat /\ TaskCount - 1 <= MaxTasks
      BY <2>1, <2>3
    <3>2. Unqueue(TaskCount - 1)
      BY <2>3 DEF Skip
    <3> QED
      BY <2>3, <3>1, <3>2, UnqueueTyped
         DEF Skip
  <2>4. CASE Skip(k) /\ k = "other"
    BY <2>1, <2>4 DEF Skip
  <2> QED
    BY <2>1, <2>2, <2>3, <2>4
<1>14. ASSUME NEW w \in Workers, Start(w)
      PROVE  Typed'
  <2>1. CASE cur[w] = "queued" /\ Unqueue(TaskCount)
    <3>1. TaskCount \in Nat /\ TaskCount <= MaxTasks
      OBVIOUS
    <3> QED
      BY <1>14, <2>1, <3>1, UnqueueTyped
         DEF Start, WGoto
  <2>2. CASE UNCHANGED <<queued, tasks, cur>>
    BY <1>14, <2>2 DEF Start, WGoto
  <2> QED
    BY <1>14, <2>1, <2>2 DEF Start
<1>15. ASSUME NEW w \in Workers, Extract(w)
      PROVE  Typed'
  BY <1>15 DEF Extract, WGoto
<1>16. ASSUME NEW w \in Workers, Record(w)
      PROVE  Typed'
  BY <1>16 DEF Record, Release, WGoto
<1>17. CASE BecomeDue
  BY <1>17 DEF BecomeDue
<1>18. CASE FloorPasses
  BY <1>18 DEF FloorPasses
<1>19. CASE WindowCloses
  BY <1>19 DEF WindowCloses
<1>20. CASE LeaseExpires
  BY <1>20 DEF LeaseExpires, Expire
<1>21. CASE SetUsable
  BY <1>21 DEF SetUsable
<1>22. ASSUME NEW d \in Deliveries, RequestDies(d)
      PROVE  Typed'
  BY <1>22 DEF RequestDies
<1>23. ASSUME NEW d \in Deliveries, LoseDelivery(d)
      PROVE  Typed'
  BY <1>23 DEF LoseDelivery
<1>24. ASSUME NEW s \in Schedulers, SweepDies(s)
      PROVE  Typed'
  BY <1>24 DEF SweepDies, Done, SGoto
<1>25. CASE LoseTask
  BY <1>25 DEF LoseTask
<1>26. ASSUME NEW w \in Workers, Raise(w)
      PROVE  Typed'
  BY <1>26 DEF Raise, WGoto
<1>27. ASSUME NEW w \in Workers, Crash(w)
      PROVE  Typed'
  BY <1>27 DEF Crash, Abandon, WGoto
<1>28. CASE UNCHANGED vars
  BY <1>28 DEF vars
<1>29. QED
  BY <1>1, <1>2, <1>3, <1>4, <1>5, <1>6, <1>7, <1>8, <1>9, <1>10, <1>11, <1>12,
     <1>13, <1>14, <1>15, <1>16, <1>17, <1>18, <1>19, <1>20, <1>21, <1>22,
     <1>23, <1>24, <1>25, <1>26, <1>27, <1>28 DEF Next, Step, Fault, Handle,
     Sweep, Work

-----------------------------------------------------------------------------
(* The claim *)

\* A sweep that has claimed moved next_run_at away from what it selected.
MovedOn == \A s \in Schedulers : spc[s] = "enqueue" => sel[s] # slot

Claimed == MovedOn /\ OneClaim

\* Only a claim enters "enqueue", with the value that it replaces.
LEMMA ClaimedStep == Typed /\ Claimed /\ [Next]_vars => Claimed'
<1> SUFFICES ASSUME Typed, Claimed, [Next]_vars PROVE Claimed'
  OBVIOUS
<1> USE DEF Typed, TypeOK, Claimed, MovedOn, OneClaim
<1>1. CASE UNCHANGED <<slot, spc, sel>>
  BY <1>1
<1>2. ASSUME NEW s \in Schedulers, Select(s) PROVE Claimed'
  BY <1>2 DEF Select, SGoto, bindingVars
<1>3. ASSUME NEW s \in Schedulers, Defer(s) PROVE Claimed'
  BY <1>3, NewSlotUnused DEF Defer, Done, SGoto
<1>4. ASSUME NEW s \in Schedulers, Claim(s) PROVE Claimed'
  BY <1>4, NewSlotUnused DEF Claim, SGoto
<1>5. ASSUME NEW s \in Schedulers, ClaimLost(s) PROVE Claimed'
  BY <1>5 DEF ClaimLost, Done, SGoto, bindingVars
<1>6. ASSUME NEW s \in Schedulers, Dispatch(s) PROVE Claimed'
  BY <1>6 DEF Dispatch, Done, SGoto
<1>7. ASSUME NEW s \in Schedulers, SweepDies(s) PROVE Claimed'
  BY <1>7 DEF SweepDies, Done, SGoto, bindingVars
<1>8. ASSUME NEW d \in Deliveries, Change(d)
      PROVE  UNCHANGED <<slot, spc, sel>>
  BY <1>8 DEF Change, bindingVars, sweepVars
<1>9. ASSUME NEW d \in Deliveries, Replayed(d)
      PROVE  UNCHANGED <<slot, spc, sel>>
  BY <1>9 DEF Replayed, bindingVars, sweepVars
<1>10. ASSUME NEW d \in Deliveries, Receive(d)
      PROVE  UNCHANGED <<slot, spc, sel>>
  BY <1>10 DEF Receive, bindingVars, sweepVars
<1>11. ASSUME NEW d \in Deliveries, MarkDirty(d)
      PROVE  UNCHANGED <<slot, spc, sel>>
  BY <1>11 DEF MarkDirty, bindingVars, sweepVars
<1>12. ASSUME NEW d \in Deliveries, OpenWindow(d)
      PROVE  UNCHANGED <<slot, spc, sel>>
  BY <1>12 DEF OpenWindow, bindingVars, sweepVars
<1>13. ASSUME NEW d \in Deliveries, QueueRun(d)
      PROVE  UNCHANGED <<slot, spc, sel>>
  BY <1>13 DEF QueueRun, bindingVars, sweepVars
<1>14. ASSUME NEW w \in Workers, CallInline(w)
      PROVE  UNCHANGED <<slot, spc, sel>>
  BY <1>14 DEF CallInline, Begin, bindingVars, sweepVars
<1>15. ASSUME NEW w \in Workers, Take(w)
      PROVE  UNCHANGED <<slot, spc, sel>>
  BY <1>15 DEF Take, Begin, Skip, bindingVars, sweepVars
<1>16. ASSUME NEW w \in Workers, Start(w)
      PROVE  UNCHANGED <<slot, spc, sel>>
  BY <1>16 DEF Start, bindingVars, sweepVars
<1>17. ASSUME NEW w \in Workers, Extract(w)
      PROVE  UNCHANGED <<slot, spc, sel>>
  BY <1>17 DEF Extract, bindingVars, sweepVars
<1>18. ASSUME NEW w \in Workers, Record(w)
      PROVE  UNCHANGED <<slot, spc, sel>>
  BY <1>18 DEF Record, bindingVars, sweepVars
<1>19. ASSUME BecomeDue 
      PROVE  UNCHANGED <<slot, spc, sel>>
  BY <1>19 DEF BecomeDue, bindingVars, sweepVars
<1>20. ASSUME FloorPasses 
      PROVE  UNCHANGED <<slot, spc, sel>>
  BY <1>20 DEF FloorPasses, bindingVars, sweepVars
<1>21. ASSUME WindowCloses 
      PROVE  UNCHANGED <<slot, spc, sel>>
  BY <1>21 DEF WindowCloses, bindingVars, sweepVars
<1>22. ASSUME LeaseExpires 
      PROVE  UNCHANGED <<slot, spc, sel>>
  BY <1>22 DEF LeaseExpires, bindingVars, sweepVars
<1>23. ASSUME SetUsable 
      PROVE  UNCHANGED <<slot, spc, sel>>
  BY <1>23 DEF SetUsable, bindingVars, sweepVars
<1>24. ASSUME NEW d \in Deliveries, RequestDies(d)
      PROVE  UNCHANGED <<slot, spc, sel>>
  BY <1>24 DEF RequestDies, bindingVars, sweepVars
<1>25. ASSUME NEW d \in Deliveries, LoseDelivery(d)
      PROVE  UNCHANGED <<slot, spc, sel>>
  BY <1>25 DEF LoseDelivery, bindingVars, sweepVars
<1>26. ASSUME LoseTask 
      PROVE  UNCHANGED <<slot, spc, sel>>
  BY <1>26 DEF LoseTask, bindingVars, sweepVars
<1>27. ASSUME NEW w \in Workers, Raise(w)
      PROVE  UNCHANGED <<slot, spc, sel>>
  BY <1>27 DEF Raise, bindingVars, sweepVars
<1>28. ASSUME NEW w \in Workers, Crash(w)
      PROVE  UNCHANGED <<slot, spc, sel>>
  BY <1>28 DEF Crash, bindingVars, sweepVars
<1>29. ASSUME UNCHANGED vars 
      PROVE  UNCHANGED <<slot, spc, sel>>
  BY <1>29 DEF vars, bindingVars, sweepVars
<1> QED
  BY <1>1, <1>2, <1>3, <1>4, <1>5, <1>6, <1>7, <1>8, <1>9, <1>10, <1>11, <1>12,
     <1>13, <1>14, <1>15, <1>16, <1>17, <1>18, <1>19, <1>20, <1>21, <1>22,
     <1>23, <1>24, <1>25, <1>26, <1>27, <1>28, <1>29
     DEF Next, Step, Fault, Handle, Sweep, Work

-----------------------------------------------------------------------------
(* What is remembered *)

\* An action that is none of those ForgottenOnlyByFailure names forgets nothing.
LEMMA RememberedStep ==
    ASSUME Typed, [Next]_vars
    PROVE  (\E d \in Deliveries : Forgotten(d)) =>
              \/ Fault
              \/ \E w \in Workers : Start(w) /\ ~ saw[w]
              \/ \E k \in TaskKind : Skip(k)
              \/ \E d \in Deliveries : Replayed(d)
<1> SUFFICES ASSUME NEW e \in Deliveries, Forgotten(e),
                    ~ Fault,
                    ~ \E w \in Workers : Start(w) /\ ~ saw[w],
                    ~ \E k \in TaskKind : Skip(k),
                    ~ \E d \in Deliveries : Replayed(d)
             PROVE  FALSE
  OBVIOUS
<1> USE DEF Typed, TypeOK, Forgotten, Remembered,
            leaseVars, bindingVars, sweepVars, workVars, mailVars
<1>1. ASSUME NEW d \in Deliveries, Change(d) PROVE FALSE
  BY <1>1 DEF Change
<1>2. ASSUME NEW d \in Deliveries, Receive(d) PROVE FALSE
  BY <1>2 DEF Receive
<1>3. ASSUME NEW d \in Deliveries, MarkDirty(d) PROVE FALSE
  BY <1>3 DEF MarkDirty
<1>4. ASSUME NEW d \in Deliveries, OpenWindow(d) PROVE FALSE
  BY <1>4 DEF OpenWindow
<1>5. ASSUME NEW d \in Deliveries, QueueRun(d) PROVE FALSE
  BY <1>5 DEF QueueRun
<1>6. ASSUME NEW s \in Schedulers, Select(s) PROVE FALSE
  BY <1>6 DEF Select, SGoto
<1>7. ASSUME NEW s \in Schedulers, Defer(s) PROVE FALSE
  BY <1>7 DEF Defer, Done, SGoto
<1>8. ASSUME NEW s \in Schedulers, Claim(s) PROVE FALSE
  BY <1>8 DEF Claim, SGoto
<1>9. ASSUME NEW s \in Schedulers, ClaimLost(s) PROVE FALSE
  BY <1>9 DEF ClaimLost, Done, SGoto
<1>10. ASSUME NEW s \in Schedulers, Dispatch(s) PROVE FALSE
  BY <1>10 DEF Dispatch, Done, SGoto
<1>11. ASSUME NEW w \in Workers, CallInline(w) PROVE FALSE
  BY <1>11 DEF CallInline, Begin, WGoto
<1>12. ASSUME NEW w \in Workers, Take(w) PROVE FALSE
  <2>1. PICK k \in TaskKind : Begin(w, k)
    BY <1>12 DEF Take
  <2> QED
    BY <2>1 DEF Begin, WGoto
<1>13. ASSUME NEW w \in Workers, Start(w) PROVE FALSE
  BY <1>13 DEF Start, WGoto
<1>14. ASSUME NEW w \in Workers, Extract(w) PROVE FALSE
  BY <1>14 DEF Extract, WGoto
<1>15. ASSUME NEW w \in Workers, Record(w) PROVE FALSE
  BY <1>15 DEF Record, WGoto
<1>16. ASSUME BecomeDue PROVE FALSE
  BY <1>16 DEF BecomeDue
<1>17. ASSUME FloorPasses PROVE FALSE
  BY <1>17 DEF FloorPasses
<1>18. ASSUME WindowCloses PROVE FALSE
  BY <1>18 DEF WindowCloses
<1>19. ASSUME LeaseExpires PROVE FALSE
  BY <1>19 DEF LeaseExpires
<1>20. ASSUME SetUsable PROVE FALSE
  BY <1>20 DEF SetUsable
<1>21. ASSUME UNCHANGED vars PROVE FALSE
  BY <1>21 DEF vars
<1> QED
  BY <1>1, <1>2, <1>3, <1>4, <1>5, <1>6, <1>7, <1>8, <1>9, <1>10, <1>11, <1>12,
     <1>13, <1>14, <1>15, <1>16, <1>17, <1>18, <1>19, <1>20, <1>21
     DEF Next, Step, Handle, Sweep, Work

-----------------------------------------------------------------------------
(* The theorems *)

SchedulingInv == Typed /\ Claimed

\* The types, the bound on the queue and the claim hold in every state.
THEOREM SchedulingInvariant == Spec => []SchedulingInv
<1>1. ASSUME Init PROVE SchedulingInv
  <2>1. TypeOK
    <3>1. tasks \in [TaskKind -> 0 .. MaxTasks]
      BY <1>1, SchedulingAssumption DEF Init
    <3>2. slot \in Slots /\ sel \in [Schedulers -> Slots]
      BY <1>1, ZeroSlot DEF Init
    <3>3. {due, dirty, recent, usable, queued, debounced} \subseteq BOOLEAN
      BY <1>1 DEF Init
    <3> QED
      BY <1>1, <3>1, <3>2, <3>3 DEF Init, TypeOK, LeaseInit, LeaseTypeOK
  <2>2. TasksBounded
    BY <1>1, SchedulingAssumption DEF Init, TasksBounded, TaskCount, TaskKind
  <2>3. Claimed
    BY <1>1 DEF Init, Claimed, MovedOn, OneClaim
  <2> QED
    BY <2>1, <2>2, <2>3 DEF SchedulingInv, Typed
<1>2. SchedulingInv /\ [Next]_vars => SchedulingInv'
  BY TypeStep, ClaimedStep DEF SchedulingInv
<1> QED
  BY <1>1, <1>2, PTL DEF Spec

\* Every behaviour of the scheduling keeps its types.
THEOREM SchedulingTypes == Spec => []TypeOK
<1>1. SchedulingInv => TypeOK
  BY DEF SchedulingInv, Typed
<1> QED
  BY <1>1, SchedulingInvariant, PTL

\* However many sweeps run, one due moment is claimed once.
THEOREM SingleClaim == Spec => []OneClaim
<1>1. SchedulingInv => OneClaim
  BY DEF SchedulingInv, Claimed
<1> QED
  BY <1>1, SchedulingInvariant, PTL

\* However many requests, sweeps and workers there are, a change that no Run has
\* read is forgotten only in the ways the property names.
THEOREM NothingElseForgets == Spec => ForgottenOnlyByFailure
<1>1. SchedulingInv /\ [Next]_vars =>
        [(\E d \in Deliveries : Forgotten(d)) =>
            \/ Fault
            \/ \E w \in Workers : Start(w) /\ ~ saw[w]
            \/ \E k \in TaskKind : Skip(k)
            \/ \E d \in Deliveries : Replayed(d)]_vars
  BY RememberedStep DEF SchedulingInv
<1> QED
  BY <1>1, SchedulingInvariant, PTL DEF Spec, ForgottenOnlyByFailure
=============================================================================
