-------------------------- MODULE ProjectionProofs --------------------------
(***************************************************************************)
(* The invariants that the run of ProjectionRuns.tla checks for two workers*)
(* and two rows, for any number of workers, rows, loads and versions.      *)
(***************************************************************************)
EXTENDS ProjectionRuns, TLAPS

-----------------------------------------------------------------------------
(* Types *)

Executing(w) == pc[w] \in {"loaded", "running"}

\* A worker that executes has a row in hand.
Employed == \A w \in Workers : Executing(w) => cur[w] \in Rows

Typed == TypeOK /\ Employed

\* The types of every variable survive every step.
LEMMA TypeStep == Typed /\ [Next]_vars => Typed'
<1> SUFFICES ASSUME Typed, [Next]_vars PROVE Typed'
  OBVIOUS
<1> USE ProjectionAssumption
    DEF Typed, TypeOK, Employed, Executing, ProjectionRunStatus, Set, NoRow,
        projectionVars, rowVars, workVars, hostVars, countVars
<1>1. CASE UpdateMapping
  BY <1>1 DEF UpdateMapping
<1>2. CASE ActivateProjection
  BY <1>2 DEF ActivateProjection
<1>3. ASSUME NEW w \in Workers, LandRun(w)
      PROVE  Typed'
  BY <1>3 DEF LandRun, Least
<1>4. ASSUME NEW w \in Workers, RefreshDrift(w)
      PROVE  Typed'
  BY <1>4 DEF RefreshDrift
<1>5. ASSUME NEW w \in Workers, DispatchAfterRun(w)
      PROVE  Typed'
  <2>1. /\ todo' = Set(todo, w, {})
        /\ UNCHANGED <<version, active, landed, old, left, listed, back,
                       claims, wrote, host, requests, faults, overruns>>
    BY <1>5 DEF DispatchAfterRun
  <2>2. CASE active
    <3>1. PICK r \in NewRow :
             /\ Create(r, version, todo[w], "incremental")
             /\ \/ Load(w, r, version) /\ UNCHANGED sent
                \/ /\ sent' = sent \cup {r}
                   /\ pc' = Set(pc, w, "idle")
                   /\ UNCHANGED <<cur, snap>>
      BY <1>5, <2>2 DEF DispatchAfterRun
    <3>2. r \in Rows
      BY DEF NewRow, Least
    <3>3. CASE Load(w, r, version) /\ UNCHANGED sent
      BY <2>1, <3>1, <3>2, <3>3 DEF Create, Load
    <3>4. CASE sent' = sent \cup {r} /\ pc' = Set(pc, w, "idle")
                 /\ UNCHANGED <<cur, snap>>
      BY <2>1, <3>1, <3>2, <3>4 DEF Create
    <3> QED
      BY <3>1, <3>3, <3>4
  <2>3. CASE ~ active
    <3>1. pc' = Set(pc, w, "idle") /\ UNCHANGED <<rowVars, sent, cur, snap>>
      BY <1>5, <2>3 DEF DispatchAfterRun
    <3> QED
      BY <2>1, <3>1
  <2> QED
    BY <2>2, <2>3
<1>6. ASSUME NEW w \in Workers, NEW r \in Rows, Deliver(w, r)
      PROVE  Typed'
  BY <1>6 DEF Deliver, Load, Fault
<1>7. ASSUME NEW w \in Workers, NEW r \in Rows, Retry(w, r)
      PROVE  Typed'
  BY <1>7 DEF Retry, Request, NewRow, Least, Create, Load
<1>8. ASSUME NEW w \in Workers, Replay(w)
      PROVE  Typed'
  BY <1>8 DEF Replay, Request, NewRow, Least, Create, Load
<1>9. ASSUME NEW w \in Workers, Supersede(w)
      PROVE  Typed'
  BY <1>9 DEF Supersede, Done
<1>10. ASSUME NEW w \in Workers, Claim(w)
      PROVE  Typed'
  BY <1>10 DEF Claim
<1>11. ASSUME NEW w \in Workers, ClaimRefused(w)
      PROVE  Typed'
  BY <1>11 DEF ClaimRefused, Done
<1>12. ASSUME NEW w \in Workers, Write(w)
      PROVE  Typed'
  BY <1>12 DEF Write, Least
<1>13. ASSUME NEW w \in Workers, Finish(w)
      PROVE  Typed'
  BY <1>13 DEF Finish, Done
<1>14. ASSUME NEW w \in Workers, Fail(w)
      PROVE  Typed'
  <2>1. /\ pc[w] = "running"
        /\ status' = Set(status, cur[w], "failed")
        /\ faults' = faults + 1
        /\ UNCHANGED <<version, active, landed, pversion, loads, full, old,
                       sent, claims, wrote, host, requests, overruns>>
    BY <1>14 DEF Fail, Fault
  <2>2. CASE Done(w)
    BY <2>1, <2>2 DEF Done
  <2>3. CASE Drop(w)
    BY <2>1, <2>3 DEF Drop
  <2> QED
    BY <2>2, <2>3, <1>14 DEF Fail
<1>15. ASSUME NEW w \in Workers, SelectDropped(w)
      PROVE  Typed'
  BY <1>15 DEF SelectDropped
<1>16. ASSUME NEW w \in Workers, Rescue(w)
      PROVE  Typed'
  BY <1>16 DEF Rescue, Least, Load
<1>17. ASSUME NEW w \in Workers, SelectAbandoned(w)
      PROVE  Typed'
  BY <1>17 DEF SelectAbandoned
<1>18. ASSUME NEW w \in Workers, FailAbandoned(w)
      PROVE  Typed'
  BY <1>18 DEF FailAbandoned, Least
<1>19. ASSUME NEW w \in Workers, SweepRead(w)
      PROVE  Typed'
  BY <1>19 DEF SweepRead, Outstanding
<1>20. ASSUME NEW w \in Workers, SweepCreate(w)
      PROVE  Typed'
  BY <1>20 DEF SweepCreate, NewRow, Least, Create, Load
<1>21. ASSUME NEW w \in Workers, Crash(w)
      PROVE  Typed'
  BY <1>21 DEF Crash, Fault, Drop
<1>22. ASSUME NEW r \in Rows, Age(r)
      PROVE  Typed'
  BY <1>22 DEF Age, Fault
<1>23. CASE UNCHANGED vars
  BY <1>23 DEF vars
<1> QED
  BY <1>1, <1>2, <1>3, <1>4, <1>5, <1>6, <1>7, <1>8, <1>9, <1>10, <1>11,
     <1>12, <1>13, <1>14, <1>15, <1>16, <1>17, <1>18, <1>19, <1>20, <1>21,
     <1>22, <1>23
     DEF Next, Progress

-----------------------------------------------------------------------------
(* Rows that are held exist *)

Exists(r) == status[r] # "absent"
Existing ==
    /\ \A r \in sent \cup old \cup full : Exists(r)
    /\ \A w \in Workers : \A r \in listed[w] : Exists(r)
    /\ \A w \in Workers : Executing(w) => Exists(cur[w])

\* Nobody holds a row that has not been created.
LEMMA ExistingStep == Typed /\ Existing /\ [Next]_vars => Existing'
<1> SUFFICES ASSUME Typed /\ Existing, [Next]_vars PROVE Existing'
  OBVIOUS
<1> USE DEF Typed, TypeOK, Employed, Existing, Exists, Executing, Set,
        projectionVars, rowVars, workVars, hostVars, countVars
<1>1. CASE UpdateMapping
  BY <1>1 DEF UpdateMapping
<1>2. CASE ActivateProjection
  BY <1>2 DEF ActivateProjection
<1>3. ASSUME NEW w \in Workers, LandRun(w)
      PROVE  Existing'
  BY <1>3 DEF LandRun, Least
<1>4. ASSUME NEW w \in Workers, RefreshDrift(w)
      PROVE  Existing'
  BY <1>4 DEF RefreshDrift
<1>5. ASSUME NEW w \in Workers, DispatchAfterRun(w)
      PROVE  Existing'
  BY <1>5 DEF DispatchAfterRun, NewRow, Least, Create, Load
<1>6. ASSUME NEW w \in Workers, NEW r \in Rows, Deliver(w, r)
      PROVE  Existing'
  BY <1>6 DEF Deliver, Load, Fault
<1>7. ASSUME NEW w \in Workers, NEW r \in Rows, Retry(w, r)
      PROVE  Existing'
  BY <1>7 DEF Retry, Request, NewRow, Least, Create, Load
<1>8. ASSUME NEW w \in Workers, Replay(w)
      PROVE  Existing'
  BY <1>8 DEF Replay, Request, NewRow, Least, Create, Load
<1>9. ASSUME NEW w \in Workers, Supersede(w)
      PROVE  Existing'
  BY <1>9 DEF Supersede, Done
<1>10. ASSUME NEW w \in Workers, Claim(w)
      PROVE  Existing'
  BY <1>10 DEF Claim
<1>11. ASSUME NEW w \in Workers, ClaimRefused(w)
      PROVE  Existing'
  BY <1>11 DEF ClaimRefused, Done
<1>12. ASSUME NEW w \in Workers, Write(w)
      PROVE  Existing'
  BY <1>12 DEF Write, Least
<1>13. ASSUME NEW w \in Workers, Finish(w)
      PROVE  Existing'
  BY <1>13 DEF Finish, Done
<1>14. ASSUME NEW w \in Workers, Fail(w)
      PROVE  Existing'
  <2>1. /\ pc[w] = "running"
        /\ status' = Set(status, cur[w], "failed")
        /\ UNCHANGED <<full, old, sent>>
    BY <1>14 DEF Fail
  <2>2. CASE Done(w)
    BY <2>1, <2>2 DEF Done
  <2>3. CASE Drop(w)
    BY <2>1, <2>3 DEF Drop
  <2> QED
    BY <2>2, <2>3, <1>14 DEF Fail
<1>15. ASSUME NEW w \in Workers, SelectDropped(w)
      PROVE  Existing'
  BY <1>15 DEF SelectDropped
<1>16. ASSUME NEW w \in Workers, Rescue(w)
      PROVE  Existing'
  BY <1>16 DEF Rescue, Least, Load
<1>17. ASSUME NEW w \in Workers, SelectAbandoned(w)
      PROVE  Existing'
  BY <1>17 DEF SelectAbandoned
<1>18. ASSUME NEW w \in Workers, FailAbandoned(w)
      PROVE  Existing'
  BY <1>18 DEF FailAbandoned, Least
<1>19. ASSUME NEW w \in Workers, SweepRead(w)
      PROVE  Existing'
  BY <1>19 DEF SweepRead, Outstanding
<1>20. ASSUME NEW w \in Workers, SweepCreate(w)
      PROVE  Existing'
  BY <1>20 DEF SweepCreate, NewRow, Least, Create, Load
<1>21. ASSUME NEW w \in Workers, Crash(w)
      PROVE  Existing'
  BY <1>21 DEF Crash, Fault, Drop
<1>22. ASSUME NEW r \in Rows, Age(r)
      PROVE  Existing'
  BY <1>22 DEF Age, Fault, InFlight
<1>23. CASE UNCHANGED vars
  BY <1>23 DEF vars
<1> QED
  BY <1>1, <1>2, <1>3, <1>4, <1>5, <1>6, <1>7, <1>8, <1>9, <1>10, <1>11,
     <1>12, <1>13, <1>14, <1>15, <1>16, <1>17, <1>18, <1>19, <1>20, <1>21,
     <1>22, <1>23
     DEF Next, Progress

-----------------------------------------------------------------------------
(* The claim *)

\* A row that has not left the queue has not been claimed.
Unclaimed == \A r \in Rows : status[r] \in {"absent", "queued"} => claims[r] = 0

Claimed == Unclaimed /\ ClaimedOnce

\* Only the claim counts, and it takes the row out of the queue for good.
LEMMA ClaimedStep == Typed /\ Claimed /\ [Next]_vars => Claimed'
<1> SUFFICES ASSUME Typed /\ Claimed, [Next]_vars PROVE Claimed'
  OBVIOUS
<1> USE DEF Typed, TypeOK, Employed, Executing, Claimed, Unclaimed, ClaimedOnce,
        Set, projectionVars, rowVars, workVars, hostVars, countVars
<1>1. CASE UpdateMapping
  BY <1>1 DEF UpdateMapping
<1>2. CASE ActivateProjection
  BY <1>2 DEF ActivateProjection
<1>3. ASSUME NEW w \in Workers, LandRun(w)
      PROVE  Claimed'
  BY <1>3 DEF LandRun, Least
<1>4. ASSUME NEW w \in Workers, RefreshDrift(w)
      PROVE  Claimed'
  BY <1>4 DEF RefreshDrift
<1>5. ASSUME NEW w \in Workers, DispatchAfterRun(w)
      PROVE  Claimed'
  BY <1>5 DEF DispatchAfterRun, NewRow, Least, Create, Load
<1>6. ASSUME NEW w \in Workers, NEW r \in Rows, Deliver(w, r)
      PROVE  Claimed'
  BY <1>6 DEF Deliver, Load, Fault
<1>7. ASSUME NEW w \in Workers, NEW r \in Rows, Retry(w, r)
      PROVE  Claimed'
  BY <1>7 DEF Retry, Request, NewRow, Least, Create, Load
<1>8. ASSUME NEW w \in Workers, Replay(w)
      PROVE  Claimed'
  BY <1>8 DEF Replay, Request, NewRow, Least, Create, Load
<1>9. ASSUME NEW w \in Workers, Supersede(w)
      PROVE  Claimed'
  BY <1>9 DEF Supersede, Done
<1>10. ASSUME NEW w \in Workers, Claim(w)
      PROVE  Claimed'
  BY <1>10 DEF Claim
<1>11. ASSUME NEW w \in Workers, ClaimRefused(w)
      PROVE  Claimed'
  BY <1>11 DEF ClaimRefused, Done
<1>12. ASSUME NEW w \in Workers, Write(w)
      PROVE  Claimed'
  BY <1>12 DEF Write, Least
<1>13. ASSUME NEW w \in Workers, Finish(w)
      PROVE  Claimed'
  BY <1>13 DEF Finish, Done
<1>14. ASSUME NEW w \in Workers, Fail(w)
      PROVE  Claimed'
  BY <1>14 DEF Fail, Fault, Done, Drop
<1>15. ASSUME NEW w \in Workers, SelectDropped(w)
      PROVE  Claimed'
  BY <1>15 DEF SelectDropped
<1>16. ASSUME NEW w \in Workers, Rescue(w)
      PROVE  Claimed'
  BY <1>16 DEF Rescue, Least, Load
<1>17. ASSUME NEW w \in Workers, SelectAbandoned(w)
      PROVE  Claimed'
  BY <1>17 DEF SelectAbandoned
<1>18. ASSUME NEW w \in Workers, FailAbandoned(w)
      PROVE  Claimed'
  BY <1>18 DEF FailAbandoned, Least
<1>19. ASSUME NEW w \in Workers, SweepRead(w)
      PROVE  Claimed'
  BY <1>19 DEF SweepRead, Outstanding
<1>20. ASSUME NEW w \in Workers, SweepCreate(w)
      PROVE  Claimed'
  BY <1>20 DEF SweepCreate, NewRow, Least, Create, Load
<1>21. ASSUME NEW w \in Workers, Crash(w)
      PROVE  Claimed'
  BY <1>21 DEF Crash, Fault, Drop
<1>22. ASSUME NEW r \in Rows, Age(r)
      PROVE  Claimed'
  BY <1>22 DEF Age, Fault
<1>23. CASE UNCHANGED vars
  BY <1>23 DEF vars
<1> QED
  BY <1>1, <1>2, <1>3, <1>4, <1>5, <1>6, <1>7, <1>8, <1>9, <1>10, <1>11,
     <1>12, <1>13, <1>14, <1>15, <1>16, <1>17, <1>18, <1>19, <1>20, <1>21,
     <1>22, <1>23
     DEF Next, Progress

-----------------------------------------------------------------------------
(* The version *)

\* No copy of the mapping is newer than the mapping, and none in a worker's
\* hand is older than the row it is about to execute.
Dated ==
    /\ \A r \in Rows : pversion[r] <= version
    /\ \A w \in Workers : snap[w] <= version
    /\ \A w \in Workers : pc[w] = "rescue" => back[w] = "rescue"
    /\ \A w \in Workers : back[w] = "rescue" =>
          \A r \in listed[w] : pversion[r] <= snap[w]
    /\ \A w \in Workers : pc[w] = "loaded" => pversion[cur[w]] <= snap[w]
    /\ \A w \in Workers :
          back[w] = "rescue" => pc[w] \in {"rescue", "loaded", "running"}

Versioned == Dated /\ RunsItsVersion

\* The version a worker holds changes only with the row it holds.
LEMMA VersionedStep ==
    Typed /\ Existing /\ Versioned /\ [Next]_vars => Versioned'
<1> SUFFICES ASSUME Typed /\ Existing /\ Versioned, [Next]_vars PROVE Versioned'
  OBVIOUS
<1> USE DEF Typed, TypeOK, Employed, Existing, Exists, Executing, Versioned,
        Dated, RunsItsVersion, Set,
        projectionVars, rowVars, workVars, hostVars, countVars
<1>1. CASE UpdateMapping
  BY <1>1 DEF UpdateMapping
<1>2. CASE ActivateProjection
  BY <1>2 DEF ActivateProjection
<1>3. ASSUME NEW w \in Workers, LandRun(w)
      PROVE  Versioned'
  BY <1>3 DEF LandRun, Least
<1>4. ASSUME NEW w \in Workers, RefreshDrift(w)
      PROVE  Versioned'
  BY <1>4 DEF RefreshDrift
<1>5. ASSUME NEW w \in Workers, DispatchAfterRun(w)
      PROVE  Versioned'
  <2>1. CASE ~ active
    BY <2>1, <1>5 DEF DispatchAfterRun
  <2>2. CASE active
    <3>1. PICK r \in Rows :
             /\ status[r] = "absent"
             /\ pversion' = Set(pversion, r, version)
             /\ \/ Load(w, r, version)
                \/ pc' = Set(pc, w, "idle") /\ UNCHANGED <<cur, snap>>
      BY <2>2, <1>5 DEF DispatchAfterRun, NewRow, Least, Create
    <3>2. \A x \in Workers : Executing(x) => cur[x] # r
      BY <3>1
    <3>3. \A x \in Workers : r \notin listed[x]
      BY <3>1
    <3>4. UNCHANGED <<version, listed, back>> /\ pc[w] = "dispatch"
      BY <1>5 DEF DispatchAfterRun
    <3>5. CASE Load(w, r, version)
      BY <3>1, <3>2, <3>3, <3>4, <3>5 DEF Load
    <3>6. CASE pc' = Set(pc, w, "idle") /\ UNCHANGED <<cur, snap>>
      BY <3>1, <3>2, <3>3, <3>4, <3>6
    <3> QED
      BY <3>1, <3>5, <3>6
  <2> QED
    BY <2>1, <2>2
<1>6. ASSUME NEW w \in Workers, NEW r \in Rows, Deliver(w, r)
      PROVE  Versioned'
  BY <1>6 DEF Deliver, Load, Fault
<1>7. ASSUME NEW w \in Workers, NEW r \in Rows, Retry(w, r)
      PROVE  Versioned'
  BY <1>7 DEF Retry, Request, NewRow, Least, Create, Load
<1>8. ASSUME NEW w \in Workers, Replay(w)
      PROVE  Versioned'
  BY <1>8 DEF Replay, Request, NewRow, Least, Create, Load
<1>9. ASSUME NEW w \in Workers, Supersede(w)
      PROVE  Versioned'
  BY <1>9 DEF Supersede, Done
<1>10. ASSUME NEW w \in Workers, Claim(w)
      PROVE  Versioned'
  <2>1. pc[w] = "loaded" /\ snap[w] = pversion[cur[w]] /\ cur[w] \in Rows
    <3>1. pc[w] = "loaded" /\ cur[w] \in Rows
      BY <1>10 DEF Claim
    <3>2. pversion[cur[w]] \in Nat /\ snap[w] \in Nat
      BY <3>1
    <3>3. pversion[cur[w]] <= snap[w]
      BY <3>1
    <3>4. ~ (pversion[cur[w]] < snap[w])
      BY <1>10 DEF Claim, Superseded
    <3> QED
      BY <3>1, <3>2, <3>3, <3>4
  <2> QED
    BY <2>1, <1>10 DEF Claim
<1>11. ASSUME NEW w \in Workers, ClaimRefused(w)
      PROVE  Versioned'
  BY <1>11 DEF ClaimRefused, Done
<1>12. ASSUME NEW w \in Workers, Write(w)
      PROVE  Versioned'
  BY <1>12 DEF Write, Least
<1>13. ASSUME NEW w \in Workers, Finish(w)
      PROVE  Versioned'
  BY <1>13 DEF Finish, Done
<1>14. ASSUME NEW w \in Workers, Fail(w)
      PROVE  Versioned'
  <2>1. UNCHANGED <<version, pversion>>
    BY <1>14 DEF Fail
  <2>2. CASE Done(w)
    BY <2>1, <2>2, <1>14 DEF Fail, Done
  <2>3. CASE Drop(w)
    BY <2>1, <2>3, <1>14 DEF Fail, Drop
  <2> QED
    BY <2>2, <2>3, <1>14 DEF Fail
<1>15. ASSUME NEW w \in Workers, SelectDropped(w)
      PROVE  Versioned'
  BY <1>15 DEF SelectDropped
<1>16. ASSUME NEW w \in Workers, Rescue(w)
      PROVE  Versioned'
  BY <1>16 DEF Rescue, Least, Load
<1>17. ASSUME NEW w \in Workers, SelectAbandoned(w)
      PROVE  Versioned'
  BY <1>17 DEF SelectAbandoned
<1>18. ASSUME NEW w \in Workers, FailAbandoned(w)
      PROVE  Versioned'
  <2>1. /\ pc[w] = "abandon"
        /\ UNCHANGED <<version, pversion, pc, cur, snap, back>>
    BY <1>18 DEF FailAbandoned
  <2>2. \E r \in listed[w] : listed' = Set(listed, w, listed[w] \ {r})
    BY <1>18 DEF FailAbandoned, Least
  <2> QED
    BY <2>1, <2>2
<1>19. ASSUME NEW w \in Workers, SweepRead(w)
      PROVE  Versioned'
  <2>1. /\ pc[w] = "abandon"
        /\ UNCHANGED <<version, pversion, cur, listed, back>>
        /\ \/ snap' = Set(snap, w, version) /\ pc' = Set(pc, w, "create")
           \/ UNCHANGED snap /\ pc' = Set(pc, w, "idle")
    BY <1>19 DEF SweepRead
  <2>2. CASE snap' = Set(snap, w, version) /\ pc' = Set(pc, w, "create")
    BY <2>1, <2>2
  <2>3. CASE UNCHANGED snap /\ pc' = Set(pc, w, "idle")
    BY <2>1, <2>3
  <2> QED
    BY <2>1, <2>2, <2>3
<1>20. ASSUME NEW w \in Workers, SweepCreate(w)
      PROVE  Versioned'
  BY <1>20 DEF SweepCreate, NewRow, Least, Create, Load
<1>21. ASSUME NEW w \in Workers, Crash(w)
      PROVE  Versioned'
  BY <1>21 DEF Crash, Fault, Drop
<1>22. ASSUME NEW r \in Rows, Age(r)
      PROVE  Versioned'
  BY <1>22 DEF Age, Fault
<1>23. CASE UNCHANGED vars
  BY <1>23 DEF vars
<1> QED
  BY <1>1, <1>2, <1>3, <1>4, <1>5, <1>6, <1>7, <1>8, <1>9, <1>10, <1>11,
     <1>12, <1>13, <1>14, <1>15, <1>16, <1>17, <1>18, <1>19, <1>20, <1>21,
     <1>22, <1>23
     DEF Next, Progress

-----------------------------------------------------------------------------
(* What was written *)

\* What a row names is written or still to be written by who executes it; a
\* FULL row names nothing.
Pending ==
    /\ \A r \in full : loads[r] = {}
    /\ \A w \in Workers :
          pc[w] = "running"
              => loads[cur[w]] \subseteq left[w] \cup wrote[cur[w]]

AllWritten == Pending /\ SucceededMeansWritten

\* Writes move loads from what is left to what was written.
LEMMA WrittenStep ==
    Typed /\ Existing /\ AllWritten /\ [Next]_vars => AllWritten'
<1> SUFFICES ASSUME Typed /\ Existing /\ AllWritten, [Next]_vars
             PROVE  AllWritten'
  OBVIOUS
<1> USE DEF Typed, TypeOK, Employed, Existing, Exists, Executing, AllWritten,
        Pending, SucceededMeansWritten, Set,
        projectionVars, rowVars, workVars, hostVars, countVars
<1>1. CASE UpdateMapping
  BY <1>1 DEF UpdateMapping
<1>2. CASE ActivateProjection
  BY <1>2 DEF ActivateProjection
<1>3. ASSUME NEW w \in Workers, LandRun(w)
      PROVE  AllWritten'
  BY <1>3 DEF LandRun, Least
<1>4. ASSUME NEW w \in Workers, RefreshDrift(w)
      PROVE  AllWritten'
  BY <1>4 DEF RefreshDrift
<1>5. ASSUME NEW w \in Workers, DispatchAfterRun(w)
      PROVE  AllWritten'
  BY <1>5 DEF DispatchAfterRun, NewRow, Least, Create, Load
<1>6. ASSUME NEW w \in Workers, NEW r \in Rows, Deliver(w, r)
      PROVE  AllWritten'
  BY <1>6 DEF Deliver, Load, Fault
<1>7. ASSUME NEW w \in Workers, NEW r \in Rows, Retry(w, r)
      PROVE  AllWritten'
  BY <1>7 DEF Retry, Request, NewRow, Least, Create, Load
<1>8. ASSUME NEW w \in Workers, Replay(w)
      PROVE  AllWritten'
  BY <1>8 DEF Replay, Request, NewRow, Least, Create, Load
<1>9. ASSUME NEW w \in Workers, Supersede(w)
      PROVE  AllWritten'
  BY <1>9 DEF Supersede, Done
<1>10. ASSUME NEW w \in Workers, Claim(w)
      PROVE  AllWritten'
  BY <1>10 DEF Claim
<1>11. ASSUME NEW w \in Workers, ClaimRefused(w)
      PROVE  AllWritten'
  BY <1>11 DEF ClaimRefused, Done
<1>12. ASSUME NEW w \in Workers, Write(w)
      PROVE  AllWritten'
  BY <1>12 DEF Write, Least
<1>13. ASSUME NEW w \in Workers, Finish(w)
      PROVE  AllWritten'
  BY <1>13 DEF Finish, Done
<1>14. ASSUME NEW w \in Workers, Fail(w)
      PROVE  AllWritten'
  BY <1>14 DEF Fail, Fault, Done, Drop
<1>15. ASSUME NEW w \in Workers, SelectDropped(w)
      PROVE  AllWritten'
  BY <1>15 DEF SelectDropped
<1>16. ASSUME NEW w \in Workers, Rescue(w)
      PROVE  AllWritten'
  BY <1>16 DEF Rescue, Least, Load
<1>17. ASSUME NEW w \in Workers, SelectAbandoned(w)
      PROVE  AllWritten'
  BY <1>17 DEF SelectAbandoned
<1>18. ASSUME NEW w \in Workers, FailAbandoned(w)
      PROVE  AllWritten'
  BY <1>18 DEF FailAbandoned, Least
<1>19. ASSUME NEW w \in Workers, SweepRead(w)
      PROVE  AllWritten'
  BY <1>19 DEF SweepRead, Outstanding
<1>20. ASSUME NEW w \in Workers, SweepCreate(w)
      PROVE  AllWritten'
  BY <1>20 DEF SweepCreate, NewRow, Least, Create, Load
<1>21. ASSUME NEW w \in Workers, Crash(w)
      PROVE  AllWritten'
  BY <1>21 DEF Crash, Fault, Drop
<1>22. ASSUME NEW r \in Rows, Age(r)
      PROVE  AllWritten'
  BY <1>22 DEF Age, Fault
<1>23. CASE UNCHANGED vars
  BY <1>23 DEF vars
<1> QED
  BY <1>1, <1>2, <1>3, <1>4, <1>5, <1>6, <1>7, <1>8, <1>9, <1>10, <1>11,
     <1>12, <1>13, <1>14, <1>15, <1>16, <1>17, <1>18, <1>19, <1>20, <1>21,
     <1>22, <1>23
     DEF Next, Progress

-----------------------------------------------------------------------------
(* Verdicts *)

\* The mapping changed under the row, or an execution was taken for dead.
Excused(r) == pversion[r] < version \/ overruns > 0

\* A row is executed by one worker, which is the one that claimed it, and is
\* RUNNING meanwhile; what the reaper has in hand nobody executes.
Sole ==
    /\ \A w \in Workers :
          pc[w] = "running" => status[cur[w]] \notin {"absent", "queued"}
    /\ \A w, x \in Workers :
          pc[w] = "running" /\ pc[x] = "running" /\ cur[w] = cur[x] => w = x
    /\ \A w \in Workers :
          pc[w] = "running" => status[cur[w]] = "running" \/ Excused(cur[w])

Deserted ==
    /\ \A r \in old : status[r] = "running" /\ Alive(r) => overruns > 0
    /\ \A w \in Workers : pc[w] = "abandon" =>
          \A r \in listed[w] :
             \/ Excused(r)
             \/ status[r] \in {"running", "failed"} /\ ~ Alive(r)

\* Nobody else touches a row that is executed, unless it is excused.
LEMMA SoleStep ==
    Typed /\ Existing /\ Dated /\ Sole /\ Deserted /\ [Next]_vars => Sole'
<1> SUFFICES ASSUME Typed /\ Existing /\ Dated /\ Sole /\ Deserted,
                    [Next]_vars
             PROVE  Sole'
  OBVIOUS
<1> USE DEF Typed, TypeOK, Employed, Existing, Exists, Executing, Dated, Sole,
        Deserted, Excused, Alive, Executes, Superseded, Set,
        projectionVars, rowVars, workVars, hostVars, countVars
<1>1. CASE UpdateMapping
  BY <1>1 DEF UpdateMapping
<1>2. CASE ActivateProjection
  BY <1>2 DEF ActivateProjection
<1>3. ASSUME NEW w \in Workers, LandRun(w)
      PROVE  Sole'
  BY <1>3 DEF LandRun, Least
<1>4. ASSUME NEW w \in Workers, RefreshDrift(w)
      PROVE  Sole'
  BY <1>4 DEF RefreshDrift
<1>5. ASSUME NEW w \in Workers, DispatchAfterRun(w)
      PROVE  Sole'
  <2>1. pc[w] = "dispatch" /\ UNCHANGED <<version, old, listed, overruns>>
    BY <1>5 DEF DispatchAfterRun
  <2>2. CASE ~ active
    BY <2>1, <2>2, <1>5 DEF DispatchAfterRun
  <2>3. CASE active
    <3>1. PICK r \in Rows :
             /\ status[r] = "absent"
             /\ status' = Set(status, r, "queued")
             /\ pversion' = Set(pversion, r, version)
             /\ \/ Load(w, r, version)
                \/ pc' = Set(pc, w, "idle") /\ UNCHANGED <<cur, snap>>
      BY <2>3, <1>5 DEF DispatchAfterRun, NewRow, Least, Create
    <3>2. CASE Load(w, r, version)
      BY <2>1, <3>1, <3>2 DEF Load
    <3>3. CASE pc' = Set(pc, w, "idle") /\ UNCHANGED <<cur, snap>>
      BY <2>1, <3>1, <3>3
    <3> QED
      BY <3>1, <3>2, <3>3
  <2> QED
    BY <2>2, <2>3
<1>6. ASSUME NEW w \in Workers, NEW r \in Rows, Deliver(w, r)
      PROVE  Sole'
  BY <1>6 DEF Deliver, Load, Fault
<1>7. ASSUME NEW w \in Workers, NEW r \in Rows, Retry(w, r)
      PROVE  Sole'
  BY <1>7 DEF Retry, Request, NewRow, Least, Create, Load
<1>8. ASSUME NEW w \in Workers, Replay(w)
      PROVE  Sole'
  BY <1>8 DEF Replay, Request, NewRow, Least, Create, Load
<1>9. ASSUME NEW w \in Workers, Supersede(w)
      PROVE  Sole'
  BY <1>9 DEF Supersede, Done
<1>10. ASSUME NEW w \in Workers, Claim(w)
      PROVE  Sole'
  BY <1>10 DEF Claim
<1>11. ASSUME NEW w \in Workers, ClaimRefused(w)
      PROVE  Sole'
  BY <1>11 DEF ClaimRefused, Done
<1>12. ASSUME NEW w \in Workers, Write(w)
      PROVE  Sole'
  BY <1>12 DEF Write, Least
<1>13. ASSUME NEW w \in Workers, Finish(w)
      PROVE  Sole'
  BY <1>13 DEF Finish, Done
<1>14. ASSUME NEW w \in Workers, Fail(w)
      PROVE  Sole'
  <2>1. /\ pc[w] = "running"
        /\ status' = Set(status, cur[w], "failed")
        /\ UNCHANGED <<version, pversion, old, overruns>>
    BY <1>14 DEF Fail
  <2>2. CASE Done(w)
    BY <2>1, <2>2 DEF Done
  <2>3. CASE Drop(w)
    BY <2>1, <2>3 DEF Drop
  <2> QED
    BY <2>2, <2>3, <1>14 DEF Fail
<1>15. ASSUME NEW w \in Workers, SelectDropped(w)
      PROVE  Sole'
  BY <1>15 DEF SelectDropped
<1>16. ASSUME NEW w \in Workers, Rescue(w)
      PROVE  Sole'
  BY <1>16 DEF Rescue, Least, Load
<1>17. ASSUME NEW w \in Workers, SelectAbandoned(w)
      PROVE  Sole'
  BY <1>17 DEF SelectAbandoned
<1>18. ASSUME NEW w \in Workers, FailAbandoned(w)
      PROVE  Sole'
  BY <1>18 DEF FailAbandoned, Least
<1>19. ASSUME NEW w \in Workers, SweepRead(w)
      PROVE  Sole'
  BY <1>19 DEF SweepRead, Outstanding
<1>20. ASSUME NEW w \in Workers, SweepCreate(w)
      PROVE  Sole'
  BY <1>20 DEF SweepCreate, NewRow, Least, Create, Load
<1>21. ASSUME NEW w \in Workers, Crash(w)
      PROVE  Sole'
  BY <1>21 DEF Crash, Fault, Drop
<1>22. ASSUME NEW r \in Rows, Age(r)
      PROVE  Sole'
  BY <1>22 DEF Age, Fault
<1>23. CASE UNCHANGED vars
  BY <1>23 DEF vars
<1> QED
  BY <1>1, <1>2, <1>3, <1>4, <1>5, <1>6, <1>7, <1>8, <1>9, <1>10, <1>11,
     <1>12, <1>13, <1>14, <1>15, <1>16, <1>17, <1>18, <1>19, <1>20, <1>21,
     <1>22, <1>23
     DEF Next, Progress

\* A row the reaper has in hand stays without an executor.
LEMMA DesertedStep ==
    Typed /\ Existing /\ Dated /\ Sole /\ Deserted /\ [Next]_vars => Deserted'
<1> SUFFICES ASSUME Typed /\ Existing /\ Dated /\ Sole /\ Deserted,
                    [Next]_vars
             PROVE  Deserted'
  OBVIOUS
<1> USE DEF Typed, TypeOK, Employed, Existing, Exists, Executing, Dated, Sole,
        Deserted, Excused, Alive, Executes, Superseded, Set,
        projectionVars, rowVars, workVars, hostVars, countVars
<1>1. CASE UpdateMapping
  BY <1>1 DEF UpdateMapping
<1>2. CASE ActivateProjection
  BY <1>2 DEF ActivateProjection
<1>3. ASSUME NEW w \in Workers, LandRun(w)
      PROVE  Deserted'
  BY <1>3 DEF LandRun, Least
<1>4. ASSUME NEW w \in Workers, RefreshDrift(w)
      PROVE  Deserted'
  BY <1>4 DEF RefreshDrift
<1>5. ASSUME NEW w \in Workers, DispatchAfterRun(w)
      PROVE  Deserted'
  <2>1. pc[w] = "dispatch" /\ UNCHANGED <<version, old, listed, overruns>>
    BY <1>5 DEF DispatchAfterRun
  <2>2. CASE ~ active
    BY <2>1, <2>2, <1>5 DEF DispatchAfterRun
  <2>3. CASE active
    <3>1. PICK r \in Rows :
             /\ status[r] = "absent"
             /\ status' = Set(status, r, "queued")
             /\ pversion' = Set(pversion, r, version)
             /\ \/ Load(w, r, version)
                \/ pc' = Set(pc, w, "idle") /\ UNCHANGED <<cur, snap>>
      BY <2>3, <1>5 DEF DispatchAfterRun, NewRow, Least, Create
    <3>2. CASE Load(w, r, version)
      BY <2>1, <3>1, <3>2 DEF Load
    <3>3. CASE pc' = Set(pc, w, "idle") /\ UNCHANGED <<cur, snap>>
      BY <2>1, <3>1, <3>3
    <3> QED
      BY <3>1, <3>2, <3>3
  <2> QED
    BY <2>2, <2>3
<1>6. ASSUME NEW w \in Workers, NEW r \in Rows, Deliver(w, r)
      PROVE  Deserted'
  BY <1>6 DEF Deliver, Load, Fault
<1>7. ASSUME NEW w \in Workers, NEW r \in Rows, Retry(w, r)
      PROVE  Deserted'
  BY <1>7 DEF Retry, Request, NewRow, Least, Create, Load
<1>8. ASSUME NEW w \in Workers, Replay(w)
      PROVE  Deserted'
  BY <1>8 DEF Replay, Request, NewRow, Least, Create, Load
<1>9. ASSUME NEW w \in Workers, Supersede(w)
      PROVE  Deserted'
  BY <1>9 DEF Supersede, Done
<1>10. ASSUME NEW w \in Workers, Claim(w)
      PROVE  Deserted'
  BY <1>10 DEF Claim
<1>11. ASSUME NEW w \in Workers, ClaimRefused(w)
      PROVE  Deserted'
  BY <1>11 DEF ClaimRefused, Done
<1>12. ASSUME NEW w \in Workers, Write(w)
      PROVE  Deserted'
  BY <1>12 DEF Write, Least
<1>13. ASSUME NEW w \in Workers, Finish(w)
      PROVE  Deserted'
  BY <1>13 DEF Finish, Done
<1>14. ASSUME NEW w \in Workers, Fail(w)
      PROVE  Deserted'
  <2>1. /\ pc[w] = "running"
        /\ status' = Set(status, cur[w], "failed")
        /\ UNCHANGED <<version, pversion, old, overruns>>
    BY <1>14 DEF Fail
  <2>2. CASE Done(w)
    BY <2>1, <2>2 DEF Done
  <2>3. CASE Drop(w)
    BY <2>1, <2>3 DEF Drop
  <2> QED
    BY <2>2, <2>3, <1>14 DEF Fail
<1>15. ASSUME NEW w \in Workers, SelectDropped(w)
      PROVE  Deserted'
  BY <1>15 DEF SelectDropped
<1>16. ASSUME NEW w \in Workers, Rescue(w)
      PROVE  Deserted'
  BY <1>16 DEF Rescue, Least, Load
<1>17. ASSUME NEW w \in Workers, SelectAbandoned(w)
      PROVE  Deserted'
  BY <1>17 DEF SelectAbandoned
<1>18. ASSUME NEW w \in Workers, FailAbandoned(w)
      PROVE  Deserted'
  BY <1>18 DEF FailAbandoned, Least
<1>19. ASSUME NEW w \in Workers, SweepRead(w)
      PROVE  Deserted'
  BY <1>19 DEF SweepRead, Outstanding
<1>20. ASSUME NEW w \in Workers, SweepCreate(w)
      PROVE  Deserted'
  BY <1>20 DEF SweepCreate, NewRow, Least, Create, Load
<1>21. ASSUME NEW w \in Workers, Crash(w)
      PROVE  Deserted'
  BY <1>21 DEF Crash, Fault, Drop
<1>22. ASSUME NEW r \in Rows, Age(r)
      PROVE  Deserted'
  BY <1>22 DEF Age, Fault
<1>23. CASE UNCHANGED vars
  BY <1>23 DEF vars
<1> QED
  BY <1>1, <1>2, <1>3, <1>4, <1>5, <1>6, <1>7, <1>8, <1>9, <1>10, <1>11,
     <1>12, <1>13, <1>14, <1>15, <1>16, <1>17, <1>18, <1>19, <1>20, <1>21,
     <1>22, <1>23
     DEF Next, Progress

\* A verdict changes only under an excuse.
LEMMA VerdictStep ==
    ASSUME Typed, Existing, Dated, Sole, Deserted, [Next]_vars,
           NEW q \in Rows, status[q] \in Terminal, status'[q] # status[q]
    PROVE  Excused(q)
<1> USE DEF Typed, TypeOK, Employed, Existing, Exists, Executing, Terminal, Set,
        projectionVars, rowVars, workVars, hostVars, countVars
<1>1. CASE UNCHANGED status
  BY <1>1
<1>2. ASSUME NEW w \in Workers, Supersede(w)
      PROVE  Excused(q)
  BY <1>2 DEF Supersede, Superseded, Dated, Excused
<1>3. ASSUME NEW w \in Workers, Finish(w) \/ Fail(w)
      PROVE  Excused(q)
  BY <1>3 DEF Finish, Fail, Sole
<1>4. ASSUME NEW w \in Workers, FailAbandoned(w)
      PROVE  Excused(q)
  BY <1>4 DEF FailAbandoned, Least, Deserted
<1>5. ASSUME NEW w \in Workers, Claim(w)
      PROVE  Excused(q)
  BY <1>5 DEF Claim
<1>6. ASSUME NEW w \in Workers,
             DispatchAfterRun(w) \/ Replay(w) \/ SweepCreate(w)
      PROVE  Excused(q)
  BY <1>6 DEF DispatchAfterRun, Replay, SweepCreate, NewRow, Least, Create
<1>7. ASSUME NEW w \in Workers, NEW r \in Rows, Retry(w, r)
      PROVE  Excused(q)
  BY <1>7 DEF Retry, NewRow, Least, Create
<1>8. ASSUME NEW w \in Workers,
             \/ LandRun(w) \/ RefreshDrift(w) \/ ClaimRefused(w)
             \/ Write(w) \/ SelectDropped(w) \/ Rescue(w)
             \/ SelectAbandoned(w) \/ SweepRead(w) \/ Crash(w)
      PROVE  UNCHANGED status
  BY <1>8 DEF LandRun, RefreshDrift, ClaimRefused, Write, SelectDropped, Rescue,
              SelectAbandoned, SweepRead, Crash
<1>9. ASSUME NEW w \in Workers, NEW r \in Rows, Deliver(w, r)
      PROVE  UNCHANGED status
  BY <1>9 DEF Deliver
<1>10. ASSUME NEW r \in Rows, Age(r)
       PROVE  UNCHANGED status
  BY <1>10 DEF Age
<1>11. CASE UpdateMapping \/ ActivateProjection \/ UNCHANGED vars
  BY <1>1, <1>11 DEF UpdateMapping, ActivateProjection, vars
<1> QED
  BY <1>1, <1>2, <1>3, <1>4, <1>5, <1>6, <1>7, <1>8, <1>9, <1>10, <1>11
     DEF Next, Progress

-----------------------------------------------------------------------------
(* The theorems *)

ProjectionInv ==
    /\ Typed /\ Existing /\ Claimed /\ Versioned /\ AllWritten
    /\ Sole /\ Deserted

\* The invariants above hold together in every state.
THEOREM ProjectionInvariant == Spec => []ProjectionInv
<1>1. ASSUME Init PROVE ProjectionInv
  <2>1. Typed
    BY <1>1, ProjectionAssumption
       DEF Init, Typed, TypeOK, Employed, Executing, ProjectionRunStatus, NoRow
  <2>2. Existing /\ Claimed
    BY <1>1 DEF Init, Existing, Executing, Claimed, Unclaimed, ClaimedOnce
  <2>3. Versioned
    BY <1>1 DEF Init, Versioned, Dated, RunsItsVersion
  <2>4. AllWritten
    BY <1>1 DEF Init, AllWritten, Pending, SucceededMeansWritten
  <2>5. Sole /\ Deserted
    BY <1>1 DEF Init, Sole, Deserted
  <2> QED
    BY <2>1, <2>2, <2>3, <2>4, <2>5 DEF ProjectionInv
<1>2. ProjectionInv /\ [Next]_vars => ProjectionInv'
  BY TypeStep, ExistingStep, ClaimedStep, VersionedStep, WrittenStep,
     SoleStep, DesertedStep DEF ProjectionInv, Versioned
<1> QED
  BY <1>1, <1>2, PTL DEF Spec

\* Every behaviour of a Projection's rows keeps its types.
THEOREM ProjectionTypes == Spec => []TypeOK
<1>1. ProjectionInv => TypeOK
  BY DEF ProjectionInv, Typed
<1> QED
  BY <1>1, ProjectionInvariant, PTL

\* However often a row is delivered, rescued or swept, it is claimed once.
THEOREM SingleExecution == Spec => []ClaimedOnce
<1>1. ProjectionInv => ClaimedOnce
  BY DEF ProjectionInv, Claimed
<1> QED
  BY <1>1, ProjectionInvariant, PTL

\* A row is executed with the mapping version it was queued against.
THEOREM OwnVersion == Spec => []RunsItsVersion
<1>1. ProjectionInv => RunsItsVersion
  BY DEF ProjectionInv, Versioned
<1> QED
  BY <1>1, ProjectionInvariant, PTL

\* A succeeded row wrote every load it names.
THEOREM WrittenBeforeSuccess == Spec => []SucceededMeansWritten
<1>1. ProjectionInv => SucceededMeansWritten
  BY DEF ProjectionInv, AllWritten
<1> QED
  BY <1>1, ProjectionInvariant, PTL

\* A verdict is rewritten only after the mapping changed under the row, or after
\* the reaper took a live execution for an abandoned one.
THEOREM VerdictsStand == Spec => VerdictStands
<1>1. ProjectionInv /\ [Next]_vars =>
        [\A r \in Rows :
            status[r] \in Terminal /\ status'[r] # status[r]
                => pversion[r] < version \/ overruns > 0]_vars
  BY VerdictStep DEF ProjectionInv, Versioned, Excused
<1> QED
  BY <1>1, ProjectionInvariant, PTL DEF Spec, VerdictStands
=============================================================================
