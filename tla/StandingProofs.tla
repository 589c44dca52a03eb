--------------------------- MODULE StandingProofs ---------------------------
(***************************************************************************)
(* What the run of Standing.tla checks for two workers and two operations, *)
(* for any number of workers, credentials, operations and faults.          *)
(***************************************************************************)
EXTENDS Standing, TLAPS

Statuses == {"pending", "active", "disabled", "needs_review", "blocked",
             "purging"}
Rows == [status : Statuses, enabled : BOOLEAN, success : BOOLEAN,
         purged : BOOLEAN, schema : BOOLEAN]
Runs == [pc : {"idle", "loaded", "extract", "landed", "refused", "blocking"},
         obj : [status : Statuses, enabled : BOOLEAN],
         conn : {"active", "revoked"}, cred : Nat, cur : BOOLEAN,
         over : BOOLEAN]
Ops == [pc : {"idle", "purge", "drop", "dropping", "forget", "mark", "restart",
              "delete"},
        obj : [status : Statuses, schema : BOOLEAN],
        then : {"none", "purge", "reset", "backfill", "delete"},
        refilled : BOOLEAN]
Causes == {"beside", "reused", "uncredited", "unseen", "kept", "halfway"}

Typed ==
    /\ row \in Rows
    /\ exists \in BOOLEAN
    /\ conn \in {"active", "revoked"}
    /\ landed \in {"none", "some", "all"}
    /\ cursor \in BOOLEAN
    /\ held \in Nat /\ issued \in Nat /\ setup \in Nat
    /\ run \in [Workers -> Runs]
    /\ op \in Ops
    /\ op.pc # "idle" => op.then # "none"
    /\ op.pc \in {"purge", "drop", "dropping", "mark"} => op.then # "backfill"
    /\ why \subseteq Causes

\* A worker and an operator that do nothing have their types.
LEMMA IdleTyped == IdleRun \in Runs /\ IdleOp \in Ops
BY DEF IdleRun, IdleOp, Runs, Ops, Loaded, Snapshot, NoRow, Statuses

\* What is read of the Binding has the type of what was loaded.
LEMMA LoadedTyped ==
    ASSUME row \in Rows
    PROVE  /\ Loaded(row) \in [status : Statuses, enabled : BOOLEAN]
           /\ Snapshot(row) \in [status : Statuses, schema : BOOLEAN]
BY DEF Rows, Loaded, Snapshot

\* The types survive every step.
LEMMA TypeStep == Typed /\ [Next]_vars => Typed'
<1> SUFFICES ASSUME Typed, [Next]_vars PROVE Typed'
  OBVIOUS
<1>0. IdleOp.pc = "idle"
  BY DEF IdleOp
<1> USE IdleTyped, <1>0 DEF Typed, Causes, binding, landing, secret, budget
<1>1. ASSUME NEW w \in Workers, Load(w)
      PROVE  Typed'
  <2>1. OpUnderWay \in BOOLEAN
    BY DEF OpUnderWay
  <2>2. [IdleRun EXCEPT !.pc = "loaded", !.obj = Loaded(row), !.conn = conn,
                        !.over = OpUnderWay] \in Runs
    BY <2>1, LoadedTyped DEF Runs
  <2>3. run' \in [Workers -> Runs]
    BY <1>1, <2>2 DEF Load
  <2> QED
    BY <1>1, <2>3 DEF Load
<1>2. ASSUME NEW w \in Workers, Begin(w)
      PROVE  Typed'
  <2>1. [run[w] EXCEPT !.cred = held, !.cur = cursor,
             !.pc = IF Resolves(held) THEN "extract" ELSE "refused"] \in Runs
    BY DEF Runs
  <2>2. run' \in [Workers -> Runs]
    BY <1>2, <2>1 DEF Begin
  <2> QED
    BY <1>2, <2>2 DEF Begin
<1>3. ASSUME NEW w \in Workers, Skip(w) \/ Fail(w) \/ Die(w)
      PROVE  Typed'
  BY <1>3 DEF Skip, Fail, Die
<1>4. ASSUME NEW w \in Workers, Land(w)
      PROVE  Typed'
  <2>1. [run[w] EXCEPT !.pc = "landed"] \in Runs
    BY DEF Runs
  <2>2. run' \in [Workers -> Runs]
    BY <1>4, <2>1 DEF Land
  <2>3. op' \in Ops /\ op'.pc = op.pc /\ op'.then = op.then
    BY <1>4 DEF Land, Ops
  <2>4. why' \subseteq Causes /\ landed' \in {"none", "some", "all"}
    BY <1>4 DEF Land
  <2> QED
    BY <1>4, <2>2, <2>3, <2>4 DEF Land
<1>5. ASSUME NEW w \in Workers, Refused(w) \/ BlockConnection(w)
      PROVE  Typed'
  <2>1. [run[w] EXCEPT !.pc = "refused"] \in Runs
    BY DEF Runs
  <2>2. [run[w] EXCEPT !.pc = "blocking"] \in Runs
    BY DEF Runs
  <2>3. run' \in [Workers -> Runs]
    BY <1>5, <2>1, <2>2 DEF Refused, BlockConnection
  <2> QED
    BY <1>5, <2>3 DEF Refused, BlockConnection
<1>6. ASSUME NEW w \in Workers, Succeed(w)
      PROVE  Typed'
  <2>1. run[w].obj.status \in Statuses
    BY DEF Runs
  <2>2. \A indexed \in BOOLEAN : Credited(run[w].obj, indexed) \in Rows
    BY <2>1 DEF Credited, StatusAfter, Rows, Statuses
  <2>3. run' \in [Workers -> Runs]
    BY <1>6 DEF Succeed
  <2>4. row' \in Rows
    BY <1>6, <2>2 DEF Succeed
  <2> QED
    BY <1>6, <2>3, <2>4 DEF Succeed
<1>7. ASSUME NEW w \in Workers, BlockBinding(w)
      PROVE  Typed'
  <2>1. [row EXCEPT !.status = "blocked"] \in Rows
    BY DEF Rows, Statuses
  <2> QED
    BY <1>7, <2>1 DEF BlockBinding
<1>8. ASSUME NEW then \in {"purge", "reset", "backfill", "delete"},
             OpLoad(then)
      PROVE  Typed'
  <2>1. op' \in Ops
    BY <1>8, LoadedTyped DEF OpLoad, Ops
  <2>2. ASSUME NEW w \in Workers
        PROVE  [run[w] EXCEPT !.over = @ \/ run[w].pc # "idle"] \in Runs
    BY DEF Runs
  <2>3. run' \in [Workers -> Runs]
    BY <1>8, <2>2 DEF OpLoad
  <2> QED
    BY <1>8, <2>1, <2>3 DEF OpLoad
<1>9. ASSUME NEW pc \in {"drop", "dropping", "forget", "mark", "restart",
                         "delete"}
      PROVE  /\ [op EXCEPT !.pc = pc] \in Ops
             /\ [op EXCEPT !.pc = pc].pc = pc
             /\ [op EXCEPT !.pc = pc].then = op.then
  BY DEF Ops
<1>10. CASE StartPurge
  <2>1. [row EXCEPT !.status = "purging"] \in Rows
    BY DEF Rows, Statuses
  <2> QED
    BY <1>10, <1>9, <2>1 DEF StartPurge
<1>a. ToForget \in Ops /\ ToForget.pc = "forget" /\ ToForget.then = op.then
  BY DEF ToForget, Ops
<1>11. CASE DropTable \/ Drop \/ Forget
  <2>1. CASE DropTable
    BY <1>9, <2>1 DEF DropTable
  <2>4. CASE Drop
    BY <1>a, <2>4 DEF Drop
  <2>2. ASSUME NEW pc \in {"restart", "mark"}, op' = [op EXCEPT !.pc = pc],
               pc = "mark" => op.then # "backfill", Forget
        PROVE  Typed'
    <3>1. op' \in Ops /\ op'.pc = pc /\ op'.then = op.then
      BY <1>9, <2>2
    <3>2. /\ op.pc = "forget" /\ cursor' = FALSE /\ why' \subseteq why
          /\ UNCHANGED <<row, exists, conn, landed, secret, run, setup>>
      BY <2>2 DEF Forget
    <3> QED
      BY <2>2, <3>1, <3>2
  <2>3. CASE Forget
    BY <2>2, <2>3 DEF Forget
  <2> QED
    BY <1>11, <2>1, <2>3, <2>4
<1>12. CASE DropRaises \/ DropUnseen \/ OpDies
  <2>1. [row EXCEPT !.status = op.obj.status] \in Rows
    BY DEF Rows, Ops
  <2>2. CASE DropRaises
    BY <1>12, <2>1, <2>2 DEF DropRaises
  <2>3. CASE DropUnseen
    BY <1>a, <2>3 DEF DropUnseen
  <2>4. CASE OpDies
    BY <2>4 DEF OpDies
  <2> QED
    BY <1>12, <2>2, <2>3, <2>4
<1>13. CASE KeepState
  <2>1. /\ \/ op' = IdleOp
           \/ op.then # "backfill" /\ op' = [op EXCEPT !.pc = "mark"]
        /\ why' \subseteq why \cup {"kept"}
        /\ UNCHANGED <<row, exists, conn, landed, cursor, secret, run, setup>>
    <3>1. CASE op.then = "backfill"
      BY <1>13, <3>1 DEF KeepState
    <3>2. CASE op.then # "backfill"
      BY <1>13, <3>2 DEF KeepState
    <3> QED
      BY <3>1, <3>2
  <2>2. /\ op' \in Ops
        /\ op'.pc # "idle" => op'.then # "none"
        /\ op'.pc \in {"purge", "drop", "dropping", "mark"} =>
              op'.then # "backfill"
    <3>1. CASE op' = IdleOp
      BY <3>1
    <3>2. CASE op.then # "backfill" /\ op' = [op EXCEPT !.pc = "mark"]
      <4>1. op'.pc = "mark" /\ op'.then = op.then /\ op' \in Ops
        BY <1>9, <3>2
      <4>2. op'.then # "none"
        BY <1>13, <4>1 DEF KeepState
      <4> QED
        BY <3>2, <4>1, <4>2
    <3> QED
      BY <2>1, <3>1, <3>2
  <2>3. why' \subseteq Causes
    BY <2>1
  <2>4. /\ row' \in Rows /\ exists' \in BOOLEAN
        /\ conn' \in {"active", "revoked"}
        /\ landed' \in {"none", "some", "all"} /\ cursor' \in BOOLEAN
        /\ held' \in Nat /\ issued' \in Nat /\ setup' \in Nat
        /\ run' \in [Workers -> Runs]
    BY <2>1
  <2> QED
    BY <2>2, <2>3, <2>4
<1>14. CASE Mark
  <2>1. Marked \in Rows
    BY DEF Marked, Rows, Statuses
  <2>2. op.then \in {"purge", "reset", "delete"}
    BY <1>14 DEF Mark, Ops
  <2>3. \/ op' = IdleOp
        \/ \E pc \in {"restart", "delete"} : op' = [op EXCEPT !.pc = pc]
    BY <1>14, <2>2 DEF Mark
  <2>4. /\ op' \in Ops
        /\ op'.pc # "idle" => op'.then # "none"
        /\ op'.pc \notin {"purge", "drop", "dropping", "mark"}
    <3>1. CASE op' = IdleOp
      BY <3>1
    <3>2. ASSUME NEW pc \in {"restart", "delete"}, op' = [op EXCEPT !.pc = pc]
          PROVE  op' \in Ops /\ op'.pc = pc /\ op'.then = op.then
      BY <1>9, <3>2
    <3> QED
      BY <2>2, <2>3, <3>1, <3>2
  <2>5. /\ row' = Marked
        /\ UNCHANGED <<exists, conn, landing, secret, run, setup>>
    BY <1>14 DEF Mark
  <2> QED
    BY <2>1, <2>4, <2>5
<1>15. CASE Restart
  <2>1. Restarted \in Rows
    BY DEF Restarted, Rows, Statuses
  <2> QED
    BY <1>15, <2>1 DEF Restart
<1>16. CASE Delete
  BY <1>16 DEF Delete, HasLanded
<1>17. CASE Edit \/ Activate \/ Withdraw \/ Prove \/ CompleteSetup \/ Revoke
            \/ Store
  <2>1. ASSUME NEW s \in {"active", "disabled"}
        PROVE  [row EXCEPT !.status = s, !.enabled = (s = "active")] \in Rows
    BY DEF Rows, Statuses
  <2> QED
    BY <1>17, <2>1 DEF Edit, Activate, Withdraw, Prove, CompleteSetup, Revoke,
                       Store
<1>18. CASE UNCHANGED vars
  BY <1>18 DEF vars
<1> QED
  BY <1>1, <1>2, <1>3, <1>4, <1>5, <1>6, <1>7, <1>8, <1>10, <1>11, <1>12,
     <1>13, <1>14, <1>15, <1>16, <1>17, <1>18 DEF Next
-----------------------------------------------------------------------------
(* A Connection revoked for cause *)

\* A worker about to revoke holds a credential that is dead or missing, so
\* the credential on record when it has revoked is one.
RevokerDead ==
    /\ revoker = 0 \/ revoker \in dead
    /\ \A w \in Workers :
          run[w].pc = "refused" => run[w].cred = 0 \/ run[w].cred \in dead

\* Dead credentials stay dead, and nobody is refused for another.
LEMMA RevokerStep == Typed /\ RevokerDead /\ [Next]_vars => RevokerDead'
<1> SUFFICES ASSUME Typed, RevokerDead, [Next]_vars PROVE RevokerDead'
  OBVIOUS
<1> USE DEF Typed, RevokerDead, binding, landing, secret, budget
<1>0. IdleRun.pc = "idle"
  BY DEF IdleRun
<1>1. ASSUME NEW w \in Workers, Load(w)
      PROVE  RevokerDead'
  <2>1. \A v \in Workers : run'[v].pc = "refused" => run'[v] = run[v]
    BY <1>1 DEF Load, IdleRun
  <2> QED
    BY <1>1, <2>1 DEF Load
<1>2. ASSUME NEW w \in Workers, Begin(w)
      PROVE  RevokerDead'
  <2>1. \A v \in Workers : v # w => run'[v] = run[v]
    BY <1>2 DEF Begin
  <2>2. run'[w].pc = "refused" => run'[w].cred = held /\ ~Resolves(held)
    BY <1>2, <1>0 DEF Begin, Runs
  <2> QED
    BY <1>2, <2>1, <2>2 DEF Begin, Resolves, Accepts
<1>3. ASSUME NEW w \in Workers,
             Skip(w) \/ Fail(w) \/ Die(w) \/ Succeed(w) \/ BlockBinding(w)
      PROVE  RevokerDead'
  BY <1>3, <1>0 DEF Skip, Fail, Die, Succeed, BlockBinding
<1>4. ASSUME NEW w \in Workers, Land(w)
      PROVE  RevokerDead'
  BY <1>4 DEF Land, Runs
<1>5. ASSUME NEW w \in Workers, Refused(w)
      PROVE  RevokerDead'
  BY <1>5 DEF Refused, Runs
<1>6. ASSUME NEW w \in Workers, BlockConnection(w)
      PROVE  RevokerDead'
  BY <1>6 DEF BlockConnection, Runs
<1>7. ASSUME NEW then \in {"purge", "reset", "backfill", "delete"},
             OpLoad(then)
      PROVE  RevokerDead'
  BY <1>7 DEF OpLoad, Runs
<1>8. CASE \/ StartPurge \/ DropTable \/ Drop \/ DropRaises \/ DropUnseen
           \/ OpDies \/ Forget \/ KeepState \/ Mark \/ Restart \/ Delete
  BY <1>8 DEF StartPurge, DropTable, Drop, DropRaises, DropUnseen, OpDies,
              Forget, KeepState, Mark, Restart, Delete
<1>9. CASE Edit \/ Activate \/ Store \/ Withdraw \/ Prove \/ CompleteSetup
           \/ Revoke
  BY <1>9 DEF Edit, Activate, Store, Withdraw, Prove, CompleteSetup, Revoke
<1>10. CASE UNCHANGED vars
  BY <1>10 DEF vars
<1> QED
  BY <1>1, <1>2, <1>3, <1>4, <1>5, <1>6, <1>7, <1>8, <1>9, <1>10 DEF Next
-----------------------------------------------------------------------------
(* A Run beside an operation knows it *)

Overlapped ==
    /\ op.pc # "idle" => \A w \in Workers : run[w].pc # "idle" => run[w].over
    /\ ~exists => /\ op.pc = "idle"
                  /\ \A w \in Workers : run[w].pc # "idle" => run[w].over

\* Whoever starts second marks the Run, and nothing removes the mark while
\* the Run goes on.
LEMMA OverlapStep == Typed /\ Overlapped /\ [Next]_vars => Overlapped'
<1> SUFFICES ASSUME Typed, Overlapped, [Next]_vars PROVE Overlapped'
  OBVIOUS
<1> USE DEF Typed, Overlapped, binding, landing, secret, budget
<1>0. IdleRun.pc = "idle" /\ IdleOp.pc = "idle"
  BY DEF IdleRun, IdleOp
<1>1. ASSUME NEW w \in Workers, Load(w)
      PROVE  Overlapped'
  <2>1. OpUnderWay => run'[w].over
    BY <1>1 DEF Load, IdleRun, OpUnderWay
  <2>2. \A v \in Workers : v # w => run'[v] = run[v]
    BY <1>1 DEF Load
  <2> QED
    BY <1>1, <2>1, <2>2 DEF Load, OpUnderWay
<1>2. ASSUME NEW w \in Workers,
             \/ Begin(w) \/ Skip(w) \/ Land(w) \/ Refused(w) \/ Fail(w)
             \/ Die(w) \/ Succeed(w) \/ BlockConnection(w) \/ BlockBinding(w)
      PROVE  Overlapped'
  <2>1. \A v \in Workers : v # w => run'[v] = run[v]
    BY <1>2 DEF Begin, Skip, Land, Refused, Fail, Die, Succeed,
                BlockConnection, BlockBinding
  <2>2. run'[w].pc # "idle" =>
           run[w].pc # "idle" /\ (run[w].over => run'[w].over)
    <3>1. CASE Begin(w)
      BY <3>1, <1>0 DEF Begin, Runs
    <3>2. CASE Land(w) \/ Refused(w) \/ BlockConnection(w)
      BY <3>2 DEF Land, Refused, BlockConnection, Runs
    <3>3. CASE Skip(w) \/ Fail(w) \/ Die(w) \/ Succeed(w) \/ BlockBinding(w)
      BY <3>3, <1>0 DEF Skip, Fail, Die, Succeed, BlockBinding
    <3> QED
      BY <1>2, <3>1, <3>2, <3>3
  <2>3. op'.pc = op.pc /\ exists' = exists
    <3>1. CASE Land(w)
      BY <3>1 DEF Land, Ops
    <3>2. CASE ~Land(w)
      BY <1>2, <3>2 DEF Begin, Skip, Refused, Fail, Die, Succeed,
                        BlockConnection, BlockBinding
    <3> QED
      BY <3>1, <3>2
  <2> QED
    BY <2>1, <2>2, <2>3
<1>3. ASSUME NEW then \in {"purge", "reset", "backfill", "delete"},
             OpLoad(then)
      PROVE  Overlapped'
  <2>1. ASSUME NEW v \in Workers, run'[v].pc # "idle"
        PROVE  run'[v].over
    BY <1>3, <2>1 DEF OpLoad, Runs
  <2> QED
    BY <1>3, <2>1 DEF OpLoad
<1>4. CASE \/ StartPurge \/ DropTable \/ Drop \/ DropRaises \/ DropUnseen
           \/ OpDies \/ Forget \/ KeepState \/ Mark \/ Restart \/ Delete
  <2>1. op.pc # "idle" /\ UNCHANGED run
    BY <1>4 DEF StartPurge, DropTable, Drop, DropRaises, DropUnseen, OpDies,
                Forget, KeepState, Mark, Restart, Delete
  <2>2. exists' = exists \/ op' = IdleOp
    BY <1>4 DEF StartPurge, DropTable, Drop, DropRaises, DropUnseen, OpDies,
                Forget, KeepState, Mark, Restart, Delete
  <2> QED
    BY <1>0, <2>1, <2>2
<1>5. CASE Edit \/ Activate \/ Store \/ Withdraw \/ Prove \/ CompleteSetup
           \/ Revoke
  BY <1>5 DEF Edit, Activate, Store, Withdraw, Prove, CompleteSetup, Revoke
<1>6. CASE UNCHANGED vars
  BY <1>6 DEF vars
<1> QED
  BY <1>1, <1>2, <1>3, <1>4, <1>5, <1>6 DEF Next
-----------------------------------------------------------------------------
(* Landed rows are accounted for *)

\* Between the drop of the tables and the mark of the Binding.
Dropped == op.pc \in {"forget", "mark"} /\ op.then # "backfill"

\* What delete_binding reads of the row says whether there is anything to
\* purge, unless one of the causes stands against it.
RowsAccounted ==
    /\ exists /\ landed # "none" /\ ~row.success => "uncredited" \in why
    /\ exists /\ landed # "none" /\ row.purged =>
          why \cap {"beside", "reused", "unseen"} # {}
    /\ Dropped /\ landed # "none" => why \cap {"beside", "unseen"} # {}
    /\ op.refilled => "beside" \in why /\ landed # "none"
    /\ StrandedForCause

\* Steps that leave the tables, their causes and the stage of the operation
\* alone may only credit the Binding or clear the mark of the purge.
LEMMA RowsKept ==
    ASSUME Typed, RowsAccounted, UNCHANGED <<landed, why, exists, op>>,
           row.success => row'.success, row'.purged => row.purged
    PROVE  RowsAccounted'
BY DEF RowsAccounted, StrandedForCause, Dropped

LEMMA RowsStep ==
    Typed /\ Overlapped /\ RowsAccounted /\ [Next]_vars => RowsAccounted'
<1> SUFFICES ASSUME Typed, Overlapped, RowsAccounted, [Next]_vars
             PROVE  RowsAccounted'
  OBVIOUS
<1> USE DEF binding, landing, secret, budget
<1>0. IdleOp.pc = "idle"
  BY DEF IdleOp
<1>1. ASSUME NEW w \in Workers,
             \/ Load(w) \/ Begin(w) \/ Skip(w) \/ Refused(w) \/ Fail(w)
             \/ Die(w) \/ BlockConnection(w)
      PROVE  RowsAccounted'
  <2>1. UNCHANGED <<landed, why, exists, op, row>>
    BY <1>1 DEF Load, Begin, Skip, Refused, Fail, Die, BlockConnection
  <2> QED
    BY <2>1, RowsKept
<1>2. ASSUME NEW w \in Workers, Land(w)
      PROVE  RowsAccounted'
  <2>1. /\ why \subseteq why'
        /\ run[w].over => "beside" \in why'
        /\ row.purged => "reused" \in why'
        /\ ~row.success => "uncredited" \in why'
        /\ UNCHANGED <<row, exists>>
        /\ run[w].pc = "extract"
    BY <1>2 DEF Land
  <2>2. op.pc # "idle" \/ ~exists => "beside" \in why'
    BY <2>1 DEF Overlapped
  <2>3. op'.pc = op.pc /\ op'.refilled = (op.refilled \/ op.pc = "dropping")
    BY <1>2 DEF Land, Typed, Ops
  <2>4. op'.refilled => "beside" \in why' /\ landed' # "none"
    BY <1>2, <2>1, <2>2, <2>3 DEF RowsAccounted, Land
  <2>5. Dropped' => "beside" \in why'
    BY <2>2, <2>3 DEF Dropped
  <2> QED
    BY <2>1, <2>2, <2>4, <2>5 DEF RowsAccounted, StrandedForCause
<1>3. ASSUME NEW w \in Workers, Succeed(w)
      PROVE  RowsAccounted'
  <2>1. CASE exists
    <3>1. PICK indexed \in BOOLEAN : row' = Credited(run[w].obj, indexed)
      BY <1>3, <2>1 DEF Succeed
    <3>2. row'.success /\ row'.purged = row.purged
      BY <3>1 DEF Credited, Typed, Rows
    <3>3. why' = why \ {"uncredited"} /\ UNCHANGED <<landed, exists, op>>
      BY <1>3, <2>1 DEF Succeed
    <3> QED
      BY <2>1, <3>2, <3>3 DEF RowsAccounted, StrandedForCause, Dropped
  <2>2. CASE ~exists
    BY <1>3, <2>2, RowsKept DEF Succeed
  <2> QED
    BY <2>1, <2>2
<1>4. ASSUME NEW w \in Workers, BlockBinding(w)
      PROVE  RowsAccounted'
  <2>1. row'.success = row.success /\ row'.purged = row.purged
    BY <1>4 DEF BlockBinding, Typed, Rows
  <2>2. UNCHANGED <<landed, why, exists, op>>
    BY <1>4 DEF BlockBinding
  <2> QED
    BY <2>1, <2>2, RowsKept
<1>5. ASSUME NEW then \in {"purge", "reset", "backfill", "delete"},
             OpLoad(then)
      PROVE  RowsAccounted'
  <2>1. UNCHANGED <<landed, why, exists, row>>
    BY <1>5 DEF OpLoad
  <2>2. ~Dropped' /\ ~op'.refilled
    BY <1>5 DEF OpLoad, Dropped
  <2> QED
    BY <2>1, <2>2 DEF RowsAccounted, StrandedForCause, Dropped
<1>6. CASE StartPurge
  <2>1. row'.success = row.success /\ row'.purged = row.purged
    BY <1>6 DEF StartPurge, Typed, Rows
  <2>2. /\ ~Dropped' /\ op'.refilled = op.refilled
        /\ UNCHANGED <<landed, why, exists>>
    BY <1>6 DEF StartPurge, Dropped, Typed, Ops
  <2> QED
    BY <2>1, <2>2 DEF RowsAccounted, StrandedForCause, Dropped
<1>a. ToForget.pc = "forget" /\ ~ToForget.refilled
  BY DEF ToForget, Typed, Ops
<1>b. IdleOp.refilled = FALSE
  BY DEF IdleOp
<1>7. CASE DropTable
  <2>1. /\ ~Dropped' /\ op'.refilled = op.refilled
        /\ landed' # "none" <=> landed # "none"
        /\ UNCHANGED <<row, why, exists>>
    BY <1>7 DEF DropTable, Dropped, Typed, Ops
  <2> QED
    BY <2>1 DEF RowsAccounted, StrandedForCause
<1>c. CASE Drop
  <2>1. /\ ~op'.refilled
        /\ UNCHANGED <<row, exists>>
    BY <1>a, <1>c DEF Drop
  <2>2. CASE op.refilled
    <3>1. "beside" \in why /\ why' = why
      BY <1>c, <2>2 DEF Drop, RowsAccounted
    <3>2. landed # "none"
      BY <2>2 DEF RowsAccounted
    <3> QED
      BY <2>1, <3>1, <3>2 DEF RowsAccounted, StrandedForCause
  <2>3. CASE ~op.refilled
    BY <1>c, <2>1, <2>3 DEF Drop, RowsAccounted, StrandedForCause
  <2> QED
    BY <2>2, <2>3
<1>8. CASE DropRaises \/ OpDies
  <2>1. row'.success = row.success /\ row'.purged = row.purged
    BY <1>8 DEF DropRaises, OpDies, Typed, Rows
  <2>2. /\ ~Dropped' /\ ~op'.refilled /\ why \subseteq why'
        /\ UNCHANGED <<landed, exists>>
    BY <1>0, <1>b, <1>8 DEF DropRaises, OpDies, Dropped
  <2> QED
    BY <2>1, <2>2 DEF RowsAccounted, StrandedForCause
<1>d. CASE DropUnseen
  <2>1. /\ ~op'.refilled /\ why \subseteq why'
        /\ landed # "none" => "unseen" \in why'
        /\ UNCHANGED <<row, exists, landed>>
    BY <1>a, <1>d DEF DropUnseen
  <2> QED
    BY <2>1 DEF RowsAccounted, StrandedForCause
<1>9. CASE Forget
  <2>1. /\ op'.refilled = op.refilled /\ (Dropped' => Dropped)
        /\ UNCHANGED <<row, exists, landed>>
        /\ why \ {"kept", "halfway"} \subseteq why'
    BY <1>9 DEF Forget, Dropped, Typed, Ops
  <2> QED
    BY <2>1 DEF RowsAccounted, StrandedForCause
<1>10. CASE KeepState
  <2>1. /\ op'.refilled => op.refilled
        /\ Dropped' => Dropped
        /\ UNCHANGED <<row, exists, landed>> /\ why \subseteq why'
    BY <1>0, <1>b, <1>10 DEF KeepState, Dropped, Typed, Ops
  <2> QED
    BY <2>1 DEF RowsAccounted, StrandedForCause
<1>11. CASE Mark
  <2>1. row'.success = row.success
    BY <1>11 DEF Mark, Marked, Typed, Rows
  <2>2. ~Dropped'
    <3>1. op.then \in {"purge", "reset", "delete"}
      BY <1>11 DEF Mark, Typed, Ops
    <3>2. CASE op.then = "purge"
      BY <1>0, <1>11, <3>2 DEF Mark, Dropped
    <3>3. CASE op.then = "reset"
      <4>1. op' = [op EXCEPT !.pc = "restart"]
        BY <1>11, <3>3 DEF Mark
      <4> QED
        BY <4>1 DEF Dropped, Typed, Ops
    <3>4. CASE op.then = "delete"
      <4>1. op' = [op EXCEPT !.pc = "delete"]
        BY <1>11, <3>4 DEF Mark
      <4> QED
        BY <4>1 DEF Dropped, Typed, Ops
    <3> QED
      BY <3>1, <3>2, <3>3, <3>4
  <2>3. Dropped
    BY <1>11 DEF Mark, Dropped, Typed
  <2>4. UNCHANGED <<landed, why, exists>> /\ (op'.refilled => op.refilled)
    BY <1>b, <1>11 DEF Mark, Typed, Ops
  <2> QED
    BY <2>1, <2>2, <2>3, <2>4 DEF RowsAccounted, StrandedForCause, Dropped
<1>12. CASE Restart
  <2>1. row'.success = row.success /\ (row'.purged => row.purged)
    BY <1>12 DEF Restart, Restarted, Typed, Rows
  <2>2. ~Dropped' /\ ~op'.refilled /\ UNCHANGED <<landed, why, exists>>
    BY <1>0, <1>b, <1>12 DEF Restart, Dropped
  <2> QED
    BY <2>1, <2>2 DEF RowsAccounted, StrandedForCause, Dropped
<1>13. CASE Delete
  <2>1. exists
    BY <1>13 DEF Delete, Overlapped
  <2>2. exists' <=> row.success /\ ~row.purged
    BY <1>13 DEF Delete, HasLanded
  <2>3. ~Dropped' /\ ~op'.refilled /\ UNCHANGED <<landed, why, row>>
    BY <1>0, <1>b, <1>13 DEF Delete, Dropped
  <2> QED
    BY <2>1, <2>2, <2>3 DEF RowsAccounted, StrandedForCause, Dropped
<1>14. CASE Edit
  <2>1. row'.success = row.success /\ row'.purged = row.purged
    BY <1>14 DEF Edit, Typed, Rows
  <2>2. UNCHANGED <<landed, why, exists, op>>
    BY <1>14 DEF Edit
  <2> QED
    BY <2>1, <2>2, RowsKept
<1>15. CASE Activate \/ Store \/ Withdraw \/ Prove \/ CompleteSetup \/ Revoke
  <2>1. UNCHANGED <<landed, why, exists, op, row>>
    BY <1>15 DEF Activate, Store, Withdraw, Prove, CompleteSetup, Revoke
  <2> QED
    BY <2>1, RowsKept
<1>16. CASE UNCHANGED vars
  BY <1>16, RowsKept DEF vars
<1> QED
  BY <1>1, <1>2, <1>3, <1>4, <1>5, <1>6, <1>7, <1>8, <1>9, <1>10, <1>11,
     <1>12, <1>13, <1>14, <1>15, <1>16, <1>c, <1>d DEF Next
-----------------------------------------------------------------------------
(* A cursor is accounted for *)

\* From the first table that is dropped to the drop of dlt's state.
Dropping == op.pc \in {"dropping", "forget"} /\ op.then # "backfill"

\* A Run that read a cursor still has it when it lands, unless an operation
\* went on beside it; and only a purge that could not forget the cursor
\* reaches the mark with one.
CursorAccounted ==
    /\ exists /\ RowsGone =>
          why \cap {"beside", "kept", "halfway"} # {} \/ Dropping
    /\ \A w \in Workers :
          run[w].pc = "extract" /\ run[w].cur /\ ~run[w].over => cursor
    /\ op.pc = "mark" /\ cursor => why \cap {"beside", "kept"} # {}

LEMMA CursorStep ==
    Typed /\ Overlapped /\ CursorAccounted /\ [Next]_vars => CursorAccounted'
<1> SUFFICES ASSUME Typed, Overlapped, CursorAccounted, [Next]_vars
             PROVE  CursorAccounted'
  OBVIOUS
<1> USE DEF binding, landing, secret, budget
<1>0. IdleOp.pc = "idle" /\ IdleRun.pc = "idle"
  BY DEF IdleOp, IdleRun
<1>1. ASSUME NEW w \in Workers,
             \/ Load(w) \/ Skip(w) \/ Refused(w) \/ Fail(w) \/ Die(w)
             \/ BlockConnection(w) \/ BlockBinding(w)
      PROVE  CursorAccounted'
  <2>1. UNCHANGED <<landed, cursor, exists, op, why>>
    BY <1>1 DEF Load, Skip, Refused, Fail, Die, BlockConnection, BlockBinding
  <2>2. \A v \in Workers : run'[v].pc = "extract" => run'[v] = run[v]
    <3>1. CASE Load(w)
      BY <3>1 DEF Load, Typed, IdleRun
    <3>2. CASE Skip(w) \/ Fail(w) \/ Die(w) \/ BlockBinding(w)
      BY <1>0, <3>2 DEF Skip, Fail, Die, BlockBinding, Typed
    <3>3. CASE Refused(w) \/ BlockConnection(w)
      BY <3>3 DEF Refused, BlockConnection, Typed, Runs
    <3> QED
      BY <1>1, <3>1, <3>2, <3>3
  <2> QED
    BY <2>1, <2>2 DEF CursorAccounted, RowsGone, Dropping
<1>2. ASSUME NEW w \in Workers, Begin(w)
      PROVE  CursorAccounted'
  <2>1. UNCHANGED <<landed, cursor, exists, op, why>>
    BY <1>2 DEF Begin
  <2>2. \A v \in Workers : v # w => run'[v] = run[v]
    BY <1>2 DEF Begin
  <2>3. run'[w].pc = "extract" => (run'[w].cur => cursor)
    BY <1>0, <1>2 DEF Begin, Typed, Runs
  <2> QED
    BY <2>1, <2>2, <2>3 DEF CursorAccounted, RowsGone, Dropping
<1>3. ASSUME NEW w \in Workers, Land(w)
      PROVE  CursorAccounted'
  <2>1. /\ run[w].pc = "extract"
        /\ landed' # "all" => run[w].cur /\ landed # "all"
        /\ why \subseteq why'
        /\ run[w].over => "beside" \in why'
        /\ cursor' = TRUE
        /\ exists' = exists /\ op'.pc = op.pc /\ op'.then = op.then
    BY <1>3 DEF Land, Typed, Ops
  <2>2. op.pc # "idle" => run[w].over
    BY <2>1 DEF Overlapped
  <2>3. \A v \in Workers : run'[v].pc = "extract" => run'[v] = run[v]
    BY <1>3 DEF Land, Typed, Runs
  <2>4. exists /\ landed' # "all" =>
           why' \cap {"beside", "kept", "halfway"} # {}
    <3>1. CASE run[w].over
      BY <2>1, <3>1
    <3>2. CASE ~run[w].over
      <4>1. ~Dropping
        BY <2>2, <3>2 DEF Dropping
      <4> QED
        BY <2>1, <3>2, <4>1 DEF CursorAccounted, RowsGone
    <3> QED
      BY <3>1, <3>2
  <2>5. op.pc = "mark" => "beside" \in why'
    BY <2>1, <2>2
  <2> QED
    BY <2>1, <2>3, <2>4, <2>5 DEF CursorAccounted, RowsGone, Dropping
<1>4. ASSUME NEW w \in Workers, Succeed(w)
      PROVE  CursorAccounted'
  <2>1. UNCHANGED <<landed, cursor, exists, op>>
    BY <1>4 DEF Succeed
  <2>2. why' \ {"uncredited"} = why \ {"uncredited"}
    BY <1>4 DEF Succeed
  <2>3. \A v \in Workers : run'[v].pc = "extract" => run'[v] = run[v]
    BY <1>0, <1>4 DEF Succeed, Typed
  <2> QED
    BY <2>1, <2>2, <2>3 DEF CursorAccounted, RowsGone, Dropping
<1>5. ASSUME NEW then \in {"purge", "reset", "backfill", "delete"},
             OpLoad(then)
      PROVE  CursorAccounted'
  <2>1. UNCHANGED <<landed, cursor, exists, why>> /\ op.pc = "idle"
    BY <1>5 DEF OpLoad
  <2>2. op'.pc # "mark"
    BY <1>5 DEF OpLoad
  <2>3. \A v \in Workers : run'[v].pc = "extract" => run'[v].over
    BY <1>5 DEF OpLoad, Typed, Runs
  <2> QED
    BY <2>1, <2>2, <2>3 DEF CursorAccounted, RowsGone, Dropping
<1>6. CASE StartPurge
  <2>1. op'.pc = "drop" /\ op.pc = "purge"
    BY <1>6 DEF StartPurge, Typed, Ops
  <2>2. UNCHANGED <<landed, cursor, exists, why, run>>
    BY <1>6 DEF StartPurge
  <2> QED
    BY <2>1, <2>2 DEF CursorAccounted, RowsGone, Dropping
<1>7. CASE DropTable \/ Drop \/ DropUnseen
  <2>1. Dropping' /\ op'.pc # "mark"
    <3>1. ToForget.pc = "forget" /\ ToForget.then = op.then
      BY DEF ToForget, Typed, Ops
    <3>2. op.then # "backfill"
      BY <1>7 DEF DropTable, Drop, DropUnseen, Typed
    <3>3. CASE DropTable
      BY <3>2, <3>3 DEF DropTable, Dropping, Typed, Ops
    <3>4. CASE Drop \/ DropUnseen
      BY <3>1, <3>2, <3>4 DEF Drop, DropUnseen, Dropping
    <3> QED
      BY <1>7, <3>3, <3>4
  <2>2. UNCHANGED <<cursor, run>>
    BY <1>7 DEF DropTable, Drop, DropUnseen
  <2> QED
    BY <2>1, <2>2 DEF CursorAccounted
<1>8. CASE DropRaises \/ OpDies
  <2>1. op'.pc = "idle"
    BY <1>0, <1>8 DEF DropRaises, OpDies
  <2>2. UNCHANGED <<landed, cursor, exists, run>> /\ why \subseteq why'
    BY <1>8 DEF DropRaises, OpDies
  <2>3. Dropping /\ RowsGone => "halfway" \in why'
    BY <1>8 DEF DropRaises, OpDies, Dropping
  <2> QED
    BY <2>1, <2>2, <2>3 DEF CursorAccounted, RowsGone, Dropping
<1>9. CASE Forget
  <2>1. ~cursor' /\ op.pc = "forget" /\ UNCHANGED run
    BY <1>9 DEF Forget
  <2>2. \A v \in Workers : run[v].pc = "extract" => run[v].over
    BY <2>1 DEF Overlapped
  <2> QED
    BY <2>1, <2>2 DEF CursorAccounted, RowsGone
<1>10. CASE KeepState
  <2>1. UNCHANGED <<landed, cursor, exists, run>> /\ op.pc = "forget"
    BY <1>10 DEF KeepState
  <2>2. CASE op.then = "backfill"
    BY <1>0, <1>10, <2>1, <2>2 DEF KeepState, CursorAccounted, RowsGone,
                                   Dropping
  <2>3. CASE op.then # "backfill"
    BY <1>10, <2>1, <2>3 DEF KeepState, CursorAccounted, RowsGone, Dropping
  <2> QED
    BY <2>2, <2>3
<1>11. CASE Mark
  <2>1. UNCHANGED <<landed, cursor, exists, run, why>> /\ op.pc = "mark"
    BY <1>11 DEF Mark
  <2>2. op'.pc # "mark"
    <3>1. op.then \in {"purge", "reset", "delete"}
      BY <1>11 DEF Mark, Typed, Ops
    <3>2. CASE op.then = "purge"
      BY <1>0, <1>11, <3>2 DEF Mark
    <3>3. CASE op.then = "reset"
      <4>1. op' = [op EXCEPT !.pc = "restart"]
        BY <1>11, <3>3 DEF Mark
      <4> QED
        BY <4>1 DEF Typed, Ops
    <3>4. CASE op.then = "delete"
      <4>1. op' = [op EXCEPT !.pc = "delete"]
        BY <1>11, <3>4 DEF Mark
      <4> QED
        BY <4>1 DEF Typed, Ops
    <3> QED
      BY <3>1, <3>2, <3>3, <3>4
  <2> QED
    BY <2>1, <2>2 DEF CursorAccounted, RowsGone, Dropping
<1>12. CASE Restart \/ Delete
  <2>1. UNCHANGED <<landed, cursor, run, why>> /\ op' = IdleOp
    BY <1>12 DEF Restart, Delete
  <2>2. exists /\ op.pc \in {"restart", "delete"}
    BY <1>12 DEF Restart, Delete, Overlapped
  <2> QED
    BY <1>0, <2>1, <2>2 DEF CursorAccounted, RowsGone, Dropping
<1>13. CASE Edit \/ Activate \/ Store \/ Withdraw \/ Prove \/ CompleteSetup
            \/ Revoke
  <2>1. UNCHANGED <<landed, cursor, exists, op, why, run>>
    BY <1>13 DEF Edit, Activate, Store, Withdraw, Prove, CompleteSetup, Revoke
  <2> QED
    BY <2>1 DEF CursorAccounted, RowsGone, Dropping
<1>14. CASE UNCHANGED vars
  BY <1>14 DEF vars, CursorAccounted, RowsGone, Dropping
<1> QED
  BY <1>1, <1>2, <1>3, <1>4, <1>5, <1>6, <1>7, <1>8, <1>9, <1>10, <1>11,
     <1>12, <1>13, <1>14 DEF Next
-----------------------------------------------------------------------------
(* Theorems *)

Accounted ==
    Typed /\ RevokerDead /\ Overlapped /\ RowsAccounted /\ CursorAccounted

\* The strengthening of the three invariants is inductive.
THEOREM StandingAccounted == Spec => []Accounted
<1>1. Init => Accounted
  <2> SUFFICES ASSUME Init PROVE Accounted
    OBVIOUS
  <2>1. NoRow \in Rows
    BY DEF NoRow, Rows, Statuses
  <2>2. IdleRun.pc = "idle" /\ IdleOp.pc = "idle"
    BY DEF IdleRun, IdleOp
  <2>3. Typed
    BY <2>1, <2>2, IdleTyped DEF Init, Typed
  <2>4. RevokerDead /\ Overlapped /\ CursorAccounted
    BY <2>2 DEF Init, RevokerDead, Overlapped, CursorAccounted, RowsGone
  <2>5. RowsAccounted
    BY <2>2 DEF Init, RowsAccounted, StrandedForCause, Dropped, IdleOp
  <2> QED
    BY <2>3, <2>4, <2>5 DEF Accounted
<1>2. Accounted /\ [Next]_vars => Accounted'
  BY TypeStep, RevokerStep, OverlapStep, RowsStep, CursorStep DEF Accounted
<1> QED
  BY <1>1, <1>2, PTL DEF Spec

\* Every variable of the Binding's standing keeps its type.
THEOREM StandingTyped == Spec => []Typed
<1>1. Accounted => Typed
  BY DEF Accounted
<1> QED
  BY <1>1, StandingAccounted, PTL

\* Two-phase deletion strands no landing rows without one of its causes,
\* whatever Runs, purges, resets and deletions interleave.
THEOREM NothingStranded == Spec => []StrandedForCause
<1>1. Accounted => StrandedForCause
  BY DEF Accounted, RowsAccounted
<1> QED
  BY <1>1, StandingAccounted, PTL

\* dlt's cursor never runs ahead of the tables without one of its causes.
THEOREM CursorKept == Spec => []CursorHasRows
<1>1. Accounted => CursorHasRows
  BY DEF Accounted, CursorAccounted, CursorHasRows, Dropping
<1> QED
  BY <1>1, StandingAccounted, PTL

\* A Connection is revoked for a dead credential or by hand.
THEOREM RevokedOnlyForCause == Spec => []RevokedForCause
<1>1. Accounted => RevokedForCause
  BY DEF Accounted, RevokerDead, RevokedForCause
<1> QED
  BY <1>1, StandingAccounted, PTL
=============================================================================
