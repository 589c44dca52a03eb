------------------------------ MODULE Standing ------------------------------
(***************************************************************************)
(* The standing of one Binding and of its Connection: who may take them    *)
(* out of service, who puts them back, and what becomes of the landed rows *)
(* and of dlt's cursor.  services/runs.py, services/retention.py and       *)
(* auth/*.py write the same columns from objects they loaded earlier.      *)
(*                                                                         *)
(* row     the Binding's columns                      exists  its row      *)
(* conn    Connection.status                                               *)
(* landed  what the landing tables hold of the source's rows: none, some   *)
(*         (a drop that stopped half-way, or only what came after a cursor *)
(*         whose rows were dropped), or all                                *)
(* cursor  dlt holds a cursor for the pipeline                             *)
(* held    the credential in the SecretStore, 0 for none                   *)
(* issued  the last credential stored      dead  those the provider refuses*)
(* run     the workers executing Runs of this Binding                      *)
(* setup   the credential a complete_setup resolved and has yet to record  *)
(* op      the operator's purge, reset or deletion                         *)
(* why     history: what explains rows or a cursor that nobody accounts for*)
(* revoker history: the credential whose refusal revoked the Connection    *)
(***************************************************************************)
EXTENDS Naturals, FiniteSets

CONSTANTS
    Workers,
    OwnsSecret,      \* the backend stores the credential itself (static)
    Limits           \* bounds, one of which a behaviour keeps: credentials
                     \* stored, edits by hand, operations on the Binding,
                     \* those beside a Run, and faults

ASSUME StandingAssumption ==
    /\ OwnsSecret \in BOOLEAN
    /\ Limits \subseteq [credentials : Nat \ {0}, edits : Nat, ops : Nat,
                         overlaps : Nat, faults : Nat]

VARIABLES row, exists, conn, landed, cursor, held, issued, dead,
          run, setup, op, why, revoker, edits, ops, overlaps, faults, limit

binding  == <<row, exists>>
landing  == <<landed, cursor, why>>
secret   == <<held, issued, dead>>
budget   == <<edits, ops, overlaps, faults>>
vars == <<limit, binding, conn, landing, secret, run, setup, op,
          revoker, budget>>

Runnable == {"pending", "active", "needs_review"}

\* Who may start beside whom is bounded, not ruled out: nothing in the code
\* keeps an operator's call and a Run apart.
Beside(others) == IF others THEN overlaps < limit.overlaps ELSE TRUE
CountBeside(others) == overlaps' = IF others THEN overlaps + 1 ELSE overlaps
RunsUnderWay == \E w \in Workers : run[w].pc # "idle"
OpUnderWay == op.pc # "idle"

IsRunnable(obj) == obj.enabled /\ obj.status \in Runnable
HasLanded(obj) == obj.success /\ ~obj.purged
Accepts(c) == c # 0 /\ c \notin dead

\* get_credentials: a backend that stores the credential itself only looks
\* whether there is one; any other obtains it from the provider.
Resolves(c) == IF OwnsSecret THEN c # 0 ELSE Accepts(c)
-----------------------------------------------------------------------------
Loaded(r) == [status |-> r.status, enabled |-> r.enabled]
Snapshot(r) == [status |-> r.status, schema |-> r.schema]
NoRow == [status |-> "pending", enabled |-> TRUE, success |-> FALSE,
          purged |-> FALSE, schema |-> FALSE]
IdleRun == [pc |-> "idle", obj |-> Loaded(NoRow), conn |-> "active", cred |-> 0,
            cur |-> FALSE, over |-> FALSE]
IdleOp == [pc |-> "idle", obj |-> Snapshot(NoRow), then |-> "none",
           refilled |-> FALSE]

Init ==
    /\ limit \in Limits
    /\ row = NoRow
    /\ exists = TRUE
    /\ conn = "active"
    /\ landed = "none"
    /\ cursor = FALSE
    /\ held = 1 /\ issued = 1 /\ dead = {}
    /\ run = [w \in Workers |-> IdleRun]
    /\ setup = 0
    /\ op = IdleOp
    /\ why = {}
    /\ revoker = 0
    /\ edits = 0 /\ ops = 0 /\ overlaps = 0 /\ faults = 0
-----------------------------------------------------------------------------
(* A Run *)

\* The Binding and its Connection are loaded together, before the lease.
Load(w) ==
    /\ exists
    /\ run[w].pc = "idle"
    /\ Beside(OpUnderWay)
    /\ CountBeside(OpUnderWay)
    /\ run' = [run EXCEPT ![w] = [IdleRun EXCEPT
                  !.pc = "loaded", !.obj = Loaded(row), !.conn = conn,
                  !.over = OpUnderWay]]
    /\ UNCHANGED <<limit, binding, conn, landing, secret, setup, op,
                   revoker, edits, ops, faults>>

\* Mutant: nobody asks for the lease.
NoLease == TRUE

LeaseFree == \A w \in Workers : run[w].pc \in {"idle", "loaded"}

\* run_binding up to the source: the lease, _ensure_runnable on the loaded
\* objects, credentials_for on what the backend says now.
Begin(w) ==
    /\ run[w].pc = "loaded"
    /\ LeaseFree
    /\ LET fit == /\ IsRunnable(run[w].obj)
                  /\ run[w].conn = "active"
       IN  run' = [run EXCEPT ![w] =
               IF ~fit THEN IdleRun
               ELSE [@ EXCEPT !.cred = held, !.cur = cursor,
                     !.pc = IF Resolves(held) THEN "extract" ELSE "refused"]]
    /\ UNCHANGED <<limit, binding, conn, landing, secret, setup, op,
                   revoker, budget>>

\* The lease is held by another worker: the Run is recorded as skipped.
Skip(w) ==
    /\ run[w].pc = "loaded"
    /\ ~LeaseFree
    /\ run' = [run EXCEPT ![w] = IdleRun]
    /\ UNCHANGED <<limit, binding, conn, landing, secret, setup, op,
                   revoker, budget>>

\* dlt lands the rows and the cursor in one load.  Without a cursor the
\* source sends everything; with one, only what came after it.  A load beside
\* a drop creates a table again that is gone already.
Land(w) ==
    /\ run[w].pc = "extract"
    /\ Accepts(run[w].cred)
    /\ landed' = IF ~run[w].cur \/ landed = "all" THEN "all" ELSE "some"
    /\ cursor' = TRUE
    /\ why' = why \cup (IF run[w].over THEN {"beside"} ELSE {})
                  \cup (IF row.purged THEN {"reused"} ELSE {})
                  \cup (IF row.success THEN {} ELSE {"uncredited"})
    /\ run' = [run EXCEPT ![w].pc = "landed"]
    /\ op' = [op EXCEPT !.refilled = @ \/ op.pc = "dropping"]
    /\ UNCHANGED <<limit, binding, conn, secret, setup, revoker, budget>>

\* The credential died since it was resolved: find_cause sees the provider's
\* refusal through dlt's wrapping.
Refused(w) ==
    /\ run[w].pc = "extract"
    /\ run[w].cred \in dead
    /\ run' = [run EXCEPT ![w].pc = "refused"]
    /\ UNCHANGED <<limit, binding, conn, landing, secret, setup, op,
                   revoker, budget>>

\* Mutant: every failure is taken for a dead credential.
FailBlocks(w) ==
    /\ run[w].pc = "extract"
    /\ run' = [run EXCEPT ![w].pc = "refused"]
    /\ UNCHANGED <<limit, binding, conn, landing, secret, setup, op, revoker,
                   budget>>

\* Any other failure, or the death of the worker, before anything landed.
Fail(w) ==
    /\ run[w].pc = "extract"
    /\ run' = [run EXCEPT ![w] = IdleRun]
    /\ UNCHANGED <<limit, binding, conn, landing, secret, setup, op,
                   revoker, budget>>

\* The worker is killed after the load and before _succeed.
Die(w) ==
    /\ run[w].pc = "landed"
    /\ faults < limit.faults
    /\ faults' = faults + 1
    /\ run' = [run EXCEPT ![w] = IdleRun]
    /\ UNCHANGED <<limit, binding, conn, landing, secret, setup, op,
                   revoker, edits, ops, overlaps>>

\* _succeed writes the status of the object it loaded; a failed landing
\* index sends the Binding to review.  Saving a deleted row raises.
StatusAfter(obj, indexed) ==
    IF ~indexed THEN "needs_review"
    ELSE IF obj.status \in {"pending", "blocked"} THEN "active" ELSE obj.status
Credited(obj, indexed) ==
    [row EXCEPT !.success = TRUE, !.schema = TRUE,
                !.status = StatusAfter(obj, indexed)]
Succeed(w) ==
    /\ run[w].pc = "landed"
    /\ \E indexed \in BOOLEAN :
          row' = IF exists THEN Credited(run[w].obj, indexed) ELSE row
    /\ why' = IF exists THEN why \ {"uncredited"} ELSE why
    /\ run' = [run EXCEPT ![w] = IdleRun]
    /\ UNCHANGED <<limit, exists, conn, landed, cursor, secret, setup,
                   op, revoker, budget>>

\* _block_for_credentials: the Connection first, then the Binding.
BlockConnection(w) ==
    /\ run[w].pc = "refused"
    /\ conn' = "revoked"
    /\ revoker' = run[w].cred
    /\ run' = [run EXCEPT ![w].pc = "blocking"]
    /\ UNCHANGED <<limit, binding, landing, secret, setup, op, budget>>

BlockBinding(w) ==
    /\ run[w].pc = "blocking"
    /\ row' = IF exists THEN [row EXCEPT !.status = "blocked"] ELSE row
    /\ run' = [run EXCEPT ![w] = IdleRun]
    /\ UNCHANGED <<limit, exists, conn, landing, secret, setup, op,
                   revoker, budget>>
-----------------------------------------------------------------------------
(* The operator *)

\* purge_binding_landing, reset_binding_state with or without backfill and
\* delete_binding: each works on the Binding it loaded.
OpLoad(then) ==
    /\ exists
    /\ op.pc = "idle"
    /\ ops < limit.ops
    /\ ops' = ops + 1
    /\ Beside(RunsUnderWay)
    /\ CountBeside(RunsUnderWay)
    /\ run' = [w \in Workers |->
                  [run[w] EXCEPT !.over = @ \/ run[w].pc # "idle"]]
    /\ op' = [obj |-> Snapshot(row), then |-> then, refilled |-> FALSE,
              pc |-> CASE then = "delete" /\ ~HasLanded(row) -> "delete"
                       [] then = "backfill" -> "forget"
                       [] OTHER -> "purge"]
    /\ UNCHANGED <<limit, binding, conn, landing, secret, setup,
                   revoker, edits, faults>>

\* Mutant: the purge is recorded before it has happened.
PurgedAtOnce ==
    /\ op.pc = "purge"
    /\ row' = [row EXCEPT !.status = "purging", !.purged = TRUE]
    /\ op' = [op EXCEPT !.pc = "drop"]
    /\ UNCHANGED <<limit, exists, conn, landing, secret, run, setup, revoker,
                   budget>>

\* The Binding is marked before anything is dropped.
StartPurge ==
    /\ op.pc = "purge"
    /\ row' = [row EXCEPT !.status = "purging"]
    /\ op' = [op EXCEPT !.pc = "drop"]
    /\ UNCHANGED <<limit, exists, conn, landing, secret, run, setup,
                   revoker, budget>>

\* drop_landing_tables drops the tables that dlt's schema names one after
\* another, each for good: the first of several, and all that are left.
DropTable ==
    /\ op.pc = "drop"
    /\ landed' = IF landed = "none" THEN "none" ELSE "some"
    /\ op' = [op EXCEPT !.pc = "dropping"]
    /\ UNCHANGED <<limit, binding, conn, cursor, why, secret, run, setup,
                   revoker, budget>>

ToForget == [op EXCEPT !.pc = "forget", !.refilled = FALSE]
Drop ==
    /\ op.pc \in {"drop", "dropping"}
    /\ landed' = IF op.refilled THEN "some" ELSE "none"
    /\ why' = IF op.refilled THEN why ELSE why \cap {"kept"}
    /\ op' = ToForget
    /\ UNCHANGED <<limit, binding, conn, cursor, secret, run, setup,
                   revoker, budget>>

\* A cursor that has no rows before it any more.
RowsGone == cursor /\ landed # "all"

\* A table does not drop, or one that the loaded snapshot names is not among
\* those dlt knows: the purge raises and puts the status back, whatever it has
\* dropped so far.
DropRaises ==
    /\ op.pc \in {"drop", "dropping"}
    /\ faults < limit.faults
    /\ faults' = faults + 1
    /\ row' = [row EXCEPT !.status = op.obj.status]
    /\ op' = IdleOp
    /\ why' = IF op.pc = "dropping" /\ RowsGone THEN why \cup {"halfway"}
              ELSE why
    /\ UNCHANGED <<limit, exists, conn, landed, cursor, secret, run, setup,
                   revoker, edits, ops, overlaps>>

\* The schema could not be restored from the destination, so the tables it
\* would have named stay; with no snapshot to compare with the purge goes on.
DropUnseen ==
    /\ op.pc \in {"drop", "dropping"}
    /\ ~op.obj.schema
    /\ faults < limit.faults
    /\ faults' = faults + 1
    /\ op' = ToForget
    /\ why' = IF landed = "none" THEN why ELSE why \cup {"unseen"}
    /\ UNCHANGED <<limit, binding, conn, landed, cursor, secret, run, setup,
                   revoker, edits, ops, overlaps>>

\* The process of the operator's call dies: nobody puts the status back.
OpDies ==
    /\ op.pc # "idle"
    /\ faults < limit.faults
    /\ faults' = faults + 1
    /\ op' = IdleOp
    /\ why' = IF /\ op.pc \in {"dropping", "forget"}
                 /\ op.then # "backfill"
                 /\ RowsGone
              THEN why \cup {"halfway"} ELSE why
    /\ UNCHANGED <<limit, binding, conn, landed, cursor, secret, run, setup,
                   revoker, edits, ops, overlaps>>

\* Mutant: the tables go and dlt's state stays.
ForgetNothing ==
    /\ op.pc = "forget"
    /\ op' = [op EXCEPT !.pc = IF op.then = "backfill" THEN "restart"
                               ELSE "mark"]
    /\ UNCHANGED <<limit, binding, conn, landing, secret, run, setup, revoker,
                   budget>>

\* pipeline.drop(): a purge goes on when it fails, a reset raises.
Forget ==
    /\ op.pc = "forget"
    /\ cursor' = FALSE
    /\ why' = why \ {"kept", "halfway"}
    /\ op' = [op EXCEPT !.pc = IF op.then = "backfill" THEN "restart"
                               ELSE "mark"]
    /\ UNCHANGED <<limit, binding, conn, landed, secret, run, setup,
                   revoker, budget>>

KeepState ==
    /\ op.pc = "forget"
    /\ faults < limit.faults
    /\ faults' = faults + 1
    /\ IF op.then = "backfill"
         THEN op' = IdleOp /\ UNCHANGED why
         ELSE /\ op' = [op EXCEPT !.pc = "mark"]
              /\ why' = IF cursor THEN why \cup {"kept"} ELSE why
    /\ UNCHANGED <<limit, binding, conn, landed, cursor, secret, run,
                   setup, revoker, edits, ops, overlaps>>

Marked == [row EXCEPT !.purged = TRUE, !.schema = FALSE,
                      !.status = "disabled", !.enabled = FALSE]
Mark ==
    /\ op.pc = "mark"
    /\ row' = Marked
    /\ op' = CASE op.then = "purge" -> IdleOp
               [] op.then = "reset" -> [op EXCEPT !.pc = "restart"]
               [] op.then = "delete" -> [op EXCEPT !.pc = "delete"]
    /\ UNCHANGED <<limit, exists, conn, landing, secret, run, setup,
                   revoker, budget>>

\* The end of reset_binding_state.
Restarted ==
    IF op.then = "backfill" THEN [row EXCEPT !.status = "pending"]
    ELSE [row EXCEPT !.status = "pending", !.enabled = TRUE, !.purged = FALSE]
Restart ==
    /\ op.pc = "restart"
    /\ row' = Restarted
    /\ op' = IdleOp
    /\ UNCHANGED <<limit, exists, conn, landing, secret, run, setup,
                   revoker, budget>>

\* delete_binding reads the row again; protect_unpurged_binding refuses.
Delete ==
    /\ op.pc = "delete"
    /\ exists' = HasLanded(row)
    /\ op' = IdleOp
    /\ UNCHANGED <<limit, row, conn, landing, secret, run, setup,
                   revoker, budget>>

\* The admin edits the status and the switch of a Binding, the API its switch.
Edit ==
    /\ exists
    /\ edits < limit.edits
    /\ edits' = edits + 1
    /\ \E s \in {"active", "disabled"} :
          row' = [row EXCEPT !.status = s, !.enabled = (s = "active")]
    /\ UNCHANGED <<limit, exists, conn, landing, secret, run, setup,
                   op, revoker, ops, overlaps, faults>>

Activate ==
    /\ exists
    /\ edits < limit.edits
    /\ edits' = edits + 1
    /\ conn # "active"
    /\ conn' = "active"
    /\ revoker' = 0
    /\ UNCHANGED <<limit, binding, landing, secret, run, setup, op,
                   ops, overlaps, faults>>

\* store_credentials leaves the status alone; the provider withdraws a grant.
Store ==
    /\ exists
    /\ issued < limit.credentials
    /\ issued' = issued + 1
    /\ held' = issued'
    /\ UNCHANGED <<limit, binding, conn, landing, dead, run, setup,
                   op, revoker, budget>>

Withdraw ==
    /\ exists
    /\ \E c \in 1 .. issued : c \notin dead /\ dead' = dead \cup {c}
    /\ UNCHANGED <<limit, binding, conn, landing, held, issued, run,
                   setup, op, revoker, budget>>

\* complete_setup sees the credential resolve and then saves; the static
\* backend refuses a revoked Connection.
Prove ==
    /\ exists
    /\ setup = 0
    /\ OwnsSecret => conn # "revoked"
    /\ Resolves(held)
    /\ setup' = held
    /\ UNCHANGED <<limit, binding, conn, landing, secret, run, op,
                   revoker, budget>>

CompleteSetup ==
    /\ exists
    /\ setup # 0
    /\ conn' = "active"
    /\ revoker' = 0
    /\ setup' = 0
    /\ UNCHANGED <<limit, binding, landing, secret, run, op, budget>>

\* A backend that owns the stored material removes it.
Revoke ==
    /\ exists
    /\ conn = "active"
    /\ edits < limit.edits
    /\ edits' = edits + 1
    /\ conn' = "revoked"
    /\ revoker' = 0
    /\ held' = IF OwnsSecret THEN 0 ELSE held
    /\ UNCHANGED <<limit, binding, landing, issued, dead, run, setup,
                   op, ops, overlaps, faults>>

Next ==
    \/ \E w \in Workers :
          \/ Load(w) \/ Begin(w) \/ Skip(w) \/ Land(w) \/ Refused(w) \/ Fail(w)
          \/ Die(w) \/ Succeed(w) \/ BlockConnection(w) \/ BlockBinding(w)
    \/ \E then \in {"purge", "reset", "backfill", "delete"} : OpLoad(then)
    \/ StartPurge \/ DropTable \/ Drop \/ DropRaises \/ DropUnseen \/ OpDies
    \/ Forget \/ KeepState \/ Mark \/ Restart \/ Delete
    \/ Edit \/ Activate \/ Store \/ Withdraw \/ Prove \/ CompleteSetup \/ Revoke

Spec == Init /\ [][Next]_vars
-----------------------------------------------------------------------------
(* Properties *)

\* Two-phase deletion (retention.py): a deleted Binding leaves no landing
\* rows, unless a Run landed them beside the operator's call or on a Binding
\* still marked as purged, died before it was credited, or the purge could
\* not see the tables.
StrandedForCause ==
    ~exists /\ landed # "none" =>
        why \cap {"beside", "reused", "uncredited", "unseen"} # {}

\* dlt never holds a cursor past rows the tables do not have (purge, reset
\* and Run together), outside the drop itself, unless a Run landed beside the
\* operator's call, the purge went on after it could not drop dlt's state, or
\* it raised or died after it had dropped a table.
CursorHasRows ==
    exists /\ RowsGone =>
        \/ why \cap {"beside", "kept", "halfway"} # {}
        \/ op.pc \in {"dropping", "forget"}

\* A Connection stays revoked only for a credential that is dead, or because
\* an operator revoked it: never for an outage, and never for a credential
\* other than the one it names.
RevokedForCause ==
    conn = "revoked" => revoker = 0 \/ revoker \in dead
=============================================================================
