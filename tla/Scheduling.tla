----------------------------- MODULE Scheduling -----------------------------
(***************************************************************************)
(* How a change at the provider becomes a Run of one Binding: the webhook  *)
(* endpoint (webhooks/views.py: receive, _is_replay, _schedule), the       *)
(* sweep (scheduler/base.py: run_due_bindings, _claim, _defer), the queue  *)
(* of tasks and run_binding seen from outside.                             *)
(*                                                                         *)
(* Values of next_run_at matter in two ways only: whether they have come   *)
(* (due) and whether a sweep still holds the value it selected (slot, sel).*)
(* A Run matters as the queued one, of which dedupe_key allows one, or as  *)
(* another.  The lease is LeaseContract's and expires only under a worker  *)
(* that died; RunLifecycle has the rest of run_binding and the reaper.     *)
(***************************************************************************)
EXTENDS LeaseContract, Naturals, FiniteSets

CONSTANTS Schedulers,  \* processes that call run_due_bindings
          Deliveries,  \* webhook deliveries under way at once
          MaxTasks     \* bound: run_binding tasks in the queue at once

ASSUME SchedulingAssumption == /\ IsFiniteSet(Schedulers)
                               /\ MaxTasks \in Nat

VARIABLES
    \* the Binding
    slot,      \* its next_run_at, as the identity of a value
    due,       \* next_run_at is null or has come
    dirty,
    recent,    \* min_run_interval has not passed since the last attempt
    usable,    \* enabled, in a runnable status, on an active Connection
    queued,    \* its Run with status QUEUED exists
    \* each sweep
    spc, sel,  \* where it is, the next_run_at it selected
    \* each worker
    tasks,     \* run_binding tasks in the queue, by the Run they name
    wpc, cur,  \* where it is in run_binding, the Run it was given
    saw,       \* usable, when it loaded the Binding
    \* the webhook endpoint
    mail,      \* where each delivery is
    msaw,      \* usable, when its request loaded the Binding
    seen,      \* cache: deliveries in the replay window
    debounced, \* cache: the debounce key
    \* history
    unseen     \* changes that no Run has read from the source

bindingVars == <<slot, due, dirty, recent, usable, queued>>
sweepVars == <<spc, sel>>
workVars == <<tasks, wpc, cur, saw>>
mailVars == <<mail, msaw, seen, debounced>>
vars == <<leaseVars, bindingVars, sweepVars, workVars, mailVars, unseen>>

\* now + interval is new each time; here, the least value not in use.
Slots == 0 .. Cardinality(Schedulers) + 1
FreeSlots ==
    Slots \ ({slot} \cup {sel[s] : s \in {t \in Schedulers : spc[t] # "idle"}})
NewSlot == \E n \in FreeSlots : slot' = n /\ \A m \in FreeSlots : n <= m

\* The Run a task names: the queued one, or one that is not queued any more.
TaskKind == {"queued", "other"}
TaskCount == tasks["queued"] + tasks["other"]

TypeOK ==
    /\ LeaseTypeOK
    /\ slot \in Slots
    /\ {due, dirty, recent, usable, queued, debounced} \subseteq BOOLEAN
    /\ spc \in [Schedulers -> {"idle", "defer", "claim", "enqueue"}]
    /\ sel \in [Schedulers -> Slots]
    /\ tasks \in [TaskKind -> 0 .. MaxTasks]
    /\ wpc \in [Workers -> {"idle", "start", "extract", "record"}]
    /\ cur \in [Workers -> TaskKind \cup {"none"}]
    /\ saw \in [Workers -> BOOLEAN]
    /\ mail \in [Deliveries -> {"none", "sent", "schedule", "enqueue"}]
    /\ msaw \in [Deliveries -> BOOLEAN]
    /\ seen \subseteq Deliveries
    /\ unseen \subseteq Deliveries

\* A new Binding: next_run_at is null.
Init ==
    /\ LeaseInit
    /\ slot = 0
    /\ due = TRUE
    /\ dirty = FALSE
    /\ recent = FALSE
    /\ usable = TRUE
    /\ queued = FALSE
    /\ spc = [s \in Schedulers |-> "idle"]
    /\ sel = [s \in Schedulers |-> 0]
    /\ tasks = [k \in TaskKind |-> 0]
    /\ wpc = [w \in Workers |-> "idle"]
    /\ cur = [w \in Workers |-> "none"]
    /\ saw = [w \in Workers |-> FALSE]
    /\ mail = [d \in Deliveries |-> "none"]
    /\ msaw = [d \in Deliveries |-> FALSE]
    /\ seen = {}
    /\ debounced = FALSE
    /\ unseen = {}

SGoto(s, l) == spc' = [spc EXCEPT ![s] = l]
Done(s) == SGoto(s, "idle") /\ sel' = [sel EXCEPT ![s] = 0]
WGoto(w, l) == wpc' = [wpc EXCEPT ![w] = l]

-----------------------------------------------------------------------------
(* The provider and the webhook endpoint *)

\* Something changes and the provider posts a delivery, with an id of its own.
Change(d) ==
    /\ mail[d] = "none"
    /\ d \notin unseen
    /\ unseen' = unseen \cup {d}
    /\ mail' = [mail EXCEPT ![d] = "sent"]
    /\ seen' = seen \ {d}
    /\ UNCHANGED <<leaseVars, bindingVars, sweepVars, workVars, msaw,
                   debounced>>

\* receive, up to _is_replay: a delivery whose key is in the cache is answered
\* 200 "duplicate".
Replayed(d) ==
    /\ mail[d] = "sent"
    /\ d \in seen
    /\ mail' = [mail EXCEPT ![d] = "none"]
    /\ UNCHANGED <<leaseVars, bindingVars, sweepVars, workVars, msaw, seen,
                   debounced, unseen>>

Receive(d) ==
    /\ mail[d] = "sent"
    /\ d \notin seen
    /\ seen' = seen \cup {d}
    /\ msaw' = [msaw EXCEPT ![d] = usable]
    /\ mail' = [mail EXCEPT ![d] = "schedule"]
    /\ UNCHANGED <<leaseVars, bindingVars, sweepVars, workVars, debounced,
                   unseen>>

\* _schedule: deferred or debounced.
MarkDirty(d) ==
    /\ mail[d] = "schedule"
    /\ ~ msaw[d] \/ debounced
    /\ dirty' = TRUE
    /\ mail' = [mail EXCEPT ![d] = "none"]
    /\ msaw' = [msaw EXCEPT ![d] = FALSE]
    /\ UNCHANGED <<leaseVars, slot, due, recent, usable, queued, sweepVars,
                   workVars, seen, debounced, unseen>>

\* _schedule: the first of a burst.
OpenWindow(d) ==
    /\ mail[d] = "schedule"
    /\ msaw[d]
    /\ ~ debounced
    /\ debounced' = TRUE
    /\ mail' = [mail EXCEPT ![d] = "enqueue"]
    /\ msaw' = [msaw EXCEPT ![d] = FALSE]
    /\ UNCHANGED <<leaseVars, bindingVars, sweepVars, workVars, seen, unseen>>

\* enqueue_run for the delivery: a queued Run there may be already is its Run.
QueueRun(d) ==
    /\ mail[d] = "enqueue"
    /\ queued' = TRUE
    /\ mail' = [mail EXCEPT ![d] = "none"]
    /\ UNCHANGED <<leaseVars, slot, due, dirty, recent, usable, sweepVars,
                   workVars, msaw, seen, debounced, unseen>>

Handle(d) ==
    Replayed(d) \/ Receive(d) \/ MarkDirty(d) \/ OpenWindow(d) \/ QueueRun(d)

-----------------------------------------------------------------------------
(* run_due_bindings *)

\* Mutant: only dirty Bindings are due.
SelectDirty(s) ==
    /\ spc[s] = "idle"
    /\ usable
    /\ dirty
    /\ sel' = [sel EXCEPT ![s] = slot]
    /\ SGoto(s, IF recent THEN "defer" ELSE "claim")
    /\ UNCHANGED <<leaseVars, bindingVars, workVars, mailVars, unseen>>

\* The SELECT, and the floor computed from what it returned.
Select(s) ==
    /\ spc[s] = "idle"
    /\ usable
    /\ due \/ dirty
    /\ sel' = [sel EXCEPT ![s] = slot]
    /\ SGoto(s, IF recent THEN "defer" ELSE "claim")
    /\ UNCHANGED <<leaseVars, bindingVars, workVars, mailVars, unseen>>

\* Mutant: the push adds to the old value instead of replacing it.
DeferFurther(s) ==
    /\ spc[s] = "defer"
    /\ slot' = slot + 1
    /\ due' = FALSE
    /\ Done(s)
    /\ UNCHANGED <<leaseVars, dirty, recent, usable, queued, workVars,
                   mailVars, unseen>>

\* _defer writes next_run_at whatever it holds by now.
Defer(s) ==
    /\ spc[s] = "defer"
    /\ NewSlot
    /\ due' = FALSE
    /\ Done(s)
    /\ UNCHANGED <<leaseVars, dirty, recent, usable, queued, workVars,
                   mailVars, unseen>>

\* Mutant: filter(pk=...) alone.
ClaimAnyway(s) ==
    /\ spc[s] = "claim"
    /\ NewSlot
    /\ due' = FALSE
    /\ dirty' = FALSE
    /\ SGoto(s, "enqueue")
    /\ UNCHANGED <<leaseVars, recent, usable, queued, sel, workVars,
                   mailVars, unseen>>

\* _claim, its UPDATE matching.
Claim(s) ==
    /\ spc[s] = "claim"
    /\ sel[s] = slot
    /\ NewSlot
    /\ due' = FALSE
    /\ dirty' = FALSE
    /\ SGoto(s, "enqueue")
    /\ UNCHANGED <<leaseVars, recent, usable, queued, sel, workVars,
                   mailVars, unseen>>

ClaimLost(s) ==
    /\ spc[s] = "claim"
    /\ sel[s] # slot
    /\ Done(s)
    /\ UNCHANGED <<leaseVars, bindingVars, workVars, mailVars, unseen>>

\* Mutant: a claim that collides with a queued Run dispatches nothing.
DispatchNewOnly(s) ==
    /\ spc[s] = "enqueue"
    /\ TaskCount < MaxTasks
    /\ queued' = TRUE
    /\ tasks' = IF queued THEN tasks ELSE [tasks EXCEPT !["queued"] = @ + 1]
    /\ Done(s)
    /\ UNCHANGED <<leaseVars, slot, due, dirty, recent, usable, wpc, cur, saw,
                   mailVars, unseen>>

\* enqueue_run gives a new queued Run, or the one that is there, and task.delay
\* sends it.  Executing inline is a dispatch that a worker takes at once.
Dispatch(s) ==
    /\ spc[s] = "enqueue"
    /\ TaskCount < MaxTasks
    /\ queued' = TRUE
    /\ tasks' = [tasks EXCEPT !["queued"] = @ + 1]
    /\ Done(s)
    /\ UNCHANGED <<leaseVars, slot, due, dirty, recent, usable, wpc, cur, saw,
                   mailVars, unseen>>

Sweep(s) ==
    Select(s) \/ Defer(s) \/ Claim(s) \/ ClaimLost(s) \/ Dispatch(s)

-----------------------------------------------------------------------------
(* run_binding *)

\* Saving the queued Run with another status: the tasks and the worker that
\* name it name a Run that is not queued.
Unqueue(left) ==
    /\ queued' = FALSE
    /\ tasks' = [queued |-> 0, other |-> left]
    /\ cur' = [v \in Workers |-> IF cur[v] = "queued" THEN "other" ELSE cur[v]]

\* The Binding is loaded and its lease taken.
Begin(w, run) ==
    /\ Grant(w, FALSE)
    /\ cur' = [cur EXCEPT ![w] = run]
    /\ saw' = [saw EXCEPT ![w] = usable]
    /\ WGoto(w, "start")
    /\ UNCHANGED <<bindingVars, sweepVars, mailVars, unseen>>

\* The lease is not to be had: _record_skip ends the Run it was given.
Skip(run) ==
    /\ ~ Grantable
    /\ \/ run = "queued" /\ Unqueue(TaskCount - 1)
       \/ /\ run = "other"
          /\ tasks' = [tasks EXCEPT !["other"] = @ - 1]
          /\ UNCHANGED <<queued, cur>>
    /\ UNCHANGED <<leaseVars, slot, due, dirty, recent, usable, sweepVars, wpc,
                   saw, mailVars, unseen>>

\* A task whose Run is gone from the queue executes that Run again.
Take(w) ==
    /\ wpc[w] = "idle"
    /\ \E k \in TaskKind :
          /\ tasks[k] > 0
          /\ \/ tasks' = [tasks EXCEPT ![k] = @ - 1] /\ Begin(w, k)
             \/ Skip(k)

\* The API's run action; a skipped one leaves nothing behind.
CallInline(w) ==
    /\ wpc[w] = "idle"
    /\ Begin(w, "other")
    /\ UNCHANGED tasks

\* _start, then _ensure_runnable on the Binding as it was loaded.
Start(w) ==
    /\ wpc[w] = "start"
    /\ \/ cur[w] = "queued" /\ Unqueue(TaskCount)
       \/ cur[w] = "other" /\ UNCHANGED <<queued, tasks, cur>>
    /\ saw' = [saw EXCEPT ![w] = FALSE]
    /\ WGoto(w, IF saw[w] THEN "extract" ELSE "record")
    /\ UNCHANGED <<leaseVars, slot, due, dirty, recent, usable, sweepVars,
                   mailVars, unseen>>

\* The source is read.
Extract(w) ==
    /\ wpc[w] = "extract"
    /\ unseen' = {}
    /\ WGoto(w, "record")
    /\ UNCHANGED <<leaseVars, bindingVars, sweepVars, tasks, cur, saw,
                   mailVars>>

\* Mutant: the flag is cleared when the Run ends.
RecordAndClear(w) ==
    /\ wpc[w] = "record"
    /\ recent' = TRUE
    /\ dirty' = FALSE
    /\ Release(w)
    /\ cur' = [cur EXCEPT ![w] = "none"]
    /\ WGoto(w, "idle")
    /\ UNCHANGED <<slot, due, usable, queued, sweepVars, tasks, saw, mailVars,
                   unseen>>

\* _succeed or _fail, which both record an attempt, and the finally clause.
Record(w) ==
    /\ wpc[w] = "record"
    /\ recent' = TRUE
    /\ Release(w)
    /\ cur' = [cur EXCEPT ![w] = "none"]
    /\ WGoto(w, "idle")
    /\ UNCHANGED <<slot, due, dirty, usable, queued, sweepVars, tasks, saw,
                   mailVars, unseen>>

Work(w) == Take(w) \/ Start(w) \/ Extract(w) \/ Record(w)

-----------------------------------------------------------------------------
(* Failure *)

\* A request dies after its keys are in the cache, or its answer is lost: the
\* provider delivers again.
RequestDies(d) ==
    /\ mail[d] \in {"schedule", "enqueue"}
    /\ mail' = [mail EXCEPT ![d] = "sent"]
    /\ msaw' = [msaw EXCEPT ![d] = FALSE]
    /\ UNCHANGED <<leaseVars, bindingVars, sweepVars, workVars, seen,
                   debounced, unseen>>

\* The provider gives up.
LoseDelivery(d) ==
    /\ mail[d] = "sent"
    /\ mail' = [mail EXCEPT ![d] = "none"]
    /\ UNCHANGED <<leaseVars, bindingVars, sweepVars, workVars, msaw, seen,
                   debounced, unseen>>

\* A sweep is killed, or raises while it queues or dispatches.
SweepDies(s) ==
    /\ spc[s] # "idle"
    /\ Done(s)
    /\ UNCHANGED <<leaseVars, bindingVars, workVars, mailVars, unseen>>

LoseTask ==
    /\ \E k \in TaskKind : /\ tasks[k] > 0
                           /\ tasks' = [tasks EXCEPT ![k] = @ - 1]
    /\ UNCHANGED <<leaseVars, bindingVars, sweepVars, wpc, cur, saw, mailVars,
                   unseen>>

\* The source or what precedes it raises, a revoked credential with it.
Raise(w) ==
    /\ wpc[w] = "extract"
    /\ usable' \in {usable, FALSE}
    /\ WGoto(w, "record")
    /\ UNCHANGED <<leaseVars, slot, due, dirty, recent, queued, sweepVars,
                   tasks, cur, saw, mailVars, unseen>>

Crash(w) ==
    /\ wpc[w] # "idle"
    /\ IF w \in holders THEN Abandon(w) ELSE UNCHANGED leaseVars
    /\ cur' = [cur EXCEPT ![w] = "none"]
    /\ saw' = [saw EXCEPT ![w] = FALSE]
    /\ WGoto(w, "idle")
    /\ UNCHANGED <<bindingVars, sweepVars, tasks, mailVars, unseen>>

\* Status, enabled or the Connection change; a late _succeed may also write an
\* old status back.
SetUsable ==
    /\ usable' = ~ usable
    /\ UNCHANGED <<leaseVars, slot, due, dirty, recent, queued, sweepVars,
                   workVars, mailVars, unseen>>

Fault ==
    \/ \E d \in Deliveries : RequestDies(d) \/ LoseDelivery(d)
    \/ \E s \in Schedulers : SweepDies(s)
    \/ LoseTask
    \/ \E w \in Workers : Raise(w) \/ Crash(w)

-----------------------------------------------------------------------------
(* Time *)

BecomeDue ==
    /\ ~ due
    /\ due' = TRUE
    /\ UNCHANGED <<leaseVars, slot, dirty, recent, usable, queued, sweepVars,
                   workVars, mailVars, unseen>>

FloorPasses ==
    /\ recent
    /\ recent' = FALSE
    /\ UNCHANGED <<leaseVars, slot, due, dirty, usable, queued, sweepVars,
                   workVars, mailVars, unseen>>

WindowCloses ==
    /\ debounced
    /\ debounced' = FALSE
    /\ UNCHANGED <<leaseVars, bindingVars, sweepVars, workVars, mail, msaw,
                   seen, unseen>>

LeaseExpires ==
    /\ lease = Orphan
    /\ ~ expired
    /\ Expire
    /\ UNCHANGED <<bindingVars, sweepVars, workVars, mailVars, unseen>>

-----------------------------------------------------------------------------
Step ==
    \/ \E d \in Deliveries : Change(d) \/ Handle(d)
    \/ \E s \in Schedulers : Sweep(s)
    \/ \E w \in Workers : CallInline(w) \/ Work(w)
    \/ BecomeDue \/ FloorPasses \/ WindowCloses \/ LeaseExpires

Next == Step \/ SetUsable \/ Fault

\* The beat entry for run_due_bindings fires, workers take tasks and go on with
\* what they began, and time passes.  Nothing is assumed of the provider or of
\* the endpoint.
Fairness ==
    /\ \A s \in Schedulers : WF_vars(Sweep(s))
    /\ \A w \in Workers : WF_vars(Work(w))
    /\ WF_vars(BecomeDue) /\ WF_vars(FloorPasses) /\ WF_vars(LeaseExpires)

Spec == Init /\ [][Next]_vars
FairSpec == Spec /\ Fairness

\* The behaviours in which nothing fails and nobody touches the Binding.
CalmSpec == Init /\ [][Step]_vars

-----------------------------------------------------------------------------
(* Properties *)

\* "Two schedulers running concurrently cannot both claim the same Binding":
\* of the sweeps that selected one value of next_run_at at most one goes on.
OneClaim ==
    \A s, t \in Schedulers :
        /\ spc[s] = "enqueue"
        /\ spc[t] = "enqueue"
        /\ sel[s] = sel[t]
        => s = t

\* A change has a place to be remembered: its delivery, the flag, the queued
\* Run or the sweep about to queue one, or a Run that has yet to read.
Remembered(d) ==
    \/ mail[d] # "none"
    \/ dirty
    \/ queued
    \/ \E s \in Schedulers : spc[s] = "enqueue"
    \/ \E w \in Workers : wpc[w] \in {"start", "extract"}

Forgotten(d) == Remembered(d) /\ d \in unseen' /\ ~ Remembered(d)'

\* "_schedule" and "_claim" between them lose nothing: a change that no Run has
\* read is forgotten, until the next poll, only by a failure, a Run that is not
\* runnable, a delivery answered as a duplicate of one that died, or a skip.
ForgottenOnlyByFailure ==
    [][(\E d \in Deliveries : Forgotten(d)) =>
          \/ Fault
          \/ \E w \in Workers : Start(w) /\ ~ saw[w]
          \/ \E k \in TaskKind : Skip(k)
          \/ \E d \in Deliveries : Replayed(d)]_vars

\* Once the Binding stays usable and failures stop, every change is read by a
\* Run in the end, whatever was forgotten: the poll timer sees to it.
FaultsStop == <>[][Step \/ SetUsable]_vars
CallsStop == <>[][\A w \in Workers : ~ CallInline(w)]_vars
EveryChangeRead ==
    <>[]usable /\ FaultsStop =>
        \A d \in Deliveries : d \in unseen ~> d \notin unseen

\* A Run an accepted delivery queued, which nobody dispatches, is started or
\* skipped in the end: a later claim collides with it and dispatches it.
\* (Without end, Runs by hand could keep the floor from ever passing.)
QueuedRunEnds ==
    <>[]usable /\ FaultsStop /\ CallsStop => (queued ~> ~ queued)
=============================================================================
