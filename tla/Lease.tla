------------------------------- MODULE Lease -------------------------------
(***************************************************************************)
(* The BindingLock row of one Binding and the statements of                *)
(* django_connectors/locks.py that touch it, one action per statement.     *)
(* acquire is two statements, a conditional UPDATE and an INSERT, both     *)
(* using the instant the call read at its start, so workers interleave     *)
(* between them and the clock moves under them.                            *)
(***************************************************************************)
EXTENDS Integers

CONSTANTS Workers,      \* callers of locks.acquire
          Timeouts,     \* run_timeout of the Binding, or DEFAULT_RUN_TIMEOUT
          MaxTime,      \* bound: the clock stops here
          MaxTokens,    \* bound: tokens minted in a behaviour
          Free, Orphan  \* values of the abstract lease, see LeaseContract

ASSUME TimesAssumption == /\ Timeouts \subseteq Nat \ {0}
                          /\ MaxTime \in Nat
                          /\ MaxTokens \in Nat

ASSUME NamesAssumption == /\ Free \notin Workers
                          /\ Orphan \notin Workers
                          /\ Free # Orphan

VARIABLES now,         \* timezone.now()
          token,       \* BindingLock.token, NoRow when there is no row
          expires_at,  \* BindingLock.expires_at, 0 when there is no row
          minted,      \* uuid4() tokens handed out: each one is fresh
          pc,          \* where each caller is: idle, update, insert, held
          mine,        \* the token each caller generated
          started,     \* the instant each acquire read
          deadline     \* the expires_at each caller computed for its lease

vars == <<now, token, expires_at, minted, pc, mine, started, deadline>>

NoRow == 0

TypeOK ==
    /\ now \in Nat
    /\ token \in Nat
    /\ expires_at \in Nat
    /\ minted \in Nat
    /\ pc \in [Workers -> {"idle", "update", "insert", "held"}]
    /\ mine \in [Workers -> Nat]
    /\ started \in [Workers -> Nat]
    /\ deadline \in [Workers -> Nat]

Init ==
    /\ now = 0
    /\ token = NoRow
    /\ expires_at = 0
    /\ minted = 0
    /\ pc = [w \in Workers |-> "idle"]
    /\ mine = [w \in Workers |-> NoRow]
    /\ started = [w \in Workers |-> 0]
    /\ deadline = [w \in Workers |-> 0]

-----------------------------------------------------------------------------
\* Time passes.
Tick ==
    /\ now < MaxTime
    /\ now' = now + 1
    /\ UNCHANGED <<token, expires_at, minted, pc, mine, started, deadline>>

\* acquire: reads the clock, computes expires_at, generates the token.  The
\* lease must be able to run out before the clock's bound.
StartAcquire(w) ==
    /\ pc[w] = "idle"
    /\ minted < MaxTokens
    /\ \E timeout \in Timeouts :
          /\ now + timeout <= MaxTime
          /\ deadline' = [deadline EXCEPT ![w] = now + timeout]
    /\ minted' = minted + 1
    /\ mine' = [mine EXCEPT ![w] = minted + 1]
    /\ started' = [started EXCEPT ![w] = now]
    /\ pc' = [pc EXCEPT ![w] = "update"]
    /\ UNCHANGED <<now, token, expires_at>>

\* Mutant: the UPDATE without its expires_at filter.
TakesOverUnexpired(w) == token # NoRow

\* The row the conditional UPDATE of caller w matches: one that had expired at
\* the instant w read.
TakesOver(w) == token # NoRow /\ expires_at <= started[w]

WriteRow(w) ==
    /\ token' = mine[w]
    /\ expires_at' = deadline[w]

TakeOver(w) ==
    /\ pc[w] = "update"
    /\ TakesOver(w)
    /\ WriteRow(w)
    /\ pc' = [pc EXCEPT ![w] = "held"]
    /\ UNCHANGED <<now, minted, mine, started, deadline>>

UpdateMatchesNothing(w) ==
    /\ pc[w] = "update"
    /\ ~ TakesOver(w)
    /\ pc' = [pc EXCEPT ![w] = "insert"]
    /\ UNCHANGED <<now, token, expires_at, minted, mine, started, deadline>>

Insert(w) ==
    /\ pc[w] = "insert"
    /\ token = NoRow
    /\ WriteRow(w)
    /\ pc' = [pc EXCEPT ![w] = "held"]
    /\ UNCHANGED <<now, minted, mine, started, deadline>>

\* Mutant: the IntegrityError is swallowed and the token returned.
InsertCollidesUnnoticed(w) ==
    /\ pc[w] = "insert"
    /\ token # NoRow
    /\ pc' = [pc EXCEPT ![w] = "held"]
    /\ UNCHANGED <<now, token, expires_at, minted, mine, started, deadline>>

\* IntegrityError: acquire returns None.
InsertCollides(w) ==
    /\ pc[w] = "insert"
    /\ token # NoRow
    /\ pc' = [pc EXCEPT ![w] = "idle"]
    /\ UNCHANGED <<now, token, expires_at, minted, mine, started, deadline>>

DeleteRow ==
    /\ token' = NoRow
    /\ expires_at' = 0

\* Mutant: the DELETE without the token.
ReleaseAnyRow(w) ==
    /\ pc[w] = "held"
    /\ DeleteRow
    /\ pc' = [pc EXCEPT ![w] = "idle"]
    /\ UNCHANGED <<now, minted, mine, started, deadline>>

\* release: DELETE ... WHERE token = mine.
Release(w) ==
    /\ pc[w] = "held"
    /\ IF token = mine[w] THEN DeleteRow ELSE UNCHANGED <<token, expires_at>>
    /\ pc' = [pc EXCEPT ![w] = "idle"]
    /\ UNCHANGED <<now, minted, mine, started, deadline>>

\* Mutant: the timeout taken off instead of added.
RenewBackwards(w) ==
    /\ pc[w] = "held"
    /\ token = mine[w]
    /\ \E timeout \in Timeouts :
          /\ expires_at' = now - timeout
          /\ deadline' = [deadline EXCEPT ![w] = now - timeout]
    /\ UNCHANGED <<now, token, minted, pc, mine, started>>

\* renew: part of the interface although run_binding never calls it.
Renew(w) ==
    /\ pc[w] = "held"
    /\ token = mine[w]
    /\ \E timeout \in Timeouts :
          /\ now + timeout <= MaxTime
          /\ expires_at' = now + timeout
          /\ deadline' = [deadline EXCEPT ![w] = now + timeout]
    /\ UNCHANGED <<now, token, minted, pc, mine, started>>

\* Mutant: the comparison the wrong way round.
ReapUnexpired ==
    /\ token # NoRow
    /\ expires_at > now
    /\ DeleteRow
    /\ UNCHANGED <<now, minted, pc, mine, started, deadline>>

\* reap_expired
ReapExpired ==
    /\ token # NoRow
    /\ expires_at <= now
    /\ DeleteRow
    /\ UNCHANGED <<now, minted, pc, mine, started, deadline>>

\* The worker process is killed: nobody presents its token again.
Crash(w) ==
    /\ pc[w] # "idle"
    /\ pc' = [pc EXCEPT ![w] = "idle"]
    /\ UNCHANGED <<now, token, expires_at, minted, mine, started, deadline>>

Next ==
    \/ Tick
    \/ ReapExpired
    \/ \E w \in Workers : \/ StartAcquire(w)
                          \/ TakeOver(w)
                          \/ UpdateMatchesNothing(w)
                          \/ Insert(w)
                          \/ InsertCollides(w)
                          \/ Release(w)
                          \/ Renew(w)
                          \/ Crash(w)

\* Time passes, and the beat entry for reap_stale_runs keeps firing.  Nothing
\* is assumed of the workers.
Fairness == WF_vars(Tick) /\ WF_vars(ReapExpired)

Spec == Init /\ [][Next]_vars /\ Fairness

-----------------------------------------------------------------------------
\* A holder whose own deadline has not passed.
Live(w) == pc[w] = "held" /\ now < deadline[w]

\* The exclusion dlt does not provide: two workers never both hold the lease
\* before their deadlines, whatever the races between UPDATE, INSERT, DELETE,
\* takeover and the reaper, and however stale the instant acquire works with.
ExclusiveUntilDeadline ==
    \A v, w \in Workers : Live(v) /\ Live(w) => v = w

\* The row of a live holder is the one it wrote: no release of an expired
\* holder, no takeover and no reap removed or replaced it ("a worker whose
\* lease expired and was taken over must not be able to release the new
\* holder's lock").
LiveHolderOwnsRow ==
    \A w \in Workers :
        Live(w) => token = mine[w] /\ expires_at = deadline[w]

\* Whoever waits for a row left behind by a killed worker waits for a bounded
\* time: such a row is always removed or taken over in the end.
HeldBy(w) == pc[w] = "held" /\ token = mine[w]
RowOfTheDead == token # NoRow /\ \A w \in Workers : ~ HeldBy(w)
DeadWorkerDoesNotBlock == RowOfTheDead ~> ~ RowOfTheDead

-----------------------------------------------------------------------------
\* The refinement: the two-statement, clocked lease is the one-step lease.
Owner == IF token = NoRow THEN Free
         ELSE IF \E w \in Workers : HeldBy(w)
              THEN CHOOSE w \in Workers : HeldBy(w)
              ELSE Orphan

Contract == INSTANCE LeaseContract
                WITH lease   <- Owner,
                     expired <- token # NoRow /\ expires_at <= now,
                     holders <- {w \in Workers : pc[w] = "held"}

\* Every step of the two-statement acquire, of release, renew and the reaper
\* is one step of the contract, or leaves what the contract sees alone.
ImplementsContract == Contract!LeaseSpec
=============================================================================
