---------------------------- MODULE LeaseProofs ----------------------------
(***************************************************************************)
(* What Lease.tla's runs check on two workers, for any set of workers, any *)
(* timeouts and any bounds on the clock and the tokens.                    *)
(***************************************************************************)
EXTENDS Lease, TLAPS

Active == {"update", "insert", "held"}

\* uuid4: whoever is between acquire and release has a token of its own.
TokensFresh ==
    /\ token <= minted
    /\ \A w \in Workers : mine[w] <= minted
    /\ \A w \in Workers : pc[w] \in Active => mine[w] # NoRow
    /\ \A v, w \in Workers :
          pc[v] \in Active /\ pc[w] \in Active /\ mine[v] = mine[w] => v = w

\* acquire works with an instant that is never ahead of the clock.
StartedInPast == \A w \in Workers : started[w] <= now

IInv == TypeOK /\ TokensFresh /\ StartedInPast /\ LiveHolderOwnsRow

\* The initial state has no row and nobody acquiring.
LEMMA InitIInv == Init => IInv
  BY TimesAssumption
     DEF Init, IInv, TypeOK, TokensFresh, StartedInPast, LiveHolderOwnsRow,
         Live, NoRow, Active

\* Types survive every step.
LEMMA TypeStep == TypeOK /\ [Next]_vars => TypeOK'
<1> SUFFICES ASSUME TypeOK, [Next]_vars PROVE TypeOK'
  OBVIOUS
<1> USE TimesAssumption DEF TypeOK, NoRow
<1>1. CASE Tick
  BY <1>1 DEF Tick
<1>2. CASE ReapExpired
  BY <1>2 DEF ReapExpired, DeleteRow
<1>3. ASSUME NEW w \in Workers, StartAcquire(w) PROVE TypeOK'
  BY <1>3 DEF StartAcquire
<1>4. ASSUME NEW w \in Workers, TakeOver(w) PROVE TypeOK'
  BY <1>4 DEF TakeOver, WriteRow
<1>5. ASSUME NEW w \in Workers, UpdateMatchesNothing(w) PROVE TypeOK'
  BY <1>5 DEF UpdateMatchesNothing
<1>6. ASSUME NEW w \in Workers, Insert(w) PROVE TypeOK'
  BY <1>6 DEF Insert, WriteRow
<1>7. ASSUME NEW w \in Workers, InsertCollides(w) PROVE TypeOK'
  BY <1>7 DEF InsertCollides
<1>8. ASSUME NEW w \in Workers, Release(w) PROVE TypeOK'
  BY <1>8 DEF Release, DeleteRow
<1>9. ASSUME NEW w \in Workers, Renew(w) PROVE TypeOK'
  BY <1>9 DEF Renew
<1>10. ASSUME NEW w \in Workers, Crash(w) PROVE TypeOK'
  BY <1>10 DEF Crash
<1>11. CASE UNCHANGED vars
  BY <1>11 DEF vars
<1> QED
  BY <1>1, <1>2, <1>3, <1>4, <1>5, <1>6, <1>7, <1>8, <1>9, <1>10, <1>11 DEF Next

\* A step mints at most one token, larger than all before it.
LEMMA TokensStep == IInv /\ [Next]_vars => TokensFresh'
<1> SUFFICES ASSUME IInv, [Next]_vars PROVE TokensFresh'
  OBVIOUS
<1> USE TimesAssumption DEF IInv, TypeOK, TokensFresh, NoRow, Active
<1>1. CASE Tick
  BY <1>1 DEF Tick
<1>2. CASE ReapExpired
  BY <1>2 DEF ReapExpired, DeleteRow
<1>3. ASSUME NEW w \in Workers, StartAcquire(w) PROVE TokensFresh'
  BY <1>3 DEF StartAcquire
<1>4. ASSUME NEW w \in Workers, TakeOver(w) PROVE TokensFresh'
  BY <1>4 DEF TakeOver, WriteRow
<1>5. ASSUME NEW w \in Workers, UpdateMatchesNothing(w) PROVE TokensFresh'
  BY <1>5 DEF UpdateMatchesNothing
<1>6. ASSUME NEW w \in Workers, Insert(w) PROVE TokensFresh'
  BY <1>6 DEF Insert, WriteRow
<1>7. ASSUME NEW w \in Workers, InsertCollides(w) PROVE TokensFresh'
  BY <1>7 DEF InsertCollides
<1>8. ASSUME NEW w \in Workers, Release(w) PROVE TokensFresh'
  BY <1>8 DEF Release, DeleteRow
<1>9. ASSUME NEW w \in Workers, Renew(w) PROVE TokensFresh'
  BY <1>9 DEF Renew
<1>10. ASSUME NEW w \in Workers, Crash(w) PROVE TokensFresh'
  BY <1>10 DEF Crash
<1>11. CASE UNCHANGED vars
  BY <1>11 DEF vars
<1> QED
  BY <1>1, <1>2, <1>3, <1>4, <1>5, <1>6, <1>7, <1>8, <1>9, <1>10, <1>11 DEF Next

\* The clock never goes back behind an instant somebody read.
LEMMA StartedStep == IInv /\ [Next]_vars => StartedInPast'
<1> SUFFICES ASSUME IInv, [Next]_vars PROVE StartedInPast'
  OBVIOUS
<1> USE DEF IInv, TypeOK, StartedInPast
<1>1. now' \in Nat /\ now <= now'
  BY TypeStep, TimesAssumption
     DEF Next, vars, Tick, ReapExpired, StartAcquire, TakeOver,
         UpdateMatchesNothing, Insert, InsertCollides, Release, Renew, Crash
<1>2. CASE UNCHANGED started
  BY <1>1, <1>2
<1>3. ASSUME NEW w \in Workers, StartAcquire(w) PROVE StartedInPast'
  BY <1>3 DEF StartAcquire
<1> QED
  BY <1>2, <1>3 DEF Next, vars, Tick, ReapExpired, TakeOver,
     UpdateMatchesNothing, Insert, InsertCollides, Release, Renew, Crash

\* The step that matters: no statement of another caller touches the row of a
\* holder whose deadline has not passed.
LEMMA OwnsRowStep == IInv /\ [Next]_vars => LiveHolderOwnsRow'
<1> SUFFICES ASSUME IInv, [Next]_vars, NEW h \in Workers, Live(h)'
             PROVE  token' = mine'[h] /\ expires_at' = deadline'[h]
  BY DEF LiveHolderOwnsRow
<1> USE TimesAssumption
    DEF IInv, TypeOK, LiveHolderOwnsRow, Live, NoRow
<1>1. CASE Tick
  BY <1>1 DEF Tick
<1>2. CASE ReapExpired
  BY <1>2 DEF ReapExpired, DeleteRow
<1>3. ASSUME NEW w \in Workers, StartAcquire(w)
      PROVE  token' = mine'[h] /\ expires_at' = deadline'[h]
  BY <1>3 DEF StartAcquire
<1>4. ASSUME NEW w \in Workers, TakeOver(w)
      PROVE  token' = mine'[h] /\ expires_at' = deadline'[h]
  <2>1. CASE w = h
    BY <1>4, <2>1 DEF TakeOver, WriteRow
  <2>2. CASE w # h
    \* h would be live before the step with its row expired for w.
    <3>1. Live(h) /\ expires_at = deadline[h]
      BY <1>4, <2>2 DEF TakeOver, WriteRow
    <3>2. expires_at <= started[w] /\ started[w] <= now
      BY <1>4 DEF TakeOver, TakesOver, StartedInPast
    <3> QED
      BY <3>1, <3>2
  <2> QED
    BY <2>1, <2>2
<1>5. ASSUME NEW w \in Workers, UpdateMatchesNothing(w)
      PROVE  token' = mine'[h] /\ expires_at' = deadline'[h]
  BY <1>5 DEF UpdateMatchesNothing
<1>6. ASSUME NEW w \in Workers, Insert(w)
      PROVE  token' = mine'[h] /\ expires_at' = deadline'[h]
  <2>1. CASE w = h
    BY <1>6, <2>1 DEF Insert, WriteRow
  <2>2. CASE w # h
    \* h would be live before the step and yet have no row.
    <3>1. Live(h) /\ token = mine[h] /\ token = NoRow
      BY <1>6, <2>2 DEF Insert, WriteRow
    <3> QED
      BY <3>1 DEF TokensFresh, Active
  <2> QED
    BY <2>1, <2>2
<1>7. ASSUME NEW w \in Workers, InsertCollides(w)
      PROVE  token' = mine'[h] /\ expires_at' = deadline'[h]
  BY <1>7 DEF InsertCollides
<1>8. ASSUME NEW w \in Workers, Release(w)
      PROVE  token' = mine'[h] /\ expires_at' = deadline'[h]
  <2>1. w # h /\ Live(h) /\ token = mine[h]
    BY <1>8 DEF Release
  <2>2. token # mine[w]
    BY <1>8, <2>1 DEF Release, TokensFresh, Active
  <2> QED
    BY <1>8, <2>1, <2>2 DEF Release
<1>9. ASSUME NEW w \in Workers, Renew(w)
      PROVE  token' = mine'[h] /\ expires_at' = deadline'[h]
  <2>1. CASE w = h
    BY <1>9, <2>1 DEF Renew
  <2>2. CASE w # h
    \* both would hold the token of the row
    BY <1>9, <2>2 DEF Renew, TokensFresh, Active
  <2> QED
    BY <2>1, <2>2
<1>10. ASSUME NEW w \in Workers, Crash(w)
       PROVE  token' = mine'[h] /\ expires_at' = deadline'[h]
  BY <1>10 DEF Crash
<1>11. CASE UNCHANGED vars
  BY <1>11 DEF vars
<1> QED
  BY <1>1, <1>2, <1>3, <1>4, <1>5, <1>6, <1>7, <1>8, <1>9, <1>10, <1>11 DEF Next

\* The inductive invariant holds of every reachable state.
THEOREM LeaseInvariant == Spec => []IInv
<1>1. IInv /\ [Next]_vars => IInv'
  BY TypeStep, TokensStep, StartedStep, OwnsRowStep DEF IInv
<1> QED
  BY InitIInv, <1>1, PTL DEF Spec

\* Type correctness of the BindingLock row and its callers.
THEOREM LeaseTypes == Spec => []TypeOK
  BY LeaseInvariant, PTL DEF IInv

\* Nothing removes or replaces the row of a holder whose deadline is ahead.
THEOREM LiveRowIsSafe == Spec => []LiveHolderOwnsRow
  BY LeaseInvariant, PTL DEF IInv

\* Two callers are never both within their lease: each would own the row, and
\* tokens are never shared.
THEOREM Exclusion == Spec => []ExclusiveUntilDeadline
<1>1. IInv => ExclusiveUntilDeadline
  BY DEF IInv, ExclusiveUntilDeadline, LiveHolderOwnsRow, TokensFresh, Live,
         Active
<1> QED
  BY <1>1, LeaseInvariant, PTL

-----------------------------------------------------------------------------
\* The refinement.  Held is the abstract holders, Over the abstract expired.
Held == {w \in Workers : pc[w] = "held"}
Over == token # NoRow /\ expires_at <= now

\* Owner names the one caller whose token is in the row.
LEMMA OwnerHeld ==
  ASSUME TypeOK, TokensFresh, NEW w \in Workers, HeldBy(w)
  PROVE  Owner = w /\ token # NoRow
<1>1. \A v \in Workers : HeldBy(v) => v = w
  BY DEF TokensFresh, HeldBy, Active
<1>2. token # NoRow
  BY DEF TokensFresh, HeldBy, Active
<1> QED
  BY <1>1, <1>2 DEF Owner

LEMMA OwnerUnheld ==
  ASSUME token # NoRow, \A w \in Workers : ~ HeldBy(w)
  PROVE  Owner = Orphan
  BY DEF Owner

\* A step that touches neither the row nor who holds it leaves the owner.
LEMMA OwnerSame ==
  ASSUME token' = token, \A w \in Workers : HeldBy(w)' <=> HeldBy(w)
  PROVE  Owner' = Owner
<1>1. \A w \in Workers : (pc'[w] = "held" /\ token' = mine'[w]) <=> HeldBy(w)
  BY DEF HeldBy
<1>2. (CHOOSE w \in Workers : HeldBy(w)') = CHOOSE w \in Workers : HeldBy(w)
  BY <1>1 DEF HeldBy
<1> QED
  BY <1>1, <1>2 DEF Owner, HeldBy, NoRow

\* Every step of the two-statement lease is a step of the contract or a stutter.
LEMMA ContractStep ==
  IInv /\ IInv' /\ [Next]_vars => [Contract!LeaseNext]_(Contract!leaseVars)
<1> SUFFICES ASSUME IInv, IInv', [Next]_vars
             PROVE  Contract!LeaseNext \/ UNCHANGED <<Owner, Over, Held>>
  BY DEF Contract!leaseVars, Owner, Over, Held, HeldBy, NoRow
<1>a. /\ TypeOK /\ TokensFresh /\ StartedInPast
      /\ TypeOK' /\ TokensFresh'
  BY DEF IInv
<1>1. CASE Tick
  <2>1. Owner' = Owner /\ Held' = Held
    BY <1>1, OwnerSame DEF Tick, HeldBy, Held
  <2>2. CASE Over' = Over
    BY <2>1, <2>2
  <2>3. CASE Over' # Over
    <3>1. Over' /\ token # NoRow
      BY <1>a, <1>1, <2>3 DEF Tick, Over, TypeOK, NoRow
    <3>2. Owner # Free
      BY <1>a, <3>1, OwnerHeld, OwnerUnheld, NamesAssumption
    <3>3. Contract!Expire
      BY <2>1, <3>1, <3>2 DEF Contract!Expire, Over, Held
    <3> QED
      BY <3>3 DEF Contract!LeaseNext
  <2> QED
    BY <2>2, <2>3
<1>2. CASE ReapExpired
  <2>1. Owner # Free /\ Over
    BY <1>a, <1>2, OwnerHeld, OwnerUnheld, NamesAssumption DEF ReapExpired, Over
  <2>2. Owner' = Free /\ ~ Over' /\ Held' = Held
    BY <1>2 DEF ReapExpired, DeleteRow, Owner, Over, Held
  <2>3. Contract!Reap
    BY <2>1, <2>2 DEF Contract!Reap, Over, Held
  <2> QED
    BY <2>3 DEF Contract!LeaseNext
<1>3. ASSUME NEW w \in Workers, StartAcquire(w)
      PROVE  UNCHANGED <<Owner, Over, Held>>
  <2>1. \A v \in Workers : HeldBy(v)' <=> HeldBy(v)
    BY <1>a, <1>3 DEF StartAcquire, HeldBy, TypeOK
  <2>2. Owner' = Owner
    BY <2>1, <1>3, OwnerSame DEF StartAcquire
  <2> QED
    BY <1>a, <1>3, <2>2 DEF StartAcquire, Over, Held, TypeOK
<1>4. ASSUME NEW w \in Workers, TakeOver(w) \/ Insert(w)
      PROVE  Contract!LeaseNext
  <2>1. HeldBy(w)' /\ w \notin Held /\ Held' = Held \cup {w}
    BY <1>a, <1>4 DEF TakeOver, Insert, WriteRow, HeldBy, Held, TypeOK
  <2>2. Owner' = w
    <3>1. \A v \in Workers : HeldBy(v)' => v = w
      BY <1>a, <2>1 DEF TokensFresh, HeldBy, Active
    <3>2. token' # NoRow
      BY <1>a, <2>1 DEF TokensFresh, HeldBy, Active
    <3> QED
      BY <2>1, <3>1, <3>2 DEF Owner, HeldBy, NoRow
  <2>3. Owner = Free \/ Over
    BY <1>a, <1>4 DEF TakeOver, TakesOver, Insert, Owner, Over,
       StartedInPast, TypeOK
  <2>4. \E late \in BOOLEAN : Over' = late
    BY DEF Over
  <2>5. PICK late \in BOOLEAN : Over' = late
    BY <2>4
  <2>6. Contract!Grant(w, late)
    BY <2>1, <2>2, <2>3, <2>5 DEF Contract!Grant, Contract!Grantable, Over, Held
  <2> QED
    BY <2>6 DEF Contract!LeaseNext
<1>5. ASSUME NEW w \in Workers, UpdateMatchesNothing(w) \/ InsertCollides(w)
      PROVE  UNCHANGED <<Owner, Over, Held>>
  <2>1. \A v \in Workers : HeldBy(v)' <=> HeldBy(v)
    BY <1>a, <1>5 DEF UpdateMatchesNothing, InsertCollides, HeldBy, TypeOK
  <2>2. Owner' = Owner
    BY <2>1, <1>5, OwnerSame DEF UpdateMatchesNothing, InsertCollides
  <2> QED
    BY <1>a, <1>5, <2>2
       DEF UpdateMatchesNothing, InsertCollides, Over, Held, TypeOK
<1>6. ASSUME NEW w \in Workers, Release(w)
      PROVE  Contract!LeaseNext
  <2>1. w \in Held /\ Held' = Held \ {w}
    BY <1>a, <1>6 DEF Release, Held, TypeOK
  <2>2. CASE token = mine[w]
    <3>1. Owner = w
      BY <1>a, <1>6, <2>2, OwnerHeld DEF Release, HeldBy
    <3>2. Owner' = Free /\ ~ Over'
      BY <1>6, <2>2 DEF Release, DeleteRow, Owner, Over
    <3>3. Contract!Release(w)
      BY <2>1, <3>1, <3>2 DEF Contract!Release, Over, Held
    <3> QED
      BY <3>3 DEF Contract!LeaseNext
  <2>3. CASE token # mine[w]
    <3>1. \A v \in Workers : HeldBy(v)' <=> HeldBy(v)
      BY <1>a, <1>6, <2>3 DEF Release, HeldBy, TypeOK
    <3>2. Owner' = Owner /\ Over' = Over
      BY <1>6, <2>3, <3>1, OwnerSame DEF Release, Over
    <3>3. Owner # w
      BY <1>a, <2>3, OwnerHeld, OwnerUnheld, NamesAssumption
         DEF Owner, HeldBy
    <3>4. Contract!Release(w)
      BY <2>1, <3>2, <3>3 DEF Contract!Release, Over, Held
    <3> QED
      BY <3>4 DEF Contract!LeaseNext
  <2> QED
    BY <2>2, <2>3
<1>7. ASSUME NEW w \in Workers, Renew(w)
      PROVE  Contract!LeaseNext
  <2>1. Owner = w /\ w \in Held
    BY <1>a, <1>7, OwnerHeld DEF Renew, HeldBy, Held
  <2>2. Owner' = Owner /\ Held' = Held
    BY <1>7, OwnerSame DEF Renew, HeldBy, Held
  <2>3. ~ Over'
    BY <1>a, <1>7, TimesAssumption DEF Renew, Over, TypeOK
  <2>4. Contract!Renew(w)
    BY <2>1, <2>2, <2>3 DEF Contract!Renew, Over, Held
  <2> QED
    BY <2>4 DEF Contract!LeaseNext
<1>8. ASSUME NEW w \in Workers, Crash(w)
      PROVE  Contract!LeaseNext \/ UNCHANGED <<Owner, Over, Held>>
  <2>1. Over' = Over
    BY <1>8 DEF Crash, Over
  <2>2. CASE pc[w] # "held"
    <3>1. \A v \in Workers : HeldBy(v)' <=> HeldBy(v)
      BY <1>a, <1>8, <2>2 DEF Crash, HeldBy, TypeOK
    <3>2. Owner' = Owner /\ Held' = Held
      BY <1>a, <1>8, <2>2, <3>1, OwnerSame DEF Crash, Held, TypeOK
    <3> QED
      BY <2>1, <3>2
  <2>3. CASE pc[w] = "held"
    <3>1. w \in Held /\ Held' = Held \ {w}
      BY <1>a, <1>8, <2>3 DEF Crash, Held, TypeOK
    <3>2. CASE token = mine[w]
      <4>1. Owner = w /\ token # NoRow
        BY <1>a, <2>3, <3>2, OwnerHeld DEF HeldBy
      <4>2. Owner' = Orphan
        <5>1. \A v \in Workers : ~ (pc'[v] = "held" /\ token' = mine'[v])
          BY <1>a, <1>8, <2>3, <3>2 DEF Crash, TokensFresh, Active, TypeOK
        <5> QED
          BY <1>8, <4>1, <5>1 DEF Crash, Owner, HeldBy, NoRow
      <4>3. Contract!Abandon(w)
        BY <2>1, <3>1, <4>1, <4>2 DEF Contract!Abandon, Over, Held
      <4> QED
        BY <4>3 DEF Contract!LeaseNext
    <3>3. CASE token # mine[w]
      <4>1. \A v \in Workers : HeldBy(v)' <=> HeldBy(v)
        BY <1>a, <1>8, <3>3 DEF Crash, HeldBy, TypeOK
      <4>2. Owner' = Owner
        BY <1>8, <4>1, OwnerSame DEF Crash
      <4>3. Owner # w
        BY <1>a, <3>3, OwnerHeld, OwnerUnheld, NamesAssumption
           DEF Owner, HeldBy
      <4>4. Contract!Abandon(w)
        BY <2>1, <3>1, <4>2, <4>3 DEF Contract!Abandon, Over, Held
      <4> QED
        BY <4>4 DEF Contract!LeaseNext
    <3> QED
      BY <3>2, <3>3
  <2> QED
    BY <2>2, <2>3
<1>9. CASE UNCHANGED vars
  <2>1. Owner' = Owner
    BY <1>9, OwnerSame DEF vars, HeldBy
  <2> QED
    BY <1>9, <2>1 DEF vars, Over, Held
<1> QED
  BY <1>1, <1>2, <1>3, <1>4, <1>5, <1>6, <1>7, <1>8, <1>9 DEF Next

\* The two-statement, clocked lease is the one-step lease run_binding's model
\* is built on.
THEOREM Refinement == Spec => ImplementsContract
<1>1. Init => Contract!LeaseInit
  BY DEF Init, Contract!LeaseInit, Owner, NoRow
<1>2. [][Next]_vars /\ []IInv => [][Contract!LeaseNext]_(Contract!leaseVars)
  BY ContractStep, PTL
<1> QED
  BY <1>1, <1>2, LeaseInvariant, PTL
     DEF Spec, ImplementsContract, Contract!LeaseSpec
=============================================================================
