--------------------------- MODULE LeaseContract ---------------------------
(***************************************************************************)
(* What django_connectors/locks.py promises about the lease of ONE         *)
(* Binding, without clocks, tokens or the two SQL statements of acquire:   *)
(* every operation is one step.  Lease.tla implements it; RunLifecycle.tla *)
(* builds run_binding on it.                                               *)
(*                                                                         *)
(* lease    the caller whose token is in the BindingLock row, Free when    *)
(*          there is no row, Orphan when the token belongs to a caller     *)
(*          that died                                                      *)
(* expired  whether the row's expires_at has passed                        *)
(* holders  the callers that were given a token and did not yet give it    *)
(*          back: more than one once a lease expires under its holder      *)
(***************************************************************************)
CONSTANTS Workers, Free, Orphan

ASSUME LeaseAssumption == /\ Free \notin Workers
                          /\ Orphan \notin Workers
                          /\ Free # Orphan

VARIABLES lease, expired, holders

leaseVars == <<lease, expired, holders>>

LeaseTypeOK ==
    /\ lease \in Workers \cup {Free, Orphan}
    /\ expired \in BOOLEAN
    /\ holders \subseteq Workers

LeaseInit ==
    /\ lease = Free
    /\ expired = FALSE
    /\ holders = {}

\* acquire may be granted only where no unexpired row stands in the way.
Grantable == lease = Free \/ expired

\* A stalled caller may be granted a lease that is already over (late).
Grant(w, late) ==
    /\ w \notin holders
    /\ Grantable
    /\ lease' = w
    /\ expired' = late
    /\ holders' = holders \cup {w}

\* release: the row goes only when it still carries the caller's token.
Release(w) ==
    /\ w \in holders
    /\ holders' = holders \ {w}
    /\ IF lease = w THEN lease' = Free /\ expired' = FALSE
                    ELSE UNCHANGED <<lease, expired>>

\* The caller dies: its token stays in the row and nobody can present it.
Abandon(w) ==
    /\ w \in holders
    /\ holders' = holders \ {w}
    /\ lease' = IF lease = w THEN Orphan ELSE lease
    /\ UNCHANGED expired

Renew(w) ==
    /\ w \in holders
    /\ lease = w
    /\ expired' = FALSE
    /\ UNCHANGED <<lease, holders>>

\* The clock passes expires_at.
Expire ==
    /\ lease # Free
    /\ expired' = TRUE
    /\ UNCHANGED <<lease, holders>>

\* reap_expired
Reap ==
    /\ lease # Free
    /\ expired
    /\ lease' = Free
    /\ expired' = FALSE
    /\ UNCHANGED holders

LeaseNext ==
    \/ \E w \in Workers : \/ \E late \in BOOLEAN : Grant(w, late)
                          \/ Release(w)
                          \/ Abandon(w)
                          \/ Renew(w)
    \/ Expire
    \/ Reap

LeaseSpec == LeaseInit /\ [][LeaseNext]_leaseVars
=============================================================================
