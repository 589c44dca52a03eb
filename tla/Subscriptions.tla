---------------------------- MODULE Subscriptions ----------------------------
(***************************************************************************)
(* webhooks/services.py: push subscriptions of one Binding, registered     *)
(* with a provider that forgets them when they expire.  Every service      *)
(* loads a row, talks to the provider and saves the row, and nothing locks *)
(* it in between.  0 stands for NULL; the code's MIN_RENEW_LEAD and its    *)
(* RENEW_RETRY_INTERVAL are equal, and one constant here.                  *)
(***************************************************************************)
EXTENDS Integers

CONSTANTS Subs,        \* rows that may come to be
          Callers,     \* sweeps, admin actions and API requests
          MinLead,     \* MIN_RENEW_LEAD, and RENEW_RETRY_INTERVAL
          Lifetimes,   \* of a registration, by provider; 0: it names no expiry
          MaxTime      \* bound: the clock

ASSUME SubsAssumption == /\ MinLead \in Nat \ {0}
                         /\ Lifetimes \subseteq Nat
                         /\ MaxTime \in Nat

VARIABLES
    now,       \* the clock
    row,       \* WebhookSubscription: status, expires, renew
    life,      \* how long the provider keeps a registration; 0: for ever
    remote,    \* when the provider forgets the registration; 0: it has none
    enabled,   \* Binding.webhook_enabled
    call,      \* what a caller is doing, with the objects it has loaded
    ended,     \* history: rows whose deletion has been asked for
    hasty,     \* history: rows somebody renewed before they were active
    retried    \* history: rows whose renewal failed and is to be tried again
vars == <<now, row, life, remote, enabled, call, ended, hasty, retried>>

Live == {"pending", "active"}
Statuses == Live \cup {"none", "expired", "failed", "deleted"}
Rows == [status : Statuses, expires : Nat, renew : Nat]
Forever == MaxTime + 1

\* A call keeps the objects it has loaded, and what the adapter answered: the
\* expiry that is granted and the moment of renewal it names, each or neither.
Idle == [step |-> "idle"]
Calls ==
    {Idle}
    \cup [step : {"create", "delete", "deleted"}, sub : Subs,
          enabled : BOOLEAN]
    \cup [step : {"created"}, sub : Subs, enabled : BOOLEAN,
          granted : Nat, named : Nat]
    \cup [step : {"renew"}, sub : Subs, loaded : Rows, at : Nat \ {0}]
    \cup [step : {"renewed"}, sub : Subs, loaded : Rows, at : Nat \ {0},
          granted : Nat, named : Nat]

TypeOK ==
    /\ now \in Nat \ {0}
    /\ row \in [Subs -> Rows]
    /\ life \in Lifetimes
    /\ remote \in [Subs -> Nat]
    /\ enabled \in BOOLEAN
    /\ call \in [Callers -> Calls]
    /\ ended \subseteq Subs
    /\ hasty \subseteq Subs
    /\ retried \subseteq Subs

Init ==
    /\ now = 1
    /\ row = [s \in Subs |-> [status |-> "none", expires |-> 0, renew |-> 0]]
    /\ life \in Lifetimes
    /\ remote = [s \in Subs |-> 0]
    /\ enabled = FALSE
    /\ call = [c \in Callers |-> Idle]
    /\ ended = {}
    /\ hasty = {}
    /\ retried = {}

Registered(s) == remote[s] > now
Least(a, b) == IF a < b THEN a ELSE b
Greatest(a, b) == IF a < b THEN b ELSE a

-----------------------------------------------------------------------------
(* When to renew *)

\* Mutant: five minutes are five minutes, however short the lifetime.
UncappedLead(lifetime) == Greatest(lifetime \div 4, MinLead)

\* A quarter of the lifetime, five minutes at least, the lifetime at most.
Lead(lifetime) == Least(Greatest(lifetime \div 4, MinLead), lifetime)

\* renew_at_for.
RenewAt(expires, at) ==
    CASE expires = 0 -> 0
      [] expires # 0 /\ expires <= at -> at
      [] OTHER -> expires - Lead(expires - at)

\* _apply_registration, on the row that was loaded.  An adapter that names no
\* expiry leaves the one the row has.
Applied(loaded, granted, named, at) ==
    LET expires == IF granted = 0 THEN loaded.expires ELSE granted
    IN  [status |-> "active", expires |-> expires,
         renew |-> IF named # 0 THEN named ELSE RenewAt(expires, at)]

\* Mutant: the next attempt is one interval away, whatever the expiry.
RetryLater(current, loaded, at) ==
    IF loaded.expires # 0 /\ loaded.expires <= at
    THEN [current EXCEPT !.status = "failed"]
    ELSE [current EXCEPT !.renew = at + MinLead]

\* _record_renew_failure: the changed columns of the row that was loaded, over
\* the row as it is.
FailedRenewal(current, loaded, at) ==
    IF loaded.expires # 0 /\ loaded.expires <= at
    THEN [current EXCEPT !.status = "failed"]
    ELSE [current EXCEPT !.renew = IF loaded.expires = 0 THEN at + MinLead
                                   ELSE Least(at + MinLead, loaded.expires)]

-----------------------------------------------------------------------------
(* Services *)

Goes(c, next) == call' = [call EXCEPT ![c] = next]
Ends(c) == Goes(c, Idle)

\* The row is saved as it was loaded and changed, over what it has become.
Saved(s, value) == row' = [row EXCEPT ![s] = value]

\* create_subscription: the row first, then the provider.
Create(c, s) ==
    /\ call[c] = Idle
    /\ row[s].status = "none"
    /\ row' = [row EXCEPT ![s].status = "pending"]
    /\ Goes(c, [step |-> "create", sub |-> s, enabled |-> enabled])
    /\ UNCHANGED <<now, remote, enabled, ended, hasty, retried>>

\* The provider registers the callback, and keeps it for its lifetime.  An
\* adapter that names a moment of renewal names one before the expiry.
Granted == IF life = 0 THEN 0 ELSE now + life
NamedMoments == {0} \cup now .. (IF life = 0 THEN MaxTime ELSE Granted - 1)
Registers(s) ==
    remote' = [remote EXCEPT ![s] = IF life = 0 THEN Forever ELSE Granted]

ProviderCreates(c) ==
    /\ call[c].step = "create"
    /\ Registers(call[c].sub)
    /\ \E named \in NamedMoments :
          Goes(c, [step |-> "created", sub |-> call[c].sub,
                   enabled |-> call[c].enabled,
                   granted |-> Granted, named |-> named])
    /\ UNCHANGED <<now, row, enabled, ended, hasty, retried>>

CreateFails(c) ==
    /\ call[c].step = "create"
    /\ Saved(call[c].sub, [row[call[c].sub] EXCEPT !.status = "failed"])
    /\ Ends(c)
    /\ UNCHANGED <<now, remote, enabled, ended, hasty, retried>>

\* The row, then the Binding, if the object that was passed in says so.
CreateSaves(c) ==
    /\ call[c].step = "created"
    /\ LET s == call[c].sub
           blank == [status |-> "pending", expires |-> 0, renew |-> 0]
       IN  Saved(s, Applied(blank, call[c].granted, call[c].named, now))
    /\ enabled' = (enabled \/ ~ call[c].enabled)
    /\ Ends(c)
    /\ UNCHANGED <<now, remote, ended, hasty, retried>>

Due(s) == row[s].status = "active" /\ row[s].renew # 0 /\ row[s].renew <= now

\* renew_due_webhooks selects a row, or an operator does: any live one.
Select(c, s) ==
    /\ call[c] = Idle
    /\ Due(s) \/ row[s].status \in Live
    /\ Goes(c, [step |-> "renew", sub |-> s, loaded |-> row[s], at |-> now])
    /\ hasty' = IF row[s].status = "pending" THEN hasty \cup {s} ELSE hasty
    /\ UNCHANGED <<now, row, remote, enabled, ended, retried>>

Renewed(c, named) == [step |-> "renewed", sub |-> call[c].sub,
                      loaded |-> call[c].loaded, at |-> call[c].at,
                      granted |-> Granted, named |-> named]

\* Mutant: an answer is taken for granted.
RenewedUnasked(c) ==
    /\ call[c].step = "renew"
    /\ \E named \in NamedMoments : Goes(c, Renewed(c, named))
    /\ UNCHANGED <<now, row, remote, enabled, ended, hasty, retried>>

ProviderRenews(c) ==
    /\ call[c].step = "renew"
    /\ Registered(call[c].sub)
    /\ Registers(call[c].sub)
    /\ \E named \in NamedMoments : Goes(c, Renewed(c, named))
    /\ UNCHANGED <<now, row, enabled, ended, hasty, retried>>

RenewalSaves(c) ==
    /\ call[c].step = "renewed"
    /\ Saved(call[c].sub, Applied(call[c].loaded, call[c].granted,
                                  call[c].named, call[c].at))
    /\ retried' = retried \ {call[c].sub}
    /\ Ends(c)
    /\ UNCHANGED <<now, remote, enabled, ended, hasty>>

\* The provider is down, or knows no such registration.
RenewalFails(c) ==
    /\ call[c].step = "renew"
    /\ LET s == call[c].sub
       IN  /\ Saved(s, FailedRenewal(row[s], call[c].loaded, call[c].at))
           /\ retried' = retried \cup {s}
    /\ Ends(c)
    /\ UNCHANGED <<now, remote, enabled, ended, hasty>>

\* expire_subscriptions: one UPDATE, and no call.
Lapsed(s) == row[s].status \in Live /\ row[s].expires \in 1 .. now
Expire ==
    /\ \E s \in Subs : Lapsed(s)
    /\ row' = [s \in Subs |->
                  IF Lapsed(s) THEN [row[s] EXCEPT !.status = "expired"]
                  ELSE row[s]]
    /\ UNCHANGED <<now, remote, enabled, call, ended, hasty, retried>>

\* delete_subscription: the provider first, which may fail.
Delete(c, s) ==
    /\ call[c] = Idle
    /\ row[s].status # "none"
    /\ \/ remote' = [remote EXCEPT ![s] = 0]
       \/ remote' = remote
    /\ Goes(c, [step |-> "delete", sub |-> s, enabled |-> enabled])
    /\ ended' = ended \cup {s}
    /\ UNCHANGED <<now, row, enabled, hasty, retried>>

MarkDeleted(c) ==
    /\ call[c].step = "delete"
    /\ row' = [row EXCEPT ![call[c].sub].status = "deleted"]
    /\ Goes(c, [call[c] EXCEPT !.step = "deleted"])
    /\ UNCHANGED <<now, remote, enabled, ended, hasty, retried>>

\* Nobody else delivers to the Binding.
StopListening(c) ==
    /\ call[c].step = "deleted"
    /\ enabled' = (enabled /\ ~ (/\ call[c].enabled
                                 /\ \A s \in Subs \ {call[c].sub} :
                                       row[s].status \notin Live))
    /\ Ends(c)
    /\ UNCHANGED <<now, row, remote, ended, hasty, retried>>

\* The process is killed between two statements.
Crash(c) ==
    /\ call[c] # Idle
    /\ Ends(c)
    /\ UNCHANGED <<now, row, remote, enabled, ended, hasty, retried>>

Tick ==
    /\ now < MaxTime
    /\ now' = now + 1
    /\ UNCHANGED <<row, remote, enabled, call, ended, hasty, retried>>

Step(c) ==
    \/ \E s \in Subs : Create(c, s) \/ Select(c, s) \/ Delete(c, s)
    \/ ProviderCreates(c) \/ CreateFails(c) \/ CreateSaves(c)
    \/ ProviderRenews(c) \/ RenewalSaves(c) \/ RenewalFails(c)
    \/ MarkDeleted(c) \/ StopListening(c)
    \/ Crash(c)

Next ==
    /\ Expire \/ Tick \/ \E c \in Callers : Step(c)
    /\ UNCHANGED life

Spec == Init /\ [][Next]_vars

-----------------------------------------------------------------------------
(* Properties *)

\* An active subscription is due for renewal already, or will be strictly
\* before the provider forgets it, however short the lifetime, whatever failed
\* and whoever saved last; only after a failed renewal at that very moment,
\* when it is too late.  (Not one that was renewed while it was being created,
\* which saw no expiry.)
DueBeforeItLapses ==
    \A s \in Subs :
        /\ row[s].status = "active"
        /\ life # 0
        /\ s \notin hasty \cup ended
        => /\ row[s].renew # 0
           /\ \/ row[s].renew <= now
              \/ row[s].renew < remote[s]
              \/ s \in retried /\ row[s].renew = remote[s]

\* A row never promises more than the provider keeps: one that is accepted as
\* live is registered for as long as its expiry says, unless somebody asked for
\* its deletion: a renewal that waits for its answer saves over that.
NeverClaimsMore ==
    \A s \in Subs :
        row[s].status = "active" /\ s \notin ended
            => row[s].expires <= remote[s]
=============================================================================
