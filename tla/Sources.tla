------------------------------- MODULE Sources -------------------------------
(***************************************************************************)
(* One Binding of any of the sources, its provider and its Runs, and what  *)
(* the landing table may be relied on to show.                             *)
(***************************************************************************)
EXTENDS GraphSync, DriveSync, GmailSync, CursorSync

CONSTANTS Holds,     \* the items each kind of provider has
          Before,    \* the changes of the provider's history before that
          First      \* the scope its Binding is created with

ASSUME HoldsAssumption == Holds \in [Kinds -> SUBSET Items]

Held == Holds[kind]

\* Where an item of each kind may be, or its stamp.
Places(k) ==
    CASE k \in {"graph", "item", "file"} -> {"in", "out"}
      [] k = "drive" -> Roots \cup Folders
      [] k = "gmail" -> {0}
      [] k \in CursorKinds -> Nat
Histories(k) == Seq([id : Items, at : Places(k), gone : BOOLEAN])

\* Stamps are a clock's.
Ascending(history) ==
    \A m, n \in DOMAIN history : m <= n => history[m].at <= history[n].at

\* What is deleted for good does not come back.
Final(history) ==
    \A m, n \in DOMAIN history :
        m < n /\ history[m].gone => history[m].id # history[n].id

\* No folder is below itself.
Nested(history) ==
    \A S \in SUBSET Folders \ {{}} :
        \E f \in S : \A n \in DOMAIN history :
            \/ history[n].id # f
            \/ history[n].at \notin S
            \/ \E m \in n + 1 .. Len(history) : history[m].id = f

ASSUME BeforeAssumption ==
    \A k \in Kinds :
        /\ k \in {"graph", "item", "drive", "file", "gmail"} \cup CursorKinds
        /\ Before[k] \in Histories(k)
        /\ k \in CursorKinds => Ascending(Before[k])
        /\ k = "gmail" => Final(Before[k])
        /\ k = "drive" => Nested(Before[k])

ASSUME FirstAssumption == "drive" \in Kinds => First["drive"] \in Roots

\* Scopes a Binding of each kind may be pointed at.
Scopes ==
    CASE kind = "graph" -> {Home[i] : i \in Held}
      [] kind = "drive" -> Roots
      [] kind \in {"item", "file"} -> Held
      [] kind = "rest" -> {"column", "path"}
      [] kind = "bucket" -> {"column", "none"}
      [] OTHER -> {NoParent}

Init ==
    /\ kind \in Kinds
    /\ conf = First[kind]
    /\ log = Before[kind]
    /\ floor = 0
    /\ table = [i \in Items |-> 0]
    /\ job = Idle
    /\ tied = {}
    /\ missed = {}
    /\ CASE kind \in {"graph", "item"} -> GraphInit
         [] kind \in {"drive", "file"} -> DriveInit
         [] kind = "gmail" -> GmailInit
         [] kind \in CursorKinds -> CursorInit

HostChanges ==
    \E i \in Held :
        \/ kind \in {"graph", "item", "file"} /\ GraphChange(i)
        \/ kind = "drive" /\ DriveChange(i)
        \/ kind = "gmail" /\ GmailChange(i)
        \/ kind \in CursorKinds /\ CursorChange(i)

Progress ==
    \/ Graph \/ Item \/ Drive \/ File \/ Gmail \/ Cursor
    \/ Load

Next ==
    \/ Progress
    \/ HostChanges
    \/ Expire
    \/ Fail
    \/ \E s \in Scopes \ {First[kind]} : Repoint(s)

\* The scheduler starts Runs for ever, and a Run that nothing stops goes on.
Spec == Init /\ [][Next]_vars
FairSpec == Spec /\ WF_vars(Progress)

-----------------------------------------------------------------------------
(* Properties *)

Host(i, m) ==
    CASE kind = "graph" -> GraphHost(i, m)
      [] kind = "drive" -> DriveHost(i, m)
      [] kind = "gmail" -> GmailHost(i, m)
      [] kind \in CursorKinds -> CursorHost(i, m)

\* Changes up to here are never asked for again.
Consumed ==
    CASE kind = "graph" -> res.link
      [] kind = "drive" -> res.token
      [] kind = "gmail" -> res.history
      [] kind \in CursorKinds -> CursorRead

\* What the modules' documentation exempts.
Excused(i) ==
    \/ i \in tied
    \/ kind = "bucket" /\ i \in missed
    \/ table[i] # 0 /\ i \in missed
    \/ kind = "drive" /\ table[i] = 0 /\ Hidden(i)
    \/ kind = "graph" /\ table[i] # 0 /\ Renamed(i)

\* The feed still has to report a change of i, or of a folder the entry has
\* above it.
Unread(i) ==
    \E n \in Consumed + 1 .. Now :
        \/ log[n].id = i
        \/ /\ kind = "drive"
           /\ i \in DOMAIN res.files
           /\ log[n].id \in KnownAbove(i)

Feeds == {"graph", "drive", "gmail"} \cup CursorKinds

\* A stored cursor never runs ahead of the table: whatever failed, expired or
\* changed during the reading, a row that does not show its item as it is has
\* a change behind it that the feed has still to report.
CursorNeverAhead ==
    kind \in Feeds =>
        \A i \in Held : table[i] = Host(i, Now) \/ Unread(i) \/ Excused(i)

\* Drive can name what leaves the scope: a live row of a file that is not in
\* the entry is one that an arbitrary pick, an earlier scope or a deletion
\* before the last enumeration has left.
LiveRowsRemembered ==
    kind = "drive" /\ res.walked =>
        \A i \in Held \ Folders :
            \/ table[i] = 0
            \/ i \in DOMAIN res.files
            \/ i \in tied
            \/ i \in missed

\* "A 404 on an item no run has landed is a wrong id": no row is landed for an
\* id the provider never knew.
WrongIdFails ==
    kind = "file" /\ job.pc = "extracted" =>
        \A i \in Items : <<i, 0>> \in job.batch => LastOf(i, Now) # 0

\* When the provider is quiet and nothing fails any more, the table comes to
\* show it, whatever had expired: no Binding stays behind a dead token.
Quiet == <>[][Progress]_vars
CatchesUp ==
    Quiet => <>[](kind \in Feeds =>
                    \A i \in Held : table[i] = Host(i, Now) \/ Excused(i))
=============================================================================
