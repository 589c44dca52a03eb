--------------------------- MODULE SourcesProofs ---------------------------
(***************************************************************************)
(* What the run of Sources.tla checks for a few items and changes, for any *)
(* number of them: no row is landed for an id the provider never knew, a   *)
(* live row of Drive is one its entry remembers, and a stored cursor never *)
(* runs ahead of the table.                                                *)
(***************************************************************************)
EXTENDS Sources, FiniteSetTheorems, WellFoundedInduction, TLAPS

-----------------------------------------------------------------------------
(* Extrema *)

\* A set of naturals that is not empty has a least element.
LEMMA Least ==
    ASSUME NEW T \in SUBSET Nat, T # {}
    PROVE  \E m \in T : \A n \in T : m <= n
<1> DEFINE R == OpToRel(<, Nat)
<1>1. IsWellFoundedOn(R, Nat)
  BY NatLessThanWellFounded
<1>2. PICK m \in T : \A n \in T : ~ (<<n, m>> \in R)
  <2> HIDE DEF R
  <2> QED
    BY <1>1, WFMin, Zenon
<1>3. \A n \in T : ~ (n < m)
  BY <1>2 DEF OpToRel
<1> QED
  BY <1>3

\* Max is the greatest element of a set that is bounded.
LEMMA Greatest ==
    ASSUME NEW S \in SUBSET Nat, S # {}, NEW b \in Nat, \A n \in S : n <= b
    PROVE  Max(S) \in S /\ \A n \in S : n <= Max(S)
<1> DEFINE T == {b - n : n \in S}
<1>1. T \in SUBSET Nat
  <2>1. \A n \in S : b - n \in Nat
    OBVIOUS
  <2> QED
    BY <2>1
<1>2. T # {}
  OBVIOUS
<1>3. PICK d \in T : \A n \in T : d <= n
  <2> HIDE DEF T
  <2> QED
    BY <1>1, <1>2, Least
<1>4. PICK m \in S : d = b - m
  OBVIOUS
<1>5. \A n \in S : b - m <= b - n
  BY <1>3, <1>4
<1>6. \A n \in S : m >= n
  BY <1>5
<1> QED
  BY <1>6 DEF Max

-----------------------------------------------------------------------------
(* The provider's history *)

Changes(k) == [id : Items, at : Places(k), gone : BOOLEAN]

\* LastOf, of any history.
LastIn(s, i, m) == Max({0} \cup {n \in 1 .. m : s[n].id = i})

LEMMA LastInIs ==
    ASSUME NEW s, NEW i, NEW m \in Nat
    PROVE  /\ LastIn(s, i, m) \in 0 .. m
           /\ LastIn(s, i, m) # 0 => s[LastIn(s, i, m)].id = i
           /\ \A n \in 1 .. m : s[n].id = i => n <= LastIn(s, i, m)
<1> DEFINE S == {0} \cup {n \in 1 .. m : s[n].id = i}
<1>1. S \in SUBSET Nat /\ S # {} /\ \A n \in S : n <= m
  OBVIOUS
<1>2. Max(S) \in S /\ \A n \in S : n <= Max(S)
  <2> HIDE DEF S
  <2> QED
    BY <1>1, Greatest
<1> QED
  BY <1>2 DEF LastIn

\* It is the only position that is so.
LEMMA LastInOnly ==
    ASSUME NEW s, NEW i, NEW m \in Nat, NEW l \in 0 .. m,
           l # 0 => s[l].id = i,
           \A n \in 1 .. m : s[n].id = i => n <= l
    PROVE  LastIn(s, i, m) = l
<1> DEFINE k == LastIn(s, i, m)
<1>1. /\ k \in 0 .. m
      /\ k # 0 => s[k].id = i
      /\ \A n \in 1 .. m : s[n].id = i => n <= k
  BY LastInIs
<1> HIDE DEF k
<1>2. k <= l /\ l <= k
  BY <1>1
<1>3. k = l
  BY <1>1, <1>2
<1> QED
  BY <1>3 DEF k

\* A change moves its own item to the end and no other.
LEMMA LastInAppend ==
    ASSUME NEW C, NEW s \in Seq(C), NEW c \in C, NEW i
    PROVE  LastIn(Append(s, c), i, Len(s) + 1)
             = IF c.id = i THEN Len(s) + 1 ELSE LastIn(s, i, Len(s))
<1> DEFINE t == Append(s, c)
           k == LastIn(s, i, Len(s))
<1>1. /\ Len(s) \in Nat
      /\ \A n \in 1 .. Len(s) : t[n] = s[n]
      /\ t[Len(s) + 1] = c
  OBVIOUS
<1>2. /\ k \in 0 .. Len(s)
      /\ k # 0 => s[k].id = i
      /\ \A n \in 1 .. Len(s) : s[n].id = i => n <= k
  BY <1>1, LastInIs
<1> HIDE DEF t, k
<1>3. CASE c.id = i
  <2>1. LastIn(t, i, Len(s) + 1) = Len(s) + 1
    BY <1>1, <1>3, LastInOnly
  <2> QED
    BY <1>3, <2>1 DEF t
<1>4. CASE c.id # i
  <2>1. \A n \in 1 .. Len(s) + 1 : t[n].id = i => n <= k
    BY <1>1, <1>2, <1>4
  <2>2. k # 0 => t[k].id = i
    BY <1>1, <1>2
  <2>3. LastIn(t, i, Len(s) + 1) = k
    BY <1>1, <1>2, <2>1, <2>2, LastInOnly
  <2> QED
    BY <1>4, <2>3 DEF t, k
<1> QED
  BY <1>3, <1>4

\* The history is one its provider may have.
Logged == kind \in Kinds /\ log \in Histories(kind)

\* What each item has come to.
Last == [i \in Items |-> LastOf(i, Now)]
Live == {i \in Items : Alive(i, Now)}
Spot == [i \in Items |-> Entry(i, Now).at]

LEMMA Reads ==
    ASSUME Logged
    PROVE  /\ Now \in Nat
           /\ \A i \in Items :
                 /\ LastOf(i, Now) = Last[i]
                 /\ Entry(i, Now) = log[Last[i]]
                 /\ Entry(i, Now).at = Spot[i]
                 /\ Alive(i, Now) <=> i \in Live
                 /\ Last[i] \in 0 .. Now
                 /\ Last[i] # 0 => /\ log[Last[i]] \in Changes(kind)
                                   /\ log[Last[i]].id = i
                                   /\ Spot[i] \in Places(kind)
                 /\ i \in Live <=> Last[i] # 0 /\ ~ Entry(i, Now).gone
                 /\ \A n \in 1 .. Now : log[n].id = i => n <= Last[i]
<1>1. Now \in Nat /\ log \in Seq(Changes(kind))
  BY DEF Logged, Histories, Now, Changes
<1>2. SUFFICES ASSUME NEW i \in Items
               PROVE  /\ LastOf(i, Now) = Last[i]
                      /\ Entry(i, Now) = log[Last[i]]
                      /\ Entry(i, Now).at = Spot[i]
                      /\ Alive(i, Now) <=> i \in Live
                      /\ Last[i] \in 0 .. Now
                      /\ Last[i] # 0 => /\ log[Last[i]] \in Changes(kind)
                                        /\ log[Last[i]].id = i
                                        /\ Spot[i] \in Places(kind)
                      /\ i \in Live <=> Last[i] # 0 /\ ~ Entry(i, Now).gone
                      /\ \A n \in 1 .. Now : log[n].id = i => n <= Last[i]
  BY <1>1
<1>3. LastOf(i, Now) = Last[i]
  BY DEF Last
<1>4. Last[i] = LastIn(log, i, Now)
  BY <1>3 DEF LastOf, LastIn
<1>5. /\ Last[i] \in 0 .. Now
      /\ Last[i] # 0 => log[Last[i]].id = i
      /\ \A n \in 1 .. Now : log[n].id = i => n <= Last[i]
  BY <1>1, <1>4, LastInIs
<1>6. Entry(i, Now) = log[Last[i]] /\ Entry(i, Now).at = Spot[i]
  BY <1>3 DEF Entry, Spot
<1>7. Last[i] # 0 => log[Last[i]] \in Changes(kind)
  BY <1>1, <1>5 DEF Now
<1>8. Last[i] # 0 => Spot[i] \in Places(kind)
  BY <1>6, <1>7 DEF Changes
<1>9. Alive(i, Now) <=> i \in Live
  BY DEF Live
<1>10. i \in Live <=> Last[i] # 0 /\ ~ Entry(i, Now).gone
  BY <1>3, <1>9 DEF Alive
<1> QED
  BY <1>3, <1>5, <1>6, <1>7, <1>8, <1>9, <1>10

\* While nothing changes at the provider nothing is read otherwise.
LEMMA Standstill ==
    ASSUME log' = log
    PROVE  Now' = Now /\ Last' = Last /\ Live' = Live /\ Spot' = Spot
<1>1. Now' = Now
  BY DEF Now
<1>2. \A i : LastOf(i, Now) = LastIn(log, i, Now)
  BY DEF LastOf, LastIn
<1>3. \A i : LastOf(i, Now)' = LastIn(log', i, Now')
  BY DEF LastOf, LastIn
<1>4. \A i : LastOf(i, Now)' = LastOf(i, Now)
  BY <1>1, <1>2, <1>3
<1>5. \A i : Entry(i, Now)' = Entry(i, Now)
  BY <1>4 DEF Entry
<1>6. \A i : Alive(i, Now)' <=> Alive(i, Now)
  BY <1>4, <1>5 DEF Alive
<1> QED
  BY <1>1, <1>4, <1>5, <1>6 DEF Last, Live, Spot

\* A change gives its own item a new position, and no other item.
Grown(j, at, gone) ==
    /\ Logged'
    /\ Now' = Now + 1
    /\ Last' = [Last EXCEPT ![j] = Now + 1]
    /\ \A i \in Items \ {j} : i \in Live' <=> i \in Live
    /\ gone => j \notin Live'
    /\ \A i \in Items \ {j} : Last[i] # 0 => Spot'[i] = Spot[i]
    /\ Spot'[j] = at
    /\ \A n \in 1 .. Now : log'[n] = log[n]
    /\ log'[Now + 1] = [id |-> j, at |-> at, gone |-> gone]

LEMMA Changing ==
    ASSUME Logged, NEW j \in Items, NEW at \in Places(kind),
           NEW gone \in BOOLEAN, Change(j, at, gone)
    PROVE  Grown(j, at, gone)
<1> DEFINE c == [id |-> j, at |-> at, gone |-> gone]
<1>1. Now \in Nat /\ log \in Seq(Changes(kind)) /\ c \in Changes(kind)
  BY DEF Logged, Histories, Now, Changes
<1>2. log' = Append(log, c) /\ kind' = kind
  BY DEF Change
<1> HIDE DEF c
<1>3. Logged'
  BY <1>1, <1>2 DEF Logged, Histories, Changes
<1>4. Now' = Now + 1
  BY <1>1, <1>2 DEF Now
<1>5. /\ \A n \in 1 .. Now : log'[n] = log[n]
      /\ log'[Now + 1] = c
  BY <1>1, <1>2 DEF Now
<1>6. \A i : LastOf(i, Now)' = IF c.id = i THEN Now + 1 ELSE LastOf(i, Now)
  <2>1. \A i : LastOf(i, Now) = LastIn(log, i, Now)
    BY DEF LastOf, LastIn
  <2>2. \A i : LastOf(i, Now)' = LastIn(log', i, Now')
    BY DEF LastOf, LastIn
  <2>3. \A i : LastIn(log', i, Now + 1)
                 = IF c.id = i THEN Now + 1 ELSE LastIn(log, i, Now)
    BY <1>1, <1>2, LastInAppend DEF Now
  <2> QED
    BY <1>4, <2>1, <2>2, <2>3
<1>7. c.id = j
  BY DEF c
<1>8. Last' = [Last EXCEPT ![j] = Now + 1]
  BY <1>6, <1>7 DEF Last
<1>9. \A i \in Items \ {j} : Last[i] # 0 => Entry(i, Now)' = Entry(i, Now)
  <2> SUFFICES ASSUME NEW i \in Items \ {j}, Last[i] # 0
               PROVE  Entry(i, Now)' = Entry(i, Now)
    OBVIOUS
  <2>1. LastOf(i, Now)' = LastOf(i, Now) /\ LastOf(i, Now) = Last[i]
    BY <1>6, <1>7 DEF Last
  <2>2. Last[i] \in 1 .. Now
    BY Reads
  <2>3. log'[Last[i]] = log[Last[i]]
    BY <1>5, <2>2
  <2> QED
    BY <2>1, <2>3 DEF Entry
<1>10. Entry(j, Now)' = c
  BY <1>5, <1>6, <1>7 DEF Entry
<1>11. \A i \in Items \ {j} : Alive(i, Now)' <=> Alive(i, Now)
  BY <1>6, <1>7, <1>9 DEF Alive, Last
<1>12. Alive(j, Now)' <=> ~ gone
  BY <1>1, <1>6, <1>7, <1>10 DEF Alive, c
<1>13. /\ \A i \in Items \ {j} : i \in Live' <=> i \in Live
       /\ gone => j \notin Live'
  BY <1>11, <1>12 DEF Live
<1>14. \A i \in Items \ {j} : Last[i] # 0 => Spot'[i] = Spot[i]
  BY <1>9 DEF Spot
<1>15. Spot'[j] = at
  BY <1>10 DEF Spot, c
<1> QED
  BY <1>3, <1>4, <1>5, <1>8, <1>13, <1>14, <1>15 DEF c, Grown

-----------------------------------------------------------------------------
(* The package *)

\* Each row is an item's, as of a change that has happened, or a tombstone.
Packed == job.batch \in SUBSET (Items \X (0 .. Now))

\* Two candidates for one row are a tie.
LEMMA TwoAreTied ==
    ASSUME Logged, Packed, NEW i, ~ Ties(i),
           NEW a \in Candidates(i), NEW b \in Candidates(i)
    PROVE  a = b
<1>1. IsFiniteSet(Items \X (0 .. Now))
  <2>1. IsFiniteSet(0 .. Now)
    BY Reads, FS_Interval
  <2>2. IsFiniteSet(Items)
    BY SyncAssumption
  <2> QED
    BY <2>1, <2>2, FS_Product
<1>2. Candidates(i) \in SUBSET (Items \X (0 .. Now))
  BY DEF Candidates, Of, Newest, Packed
<1>3. IsFiniteSet(Candidates(i))
  BY <1>1, <1>2, FS_Subset
<1>4. ~ Cardinality(Candidates(i)) > 1
  BY DEF Ties, Candidates, Sorted
<1>5. SUFFICES ASSUME a # b
               PROVE  FALSE
  OBVIOUS
<1>6. {a} \in SUBSET Candidates(i) /\ {a} # Candidates(i)
  BY <1>5
<1>7. Cardinality({a}) = 1
  BY FS_Singleton
<1>8. Cardinality({a}) <= Cardinality(Candidates(i))
      /\ Cardinality({a}) # Cardinality(Candidates(i))
  BY <1>3, <1>6, FS_Subset
<1>9. Cardinality(Candidates(i)) \in Nat
  BY <1>3, FS_CardinalityType
<1> QED
  BY <1>4, <1>7, <1>8, <1>9

\* What a load makes of the rows: those of the package show one of its
\* candidates, the one there is if nothing is tied; the others stay.
LEMMA Loading ==
    ASSUME Logged, Packed, table \in [Items -> Nat], Load
    PROVE  /\ table' \in [Items -> Nat]
           /\ \A i \in Items \ Picks :
                 /\ table'[i] = table[i]
                 /\ i \in tied' <=> i \in tied
                 /\ i \in missed' <=> i \in missed \/ i \in job.unseen
           /\ \A i \in Picks :
                 /\ <<i, table'[i]>> \in Candidates(i)
                 /\ i \in missed' <=> i \in job.unseen
                 /\ i \notin tied' =>
                       \A b \in Candidates(i) : b[2] = table'[i]
<1>1. PICK pick \in [Picks -> Versions] :
         /\ \A i \in Picks : <<i, pick[i]>> \in Candidates(i)
         /\ table' = Over(pick, table)
  BY DEF Load
<1>2. Picks \subseteq Items
  BY DEF Picks, Packed
<1>3. \A i \in Items : table'[i] = IF i \in Picks THEN pick[i] ELSE table[i]
  BY <1>1, <1>2 DEF Over
<1>4. DOMAIN table' = Items /\ table' = [i \in Items |-> table'[i]]
  BY <1>1, <1>2 DEF Over
<1>5. \A i \in Picks : pick[i] \in 0 .. Now
  <2>1. \A i \in Picks : <<i, pick[i]>> \in Items \X (0 .. Now)
    BY <1>1 DEF Candidates, Of, Newest, Packed
  <2> QED
    BY <2>1
<1>6. table' \in [Items -> Nat]
  BY <1>2, <1>3, <1>4, <1>5, Reads
<1>7. tied' = (tied \ Picks) \cup {i \in Picks : Ties(i)}
      /\ missed' = (missed \ Picks) \cup job.unseen
  BY DEF Load
<1>8. ASSUME NEW i \in Picks, i \notin tied', NEW b \in Candidates(i)
      PROVE  b[2] = table'[i]
  <2>1. ~ Ties(i)
    BY <1>7, <1>8
  <2>2. <<i, pick[i]>> \in Candidates(i)
    BY <1>1
  <2>3. b = <<i, pick[i]>>
    BY <1>8, <2>1, <2>2, TwoAreTied
  <2> QED
    BY <1>2, <1>3, <2>3
<1>9. \A i \in Picks : <<i, table'[i]>> \in Candidates(i)
  BY <1>1, <1>2, <1>3
<1> QED
  BY <1>2, <1>3, <1>6, <1>7, <1>8, <1>9

-----------------------------------------------------------------------------
(* What every kind of source has in common *)

Common ==
    /\ Logged
    /\ kind \in CursorKinds => Ascending(log)
    /\ kind = "gmail" => Final(log)

LEMMA CommonInit == Init => Common
<1> SUFFICES ASSUME Init
             PROVE  Common
  OBVIOUS
<1>1. Logged
  BY BeforeAssumption DEF Init, Logged
<1>2. /\ kind \in CursorKinds => Ascending(log)
      /\ kind = "gmail" => Final(log)
  BY BeforeAssumption DEF Init
<1> QED
  BY <1>1, <1>2 DEF Init, Common

\* Neither the Binding nor its Run takes a step.
Aside == UNCHANGED <<landed, job>>

\* The resource of a source goes on.
Goes ==
    /\ log' = log
    /\ UNCHANGED landed
    /\ \/ kind = "graph" /\ Graph
       \/ kind = "item" /\ Item
       \/ kind = "drive" /\ Drive
       \/ kind = "file" /\ File
       \/ kind = "gmail" /\ Gmail
       \/ kind \in CursorKinds /\ Cursor

\* A step is a change at the provider, or leaves the history as it is.
LEMMA Steps ==
    ASSUME [Next]_vars
    PROVE  /\ kind' = kind
           /\ log' = log \/ HostChanges
           /\ \/ Aside
              \/ log' = log /\ job' = Idle /\ UNCHANGED landed
              \/ log' = log /\ Load
              \/ Goes
<1>1. CASE UNCHANGED vars
  BY <1>1 DEF vars, Aside, landed
<1>2. CASE Graph
  BY <1>2 DEF Graph, GraphStart, Delta, Resync, Page, LastPage, Reading,
     Begin, Go, Finish, hostVars, Goes
<1>3. CASE Item
  BY <1>3 DEF Item, ItemStart, SingleItem, Reading, Begin, Finish, hostVars,
     Goes
<1>4. CASE Drive
  BY <1>4 DEF Drive, DriveStart, StartToken, Walk, WalkEnds, FeedStart,
     TokenExpired, FeedChange, FeedEnds, Reading, Begin, Go, Finish, hostVars,
     Goes
<1>5. CASE File
  BY <1>5 DEF File, FileStart, SingleFile, Reading, Begin, Finish, hostVars,
     Goes
<1>6. CASE Gmail
  BY <1>6 DEF Gmail, GmailStart, HistoryPage, HistoryTooOld, Plan,
     FetchChanged, EmitDeleted, Profile, ListPage, FetchListed, Park,
     FullSyncEnds, Reading, Begin, Go, Finish, hostVars, Goes
<1>7. CASE Cursor
  BY <1>7 DEF Cursor, CursorStart, Query, ApiPage, ListFiles, ReadFile,
     FileGone, LastFile, Reading, Begin, Go, Finish, Fail, hostVars, Goes,
     CursorKinds
<1>8. CASE Load \/ Fail
  BY <1>8 DEF Load, Fail, hostVars
<1>9. CASE Expire \/ \E s \in Scopes \ {First[kind]} : Repoint(s)
  BY <1>9 DEF Expire, Repoint, hostVars, Aside
<1>10. CASE HostChanges
  BY <1>10 DEF HostChanges, GraphChange, DriveChange, GmailChange,
     CursorChange, Change, Aside
<1> QED
  BY <1>1, <1>2, <1>3, <1>4, <1>5, <1>6, <1>7, <1>8, <1>9, <1>10
  DEF Next, Progress

\* A change is one of an item, to a place of its kind.
LEMMA HostChange ==
    ASSUME Common, HostChanges
    PROVE  \E j \in Held, at \in Places(kind), gone \in BOOLEAN :
              /\ Change(j, at, gone)
              /\ kind = "gmail" => Last[j] = 0 \/ j \in Live
              /\ kind \in CursorKinds => at \in LastStamp .. LastStamp + 1
<1>1. PICK j \in Held :
         \/ kind \in {"graph", "item", "file"} /\ GraphChange(j)
         \/ kind = "drive" /\ DriveChange(j)
         \/ kind = "gmail" /\ GmailChange(j)
         \/ kind \in CursorKinds /\ CursorChange(j)
  BY DEF HostChanges
<1>2. Held \subseteq Items /\ Logged
  BY HoldsAssumption DEF Held, Common, Logged
<1>3. CASE kind \in {"graph", "item", "file"} /\ GraphChange(j)
  BY <1>3 DEF GraphChange, Places, CursorKinds
<1>4. CASE kind = "drive" /\ DriveChange(j)
  BY <1>4 DEF DriveChange, Places, CursorKinds
<1>5. CASE kind = "gmail" /\ GmailChange(j)
  <2>1. Last[j] = 0 \/ j \in Live
    BY <1>2, <1>5, Reads DEF GmailChange
  <2> QED
    BY <1>5, <2>1 DEF GmailChange, Places, CursorKinds
<1>6. CASE kind \in CursorKinds /\ CursorChange(j)
  <2>1. PICK at \in LastStamp .. LastStamp + 1, gone \in BOOLEAN :
           Change(j, at, gone)
    BY <1>6 DEF CursorChange
  <2>2. Places(kind) = Nat
    BY <1>6 DEF Places, CursorKinds
  <2>3. Now \in Nat /\ log \in Seq(Changes(kind))
    BY <1>2 DEF Logged, Histories, Now, Changes
  <2>4. Now # 0 => log[Now] \in Changes(kind)
    BY <2>3 DEF Now
  <2>5. LastStamp \in Nat
    BY <2>2, <2>4 DEF LastStamp, Changes
  <2> QED
    BY <1>6, <2>1, <2>2, <2>5 DEF CursorKinds
<1> QED
  BY <1>1, <1>3, <1>4, <1>5, <1>6

\* The history stays one that its provider may have.
LEMMA CommonStep == Common /\ [Next]_vars => Common'
<1> SUFFICES ASSUME Common, [Next]_vars
             PROVE  Common'
  OBVIOUS
<1>1. CASE log' = log
  BY <1>1, Steps DEF Common, Logged
<1>2. CASE HostChanges
  <2>1. Logged /\ kind \in Kinds /\ Held \subseteq Items
    BY HoldsAssumption DEF Common, Logged, Held
  <2>2. PICK j \in Held, at \in Places(kind), gone \in BOOLEAN :
           /\ Change(j, at, gone)
           /\ kind = "gmail" => Last[j] = 0 \/ j \in Live
           /\ kind \in CursorKinds => at \in LastStamp .. LastStamp + 1
    BY <1>2, HostChange
  <2>3. /\ Logged'
        /\ Now' = Now + 1
        /\ \A n \in 1 .. Now : log'[n] = log[n]
        /\ log'[Now + 1] = [id |-> j, at |-> at, gone |-> gone]
    <3>1. Grown(j, at, gone)
      BY <2>1, <2>2, Changing, Zenon
    <3> QED
      BY <3>1 DEF Grown
  <2>4. kind' = kind
    BY <2>2 DEF Change
  <2>5. DOMAIN log' = 1 .. Now + 1 /\ DOMAIN log = 1 .. Now /\ Now \in Nat
    BY <2>1, <2>3 DEF Logged, Histories, Now
  <2>6. ASSUME kind \in CursorKinds
        PROVE  Ascending(log')
    <3>1. Places(kind) = Nat /\ Ascending(log) /\ at >= LastStamp
      BY <2>2, <2>6 DEF Places, CursorKinds, Common
    <3>2. log \in Seq(Changes(kind)) /\ log' \in Seq(Changes(kind))
      BY <2>1, <2>3, <2>4 DEF Logged, Histories, Changes
    <3>3. \A n \in 1 .. Now : log[n].at \in Nat
      <4>1. \A n \in 1 .. Now : log[n] \in Changes(kind)
        BY <2>5, <3>2
      <4> QED
        BY <3>1, <4>1 DEF Changes
    <3>4. \A n \in 1 .. Now : log[n].at <= LastStamp
      BY <2>5, <3>1 DEF Ascending, LastStamp
    <3>5. \A n \in 1 .. Now : log[n].at <= at
      BY <3>1, <3>3, <3>4, <2>2, <2>5 DEF LastStamp
    <3>6. SUFFICES ASSUME NEW m \in 1 .. Now + 1, NEW n \in 1 .. Now + 1,
                          m <= n
                   PROVE  log'[m].at <= log'[n].at
      BY <2>5 DEF Ascending
    <3>7. CASE n = Now + 1 /\ m = n
      BY <2>3, <2>2, <3>1, <3>7
    <3>8. CASE n = Now + 1 /\ m # n
      BY <2>3, <2>5, <3>5, <3>8
    <3>9. CASE n # Now + 1
      <4>1. m \in DOMAIN log /\ n \in DOMAIN log
        BY <2>5, <3>6, <3>9
      <4>2. log'[m] = log[m] /\ log'[n] = log[n]
        BY <2>3, <2>5, <4>1
      <4> QED
        BY <3>1, <3>6, <4>1, <4>2 DEF Ascending
    <3> QED
      BY <3>7, <3>8, <3>9
  <2>7. ASSUME kind = "gmail"
        PROVE  Final(log')
    <3>1. Final(log) /\ (Last[j] = 0 \/ j \in Live)
      BY <2>2, <2>7 DEF Common
    <3>2. \A n \in 1 .. Now : log[n].id = j => ~ log[n].gone
      <4> SUFFICES ASSUME NEW n \in 1 .. Now, log[n].id = j, log[n].gone
                   PROVE  FALSE
        OBVIOUS
      <4>1. /\ n <= Last[j]
            /\ Last[j] \in 0 .. Now
            /\ j \in Live => ~ log[Last[j]].gone
            /\ Last[j] # 0 => log[Last[j]].id = j
        BY <2>1, Reads
      <4>2. Last[j] # 0 /\ ~ log[Last[j]].gone
        BY <3>1, <4>1, <2>5
      <4>3. n < Last[j]
        BY <4>1, <4>2, <2>5
      <4> QED
        BY <2>5, <3>1, <4>1, <4>2, <4>3 DEF Final
    <3>3. SUFFICES ASSUME NEW m \in 1 .. Now + 1, NEW n \in 1 .. Now + 1,
                          m < n, log'[m].gone
                   PROVE  log'[m].id # log'[n].id
      BY <2>5 DEF Final
    <3>4. m \in 1 .. Now /\ log'[m] = log[m]
      BY <2>3, <2>5, <3>3
    <3>5. CASE n = Now + 1
      BY <2>3, <3>2, <3>3, <3>4, <3>5
    <3>6. CASE n # Now + 1
      BY <2>3, <2>5, <3>1, <3>3, <3>4, <3>6 DEF Final
    <3> QED
      BY <3>5, <3>6
  <2> QED
    BY <2>3, <2>4, <2>6, <2>7 DEF Common
<1> QED
  BY <1>1, <1>2, Steps

-----------------------------------------------------------------------------
(* A wrong id *)

\* The provider has, or had, this item.
Known(x) == LastIn(log, x, Now) # 0

LEMMA KnownForEver ==
    ASSUME Common, [Next]_vars, NEW x, Known(x)
    PROVE  LastIn(log', x, Now') # 0
<1>1. CASE log' = log
  BY <1>1 DEF Known, Now
<1>2. CASE HostChanges
  <2>1. PICK j \in Held, at \in Places(kind), gone \in BOOLEAN :
           Change(j, at, gone)
    BY <1>2, HostChange
  <2> DEFINE c == [id |-> j, at |-> at, gone |-> gone]
  <2>2. log \in Seq(Changes(kind)) /\ c \in Changes(kind)
    BY HoldsAssumption DEF Common, Logged, Histories, Changes, Held
  <2>3. log' = Append(log, c)
    BY <2>1 DEF Change
  <2> HIDE DEF c
  <2>4. Now' = Len(log) + 1 /\ Len(log) \in Nat
    BY <2>2, <2>3 DEF Now
  <2>5. LastIn(log', x, Now')
          = IF c.id = x THEN Len(log) + 1 ELSE LastIn(log, x, Len(log))
    BY <2>2, <2>3, <2>4, LastInAppend
  <2> QED
    BY <2>4, <2>5 DEF Known, Now
<1> QED
  BY <1>1, <1>2, Steps

\* An entry that has seen its file is of one that was there; a package marks
\* no other deleted.
SeenIsKnown(entry) ==
    /\ {"scope", "seen"} \subseteq DOMAIN entry
    /\ entry.seen => Known(entry.scope)
FileInv ==
    kind = "file" =>
        /\ SeenIsKnown(res)
        /\ job # Idle =>
              /\ {"pc", "batch", "res", "scope"} \subseteq DOMAIN job
              /\ job.pc \in {"file", "extracted"}
              /\ SeenIsKnown(job.res)
              /\ job.pc = "file" => /\ job.batch = {}
                                    /\ job.res.scope = job.scope
              /\ \A x : <<x, 0>> \in job.batch => Known(x)

LEMMA FileInit == Init => FileInv
  BY DEF Init, DriveInit, NewEntry, FileInv, SeenIsKnown, CursorKinds

LEMMA FileStep == Common /\ FileInv /\ [Next]_vars => FileInv'
<1> SUFFICES ASSUME Common, FileInv, [Next]_vars, kind = "file"
             PROVE  FileInv'
  BY Steps DEF FileInv
<1>1. kind' = "file" /\ \A x : Known(x) => LastIn(log', x, Now') # 0
  BY KnownForEver, Steps
<1>2. CASE Aside
  BY <1>1, <1>2 DEF Aside, landed, FileInv, SeenIsKnown, Known
<1>3. CASE job' = Idle /\ UNCHANGED landed
  BY <1>1, <1>3 DEF landed, FileInv, SeenIsKnown, Known
<1>4. CASE Load
  <2>1. job # Idle /\ res' = job.res /\ job' = Idle
    BY <1>4 DEF Load, Idle
  <2> QED
    BY <1>1, <2>1 DEF FileInv, SeenIsKnown, Known
<1>5. CASE FileStart
  <2> DEFINE entry == IF res.scope = conf THEN res ELSE NewEntry(conf)
  <2>1. SeenIsKnown(entry) /\ entry.scope = conf
    BY DEF FileInv, SeenIsKnown, NewEntry
  <2>2. /\ job' = Over([pc |-> "file", res |-> entry],
                       [batch |-> {}, res |-> res, scope |-> conf])
        /\ res' = res
    BY <1>5 DEF FileStart, Begin, landed
  <2> HIDE DEF entry
  <2>3. /\ DOMAIN job' = {"pc", "batch", "res", "scope"}
        /\ job'.pc = "file" /\ job'.batch = {} /\ job'.scope = conf
        /\ job'.res = entry
    BY <2>2 DEF Over
  <2> QED
    BY <1>1, <2>1, <2>2, <2>3 DEF FileInv, SeenIsKnown, Known
<1>6. CASE SingleFile
  <2> DEFINE i == job.scope
  <2>1. /\ res' = res
        /\ job # Idle /\ job.batch = {} /\ job.res.scope = i
        /\ SeenIsKnown(job.res)
    BY <1>6 DEF SingleFile, Finish, landed, Reading, Idle, FileInv
  <2>2. \A x : Alive(x, Now) => Known(x)
    BY DEF Alive, LastOf, Known, LastIn
  <2>3. CASE /\ Alive(i, Now)
             /\ Finish([job.res EXCEPT !.seen = TRUE], {Record(i)}, {})
    <3>1. /\ job'.pc = "extracted" /\ job'.scope = i
          /\ job'.batch = {<<i, LastOf(i, Now)>>}
          /\ job'.res = [job.res EXCEPT !.seen = TRUE]
          /\ DOMAIN job' = {"pc", "batch", "res", "scope", "unseen"}
      BY <2>1, <2>3 DEF Finish, Yield, Record
    <3>2. job'.res.scope = i /\ {"scope", "seen"} \subseteq DOMAIN job'.res
      BY <2>1, <3>1 DEF SeenIsKnown
    <3>3. Known(i) /\ LastOf(i, Now) # 0
      BY <2>2, <2>3 DEF Alive
    <3> QED
      BY <1>1, <2>1, <3>1, <3>2, <3>3 DEF FileInv, SeenIsKnown, Known
  <2>4. CASE job.res.seen /\ Finish(job.res, {Tombstone(i)}, {})
    <3>1. /\ job'.pc = "extracted"
          /\ job'.batch = {<<i, 0>>}
          /\ job'.res = job.res
          /\ DOMAIN job' = {"pc", "batch", "res", "scope", "unseen"}
      BY <2>1, <2>4 DEF Finish, Yield, Tombstone
    <3>2. Known(i)
      BY <2>1, <2>4 DEF SeenIsKnown
    <3> QED
      BY <1>1, <2>1, <3>1, <3>2 DEF FileInv, SeenIsKnown, Known
  <2>5. CASE Finish(job.res, {}, {})
    <3>1. /\ job'.pc = "extracted"
          /\ job'.batch = {}
          /\ job'.res = job.res
          /\ DOMAIN job' = {"pc", "batch", "res", "scope", "unseen"}
      BY <2>1, <2>5 DEF Finish, Yield
    <3> QED
      BY <1>1, <2>1, <3>1 DEF FileInv, SeenIsKnown, Known
  <2> QED
    BY <1>6, <2>3, <2>4, <2>5 DEF SingleFile
<1> QED
  BY <1>2, <1>3, <1>4, <1>5, <1>6, Steps DEF Goes, File, CursorKinds

LEMMA CommonInvariant == Spec => []Common
<1> QED
  BY CommonInit, CommonStep, PTL DEF Spec

\* "A 404 on an item no run has landed is a wrong id": the entry of a single
\* file of Drive has seen it only if it was there, and is replaced with its
\* scope, whatever else happens to the file and to the Run.
THEOREM WrongIds == Spec => []WrongIdFails
<1>1. Spec => []FileInv
  BY CommonInvariant, FileInit, FileStep, PTL DEF Spec
<1>2. Common /\ FileInv => WrongIdFails
  BY DEF FileInv, WrongIdFails, Known, LastOf, LastIn, Idle
<1> QED
  BY <1>1, <1>2, CommonInvariant, PTL

-----------------------------------------------------------------------------
(* Drive's entry and the live rows *)

EntryShape(entry) ==
    /\ {"scope", "token", "walked", "folders", "files"} \subseteq DOMAIN entry
    /\ DOMAIN entry.files \subseteq Items
    /\ entry.token \in Nat

\* What a change leaves of an entry, and the rows it yields: a file that the
\* entry forgets gets a tombstone, and no other.
Names(entry, after) ==
    /\ EntryShape(after[1])
    /\ after[1].walked = entry.walked
    /\ \A j \in DOMAIN entry.files :
          j \in DOMAIN after[1].files \/ <<j, 0>> \in after[2]
    /\ \A b \in after[2] :
          /\ b \in Items \X (0 .. Now)
          /\ b[1] \in DOMAIN after[1].files \/ b[2] = 0

LEMMA DropNames ==
    ASSUME Logged, NEW entry, EntryShape(entry), NEW gone
    PROVE  Names(entry, Drop(entry, gone))
<1> DEFINE left == {i \in DOMAIN entry.files : entry.files[i] \in gone}
           after == [entry EXCEPT !.folders = Without(@, gone),
                                  !.files = Without(@, left)]
<1>1. Drop(entry, gone) = <<after, {Tombstone(i) : i \in left}>>
  BY DEF Drop
<1>2. /\ EntryShape(after)
      /\ after.walked = entry.walked
      /\ DOMAIN after.files = DOMAIN entry.files \ left
  BY DEF EntryShape, Without, Restrict
<1>3. left \subseteq Items /\ 0 \in 0 .. Now
  BY Reads DEF EntryShape
<1> HIDE DEF left, after
<1> QED
  BY <1>1, <1>2, <1>3 DEF Names, Tombstone

LEMMA ForgetNames ==
    ASSUME Logged, NEW entry, EntryShape(entry), NEW i
    PROVE  Names(entry, Forget(entry, i))
<1> DEFINE after == [entry EXCEPT !.files = Without(@, {i})]
           rows == IF i \in DOMAIN entry.files THEN {Tombstone(i)} ELSE {}
<1>1. Forget(entry, i) = <<after, rows>>
  BY DEF Forget
<1>2. /\ EntryShape(after)
      /\ after.walked = entry.walked
      /\ DOMAIN after.files = DOMAIN entry.files \ {i}
  BY DEF EntryShape, Without, Restrict
<1>3. 0 \in 0 .. Now
  BY Reads
<1>4. \A b \in rows : b = <<i, 0>> /\ i \in Items
  BY DEF Tombstone, EntryShape
<1>5. i \in DOMAIN entry.files => <<i, 0>> \in rows
  BY DEF Tombstone
<1> HIDE DEF after, rows
<1> QED
  BY <1>1, <1>2, <1>3, <1>4, <1>5 DEF Names

LEMMA KnownFolderNames ==
    ASSUME Logged, NEW entry, EntryShape(entry), NEW i, NEW gone, NEW parent
    PROVE  Names(entry, KnownFolder(entry, i, gone, parent))
<1>1. CASE gone \/ parent \notin DOMAIN entry.folders
  BY <1>1, DropNames DEF KnownFolder, DropSubtree
<1>2. CASE ~ (gone \/ parent \notin DOMAIN entry.folders)
  <2> DEFINE after == [entry EXCEPT !.folders[i] = parent]
  <2>1. KnownFolder(entry, i, gone, parent) = <<after, {}>>
    BY <1>2 DEF KnownFolder
  <2>2. /\ EntryShape(after)
        /\ after.walked = entry.walked
        /\ after.files = entry.files
    BY DEF EntryShape
  <2> HIDE DEF after
  <2> QED
    BY <2>1, <2>2 DEF Names
<1> QED
  BY <1>1, <1>2

LEMMA OtherItemNames ==
    ASSUME Logged, NEW entry, EntryShape(entry), NEW i \in Items, NEW gone,
           NEW parent
    PROVE  Names(entry, OtherItem(entry, i, gone, parent))
<1> DEFINE inScope == ~ gone /\ parent \in DOMAIN entry.folders
<1>1. CASE inScope /\ i \in Folders
  <2> DEFINE after == [entry EXCEPT !.folders = With(@, {i}, parent)]
  <2>1. OtherItem(entry, i, gone, parent) = <<after, {}>>
    BY <1>1 DEF OtherItem
  <2>2. /\ EntryShape(after)
        /\ after.walked = entry.walked
        /\ after.files = entry.files
    BY DEF EntryShape
  <2> HIDE DEF after
  <2> QED
    BY <2>1, <2>2 DEF Names
<1>2. CASE inScope /\ i \notin Folders
  <2> DEFINE after == [entry EXCEPT !.files = With(@, {i}, parent)]
  <2>1. OtherItem(entry, i, gone, parent) = <<after, {Record(i)}>>
    BY <1>2 DEF OtherItem
  <2>2. /\ EntryShape(after)
        /\ after.walked = entry.walked
        /\ DOMAIN after.files = DOMAIN entry.files \cup {i}
    BY DEF EntryShape, With, Over
  <2>3. Record(i) \in Items \X (0 .. Now) /\ Record(i)[1] = i
    BY Reads DEF Record
  <2> HIDE DEF after
  <2> QED
    BY <2>1, <2>2, <2>3 DEF Names
<1>3. CASE ~ inScope
  BY <1>3, ForgetNames DEF OtherItem
<1> QED
  BY <1>1, <1>2, <1>3

\* Nobody has to be told of i's row, which is no file the entry has.
Settled(i) == table[i] = 0 \/ i \in tied \/ i \in missed

\* Once the package is loaded, the entry or the package has seen to i.
Follows(i) ==
    \/ i \in DOMAIN job.res.files
    \/ i \in Picks /\ <<i, 0>> \in job.batch
    \/ i \notin Picks /\ Settled(i)

Rest == Held \ Folders
Remembered == \A i \in Rest : i \in DOMAIN res.files \/ Settled(i)

\* A Run that follows the feed has an entry that was walked, and keeps up what
\* the state promises; a walk forgets the files there were, and what it does
\* not find is missed.
DriveRun ==
    /\ {"pc", "batch", "res", "scope"} \subseteq DOMAIN job
    /\ Packed
    /\ EntryShape(job.res)
    /\ job.pc = "walk" => "token" \in DOMAIN job /\ job.token \in Nat
    /\ job.pc = "feed" => "pos" \in DOMAIN job /\ job.pos \in Nat
    /\ job.pc \in {"changes", "feed"} =>
          job.res.walked /\ \A i \in Rest : Follows(i)
    /\ job.pc = "extracted" => \A i \in Rest : Follows(i) \/ i \in job.unseen
DriveInv ==
    kind = "drive" =>
        /\ table \in [Items -> Nat]
        /\ EntryShape(res)
        /\ res.walked => Remembered
        /\ job = Idle \/ DriveRun

\* What a Run has read stays what it was while the provider goes on.
LEMMA PackedOn ==
    ASSUME Common, [Next]_vars, Packed, job' = job
    PROVE  Packed'
<1>1. Now \in Nat /\ Now' \in Nat /\ Now <= Now'
  <2>1. CASE log' = log
    BY <2>1, Standstill, Reads DEF Common
  <2>2. CASE HostChanges
    <3>1. PICK j \in Held, at \in Places(kind), gone \in BOOLEAN :
             Change(j, at, gone)
      BY <2>2, HostChange
    <3>2. j \in Items /\ Logged
      BY HoldsAssumption DEF Held, Common, Logged
    <3>3. Grown(j, at, gone)
      BY <3>1, <3>2, Changing, Zenon
    <3> QED
      BY <3>2, <3>3, Reads DEF Grown
  <2> QED
    BY <2>1, <2>2, Steps
<1> QED
  BY <1>1 DEF Packed

LEMMA DriveInitially == Init => DriveInv
<1> SUFFICES ASSUME Init, kind = "drive"
             PROVE  DriveInv
  BY DEF DriveInv
<1>1. res = NewEntry(NoParent) /\ job = Idle /\ table = [i \in Items |-> 0]
  BY DEF Init, DriveInit, CursorKinds
<1>2. EntryShape(res) /\ ~ res.walked
  BY <1>1 DEF EntryShape, NewEntry
<1> QED
  BY <1>1, <1>2 DEF DriveInv

LEMMA DriveStep == Common /\ DriveInv /\ [Next]_vars => DriveInv'
<1> SUFFICES ASSUME Common, DriveInv, [Next]_vars, kind = "drive"
             PROVE  DriveInv'
  BY Steps DEF DriveInv
<1>1. /\ kind' = "drive" /\ Held' = Held /\ Rest' = Rest /\ Rest \subseteq Items
      /\ Logged
  BY Steps, HoldsAssumption DEF Held, Rest, Common, Logged
<1>2. CASE Aside
  <2>1. Packed => Packed'
    BY <1>2, PackedOn DEF Aside
  <2>2. Remembered => Remembered'
    BY <1>1, <1>2 DEF Aside, landed, Remembered, Settled
  <2>3. \A i \in Rest : Follows(i) => Follows(i)'
    BY <1>2 DEF Aside, landed, Follows, Settled, Picks
  <2>4. DriveRun => DriveRun'
    BY <1>1, <1>2, <2>1, <2>3 DEF Aside, landed, DriveRun, EntryShape
  <2> QED
    BY <1>1, <1>2, <2>2, <2>4 DEF Aside, landed, DriveInv, EntryShape
<1>3. CASE job' = Idle /\ UNCHANGED landed
  BY <1>1, <1>3 DEF landed, DriveInv, EntryShape, Remembered, Settled
<1>4. CASE Load
  <2>1. /\ DriveRun /\ job.pc = "extracted"
        /\ res' = job.res /\ job' = Idle
        /\ table \in [Items -> Nat]
    BY <1>4 DEF Load, Idle, DriveInv
  <2>2. /\ table' \in [Items -> Nat]
        /\ \A i \in Items \ Picks :
              /\ table'[i] = table[i]
              /\ i \in tied' <=> i \in tied
              /\ i \in missed' <=> i \in missed \/ i \in job.unseen
        /\ \A i \in Picks :
              /\ i \in missed' <=> i \in job.unseen
              /\ i \notin tied' =>
                       \A b \in Candidates(i) : b[2] = table'[i]
    BY <1>1, <1>4, <2>1, Loading DEF DriveRun
  <2>3. \A i : <<i, 0>> \in job.batch => <<i, 0>> \in Candidates(i)
    BY DEF Candidates, Sorted, Of
  <2>4. Remembered'
    <3> SUFFICES ASSUME NEW i \in Rest
                 PROVE  i \in DOMAIN res'.files \/ Settled(i)'
      BY <1>1 DEF Remembered
    <3>1. i \in Items /\ (Follows(i) \/ i \in job.unseen)
      BY <1>1, <2>1 DEF DriveRun
    <3>2. CASE i \in job.unseen
      BY <2>2, <3>1, <3>2 DEF Settled
    <3>3. CASE i \in Picks /\ <<i, 0>> \in job.batch
      BY <2>2, <2>3, <3>3 DEF Settled
    <3>4. CASE i \notin Picks /\ Settled(i)
      BY <2>2, <3>1, <3>4 DEF Settled
    <3> QED
      BY <2>1, <3>1, <3>2, <3>3, <3>4 DEF Follows
  <2> QED
    BY <1>1, <2>1, <2>2, <2>4 DEF DriveInv, DriveRun, EntryShape
<1>5. CASE Drive /\ log' = log /\ UNCHANGED landed
  <2>1. SUFFICES job' = Idle \/ DriveRun'
    BY <1>1, <1>5 DEF DriveInv, landed, EntryShape, Remembered, Settled
  <2>2. Now' = Now /\ res' = res /\ table' = table /\ tied' = tied
        /\ missed' = missed
    BY <1>5 DEF Now, landed
  <2>3. CASE DriveStart
    <3> DEFINE entry == IF res.scope = conf THEN res ELSE NewEntry(conf)
               pc == IF entry.walked THEN "changes" ELSE "token"
    <3>1. /\ EntryShape(entry)
          /\ entry.walked => entry = res
          /\ pc = "changes" => entry.walked
          /\ pc \in {"changes", "token"}
      BY DEF DriveInv, EntryShape, NewEntry
    <3>2. job' = Over([pc |-> pc, res |-> entry],
                      [batch |-> {}, res |-> res, scope |-> conf])
      BY <2>3 DEF DriveStart, Begin
    <3> HIDE DEF entry, pc
    <3>3. /\ {"pc", "batch", "res", "scope"} \subseteq DOMAIN job'
          /\ job'.pc = pc /\ job'.batch = {} /\ job'.res = entry
      BY <3>2 DEF Over
    <3>4. Picks' = {} /\ Packed'
      BY <3>3 DEF Picks, Packed
    <3>5. entry.walked => \A i \in Rest : Follows(i)'
      BY <1>1, <2>2, <3>1, <3>3, <3>4
      DEF DriveInv, Remembered, Follows, Settled
    <3> QED
      BY <1>1, <3>1, <3>3, <3>4, <3>5 DEF DriveRun, EntryShape
  <2>4. CASE StartToken
    <3>1. job # Idle /\ DriveRun /\ job.pc = "token"
      BY <2>4 DEF StartToken, Reading, Idle, DriveInv
    <3>2. job' = Over([pc |-> "walk", token |-> Now, pending |-> {job.scope},
                       res |-> NewEntry(job.scope)], job)
      BY <2>4 DEF StartToken, Go
    <3>3. /\ {"pc", "batch", "res", "scope"} \subseteq DOMAIN job'
          /\ job'.pc = "walk" /\ job'.batch = job.batch
          /\ job'.res = NewEntry(job.scope)
          /\ "token" \in DOMAIN job' /\ job'.token = Now
      BY <3>1, <3>2 DEF Over, DriveRun
    <3>4. EntryShape(job'.res)
      BY <3>3 DEF NewEntry, EntryShape
    <3>5. Now \in Nat
      BY <1>1, Reads
    <3> QED
      BY <2>2, <3>1, <3>3, <3>4, <3>5 DEF DriveRun, Packed, EntryShape
  <2>5. CASE Walk
    <3>1. job # Idle /\ DriveRun /\ job.pc = "walk"
      BY <2>5 DEF Walk, Reading, Idle, DriveInv
    <3>2. PICK found, sub, folder, pending :
             /\ found \subseteq Items
             /\ job' = Over([pending |-> pending,
                             batch |-> Yield({Record(i) : i \in found}),
                             res |-> [job.res EXCEPT
                                        !.folders = With(@, sub, folder),
                                        !.files = With(@, found, folder)]],
                            job)
      <4>1. PICK parent \in job.pending : \E in \in {Listing(parent)} :
               LET sub == (in \cap Folders) \ DOMAIN job.res.folders
                   found == in \ Folders
               IN  Go([pending |-> (job.pending \ {parent}) \cup sub,
                       batch |-> Yield({Record(i) : i \in found}),
                       res |-> [job.res EXCEPT
                                  !.folders = With(@, sub, parent),
                                  !.files = With(@, found, parent)]])
        BY <2>5 DEF Walk
      <4>2. Listing(parent) \ Folders \subseteq Items
        BY DEF Listing
      <4> QED
        BY <4>1, <4>2 DEF Go
    <3>3. /\ {"pc", "batch", "res", "scope"} \subseteq DOMAIN job'
          /\ job'.pc = "walk"
          /\ "token" \in DOMAIN job' /\ job'.token = job.token
          /\ job'.batch = Yield({Record(i) : i \in found})
          /\ job'.res = [job.res EXCEPT !.folders = With(@, sub, folder),
                                        !.files = With(@, found, folder)]
      BY <3>1, <3>2 DEF Over, DriveRun
    <3>4. EntryShape(job'.res)
      BY <3>1, <3>2, <3>3 DEF EntryShape, With, Over, DriveRun
    <3>5. \A i \in found : Record(i) \in Items \X (0 .. Now)
      BY <1>1, <3>2, Reads DEF Record
    <3>6. Packed'
      BY <2>2, <3>1, <3>3, <3>5 DEF DriveRun, Packed, Yield
    <3> QED
      BY <3>1, <3>3, <3>4, <3>6 DEF DriveRun, EntryShape
  <2>6. CASE WalkEnds
    <3>1. job # Idle /\ DriveRun /\ job.pc = "walk"
      BY <2>6 DEF WalkEnds, Reading, Idle, DriveInv
    <3>2. /\ {"pc", "batch", "res", "scope"} \subseteq DOMAIN job'
          /\ job'.pc = "extracted"
          /\ job'.batch = job.batch
          /\ job'.res = [job.res EXCEPT !.token = job.token, !.walked = TRUE]
          /\ job'.unseen = Items \ DOMAIN job.res.files
      BY <2>6 DEF WalkEnds, Finish, Yield
    <3>3. EntryShape(job'.res) /\ job'.res.files = job.res.files
      BY <3>1, <3>2 DEF EntryShape, DriveRun
    <3>4. \A i \in Rest : i \in DOMAIN job'.res.files \/ i \in job'.unseen
      BY <1>1, <3>2, <3>3
    <3>5. Packed'
      BY <2>2, <3>1, <3>2 DEF DriveRun, Packed
    <3> QED
      BY <1>1, <3>2, <3>3, <3>4, <3>5 DEF DriveRun, EntryShape, Follows
  <2>7. CASE FeedStart
    <3>1. job # Idle /\ DriveRun /\ job.pc = "changes"
      BY <2>7 DEF FeedStart, Reading, Idle, DriveInv
    <3>2. job' = Over([pc |-> "feed", pos |-> job.res.token], job)
      BY <2>7 DEF FeedStart, Go
    <3>3. /\ {"pc", "batch", "res", "scope"} \subseteq DOMAIN job'
          /\ job'.pc = "feed" /\ job'.batch = job.batch /\ job'.res = job.res
          /\ "pos" \in DOMAIN job' /\ job'.pos = job.res.token
      BY <3>1, <3>2 DEF Over, DriveRun
    <3>4. \A i \in Rest : Follows(i)'
      BY <2>2, <3>1, <3>3 DEF DriveRun, Follows, Picks, Settled
    <3> QED
      BY <1>1, <2>2, <3>1, <3>3, <3>4 DEF DriveRun, Packed, EntryShape
  <2>8. CASE TokenExpired
    <3>1. job # Idle /\ DriveRun
      BY <2>8 DEF TokenExpired, Reading, Idle, DriveInv
    <3>2. job' = Over([pc |-> "token"], job)
      BY <2>8 DEF TokenExpired, Go
    <3>3. /\ {"pc", "batch", "res", "scope"} \subseteq DOMAIN job'
          /\ job'.pc = "token" /\ job'.batch = job.batch
          /\ job'.res = job.res
      BY <3>1, <3>2 DEF Over, DriveRun
    <3> QED
      BY <2>2, <3>1, <3>3 DEF DriveRun, Packed, EntryShape
  <2>9. CASE FeedChange
    <3>1. job # Idle /\ DriveRun /\ job.pc = "feed" /\ EntryShape(job.res)
      BY <2>9 DEF FeedChange, Reading, Idle, DriveInv, DriveRun
    <3>2. PICK n, after :
             /\ n \in job.pos + 1 .. Now
             /\ after = IF log[n].id \in DOMAIN job.res.folders
                        THEN KnownFolder(job.res, log[n].id,
                                         Trashed(log[n].id, Now),
                                         Parent(log[n].id, Now))
                        ELSE OtherItem(job.res, log[n].id,
                                       Trashed(log[n].id, Now),
                                       Parent(log[n].id, Now))
             /\ Listed(n)
             /\ job' = Over([pos |-> n, res |-> after[1],
                             batch |-> Yield(after[2])], job)
      BY <2>9 DEF FeedChange, Go
    <3>3. n \in Nat /\ log[n].id \in Items
      <4>1. n \in 1 .. Now /\ Now \in Nat
        BY <1>1, <3>1, <3>2, Reads DEF DriveRun
      <4>2. log \in Seq(Changes(kind))
        BY <1>1 DEF Logged, Histories, Changes
      <4>3. log[n] \in Changes(kind)
        BY <4>1, <4>2 DEF Now
      <4> QED
        BY <4>1, <4>3 DEF Changes
    <3>4. Names(job.res, after)
      BY <1>1, <3>1, <3>2, <3>3, KnownFolderNames, OtherItemNames
    <3>5. /\ {"pc", "batch", "res", "scope"} \subseteq DOMAIN job'
          /\ job'.pc = "feed" /\ job'.res = after[1]
          /\ "pos" \in DOMAIN job' /\ job'.pos = n
          /\ job'.batch = job.batch \cup after[2]
      BY <3>1, <3>2 DEF Over, DriveRun, Yield
    <3>6. Packed'
      BY <2>2, <3>1, <3>4, <3>5 DEF DriveRun, Packed, Names
    <3>7. ASSUME NEW i \in Rest
          PROVE  Follows(i)'
      <4>1. Follows(i)
        BY <3>1 DEF DriveRun
      <4>2. \A b \in after[2] : b = <<b[1], b[2]>>
                                /\ (b[1] \in DOMAIN after[1].files \/ b[2] = 0)
        BY <3>4 DEF Names
      <4>3. Picks' = Picks \cup {b[1] : b \in after[2]}
        BY <3>5 DEF Picks
      <4>4. CASE i \in DOMAIN job.res.files
        <5>1. i \in DOMAIN after[1].files \/ <<i, 0>> \in after[2]
          BY <3>4, <4>4 DEF Names
        <5>2. <<i, 0>> \in after[2] => i \in Picks'
          BY <4>3
        <5> QED
          BY <3>5, <5>1, <5>2 DEF Follows
      <4>5. CASE i \in Picks /\ <<i, 0>> \in job.batch
        BY <3>5, <4>3, <4>5 DEF Follows
      <4>6. CASE i \notin Picks /\ Settled(i)
        <5>1. CASE i \in Picks'
          <6>1. PICK b \in after[2] : b[1] = i
            BY <4>3, <4>6, <5>1
          <6>2. i \in DOMAIN after[1].files \/ b = <<i, 0>>
            BY <4>2, <6>1
          <6> QED
            BY <3>5, <5>1, <6>2 DEF Follows
        <5>2. CASE i \notin Picks'
          BY <2>2, <4>6, <5>2 DEF Follows, Settled
        <5> QED
          BY <5>1, <5>2
      <4> QED
        BY <4>1, <4>4, <4>5, <4>6 DEF Follows
    <3> QED
      BY <1>1, <3>1, <3>3, <3>4, <3>5, <3>6, <3>7
      DEF DriveRun, Names, EntryShape
  <2>10. CASE FeedEnds
    <3>1. job # Idle /\ DriveRun /\ job.pc = "feed"
      BY <2>10 DEF FeedEnds, Reading, Idle, DriveInv
    <3>2. /\ {"pc", "batch", "res", "scope"} \subseteq DOMAIN job'
          /\ job'.pc = "extracted"
          /\ job'.batch = job.batch
          /\ job'.res = [job.res EXCEPT !.token = Now]
      BY <2>10 DEF FeedEnds, Finish, Yield
    <3>3. EntryShape(job'.res) /\ job'.res.files = job.res.files
      BY <1>1, <3>1, <3>2, Reads DEF EntryShape, DriveRun
    <3>4. \A i \in Rest : Follows(i)'
      BY <2>2, <3>1, <3>2, <3>3 DEF DriveRun, Follows, Picks, Settled
    <3> QED
      BY <1>1, <2>2, <3>1, <3>2, <3>3, <3>4 DEF DriveRun, Packed, EntryShape
  <2> QED
    BY <1>5, <2>3, <2>4, <2>5, <2>6, <2>7, <2>8, <2>9, <2>10 DEF Drive
<1> QED
  BY <1>2, <1>3, <1>4, <1>5, Steps DEF Goes, CursorKinds

LEMMA DriveInvariant == Spec => []DriveInv
<1> QED
  BY CommonInvariant, DriveInitially, DriveStep, PTL DEF Spec

\* "what leaves the scope can be named": a live row is a file's that the entry
\* remembers, whatever is dropped, moved, expired, repointed or killed on the
\* way, unless it was picked among several, or has been missed by what was
\* read since.
THEOREM RowsRemembered == Spec => []LiveRowsRemembered
<1>1. DriveInv => LiveRowsRemembered
  BY DEF DriveInv, LiveRowsRemembered, Remembered, Rest, Settled
<1> QED
  BY <1>1, DriveInvariant, PTL

-----------------------------------------------------------------------------
(* Graph's delta link *)

\* What the row of i is to show under this scope.
GraphShow(i, scope) ==
    IF i \in Live /\ Home[i] = scope /\ Spot[i] = "in" THEN Last[i] ELSE 0

\* The filter has skipped the change that took i out of its glob.
Left(i, scope) == Home[i] = scope /\ i \in Live /\ Spot[i] = "out"

\* An item outside shows nothing, whatever becomes of it.
GraphFine(i, scope) ==
    \/ table[i] = GraphShow(i, scope)
    \/ i \in tied
    \/ table[i] # 0 /\ (i \in missed \/ Left(i, scope))

\* The entry has no change of i to ask for.
GraphOld(i, entry) == Last[i] <= entry.link \/ Home[i] # entry.scope
GraphKept == \A i \in Held : GraphOld(i, res) => GraphFine(i, res.scope)

\* What the feed yields of i as it is.
GraphRows(i) ==
    IF i \notin Live THEN {<<i, 0>>}
    ELSE IF Spot[i] = "in" THEN {<<i, Last[i]>>} ELSE {}

\* What a request is to serve, of what has not changed since it was made.
Due(i) ==
    /\ Home[i] = job.scope
    /\ Last[i] <= job.upto
    /\ IF job.link = 0 THEN i \in Live ELSE Last[i] > job.link

GraphPage ==
    /\ {"link", "upto", "resynced", "listed", "todo"} \subseteq DOMAIN job
    /\ job.upto \in 0 .. Now
    /\ job.link \in 0 .. job.upto
    /\ job.link # 0 => job.link = res.link /\ job.scope = res.scope
    /\ job.todo \subseteq Items
    /\ \A i \in job.todo \cup job.listed :
          /\ i \in Items
          /\ Home[i] = job.scope
          /\ Due(i) \/ Last[i] > job.upto
    /\ job.link # 0 => \A b \in job.batch : /\ Last[b[1]] > job.link
                                            /\ Home[b[1]] = job.scope
    /\ \A i \in Items \ job.todo : Due(i) => GraphRows(i) \subseteq job.batch

\* Loaded, the package leaves the row of i fine.
GraphBrings(i, scope) ==
    IF i \notin Picks
    THEN \/ GraphFine(i, scope)
         \/ table[i] # 0 /\ i \in job.unseen
    ELSE (\A a, b \in Of(i) : a = b) =>
            \A b \in Of(i) :
               \/ b[2] = GraphShow(i, scope)
               \/ b[2] # 0 /\ (i \in job.unseen \/ Left(i, scope))

GraphEntry(entry) ==
    /\ {"link", "scope"} \subseteq DOMAIN entry
    /\ entry.link \in 0 .. Now

GraphRun ==
    /\ {"pc", "batch", "res", "scope"} \subseteq DOMAIN job
    /\ Packed
    /\ job.pc \in {"delta", "page", "extracted"}
    /\ GraphEntry(job.res)
    /\ job.pc # "extracted" => job.res = res
    /\ job.pc = "delta" => job.batch = {}
    /\ job.pc = "page" => GraphPage
    /\ job.pc = "extracted" =>
          \A i \in Held :
             GraphOld(i, job.res) => GraphBrings(i, job.res.scope)
GraphInv ==
    kind = "graph" =>
        /\ table \in [Items -> Nat]
        /\ GraphEntry(res)
        /\ GraphKept
        /\ job = Idle \/ GraphRun

\* A change at the provider, as the proofs below see it: of one item, past
\* everything that has been read.
Moved(j) ==
    /\ j \in Items
    /\ Now' = Now + 1
    /\ Last' = [Last EXCEPT ![j] = Now + 1]
    /\ \A i \in Items \ {j} : i \in Live' <=> i \in Live
    /\ \A i \in Items \ {j} : Last[i] # 0 => Spot'[i] = Spot[i]

LEMMA Moves ==
    ASSUME Common, HostChanges
    PROVE  /\ Aside
           /\ \E j \in Held :
                 /\ Moved(j)
                 /\ kind = "gmail" => Last[j] = 0 \/ j \in Live
<1>1. PICK j \in Held, at \in Places(kind), gone \in BOOLEAN :
         /\ Change(j, at, gone)
         /\ kind = "gmail" => Last[j] = 0 \/ j \in Live
  BY HostChange
<1>2. j \in Items
  BY HoldsAssumption DEF Held, Common, Logged
<1>3. Moved(j)
  <2>1. Logged
    BY DEF Common
  <2>2. Grown(j, at, gone)
    BY <1>1, <1>2, <2>1, Changing, Zenon
  <2> QED
    BY <1>2, <2>2 DEF Grown, Moved
<1>4. Aside
  BY <1>1 DEF Change, Aside
<1> QED
  BY <1>1, <1>3, <1>4

LEMMA GraphInitially == Init => GraphInv
<1> SUFFICES ASSUME Init, kind = "graph"
             PROVE  GraphInv
  BY DEF GraphInv
<1>1. /\ res = [link |-> 0, scope |-> "none", seen |-> FALSE]
      /\ job = Idle /\ table = [i \in Items |-> 0] /\ Logged
  BY CommonInit DEF Init, GraphInit, Common, CursorKinds
<1>2. GraphEntry(res)
  BY <1>1, Reads DEF GraphEntry
<1>3. ASSUME NEW i \in Held, GraphOld(i, res)
      PROVE  GraphFine(i, res.scope)
  <2>1. i \in Items
    BY <1>1, HoldsAssumption DEF Held, Logged
  <2>2. Home[i] = res.scope => i \notin Live
    BY <1>1, <1>3, <2>1, Reads DEF GraphOld
  <2> QED
    BY <1>1, <2>1, <2>2 DEF GraphFine, GraphShow
<1> QED
  BY <1>1, <1>2, <1>3 DEF GraphInv, GraphKept

\* Nothing that a Run has, or the state promises, is about what changes later.
LEMMA GraphMoves ==
    ASSUME Common, GraphInv, kind = "graph", kind' = kind, Aside,
           NEW j \in Held, Moved(j)
    PROVE  GraphInv'
<1>1. /\ Logged /\ Held \subseteq Items /\ Held' = Held
      /\ table' = table /\ res' = res /\ tied' = tied /\ missed' = missed
      /\ job' = job
      /\ Now \in Nat
  BY HoldsAssumption, Reads DEF Held, Common, Logged, Aside, landed
<1>2. /\ Last'[j] = Now + 1 /\ Now' = Now + 1
      /\ \A i \in Items : Last[i] \in 0 .. Now
      /\ \A i \in Items \ {j} :
            /\ Last'[i] = Last[i]
            /\ i \in Live' <=> i \in Live
            /\ i \in Live => Last[i] # 0 /\ Spot'[i] = Spot[i]
  <2>1. Last \in [Items -> Nat]
    BY <1>1, Reads DEF Last
  <2>2. \A i \in Items : Last[i] \in 0 .. Now /\ (i \in Live => Last[i] # 0)
    BY <1>1, Reads
  <2> QED
    BY <1>1, <2>1, <2>2 DEF Moved
<1>3. GraphEntry(res)'
  BY <1>1, <1>2 DEF GraphInv, GraphEntry
<1>4. ASSUME NEW i \in Held, GraphOld(i, res)'
      PROVE  GraphFine(i, res.scope)'
  <2>1. GraphOld(i, res)
    BY <1>1, <1>2, <1>4 DEF GraphInv, GraphEntry, GraphOld
  <2>2. GraphFine(i, res.scope)
    BY <2>1, <1>4 DEF GraphInv, GraphKept
  <2>3. CASE i = j
    <3>1. Home[j] # res.scope
      BY <1>1, <1>2, <1>4, <2>3 DEF GraphInv, GraphEntry, GraphOld
    <3> QED
      BY <1>1, <2>2, <2>3, <3>1 DEF GraphFine, GraphShow, Left
  <2>4. CASE i # j
    BY <1>1, <1>2, <2>2, <2>4 DEF GraphFine, GraphShow, Left
  <2> QED
    BY <2>3, <2>4
<1>5. GraphKept'
  BY <1>1, <1>4 DEF GraphKept
<1>6. ASSUME GraphRun
      PROVE  GraphRun'
  <2>1. Packed'
    BY <1>1, <1>2, <1>6 DEF GraphRun, Packed
  <2>2. GraphEntry(job.res)'
    BY <1>1, <1>2, <1>6 DEF GraphRun, GraphEntry
  <2>3. ASSUME job.pc = "page"
        PROVE  GraphPage'
    <3>1. GraphPage
      BY <1>6, <2>3 DEF GraphRun
    <3>2. ~ Due(j)' /\ \A i \in Items \ {j} : Due(i)' <=> Due(i)
      BY <1>1, <1>2, <3>1 DEF Due, GraphPage
    <3>3. \A i \in Items \ {j} : GraphRows(i)' = GraphRows(i)
      BY <1>1, <1>2 DEF GraphRows
    <3>4. \A b \in job.batch : b[1] \in Items /\ Last'[b[1]] >= Last[b[1]]
      BY <1>1, <1>2, <1>6 DEF GraphRun, Packed
    <3>5. \A i \in job.todo \cup job.listed :
             /\ i \in Items
             /\ Home[i] = job.scope
             /\ Due(i)' \/ Last'[i] > job.upto
      BY <1>1, <1>2, <3>1, <3>2 DEF GraphPage
    <3>6. job.link # 0 => \A b \in job.batch : /\ Last'[b[1]] > job.link
                                               /\ Home[b[1]] = job.scope
      BY <1>1, <1>2, <1>6, <3>1, <3>4 DEF GraphPage, GraphRun, Packed
    <3>7. \A i \in Items \ job.todo :
             Due(i)' => GraphRows(i)' \subseteq job.batch
      BY <3>1, <3>2, <3>3 DEF GraphPage
    <3> QED
      BY <1>1, <1>2, <3>1, <3>5, <3>6, <3>7 DEF GraphPage
  <2>4. ASSUME job.pc = "extracted", NEW i \in Held,
               GraphOld(i, job.res)'
        PROVE  GraphBrings(i, job.res.scope)'
    <3>1. GraphOld(i, job.res)
      BY <1>1, <1>2, <1>6, <2>4 DEF GraphRun, GraphEntry, GraphOld
    <3>2. GraphBrings(i, job.res.scope)
      BY <1>6, <2>4, <3>1 DEF GraphRun
    <3>3. i # j \/ Home[i] # job.res.scope
      BY <1>1, <1>2, <1>6, <2>4 DEF GraphRun, GraphEntry, GraphOld
    <3>4. GraphShow(i, job.res.scope)' = GraphShow(i, job.res.scope)
          /\ (Left(i, job.res.scope)' <=> Left(i, job.res.scope))
      BY <1>1, <1>2, <3>3 DEF GraphShow, Left
    <3>5. GraphFine(i, job.res.scope)' <=> GraphFine(i, job.res.scope)
      BY <1>1, <3>4 DEF GraphFine
    <3>6. Picks' = Picks /\ Of(i)' = Of(i)
      BY <1>1 DEF Picks, Of
    <3> QED
      BY <1>1, <3>2, <3>4, <3>5, <3>6 DEF GraphBrings
  <2> QED
    BY <1>1, <1>6, <2>1, <2>2, <2>3, <2>4 DEF GraphRun
<1> QED
  BY <1>1, <1>3, <1>5, <1>6 DEF GraphInv


\* A request asks for all that is due.
LEMMA GraphRequests ==
    ASSUME Logged, GraphRun, job # Idle, job.pc # "extracted", log' = log,
           UNCHANGED landed, GraphEntry(res),
           NEW link \in 0 .. Now, NEW resynced,
           link # 0 => /\ link = res.link /\ job.scope = res.scope
                       /\ job.batch = {},
           Go(Request(link, resynced))
    PROVE  GraphRun'
<1> DEFINE todo == {i \in Items : /\ Home[i] = job.scope
                                  /\ IF link = 0 THEN Alive(i, Now)
                                                 ELSE Changed(i, link)}
<1>1. /\ {"pc", "batch", "res", "scope", "link", "upto", "resynced",
          "listed", "todo"} \subseteq DOMAIN job'
      /\ job'.pc = "page" /\ job'.link = link /\ job'.upto = Now
      /\ job'.listed = {} /\ job'.todo = todo
      /\ job'.batch = job.batch /\ job'.res = job.res
      /\ job'.scope = job.scope
  BY DEF Go, Request, Over, GraphRun
<1>2. \A i \in Items : i \in todo <=>
         Home[i] = job.scope /\ IF link = 0 THEN i \in Live ELSE Last[i] > link
  BY Reads DEF Changed
<1>3. Now' = Now /\ Last' = Last /\ Live' = Live /\ Spot' = Spot /\ Now \in Nat
      /\ \A i \in Items : Last[i] \in 0 .. Now
  BY Standstill, Reads
<1>4. todo \subseteq Items /\ \A i \in todo : Home[i] = job.scope
  OBVIOUS
<1> HIDE DEF todo
<1>5. \A i \in Items : Due(i)' <=> i \in todo
  BY <1>1, <1>2, <1>3 DEF Due
<1>6. GraphPage'
  BY <1>1, <1>3, <1>4, <1>5 DEF GraphPage, landed
<1>7. Packed' /\ GraphEntry(job.res)'
  BY <1>1, <1>3 DEF GraphRun, Packed, GraphEntry
<1> QED
  BY <1>1, <1>6, <1>7 DEF GraphRun, landed

\* The filter's verdict on an item the feed lists.
LEMMA GraphRecords ==
    ASSUME Logged, NEW i \in Items, Last[i] # 0, kind = "graph"
    PROVE  RecordFor(i) = GraphRows(i)
<1>1. /\ Spot[i] \in {"in", "out"}
      /\ Entry(i, Now).at = Spot[i] /\ LastOf(i, Now) = Last[i]
      /\ i \in Live <=> ~ Entry(i, Now).gone
      /\ Entry(i, Now).gone \in BOOLEAN
  <2>1. Entry(i, Now) \in Changes(kind)
    BY Reads
  <2>2. Entry(i, Now).gone \in BOOLEAN
    BY <2>1 DEF Changes
  <2>3. Places(kind) = {"in", "out"}
    BY DEF Places, CursorKinds
  <2>4. Entry(i, Now).at = Spot[i] /\ LastOf(i, Now) = Last[i]
    BY Reads
  <2>5. i \in Live <=> ~ Entry(i, Now).gone
    BY Reads
  <2>6. Spot[i] \in Places(kind)
    BY Reads
  <2> QED
    BY <2>2, <2>3, <2>4, <2>5, <2>6
<1> QED
  BY <1>1 DEF RecordFor, GraphRows, Record, Tombstone

LEMMA GraphPages ==
    ASSUME Logged, GraphInv, kind = "graph", Page, UNCHANGED landed,
           log' = log
    PROVE  GraphRun'
<1>1. job # Idle /\ job.pc = "page" /\ GraphRun /\ GraphPage /\ GraphEntry(res)
  BY DEF Page, Reading, Idle, GraphInv, GraphRun
<1>2. PICK some \in SUBSET job.todo \ {{}},
           again \in SUBSET {i \in Items \ job.todo :
                                /\ Home[i] = job.scope
                                /\ Changed(i, job.upto)} :
         Go([batch |-> Yield(UNION {RecordFor(i) : i \in some \cup again}),
             todo |-> job.todo \ some,
             listed |-> job.listed \cup some \cup again])
  BY DEF Page
<1> DEFINE rows == UNION {RecordFor(i) : i \in some \cup again}
<1>3. Now' = Now /\ Last' = Last /\ Live' = Live /\ Spot' = Spot
      /\ Now \in Nat /\ \A i \in Items : Last[i] \in 0 .. Now
  BY Standstill, Reads
<1>4. /\ {"pc", "batch", "res", "scope", "link", "upto", "resynced",
          "listed", "todo"} \subseteq DOMAIN job'
      /\ job'.pc = "page" /\ job'.link = job.link /\ job'.upto = job.upto
      /\ job'.listed = job.listed \cup some \cup again
      /\ job'.todo = job.todo \ some
      /\ job'.batch = job.batch \cup rows
      /\ job'.res = job.res /\ job'.scope = job.scope
  BY <1>1, <1>2 DEF Go, Over, Yield, GraphRun, GraphPage
<1>5. \A i \in again :
         i \in Items /\ Home[i] = job.scope /\ Last[i] > job.upto
  BY Reads DEF Changed
<1>6. \A i \in some \cup again :
         /\ i \in Items
         /\ Home[i] = job.scope
         /\ Due(i) \/ Last[i] > job.upto
  BY <1>1, <1>5 DEF GraphPage
<1>7. \A i \in some \cup again :
         RecordFor(i) = GraphRows(i) /\ (job.link # 0 => Last[i] > job.link)
  <2> SUFFICES ASSUME NEW i \in some \cup again
               PROVE  /\ RecordFor(i) = GraphRows(i)
                      /\ job.link # 0 => Last[i] > job.link
    OBVIOUS
  <2>1. i \in Items /\ Last[i] \in Nat /\ Last[i] # 0
        /\ (job.link # 0 => Last[i] > job.link)
    BY <1>1, <1>3, <1>6, Reads DEF Due, GraphPage
  <2> QED
    BY <2>1, GraphRecords
<1>8. \A b \in rows : \E i \in some \cup again : b \in GraphRows(i)
  BY <1>7
<1>9. \A i \in some \cup again : GraphRows(i) \subseteq rows
  BY <1>7
<1> HIDE DEF rows
<1>10. \A b \in rows : /\ b \in Items \X (0 .. Now)
                       /\ b[1] \in some \cup again
  <2> SUFFICES ASSUME NEW b \in rows
               PROVE  b \in Items \X (0 .. Now) /\ b[1] \in some \cup again
    OBVIOUS
  <2>1. PICK i \in some \cup again : b \in GraphRows(i)
    BY <1>8
  <2> QED
    BY <1>3, <1>6, <2>1 DEF GraphRows
<1>11. Packed' /\ GraphEntry(job.res)'
  BY <1>1, <1>3, <1>4, <1>10 DEF GraphRun, Packed, GraphEntry
<1>12. GraphPage'
  <2>1. \A i \in Items : (Due(i)' <=> Due(i)) /\ GraphRows(i)' = GraphRows(i)
    BY <1>3, <1>4 DEF Due, GraphRows
  <2>2. \A i \in job'.todo \cup job'.listed :
           i \in Items /\ Home[i] = job.scope /\ (Due(i)' \/ Last[i] > job.upto)
    BY <1>1, <1>4, <1>6, <2>1 DEF GraphPage
  <2>3. job.link # 0 => \A b \in job'.batch : /\ Last[b[1]] > job.link
                                             /\ Home[b[1]] = job.scope
    BY <1>1, <1>4, <1>6, <1>7, <1>10 DEF GraphPage
  <2>4. \A i \in Items \ job'.todo :
           Due(i)' => GraphRows(i) \subseteq job'.batch
    BY <1>1, <1>4, <1>9, <2>1 DEF GraphPage
  <2>5. job'.todo \subseteq Items /\ res' = res
    BY <1>1, <1>4 DEF GraphPage, landed
  <2> QED
    BY <1>1, <1>3, <1>4, <2>1, <2>2, <2>3, <2>4, <2>5 DEF GraphPage
<1> QED
  BY <1>1, <1>4, <1>11, <1>12 DEF GraphRun, landed

\* Exhausted, the feed has told of every item the link will not ask for.
LEMMA GraphEnds ==
    ASSUME Logged, GraphInv, kind = "graph", LastPage, UNCHANGED landed,
           log' = log
    PROVE  GraphRun'
<1>1. job # Idle /\ job.pc = "page" /\ GraphRun /\ GraphPage /\ GraphEntry(res)
      /\ job.res = res /\ GraphKept
  BY DEF LastPage, Reading, Idle, GraphInv, GraphRun
<1> DEFINE rows == UNION {RecordFor(i) : i \in job.todo}
           full == job.link = 0
           unseen == IF full THEN Items \ (job.listed \cup job.todo) ELSE {}
<1>2. /\ {"pc", "batch", "res", "scope"} \subseteq DOMAIN job'
      /\ job'.pc = "extracted" /\ job'.batch = job.batch \cup rows
      /\ job'.res = [job.res EXCEPT !.link = job.upto, !.scope = job.scope]
      /\ job'.unseen = unseen
  BY DEF LastPage, Finish, Yield
<1>3. Now' = Now /\ Last' = Last /\ Live' = Live /\ Spot' = Spot
      /\ Now \in Nat /\ \A i \in Items : Last[i] \in 0 .. Now
  BY Standstill, Reads
<1>4. \A i \in job.todo :
         /\ i \in Items
         /\ Home[i] = job.scope
         /\ RecordFor(i) = GraphRows(i)
         /\ job.link # 0 => Last[i] > job.link
  <2> SUFFICES ASSUME NEW i \in job.todo
               PROVE  /\ i \in Items
                      /\ Home[i] = job.scope
                      /\ RecordFor(i) = GraphRows(i)
                      /\ job.link # 0 => Last[i] > job.link
    OBVIOUS
  <2>1. i \in Items /\ Home[i] = job.scope /\ Last[i] # 0
        /\ (job.link # 0 => Last[i] > job.link)
    BY <1>1, <1>3, Reads DEF Due, GraphPage
  <2> QED
    BY <2>1, GraphRecords
<1>5. \A b \in rows : \E i \in job.todo : b \in GraphRows(i)
  BY <1>4
<1>6. \A i \in job.todo : GraphRows(i) \subseteq rows
  BY <1>4
<1> HIDE DEF rows
<1>7. \A b \in rows : b \in Items \X (0 .. Now) /\ b[1] \in job.todo
  <2> SUFFICES ASSUME NEW b \in rows
               PROVE  b \in Items \X (0 .. Now) /\ b[1] \in job.todo
    OBVIOUS
  <2>1. PICK i \in job.todo : b \in GraphRows(i)
    BY <1>5
  <2> QED
    BY <1>3, <1>4, <2>1 DEF GraphRows
<1>8. Packed'
  BY <1>1, <1>2, <1>3, <1>7 DEF GraphRun, Packed
<1>9. GraphEntry(job.res)' /\ job'.res.scope = job.scope
      /\ job'.res.link = job.upto
  BY <1>1, <1>2, <1>3 DEF GraphEntry, GraphPage
<1>10. job.link # 0 => \A b \in job'.batch : /\ Last[b[1]] > job.link
                                            /\ Home[b[1]] = job.scope
  BY <1>1, <1>2, <1>4, <1>7 DEF GraphPage
<1>11. \A i \in Items : Due(i) => GraphRows(i) \subseteq job'.batch
  BY <1>1, <1>2, <1>6 DEF GraphPage
<1>12. ASSUME NEW i \in Held, GraphOld(i, job.res)'
       PROVE  GraphBrings(i, job.res.scope)'
  <2> PICK scope : scope = job.scope
    OBVIOUS
  <2>1. i \in Items /\ (Last[i] <= job.upto \/ Home[i] # job.scope)
    BY <1>3, <1>9, <1>12, HoldsAssumption DEF Held, Logged, GraphOld
  <2>2. Picks' = {b[1] : b \in job'.batch}
        /\ Of(i)' = {b \in job'.batch : b[1] = i}
    BY DEF Picks, Of
  <2>3. /\ GraphShow(i, scope)' = GraphShow(i, scope)
        /\ Left(i, scope)' <=> Left(i, scope)
        /\ GraphFine(i, scope)' <=> GraphFine(i, scope)
    <3>1. GraphShow(i, scope)' = GraphShow(i, scope)
      BY <1>3 DEF GraphShow
    <3>2. Left(i, scope)' <=> Left(i, scope)
      BY <1>3 DEF Left
    <3> QED
      BY <3>1, <3>2 DEF GraphFine, landed
  <2>4. CASE Due(i)
    <3>1. i \in Live => Spot[i] = "in" \/ Left(i, scope)
      <4>1. i \in Live => Spot[i] \in Places(kind)
        BY <2>1, Reads
      <4>2. Places(kind) = {"in", "out"}
        BY DEF Places, CursorKinds
      <4> QED
        BY <2>4, <4>1, <4>2 DEF Due, Left
    <3>2. CASE GraphRows(i) = {}
      <4>1. Left(i, scope) /\ GraphShow(i, scope) = 0
        BY <3>1, <3>2 DEF GraphRows, GraphShow, Left
      <4> QED
        BY <1>9, <2>3, <4>1 DEF GraphBrings, GraphFine, landed
    <3>3. CASE GraphRows(i) # {}
      <4>1. <<i, GraphShow(i, scope)>> \in job'.batch
        BY <1>11, <2>1, <2>4, <3>3 DEF GraphRows, GraphShow, Due
      <4>2. i \in Picks' /\ <<i, GraphShow(i, scope)>> \in Of(i)'
        BY <2>2, <4>1
      <4>3. (\A a, b \in Of(i)' : a = b) =>
               \A b \in Of(i)' : b[2] = GraphShow(i, scope)
        <5>1. <<i, GraphShow(i, scope)>>[2] = GraphShow(i, scope)
          OBVIOUS
        <5> QED
          BY <4>2, <5>1
      <4> QED
        BY <1>9, <2>3, <4>2, <4>3 DEF GraphBrings
    <3> QED
      BY <3>2, <3>3
  <2>5. CASE ~ Due(i) /\ full
    <3>1. GraphShow(i, scope) = 0
      BY <2>1, <2>5 DEF Due, GraphShow
    <3>2. i \in unseen
      BY <1>1, <1>3, <2>1, <2>5 DEF GraphPage
    <3> HIDE DEF unseen
    <3> QED
      BY <1>2, <1>9, <2>3, <3>1, <3>2 DEF GraphBrings, GraphFine, landed
  <2>6. CASE ~ Due(i) /\ ~ full
    <3>1. i \notin Picks'
      BY <1>1, <1>3, <1>10, <2>1, <2>2, <2>6 DEF Due, GraphPage
    <3>2. GraphOld(i, res) /\ res.scope = job.scope
      BY <1>1, <1>3, <2>1, <2>6 DEF Due, GraphPage, GraphOld
    <3> QED
      BY <1>1, <1>9, <2>3, <3>1, <3>2 DEF GraphKept, GraphBrings
  <2> QED
    BY <2>4, <2>5, <2>6
<1>13. Held' = Held
  BY DEF LastPage, Finish, hostVars, Held
<1> QED
  BY <1>2, <1>8, <1>9, <1>12, <1>13 DEF GraphRun

LEMMA GraphLoads ==
    ASSUME Logged, GraphInv, kind = "graph", Load, log' = log, kind' = kind
    PROVE  GraphInv'
<1>1. job # Idle /\ job.pc = "extracted" /\ GraphRun
      /\ table \in [Items -> Nat]
  BY DEF Load, Idle, GraphInv
<1>2. res' = job.res /\ job' = Idle /\ Held' = Held
  BY DEF Load, Held
<1>3. Now' = Now /\ Last' = Last /\ Live' = Live /\ Spot' = Spot
  BY Standstill
<1>4. /\ table' \in [Items -> Nat]
      /\ \A i \in Items \ Picks :
            /\ table'[i] = table[i]
            /\ i \in tied' <=> i \in tied
            /\ i \in missed' <=> i \in missed \/ i \in job.unseen
      /\ \A i \in Picks :
            /\ <<i, table'[i]>> \in Candidates(i)
            /\ i \in missed' <=> i \in job.unseen
            /\ i \notin tied' =>
                  \A b \in Candidates(i) : b[2] = table'[i]
  BY <1>1, Loading DEF GraphRun
<1>5. \A i : Candidates(i) = Of(i)
  BY DEF Candidates, Sorted
<1>6. ASSUME NEW i \in Held, GraphOld(i, res)'
      PROVE  GraphFine(i, res.scope)'
  <2>1. i \in Items
    BY HoldsAssumption DEF Held, Logged
  <2>2. GraphBrings(i, job.res.scope)
    BY <1>1, <1>2, <1>3, <1>6 DEF GraphRun, GraphOld
  <2>3. GraphShow(i, res.scope)' = GraphShow(i, job.res.scope)
        /\ (Left(i, res.scope)' <=> Left(i, job.res.scope))
    BY <1>2, <1>3 DEF GraphShow, Left
  <2>4. CASE i \notin Picks
    BY <1>4, <2>1, <2>2, <2>3, <2>4 DEF GraphBrings, GraphFine
  <2>5. CASE i \in Picks /\ i \notin tied'
    <3>1. \A b \in Of(i) : b = <<i, b[2]>>
      <4>1. job.batch \subseteq Items \X (0 .. Now)
        BY <1>1 DEF GraphRun, Packed
      <4> QED
        BY <4>1 DEF Of
    <3>2. \A b \in Of(i) : b[2] = table'[i]
      BY <1>4, <1>5, <2>5
    <3>3. \A a, b \in Of(i) : a = b
      BY <3>1, <3>2
    <3>4. \/ table'[i] = GraphShow(i, job.res.scope)
          \/ /\ table'[i] # 0
             /\ i \in job.unseen \/ Left(i, job.res.scope)
      <4>1. <<i, table'[i]>> \in Of(i) /\ <<i, table'[i]>>[2] = table'[i]
        BY <1>4, <1>5, <2>5
      <4> QED
        BY <2>2, <2>5, <3>3, <4>1 DEF GraphBrings
    <3> QED
      BY <1>4, <2>3, <2>5, <3>4 DEF GraphFine
  <2> QED
    BY <2>4, <2>5 DEF GraphFine
<1> QED
  BY <1>1, <1>2, <1>3, <1>4, <1>6 DEF GraphInv, GraphKept, GraphRun, GraphEntry

LEMMA GraphStep == Common /\ GraphInv /\ [Next]_vars => GraphInv'
<1> SUFFICES ASSUME Common, GraphInv, [Next]_vars, kind = "graph"
             PROVE  GraphInv'
  BY Steps DEF GraphInv
<1>1. kind' = kind /\ Logged /\ Held' = Held
  BY Steps DEF Common, Held
<1>2. CASE HostChanges
  BY <1>1, <1>2, Moves, GraphMoves
<1>3. ASSUME log' = log
      PROVE  /\ UNCHANGED <<Now, Last, Live, Spot>>
             /\ UNCHANGED landed => (GraphKept' <=> GraphKept)
  <2>1. UNCHANGED <<Now, Last, Live, Spot>>
    BY <1>3, Standstill
  <2> QED
    BY <1>1, <2>1 DEF GraphKept, GraphOld, GraphFine, GraphShow, Left, landed
<1>4. CASE Aside /\ log' = log
  <2>1. UNCHANGED <<landed, job, Now, Last, Live, Spot, Held>>
    BY <1>1, <1>3, <1>4 DEF Aside
  <2>2. GraphKept' <=> GraphKept
    BY <1>3, <1>4, <2>1
  <2>3. GraphRun' <=> GraphRun
    BY <2>1 DEF landed, GraphRun, Packed, GraphEntry, GraphPage, Due,
       GraphRows, GraphOld, GraphBrings, GraphFine, GraphShow, Left, Picks, Of
  <2> QED
    BY <1>1, <2>1, <2>2, <2>3 DEF GraphInv, GraphEntry, landed
<1>5. CASE log' = log /\ job' = Idle /\ UNCHANGED landed
  BY <1>1, <1>3, <1>5 DEF GraphInv, GraphEntry, landed
<1>6. CASE log' = log /\ Load
  BY <1>1, <1>6, GraphLoads
<1>7. CASE Goes
  <2>1. log' = log /\ UNCHANGED landed /\ Graph
    BY <1>7 DEF Goes, CursorKinds
  <2>2. SUFFICES GraphRun'
    BY <1>1, <1>3, <2>1 DEF GraphInv, GraphEntry, landed
  <2>3. CASE GraphStart
    <3>1. job' = Over([pc |-> "delta"],
                      [batch |-> {}, res |-> res, scope |-> conf])
      BY <2>3 DEF GraphStart, Begin
    <3>2. /\ DOMAIN job' = {"pc", "batch", "res", "scope"}
          /\ job'.pc = "delta" /\ job'.batch = {} /\ job'.res = res
      BY <3>1 DEF Over
    <3> QED
      BY <1>3, <2>1, <3>2 DEF GraphRun, GraphInv, GraphEntry, Packed, landed
  <2>4. CASE Delta
    <3> DEFINE link == IF res.scope = job.scope THEN res.link ELSE 0
    <3>1. Go(Request(link, FALSE)) /\ job.pc = "delta"
      BY <2>4 DEF Delta, Reading
    <3>2. job # Idle /\ GraphRun /\ GraphEntry(res)
      BY <3>1 DEF Idle, GraphInv
    <3>3. /\ link \in 0 .. Now
          /\ link # 0 => /\ link = res.link /\ job.scope = res.scope
                         /\ job.batch = {}
      BY <1>1, <3>1, <3>2, Reads DEF GraphEntry, GraphRun
    <3> HIDE DEF link
    <3> QED
      BY <1>1, <2>1, <3>1, <3>2, <3>3, GraphRequests
  <2>5. CASE Resync
    <3>1. Go(Request(0, TRUE)) /\ job.pc = "page"
      BY <2>5 DEF Resync, Reading
    <3>2. job # Idle /\ GraphRun /\ GraphEntry(res)
      BY <3>1 DEF Idle, GraphInv
    <3>3. 0 \in 0 .. Now
      BY <1>1, Reads
    <3> QED
      BY <1>1, <2>1, <3>1, <3>2, <3>3, GraphRequests
  <2>6. CASE Page
    BY <1>1, <2>1, <2>6, GraphPages
  <2>7. CASE LastPage
    BY <1>1, <2>1, <2>7, GraphEnds
  <2> QED
    BY <2>1, <2>3, <2>4, <2>5, <2>6, <2>7 DEF Graph
<1> QED
  BY <1>2, <1>4, <1>5, <1>6, <1>7, Steps

LEMMA GraphInvariant == Spec => []GraphInv
<1> QED
  BY CommonInvariant, GraphInitially, GraphStep, PTL DEF Spec

-----------------------------------------------------------------------------
(* Gmail's history id *)

\* What the row of i is to show.
Shown(i) == IF i \in Live THEN Last[i] ELSE 0

GmailFine(i) ==
    \/ table[i] = Shown(i)
    \/ i \in tied
    \/ table[i] # 0 /\ i \in missed

\* Loaded, the package leaves the row of i fine.
GmailBrings(i) ==
    IF i \in Picks
    THEN \A b \in Of(i) : b[2] = Shown(i)
    ELSE GmailFine(i) \/ (table[i] # 0 /\ i \in job.unseen)

\* A parked backfill has the watermark of what it has listed.
GmailEntry(entry) ==
    /\ {"history", "parked", "mark", "resume"} \subseteq DOMAIN entry
    /\ entry.history \in 0 .. Now
    /\ entry.resume => /\ entry.mark \in entry.history .. Now
                       /\ entry.parked \subseteq Items
                       /\ \A i \in entry.parked :
                             Last[i] <= entry.mark => i \in Live

\* No Run will ask for what i has come to.
GmailOld(i, entry) ==
    \/ Last[i] <= entry.history
    \/ entry.resume /\ i \in entry.parked /\ Last[i] <= entry.mark
GmailKept == \A i \in Held : GmailOld(i, res) => GmailFine(i)

\* The history up to pos has been read: what is deleted stays so, and what
\* has changed is to be fetched, or was, as it is if it has not changed since.
GmailHistory ==
    /\ {"pos", "changed", "deleted"} \subseteq DOMAIN job
    /\ ~ res.resume
    /\ job.pos \in res.history .. Now
    /\ job.changed \subseteq Items
    /\ job.deleted \subseteq Items \ Live
    /\ \A i \in job.changed \cup job.deleted : Last[i] > res.history
    /\ \A b \in job.batch :
          /\ Last[b[1]] > res.history
          /\ Last[b[1]] <= job.pos => b[2] = Shown(b[1])
    /\ \A i \in Items :
          res.history < Last[i] /\ Last[i] <= job.pos =>
             \/ i \notin Live /\ i \in job.deleted
             \/ /\ i \in Live
                /\ i \in job.changed \/ <<i, Last[i]>> \in job.batch

\* What has not changed since the watermark is there, once it was listed, and
\* its row with it.
GmailListing ==
    /\ {"todo", "done", "mark"} \subseteq DOMAIN job
    /\ job.mark \in res.history .. Now
    /\ res.resume => job.mark = res.mark
    /\ job.done \subseteq Items
    /\ job.todo \subseteq job.done
    /\ \A i \in job.todo : Last[i] <= job.mark => i \in Live
    /\ \A b \in job.batch :
          Last[b[1]] <= job.mark => b[1] \in Live /\ b[2] = Last[b[1]]
    /\ \A i \in job.done \ job.todo :
          Last[i] <= job.mark =>
             \/ i \in Live /\ <<i, Last[i]>> \in job.batch
             \/ res.resume /\ i \in res.parked

GmailRun ==
    /\ {"pc", "batch", "res", "scope"} \subseteq DOMAIN job
    /\ Packed
    /\ job.pc \in {"history", "fetch", "profile", "list", "extracted"}
    /\ GmailEntry(job.res)
    /\ job.pc # "extracted" => job.res = res
    /\ job.pc \in {"history", "profile"} => job.batch = {}
    /\ job.pc \in {"history", "fetch"} => GmailHistory
    /\ job.pc = "list" => GmailListing
    /\ job.pc = "extracted" =>
          \A i \in Held : GmailOld(i, job.res) => GmailBrings(i)
GmailInv ==
    kind = "gmail" =>
        /\ table \in [Items -> Nat]
        /\ GmailEntry(res)
        /\ GmailKept
        /\ job = Idle \/ GmailRun

LEMMA GmailInitially == Init => GmailInv
<1> SUFFICES ASSUME Init, kind = "gmail"
             PROVE  GmailInv
  BY DEF GmailInv
<1>1. /\ res = [history |-> 0, synced |-> FALSE,
                parked |-> {}, mark |-> 0, resume |-> FALSE]
      /\ job = Idle /\ table = [i \in Items |-> 0] /\ Logged
  BY CommonInit DEF Init, GmailInit, Common, CursorKinds
<1>2. GmailEntry(res)
  BY <1>1, Reads DEF GmailEntry
<1>3. ASSUME NEW i \in Held, GmailOld(i, res)
      PROVE  GmailFine(i)
  <2>1. i \in Items
    BY <1>1, HoldsAssumption DEF Held, Logged
  <2>2. i \notin Live
    BY <1>1, <1>3, <2>1, Reads DEF GmailOld
  <2> QED
    BY <1>1, <2>1, <2>2 DEF GmailFine, Shown
<1> QED
  BY <1>1, <1>2, <1>3 DEF GmailInv, GmailKept

LEMMA GmailMoves ==
    ASSUME Common, GmailInv, kind = "gmail", kind' = kind, Aside,
           NEW j \in Held, Moved(j), Last[j] = 0 \/ j \in Live
    PROVE  GmailInv'
<1>1. /\ Logged /\ Held \subseteq Items /\ Held' = Held
      /\ table' = table /\ res' = res /\ tied' = tied /\ missed' = missed
      /\ job' = job
      /\ Now \in Nat
  BY HoldsAssumption, Reads DEF Held, Common, Logged, Aside, landed
<1>2. /\ Last'[j] = Now + 1 /\ Now' = Now + 1 /\ j \in Items
      /\ \A i \in Items : Last[i] \in 0 .. Now
      /\ \A i \in Items \ {j} :
            /\ Last'[i] = Last[i]
            /\ i \in Live' <=> i \in Live
  <2>1. Last \in [Items -> Nat]
    BY <1>1, Reads DEF Last
  <2>2. \A i \in Items : Last[i] \in 0 .. Now
    BY <1>1, Reads
  <2> QED
    BY <1>1, <2>1, <2>2 DEF Moved
<1>3. ASSUME NEW entry, GmailEntry(entry)
      PROVE  /\ {"history", "parked", "mark", "resume"} \subseteq DOMAIN entry
             /\ entry.history \in 0 .. Now'
             /\ entry.resume =>
                   /\ entry.mark \in entry.history .. Now'
                   /\ entry.parked \subseteq Items
                   /\ \A i \in entry.parked :
                         Last'[i] <= entry.mark => i \in Live'
             /\ \A i \in Items :
                   /\ Last'[i] <= entry.history => i # j
                   /\ entry.resume /\ Last'[i] <= entry.mark => i # j
  BY <1>1, <1>2, <1>3 DEF GmailEntry
<1>4. GmailEntry(res)'
  BY <1>1, <1>3 DEF GmailInv, GmailEntry
<1>5. \A i \in Items \ {j} :
         /\ Shown(i)' = Shown(i)
         /\ GmailFine(i)' <=> GmailFine(i)
         /\ GmailBrings(i)' <=> GmailBrings(i)
  <2>1. \A i \in Items \ {j} : Shown(i)' = Shown(i)
    BY <1>2 DEF Shown
  <2>2. \A i \in Items \ {j} : GmailFine(i)' <=> GmailFine(i)
    BY <1>1, <2>1 DEF GmailFine
  <2>3. Picks' = Picks /\ \A i : Of(i)' = Of(i)
    BY <1>1 DEF Picks, Of
  <2> QED
    BY <1>1, <2>1, <2>2, <2>3 DEF GmailBrings
<1>6. \A i \in Held : GmailOld(i, res)' => i # j /\ GmailOld(i, res)
  BY <1>1, <1>2, <1>3 DEF GmailInv, GmailOld
<1>7. GmailKept'
  BY <1>1, <1>5, <1>6 DEF GmailInv, GmailKept
<1>8. ASSUME GmailRun
      PROVE  GmailRun'
  <2>1. Packed'
    BY <1>1, <1>2, <1>8 DEF GmailRun, Packed
  <2>2. GmailEntry(job.res)'
    BY <1>1, <1>3, <1>8 DEF GmailRun, GmailEntry
  <2>3. \A b \in job.batch : b[1] \in Items
    BY <1>8 DEF GmailRun, Packed
  <2>4. ASSUME job.pc \in {"history", "fetch"}
        PROVE  GmailHistory'
    <3>1. GmailHistory
      BY <1>8, <2>4 DEF GmailRun
    <3>2. j \notin job.deleted
      BY <1>1, <1>2, <3>1 DEF GmailHistory, GmailInv, GmailEntry
    <3>3. \A i \in job.changed \cup job.deleted : Last'[i] > res.history
      BY <1>1, <1>2, <3>1 DEF GmailHistory, GmailInv, GmailEntry
    <3>4. \A b \in job.batch :
             /\ Last'[b[1]] > res.history
             /\ Last'[b[1]] <= job.pos => b[2] = Shown(b[1])'
      BY <1>1, <1>2, <1>5, <2>3, <3>1 DEF GmailHistory, GmailInv, GmailEntry
    <3>5. \A i \in Items : Last'[i] <= job.pos => i # j
      BY <1>1, <1>2, <3>1 DEF GmailHistory, GmailInv, GmailEntry
    <3>6. \A i \in Items :
             res.history < Last'[i] /\ Last'[i] <= job.pos =>
                \/ i \notin Live' /\ i \in job.deleted
                \/ /\ i \in Live'
                   /\ i \in job.changed \/ <<i, Last'[i]>> \in job.batch
      BY <1>2, <3>1, <3>5 DEF GmailHistory
    <3>7. job.deleted \subseteq Items \ Live' /\ job.pos \in res.history .. Now'
      BY <1>1, <1>2, <3>1, <3>2 DEF GmailHistory, GmailInv, GmailEntry
    <3> QED
      BY <1>1, <3>1, <3>3, <3>4, <3>6, <3>7 DEF GmailHistory
  <2>5. ASSUME job.pc = "list"
        PROVE  GmailListing'
    <3>1. GmailListing
      BY <1>8, <2>5 DEF GmailRun
    <3>2. \A i \in Items : Last'[i] <= job.mark => i # j
      BY <1>1, <1>2, <3>1 DEF GmailListing, GmailInv, GmailEntry
    <3>3. \A i \in job.todo : Last'[i] <= job.mark => i \in Live'
      BY <1>2, <3>1, <3>2 DEF GmailListing
    <3>4. \A b \in job.batch : Last'[b[1]] <= job.mark =>
                                b[1] \in Live' /\ b[2] = Last'[b[1]]
      BY <1>2, <2>3, <3>1, <3>2 DEF GmailListing
    <3>5. \A i \in job.done \ job.todo :
             Last'[i] <= job.mark =>
                \/ i \in Live' /\ <<i, Last'[i]>> \in job.batch
                \/ res.resume /\ i \in res.parked
      BY <1>2, <3>1, <3>2 DEF GmailListing
    <3>6. job.mark \in res.history .. Now'
      BY <1>1, <1>2, <3>1 DEF GmailListing, GmailInv, GmailEntry
    <3> QED
      BY <1>1, <3>1, <3>3, <3>4, <3>5, <3>6 DEF GmailListing
  <2>6. ASSUME job.pc = "extracted", NEW i \in Held, GmailOld(i, job.res)'
        PROVE  GmailBrings(i)'
    <3>1. i # j /\ GmailOld(i, job.res)
      BY <1>1, <1>2, <1>3, <1>8, <2>6 DEF GmailRun, GmailOld
    <3> QED
      BY <1>1, <1>5, <1>8, <2>6, <3>1 DEF GmailRun
  <2> QED
    BY <1>1, <1>8, <2>1, <2>2, <2>4, <2>5, <2>6 DEF GmailRun
<1> QED
  BY <1>1, <1>4, <1>7, <1>8 DEF GmailInv

\* What a page of the history says of the items whose changes it lists.
LEMMA GmailIds ==
    ASSUME Logged, Final(log), NEW p \in Nat, NEW q \in Nat, q <= Now
    PROVE  /\ Ids(p + 1 .. q, FALSE) \subseteq Items
           /\ Ids(p + 1 .. q, TRUE) \subseteq Items \ Live
           /\ \A i \in Ids(p + 1 .. q, FALSE) \cup Ids(p + 1 .. q, TRUE) :
                 Last[i] > p
           /\ \A i \in Items :
                 p < Last[i] /\ Last[i] <= q =>
                    IF i \in Live THEN i \in Ids(p + 1 .. q, FALSE)
                                 ELSE i \in Ids(p + 1 .. q, TRUE)
<1>1. Now \in Nat /\ DOMAIN log = 1 .. Now /\ log \in Seq(Changes(kind))
  BY DEF Logged, Histories, Now, Changes
<1>2. \A n \in 1 .. Now : log[n] \in Changes(kind)
  BY <1>1
<1>3. \A n \in 1 .. Now : log[n].id \in Items /\ log[n].gone \in BOOLEAN
  BY <1>2 DEF Changes
<1>4. \A i \in Items :
         /\ Last[i] \in 0 .. Now
         /\ Last[i] # 0 => log[Last[i]].id = i
         /\ i \in Live <=> Last[i] # 0 /\ ~ log[Last[i]].gone
         /\ \A n \in 1 .. Now : log[n].id = i => n <= Last[i]
  BY Reads
<1>5. ASSUME NEW n \in p + 1 .. q
      PROVE  /\ n \in 1 .. Now
             /\ log[n].id \in Items
             /\ Last[log[n].id] > p
             /\ log[n].gone => log[n].id \notin Live
  <2>1. n \in 1 .. Now /\ log[n].id \in Items
    BY <1>1, <1>3
  <2> DEFINE i == log[n].id
  <2>2. n <= Last[i]
    BY <1>4, <2>1
  <2>3. Last[i] > p
    BY <1>4, <2>1, <2>2
  <2>4. ASSUME log[n].gone, i \in Live
        PROVE  FALSE
    <3>1. Last[i] # n /\ Last[i] \in 1 .. Now /\ log[Last[i]].id = i
      BY <1>4, <2>1, <2>4
    <3>2. n < Last[i]
      BY <2>1, <2>2, <3>1
    <3> QED
      BY <1>1, <2>1, <2>4, <3>1, <3>2 DEF Final
  <2> QED
    BY <2>1, <2>3, <2>4
<1>6. \A positions, gone : Ids(positions, gone) =
         {log[n].id : n \in {k \in positions : log[k].gone = gone}}
  BY DEF Ids
<1>7. ASSUME NEW i \in Items, p < Last[i], Last[i] <= q
      PROVE  IF i \in Live THEN i \in Ids(p + 1 .. q, FALSE)
                          ELSE i \in Ids(p + 1 .. q, TRUE)
  <2>1. Last[i] \in p + 1 .. q /\ log[Last[i]].id = i
        /\ log[Last[i]].gone \in BOOLEAN
        /\ (i \in Live <=> ~ log[Last[i]].gone)
    BY <1>1, <1>3, <1>4, <1>7
  <2> QED
    BY <1>6, <2>1
<1> QED
  BY <1>5, <1>6, <1>7

LEMMA GmailReads ==
    ASSUME Common, GmailInv, kind = "gmail", HistoryPage, log' = log,
           UNCHANGED landed
    PROVE  GmailRun'
<1>1. job # Idle /\ job.pc = "history" /\ GmailRun /\ GmailHistory
      /\ job.batch = {} /\ GmailEntry(res) /\ job.res = res
      /\ {"pc", "batch", "res", "scope", "pos", "changed", "deleted"}
            \subseteq DOMAIN job
  BY DEF HistoryPage, Reading, Idle, GmailInv, GmailRun, GmailHistory
<1>2. PICK q \in job.pos + 1 .. Now :
         Go([pos |-> q,
             changed |-> job.changed \cup Ids(job.pos + 1 .. q, FALSE),
             deleted |-> job.deleted \cup Ids(job.pos + 1 .. q, TRUE)])
  BY DEF HistoryPage
<1> DEFINE changed == Ids(job.pos + 1 .. q, FALSE)
           deleted == Ids(job.pos + 1 .. q, TRUE)
<1>3. /\ {"pc", "batch", "res", "scope", "pos", "changed", "deleted"}
            \subseteq DOMAIN job'
      /\ job'.pc = "history" /\ job'.pos = q /\ job'.batch = {}
      /\ job'.changed = job.changed \cup changed
      /\ job'.deleted = job.deleted \cup deleted
      /\ job'.res = res /\ job'.scope = job.scope
  <2>1. job' = Over([pos |-> q, changed |-> job.changed \cup changed,
                     deleted |-> job.deleted \cup deleted], job)
    BY <1>2 DEF Go
  <2> HIDE DEF changed, deleted
  <2> QED
    BY <1>1, <2>1 DEF Over
<1>4. Logged /\ Final(log) /\ Now' = Now /\ Last' = Last /\ Live' = Live
      /\ res' = res /\ Now \in Nat /\ \A i \in Items : Last[i] \in 0 .. Now
  BY Standstill, Reads DEF Common, landed
<1>5. job.pos \in Nat /\ q \in Nat /\ q <= Now /\ res.history \in Nat
      /\ res.history <= job.pos /\ job.pos < q
  BY <1>1, <1>4 DEF GmailHistory, GmailEntry
<1>6. /\ changed \subseteq Items
      /\ deleted \subseteq Items \ Live
      /\ \A i \in changed \cup deleted : Last[i] > job.pos
      /\ \A i \in Items :
            job.pos < Last[i] /\ Last[i] <= q =>
               IF i \in Live THEN i \in changed ELSE i \in deleted
  BY <1>4, <1>5, GmailIds
<1> HIDE DEF changed, deleted
<1>7. \A i \in job'.changed \cup job'.deleted : Last[i] > res.history
  BY <1>1, <1>3, <1>4, <1>5, <1>6 DEF GmailHistory
<1>8. ASSUME NEW i \in Items, res.history < Last[i], Last[i] <= q
      PROVE  \/ i \notin Live /\ i \in job'.deleted
             \/ i \in Live /\ i \in job'.changed
  <2>1. CASE Last[i] <= job.pos
    BY <1>1, <1>3, <1>8, <2>1 DEF GmailHistory
  <2>2. CASE ~ Last[i] <= job.pos
    BY <1>3, <1>4, <1>5, <1>6, <1>8, <2>2
  <2> QED
    BY <2>1, <2>2
<1>9. GmailHistory'
  BY <1>1, <1>3, <1>4, <1>5, <1>6, <1>7, <1>8 DEF GmailHistory
<1>10. GmailEntry(res)' /\ Packed'
  BY <1>1, <1>3, <1>4 DEF GmailEntry, Packed
<1> QED
  BY <1>3, <1>4, <1>9, <1>10 DEF GmailRun, GmailEntry

\* The fetches of the incremental path, and the tombstones after them.
LEMMA GmailFetches ==
    ASSUME Common, GmailInv, kind = "gmail", FetchChanged, log' = log,
           UNCHANGED landed
    PROVE  GmailRun'
<1>1. job # Idle /\ job.pc = "fetch" /\ GmailRun /\ GmailHistory
      /\ GmailEntry(res) /\ job.res = res /\ Packed
      /\ {"pc", "batch", "res", "scope", "pos", "changed", "deleted"}
            \subseteq DOMAIN job
  BY DEF FetchChanged, Reading, Idle, GmailInv, GmailRun, GmailHistory
<1>2. PICK i \in job.changed :
         Go([changed |-> job.changed \ {i},
             batch |-> Yield(Fetched(i, {Tombstone(i)}))])
  BY DEF FetchChanged
<1>3. Logged /\ Now' = Now /\ Last' = Last /\ Live' = Live
      /\ res' = res /\ Now \in Nat /\ \A j \in Items : Last[j] \in 0 .. Now
  BY Standstill, Reads DEF Common, landed
<1>4. i \in Items /\ Fetched(i, {Tombstone(i)}) = {<<i, Shown(i)>>}
  <2>1. i \in Items
    BY <1>1 DEF GmailHistory
  <2>2. LastOf(i, Now) = Last[i] /\ (Alive(i, Now) <=> i \in Live)
    BY <1>3, <2>1, Reads
  <2> QED
    BY <2>1, <2>2 DEF Fetched, Shown, Record, Tombstone
<1>5. /\ {"pc", "batch", "res", "scope", "pos", "changed", "deleted"}
            \subseteq DOMAIN job'
      /\ job'.pc = "fetch" /\ job'.pos = job.pos
      /\ job'.batch = job.batch \cup {<<i, Shown(i)>>}
      /\ job'.changed = job.changed \ {i}
      /\ job'.deleted = job.deleted
      /\ job'.res = res /\ job'.scope = job.scope
  BY <1>1, <1>2, <1>4 DEF Go, Over, Yield
<1>6. \A j : Shown(j)' = Shown(j)
  BY <1>3 DEF Shown
<1>7. Shown(i) \in 0 .. Now
  BY <1>3, <1>4 DEF Shown
<1>8. \A b \in job'.batch :
         /\ Last[b[1]] > res.history
         /\ Last[b[1]] <= job.pos => b[2] = Shown(b[1])
  BY <1>1, <1>5 DEF GmailHistory
<1>9. ASSUME NEW j \in Items, res.history < Last[j], Last[j] <= job.pos
      PROVE  \/ j \notin Live /\ j \in job.deleted
             \/ /\ j \in Live
                /\ j \in job'.changed \/ <<j, Last[j]>> \in job'.batch
  <2>1. CASE j = i /\ i \in Live
    BY <1>5, <2>1 DEF Shown
  <2>2. CASE j # i \/ i \notin Live
    BY <1>1, <1>5, <1>9, <2>2 DEF GmailHistory
  <2> QED
    BY <2>1, <2>2
<1>10. GmailHistory'
  BY <1>1, <1>3, <1>5, <1>6, <1>8, <1>9 DEF GmailHistory
<1>11. GmailEntry(res)' /\ Packed'
  BY <1>1, <1>3, <1>4, <1>5, <1>7 DEF GmailEntry, Packed
<1> QED
  BY <1>3, <1>5, <1>10, <1>11 DEF GmailRun, GmailEntry

LEMMA GmailEmits ==
    ASSUME Common, GmailInv, kind = "gmail", EmitDeleted, log' = log,
           UNCHANGED landed, kind' = kind
    PROVE  GmailRun'
<1>1. job # Idle /\ job.pc = "fetch" /\ GmailRun /\ GmailHistory /\ GmailKept
      /\ GmailEntry(res) /\ job.res = res /\ Packed /\ job.changed = {}
  BY DEF EmitDeleted, Reading, Idle, GmailInv, GmailRun
<1> DEFINE rows == {<<i, 0>> : i \in job.deleted}
<1>2. /\ {"pc", "batch", "res", "scope"} \subseteq DOMAIN job'
      /\ job'.pc = "extracted"
      /\ job'.batch = job.batch \cup rows
      /\ job'.res = [res EXCEPT !.history = job.pos]
  BY <1>1 DEF EmitDeleted, Finish, Yield, Tombstone
<1>3. Logged /\ Now' = Now /\ Last' = Last /\ Live' = Live /\ res' = res
      /\ table' = table /\ tied' = tied /\ missed' = missed /\ Held' = Held
      /\ Now \in Nat /\ \A j \in Items : Last[j] \in 0 .. Now
  BY Standstill, Reads DEF Common, landed, Held
<1>4. /\ GmailEntry(job.res)' /\ ~ job'.res.resume
      /\ job'.res.history = job.pos
  BY <1>1, <1>2, <1>3 DEF GmailEntry, GmailHistory
<1>5. Packed'
  BY <1>1, <1>2, <1>3 DEF Packed, GmailHistory
<1>6. \A b \in job'.batch :
         /\ Last[b[1]] > res.history
         /\ Last[b[1]] <= job.pos => b[2] = Shown(b[1])
  BY <1>1, <1>2 DEF GmailHistory, Shown
<1>7. ASSUME NEW i \in Held, GmailOld(i, job.res)'
      PROVE  GmailBrings(i)'
  <2>1. i \in Items /\ Last[i] <= job.pos
    BY <1>3, <1>4, <1>7, HoldsAssumption DEF GmailOld, Held, Logged
  <2>2. Picks' = {b[1] : b \in job'.batch}
        /\ Of(i)' = {b \in job'.batch : b[1] = i}
    BY DEF Picks, Of
  <2>3. Shown(i)' = Shown(i) /\ (GmailFine(i)' <=> GmailFine(i))
    BY <1>3 DEF Shown, GmailFine
  <2>4. CASE i \in Picks'
    BY <1>6, <2>1, <2>2, <2>3, <2>4 DEF GmailBrings
  <2>5. CASE i \notin Picks'
    <3>1. <<i, Last[i]>> \notin job'.batch /\ <<i, 0>> \notin job'.batch
      <4>1. <<i, Last[i]>>[1] = i /\ <<i, 0>>[1] = i
        OBVIOUS
      <4> QED
        BY <2>2, <2>5, <4>1
    <3>2. Last[i] <= res.history
      BY <1>1, <1>2, <1>3, <2>1, <3>1 DEF GmailHistory, GmailEntry
    <3>3. GmailFine(i)
      BY <1>1, <3>2 DEF GmailKept, GmailOld
    <3> QED
      BY <2>3, <2>5, <3>3 DEF GmailBrings
  <2> QED
    BY <2>4, <2>5
<1> QED
  BY <1>2, <1>3, <1>4, <1>5, <1>7 DEF GmailRun

\* The steps that read nothing.
LEMMA GmailTurns ==
    ASSUME Common, GmailInv, kind = "gmail", log' = log, UNCHANGED landed,
           GmailStart \/ HistoryTooOld \/ Plan \/ Profile
    PROVE  GmailRun'
<1>1. /\ Logged /\ Now' = Now /\ Last' = Last /\ Live' = Live
      /\ res' = res /\ GmailEntry(res)
      /\ Now \in Nat /\ \A j \in Items : Last[j] \in 0 .. Now
  BY Standstill, Reads DEF Common, landed, GmailInv
<1>2. GmailEntry(res)'
  BY <1>1 DEF GmailEntry
<1>3. \A j : Shown(j)' = Shown(j)
  BY <1>1 DEF Shown
<1>4. CASE GmailStart
  <2> PICK pc : pc = IF res.synced /\ ~ res.resume THEN "history"
                                                   ELSE "profile"
    OBVIOUS
  <2>1. job' = Over([pc |-> pc, pos |-> res.history, changed |-> {},
                     deleted |-> {}],
                    [batch |-> {}, res |-> res, scope |-> conf])
    BY <1>4 DEF GmailStart, Begin
  <2>2. /\ {"pc", "batch", "res", "scope", "pos", "changed", "deleted"}
              \subseteq DOMAIN job'
        /\ job'.pc = pc /\ job'.pos = res.history /\ job'.batch = {}
        /\ job'.changed = {} /\ job'.deleted = {} /\ job'.res = res
    BY <2>1 DEF Over
  <2>3. pc = "history" => GmailHistory'
    BY <1>1, <2>2 DEF GmailHistory, GmailEntry
  <2> QED
    BY <1>1, <1>2, <2>2, <2>3 DEF GmailRun, GmailEntry, Packed
<1>5. CASE HistoryTooOld
  <2>1. job # Idle /\ job.pc = "history" /\ GmailRun /\ job.batch = {}
        /\ {"pc", "batch", "res", "scope"} \subseteq DOMAIN job
        /\ job.res = res
    BY <1>5 DEF HistoryTooOld, Reading, Idle, GmailInv, GmailRun
  <2>2. job' = Over([pc |-> "profile"], job)
    BY <1>5 DEF HistoryTooOld, Go
  <2>3. /\ {"pc", "batch", "res", "scope"} \subseteq DOMAIN job'
        /\ job'.pc = "profile" /\ job'.batch = {} /\ job'.res = res
    BY <2>1, <2>2 DEF Over
  <2> QED
    BY <1>1, <1>2, <2>3 DEF GmailRun, GmailEntry, Packed
<1>6. CASE Plan
  <2>1. job # Idle /\ job.pc = "history" /\ GmailRun /\ job.batch = {}
        /\ {"pc", "batch", "res", "scope", "pos", "changed", "deleted"}
              \subseteq DOMAIN job
        /\ job.res = res /\ GmailHistory
    BY <1>6 DEF Plan, Reading, Idle, GmailInv, GmailRun, GmailHistory
  <2>2. job' = Over([pc |-> "fetch", changed |-> job.changed \ job.deleted],
                    job)
    BY <1>6 DEF Plan, Go
  <2>3. /\ {"pc", "batch", "res", "scope", "pos", "changed", "deleted"}
              \subseteq DOMAIN job'
        /\ job'.pc = "fetch" /\ job'.batch = {} /\ job'.res = res
        /\ job'.pos = job.pos /\ job'.deleted = job.deleted
        /\ job'.changed = job.changed \ job.deleted
    BY <2>1, <2>2 DEF Over
  <2>4. GmailHistory'
    BY <1>1, <2>1, <2>3 DEF GmailHistory
  <2> QED
    BY <1>1, <1>2, <2>3, <2>4 DEF GmailRun, GmailEntry, Packed
<1>7. CASE Profile
  <2>1. job # Idle /\ job.pc = "profile" /\ GmailRun /\ job.batch = {}
        /\ {"pc", "batch", "res", "scope"} \subseteq DOMAIN job
        /\ job.res = res
    BY <1>7 DEF Profile, Reading, Idle, GmailInv, GmailRun
  <2> PICK mark : mark = IF res.resume THEN res.mark ELSE Now
    OBVIOUS
  <2> PICK done : done = IF res.resume THEN res.parked ELSE {}
    OBVIOUS
  <2>2. job' = Over([pc |-> "list", todo |-> {}, emitted |-> 0,
                     done |-> done, mark |-> mark], job)
    BY <1>7 DEF Profile, Go
  <2>3. /\ {"pc", "batch", "res", "scope", "todo", "done", "mark"}
              \subseteq DOMAIN job'
        /\ job'.pc = "list" /\ job'.batch = {} /\ job'.res = res
        /\ job'.todo = {} /\ job'.done = done /\ job'.mark = mark
    BY <2>1, <2>2 DEF Over
  <2>4. /\ mark \in res.history .. Now /\ done \subseteq Items
        /\ res.resume => mark = res.mark
        /\ done # {} => res.resume /\ done = res.parked
    BY <1>1 DEF GmailEntry
  <2>5. GmailListing'
    BY <1>1, <2>3, <2>4 DEF GmailListing
  <2> QED
    BY <1>1, <1>2, <2>3, <2>5 DEF GmailRun, GmailEntry, Packed
<1> QED
  BY <1>4, <1>5, <1>6, <1>7

\* The listing, a page and a message at a time.
LEMMA GmailLists ==
    ASSUME Common, GmailInv, kind = "gmail", log' = log, UNCHANGED landed,
           ListPage \/ FetchListed
    PROVE  GmailRun'
<1>1. job # Idle /\ job.pc = "list" /\ GmailRun /\ GmailListing /\ Packed
      /\ {"pc", "batch", "res", "scope", "todo", "done", "mark"}
            \subseteq DOMAIN job
      /\ job.res = res
  BY DEF ListPage, FetchListed, Reading, Idle, GmailInv, GmailRun,
     GmailListing
<1>2. /\ Logged /\ Now' = Now /\ Last' = Last /\ Live' = Live
      /\ res' = res /\ GmailEntry(res)
      /\ Now \in Nat /\ \A j \in Items : Last[j] \in 0 .. Now
  BY Standstill, Reads DEF Common, landed, GmailInv
<1>3. GmailEntry(res)'
  BY <1>2 DEF GmailEntry
<1>4. CASE ListPage
  <2>1. PICK page \in SUBSET {i \in Items \ job.done : Alive(i, Now)} :
           Go([todo |-> page, done |-> job.done \cup page])
    BY <1>4 DEF ListPage
  <2>2. job' = Over([todo |-> page, done |-> job.done \cup page], job)
    BY <2>1 DEF Go
  <2>3. /\ {"pc", "batch", "res", "scope", "todo", "done", "mark"}
              \subseteq DOMAIN job'
        /\ job'.pc = "list" /\ job'.batch = job.batch /\ job'.res = res
        /\ job'.todo = page /\ job'.done = job.done \cup page
        /\ job'.mark = job.mark
    BY <1>1, <2>2 DEF Over
  <2>4. page \subseteq Items \cap Live /\ job.todo = {}
    BY <1>2, <1>4, Reads DEF ListPage
  <2>5. GmailListing'
    BY <1>1, <1>2, <2>3, <2>4 DEF GmailListing
  <2> QED
    BY <1>1, <1>2, <1>3, <2>3, <2>5 DEF GmailRun, GmailEntry, Packed
<1>5. CASE FetchListed
  <2>1. PICK i \in job.todo :
           Go([todo |-> job.todo \ {i}, emitted |-> job.emitted + 1,
               batch |-> Yield(Fetched(i, {}))])
    BY <1>5 DEF FetchListed
  <2>2. i \in Items
    BY <1>1 DEF GmailListing
  <2> PICK rows : rows = IF i \in Live THEN {<<i, Last[i]>>} ELSE {}
    OBVIOUS
  <2>3. Fetched(i, {}) = rows
    <3>1. LastOf(i, Now) = Last[i] /\ (Alive(i, Now) <=> i \in Live)
      BY <1>2, <2>2, Reads
    <3> QED
      BY <3>1 DEF Fetched, Record
  <2>4. job' = Over([todo |-> job.todo \ {i}, emitted |-> job.emitted + 1,
                     batch |-> job.batch \cup rows], job)
    BY <2>1, <2>3 DEF Go, Yield
  <2>5. /\ {"pc", "batch", "res", "scope", "todo", "done", "mark"}
              \subseteq DOMAIN job'
        /\ job'.pc = "list" /\ job'.batch = job.batch \cup rows
        /\ job'.res = res /\ job'.todo = job.todo \ {i}
        /\ job'.done = job.done /\ job'.mark = job.mark
    BY <1>1, <2>4 DEF Over
  <2>6. \A b \in job'.batch :
           Last[b[1]] <= job.mark => b[1] \in Live /\ b[2] = Last[b[1]]
    BY <1>1, <2>5 DEF GmailListing
  <2>7. ASSUME NEW j \in job.done \ job'.todo, Last[j] <= job.mark
        PROVE  \/ j \in Live /\ <<j, Last[j]>> \in job'.batch
               \/ res.resume /\ j \in res.parked
    <3>1. CASE j = i
      <4>1. i \in Live
        BY <1>1, <2>7, <3>1 DEF GmailListing
      <4> QED
        BY <2>5, <3>1, <4>1
    <3>2. CASE j # i
      BY <1>1, <2>5, <2>7, <3>2 DEF GmailListing
    <3> QED
      BY <3>1, <3>2
  <2>8. GmailListing'
    BY <1>1, <1>2, <2>5, <2>6, <2>7 DEF GmailListing
  <2>9. Packed'
    BY <1>1, <1>2, <2>2, <2>5 DEF Packed
  <2> QED
    BY <1>1, <1>2, <1>3, <2>5, <2>8, <2>9 DEF GmailRun, GmailEntry
<1> QED
  BY <1>4, <1>5

\* What the listing has shown is there unless it has changed since the
\* watermark, and what it has not shown is not there.
LEMMA GmailListed ==
    ASSUME Common, GmailInv, kind = "gmail", log' = log, UNCHANGED landed,
           kind' = kind, Park \/ FullSyncEnds
    PROVE  GmailRun'
<1>1. job # Idle /\ job.pc = "list" /\ GmailRun /\ GmailListing /\ Packed
      /\ job.res = res /\ job.todo = {} /\ GmailKept /\ GmailEntry(res)
  BY DEF Park, FullSyncEnds, Reading, Idle, GmailInv, GmailRun
<1>2. /\ Logged /\ Now' = Now /\ Last' = Last /\ Live' = Live /\ res' = res
      /\ table' = table /\ tied' = tied /\ missed' = missed /\ Held' = Held
      /\ Now \in Nat /\ \A j \in Items : Last[j] \in 0 .. Now
  BY Standstill, Reads DEF Common, landed, Held
<1>3. \A i : Shown(i)' = Shown(i) /\ (GmailFine(i)' <=> GmailFine(i))
  <2>1. \A i : Shown(i)' = Shown(i)
    BY <1>2 DEF Shown
  <2> QED
    BY <1>2, <2>1 DEF GmailFine
<1>4. ASSUME job'.batch = job.batch
      PROVE  /\ Picks' = Picks
             /\ Packed'
             /\ \A i \in Items : /\ i \in Picks' /\ Last[i] <= job.mark
                                 => i \in Live /\ GmailBrings(i)'
             /\ \A i : GmailFine(i) => i \in Picks' \/ GmailBrings(i)'
  <2>1. Picks' = Picks /\ Packed' /\ \A i : Of(i)' = Of(i)
    BY <1>1, <1>2, <1>4 DEF Picks, Of, Packed
  <2>2. \A i \in Items : \A b \in Of(i) :
           b[1] = i /\ (Last[i] <= job.mark => i \in Live /\ b[2] = Last[i])
    BY <1>1 DEF GmailListing, Of
  <2>3. \A i \in Picks : \E b \in Of(i) : TRUE
    BY DEF Picks, Of
  <2>4. \A i \in Items : /\ i \in Picks' /\ Last[i] <= job.mark
                         => i \in Live /\ GmailBrings(i)'
    BY <1>3, <2>1, <2>2, <2>3 DEF GmailBrings, Shown
  <2> QED
    BY <1>3, <2>1, <2>4 DEF GmailBrings
<1>5. ASSUME NEW i \in job.done, Last[i] <= job.mark
      PROVE  /\ i \in Items /\ i \in Live
             /\ i \in Picks \/ (i \in Held => GmailFine(i))
  <2>1. \/ i \in Live /\ <<i, Last[i]>> \in job.batch
        \/ res.resume /\ i \in res.parked /\ job.mark = res.mark
    BY <1>1, <1>5 DEF GmailListing
  <2>2. CASE i \in Live /\ <<i, Last[i]>> \in job.batch
    <3>1. <<i, Last[i]>>[1] = i
      OBVIOUS
    <3> QED
      BY <1>1, <2>2, <3>1 DEF GmailListing, Picks
  <2>3. CASE res.resume /\ i \in res.parked /\ job.mark = res.mark
    BY <1>1, <1>5, <2>3 DEF GmailEntry, GmailKept, GmailOld
  <2> QED
    BY <2>1, <2>2, <2>3, <1>1 DEF GmailListing
<1>6. Held \subseteq Items
  BY <1>2, HoldsAssumption DEF Held, Logged
<1>7. CASE Park
  <2>1. /\ {"pc", "batch", "res", "scope"} \subseteq DOMAIN job'
        /\ job'.pc = "extracted" /\ job'.batch = job.batch
        /\ job'.res = [res EXCEPT !.parked = job.done, !.mark = job.mark,
                                  !.resume = TRUE]
    BY <1>1, <1>7 DEF Park, Finish, Yield
  <2>2. /\ job'.res.parked = job.done /\ job'.res.mark = job.mark
        /\ job'.res.history = res.history /\ job'.res.resume
        /\ {"history", "parked", "mark", "resume"} \subseteq DOMAIN job'.res
    BY <1>1, <2>1 DEF GmailEntry
  <2>3. GmailEntry(job.res)'
    BY <1>1, <1>2, <1>5, <2>2 DEF GmailEntry, GmailListing
  <2>4. ASSUME NEW i \in Held, GmailOld(i, job.res)'
        PROVE  GmailBrings(i)'
    <3>1. \/ Last[i] <= res.history
          \/ i \in job.done /\ Last[i] <= job.mark
      BY <1>2, <2>2, <2>4 DEF GmailOld
    <3>2. CASE Last[i] <= res.history
      <4>1. GmailFine(i) /\ Last[i] <= job.mark
        BY <1>1, <1>2, <1>6, <3>2
        DEF GmailKept, GmailOld, GmailListing, GmailEntry
      <4> QED
        BY <1>4, <1>6, <2>1, <4>1
    <3>3. CASE i \in job.done /\ Last[i] <= job.mark
      BY <1>4, <1>5, <2>1, <3>3
    <3> QED
      BY <3>1, <3>2, <3>3
  <2> QED
    BY <1>2, <1>4, <2>1, <2>3, <2>4 DEF GmailRun
<1>8. CASE FullSyncEnds
  <2>1. /\ {"pc", "batch", "res", "scope"} \subseteq DOMAIN job'
        /\ job'.pc = "extracted" /\ job'.batch = job.batch
        /\ job'.res = [history |-> job.mark, synced |-> TRUE,
                       parked |-> {}, mark |-> 0, resume |-> FALSE]
        /\ job'.unseen = Items \ job.done
    BY <1>8 DEF FullSyncEnds, Finish, Yield
  <2>2. job.mark \in 0 .. Now
    BY <1>1, <1>2 DEF GmailListing, GmailEntry
  <2>3. GmailEntry(job.res)'
    BY <1>2, <2>1, <2>2 DEF GmailEntry
  <2>4. ASSUME NEW i \in Held, GmailOld(i, job.res)'
        PROVE  GmailBrings(i)'
    <3>1. i \in Items /\ Last[i] <= job.mark
      BY <1>2, <1>6, <2>1, <2>4 DEF GmailOld
    <3>2. CASE i \in job.done
      BY <1>4, <1>5, <2>1, <2>4, <3>1, <3>2
    <3>3. CASE i \notin job.done
      <4>1. i \notin Live
        <5>1. SUFFICES ASSUME i \in Live
                       PROVE  Alive(i, Now) /\ Alive(i, job.mark)
          BY <1>8, <3>1, <3>3 DEF FullSyncEnds, Unlisted
        <5>2. /\ Alive(i, Now) /\ Last[i] # 0
              /\ LastOf(i, Now) = Last[i] /\ Entry(i, Now) = log[Last[i]]
              /\ log[Last[i]].id = i
              /\ \A n \in 1 .. Now : log[n].id = i => n <= Last[i]
          BY <1>2, <3>1, <5>1, Reads
        <5>3. LastIn(log, i, job.mark) = Last[i]
          BY <1>2, <2>2, <3>1, <5>2, LastInOnly
        <5>4. LastOf(i, job.mark) = Last[i]
          BY <5>3 DEF LastOf, LastIn
        <5>5. Entry(i, job.mark) = Entry(i, Now)
          BY <5>2, <5>4 DEF Entry
        <5> QED
          BY <5>2, <5>4, <5>5 DEF Alive
      <4>2. i \notin Picks'
        BY <1>4, <2>1, <3>1, <4>1
      <4>3. Shown(i) = 0 /\ i \in job'.unseen
        BY <2>1, <3>1, <3>3, <4>1 DEF Shown
      <4> QED
        BY <1>2, <1>3, <4>2, <4>3 DEF GmailBrings, GmailFine
    <3> QED
      BY <3>2, <3>3
  <2> QED
    BY <1>2, <1>4, <2>1, <2>3, <2>4 DEF GmailRun
<1> QED
  BY <1>7, <1>8

LEMMA GmailLoads ==
    ASSUME Logged, GmailInv, kind = "gmail", Load, log' = log, kind' = kind
    PROVE  GmailInv'
<1>1. job # Idle /\ job.pc = "extracted" /\ GmailRun
      /\ table \in [Items -> Nat]
  BY DEF Load, Idle, GmailInv
<1>2. res' = job.res /\ job' = Idle /\ Held' = Held
  BY DEF Load, Held
<1>3. Now' = Now /\ Last' = Last /\ Live' = Live
  BY Standstill
<1>4. /\ table' \in [Items -> Nat]
      /\ \A i \in Items \ Picks :
            /\ table'[i] = table[i]
            /\ i \in tied' <=> i \in tied
            /\ i \in missed' <=> i \in missed \/ i \in job.unseen
      /\ \A i \in Picks : <<i, table'[i]>> \in Candidates(i)
  BY <1>1, Loading DEF GmailRun
<1>5. \A i : Candidates(i) = Of(i)
  BY DEF Candidates, Sorted
<1>6. ASSUME NEW i \in Held, GmailOld(i, res)'
      PROVE  GmailFine(i)'
  <2>1. i \in Items
    BY HoldsAssumption DEF Held, Logged
  <2>2. GmailBrings(i)
    BY <1>1, <1>2, <1>3, <1>6 DEF GmailRun, GmailOld
  <2>3. Shown(i)' = Shown(i)
    BY <1>3 DEF Shown
  <2>4. CASE i \notin Picks
    BY <1>4, <2>1, <2>2, <2>3, <2>4 DEF GmailBrings, GmailFine
  <2>5. CASE i \in Picks
    <3>1. <<i, table'[i]>> \in Of(i) /\ <<i, table'[i]>>[2] = table'[i]
      BY <1>4, <1>5, <2>5
    <3> QED
      BY <2>2, <2>3, <2>5, <3>1 DEF GmailBrings, GmailFine
  <2> QED
    BY <2>4, <2>5
<1> QED
  BY <1>1, <1>2, <1>3, <1>4, <1>6 DEF GmailInv, GmailKept, GmailRun, GmailEntry

LEMMA GmailStep == Common /\ GmailInv /\ [Next]_vars => GmailInv'
<1> SUFFICES ASSUME Common, GmailInv, [Next]_vars, kind = "gmail"
             PROVE  GmailInv'
  BY Steps DEF GmailInv
<1>1. kind' = kind /\ Logged /\ Held' = Held
  BY Steps DEF Common, Held
<1>2. CASE HostChanges
  BY <1>1, <1>2, Moves, GmailMoves
<1>3. ASSUME log' = log, UNCHANGED landed
      PROVE  /\ UNCHANGED <<Now, Last, Live>>
             /\ GmailKept' <=> GmailKept
             /\ GmailEntry(res)' <=> GmailEntry(res)
             /\ table' = table
  <2>1. UNCHANGED <<Now, Last, Live>>
    BY <1>3, Standstill
  <2> QED
    BY <1>1, <1>3, <2>1
    DEF GmailKept, GmailOld, GmailFine, Shown, GmailEntry, landed
<1>4. CASE Aside /\ log' = log
  <2>1. UNCHANGED <<landed, job, Now, Last, Live, Held>>
    BY <1>1, <1>3, <1>4 DEF Aside
  <2>2. GmailRun' <=> GmailRun
    BY <2>1 DEF landed, GmailRun, Packed, GmailEntry, GmailHistory,
       GmailListing, GmailOld, GmailBrings, GmailFine, Shown, Picks, Of
  <2> QED
    BY <1>1, <1>3, <1>4, <2>1, <2>2 DEF GmailInv
<1>5. CASE log' = log /\ job' = Idle /\ UNCHANGED landed
  BY <1>1, <1>3, <1>5 DEF GmailInv
<1>6. CASE log' = log /\ Load
  BY <1>1, <1>6, GmailLoads
<1>7. CASE Goes
  <2>1. log' = log /\ UNCHANGED landed /\ Gmail
    BY <1>7 DEF Goes, CursorKinds
  <2>2. GmailRun'
    BY <1>1, <2>1, GmailTurns, GmailReads, GmailFetches, GmailEmits,
       GmailLists, GmailListed, Zenon DEF Gmail
  <2> QED
    BY <1>1, <1>3, <2>1, <2>2 DEF GmailInv
<1> QED
  BY <1>2, <1>4, <1>5, <1>6, <1>7, Steps

LEMMA GmailInvariant == Spec => []GmailInv
<1> QED
  BY CommonInvariant, GmailInitially, GmailStep, PTL DEF Spec

-----------------------------------------------------------------------------
(* Modification stamps *)

\* A file that was written since it was opened need not have a row yet.
CursorFine(i) ==
    \/ table[i] = Shown(i)
    \/ i \in tied
    \/ i \in missed /\ (table[i] # 0 \/ kind = "bucket")

\* Loaded, the package leaves the row of i fine.
CursorBrings(i) ==
    IF i \in Picks
    THEN (\A a, b \in Candidates(i) : a = b) =>
            \A b \in Candidates(i) :
               \/ b[2] = Shown(i)
               \/ i \in job.unseen /\ (b[2] # 0 \/ kind = "bucket")
    ELSE \/ CursorFine(i)
         \/ i \in job.unseen /\ (table[i] # 0 \/ kind = "bucket")

\* The stamp kept is none of the future's.
CursorEntry(entry) ==
    /\ {"seen", "last", "path"} \subseteq DOMAIN entry
    /\ entry.last \in 0 .. LastStamp

\* No Run will ask for what i has come to.
CursorOld(i, entry) == Last[i] = 0 \/ (entry.seen /\ Spot[i] < entry.last)
CursorKept == \A i \in Held : CursorOld(i, res) => CursorFine(i)

\* What an API's page or an opened file is to yield of i, if it is as it was.
Wanted(i) ==
    /\ i \in Live
    /\ Cursored /\ job.start.seen => Spot[i] >= job.start.last

\* Begun from the state of its cursor, a Run has versions that it asked for.
CursorFrom ==
    /\ "start" \in DOMAIN job
    /\ {"seen", "last"} \subseteq DOMAIN job.start
    /\ job.start.seen => job.start = res
    /\ \A b \in job.batch :
          /\ b[2] # 0
          /\ log[b[2]].id = b[1]
          /\ Cursored /\ job.start.seen => log[b[2]].at >= job.start.last

CursorPage ==
    /\ kind = "rest"
    /\ "after" \in DOMAIN job
    /\ job.after \in 0 .. Now
    /\ \A i \in Items :
          Last[i] <= job.after /\ Wanted(i) => <<i, Last[i]>> \in job.batch

CursorFiles ==
    /\ kind = "bucket"
    /\ {"todo", "read"} \subseteq DOMAIN job
    /\ job.todo \subseteq Items
    /\ job.read \in [Items -> 0 .. Now]
    /\ \A i \in Items :
          job.read[i] = Last[i] /\ Wanted(i) => <<i, Last[i]>> \in job.batch

CursorRun ==
    /\ {"pc", "batch", "res", "scope"} \subseteq DOMAIN job
    /\ Packed
    /\ job.pc \in {"query", "page", "list", "file", "extracted"}
    /\ CursorEntry(job.res)
    /\ job.pc # "extracted" => CursorFrom
    /\ job.pc = "query" => kind \in {"soql", "sql"} /\ job.batch = {}
    /\ job.pc = "page" => CursorPage
    /\ job.pc = "list" => kind = "bucket" /\ job.batch = {}
    /\ job.pc = "file" => CursorFiles
    /\ job.pc = "extracted" =>
          /\ kind = "rest" => \A b \in job.batch : b[2] # 0
          /\ \A i \in Held : CursorOld(i, job.res) => CursorBrings(i)
CursorInv ==
    kind \in CursorKinds =>
        /\ table \in [Items -> Nat]
        /\ CursorEntry(res)
        /\ CursorKept
        /\ job = Idle \/ CursorRun

LEMMA Clock ==
    ASSUME Common, kind \in CursorKinds
    PROVE  /\ Logged /\ Now \in Nat /\ LastStamp \in Nat
           /\ \A n \in 1 .. Now : /\ log[n].at \in Nat
                                  /\ log[n].at <= LastStamp
           /\ \A m, n \in 1 .. Now : m <= n => log[m].at <= log[n].at
           /\ \A i \in Items :
                 /\ Last[i] \in 0 .. Now
                 /\ Last[i] # 0 => /\ log[Last[i]].id = i
                                   /\ Spot[i] = log[Last[i]].at
                 /\ i \in Live => Last[i] # 0
                 /\ \A n \in 1 .. Now : log[n].id = i => n <= Last[i]
<1>1. Logged /\ Now \in Nat /\ log \in Seq(Changes(kind)) /\ Ascending(log)
      /\ DOMAIN log = 1 .. Now
  BY DEF Common, Logged, Histories, Now, Changes
<1>2. \A n \in 1 .. Now : log[n] \in Changes(kind)
  BY <1>1
<1>3. Places(kind) = Nat
  BY DEF Places, CursorKinds
<1>4. \A n \in 1 .. Now : log[n].at \in Nat
  BY <1>2, <1>3 DEF Changes
<1>5. LastStamp \in Nat
  BY <1>1, <1>4 DEF LastStamp
<1>6. \A m, n \in 1 .. Now : m <= n => log[m].at <= log[n].at
  BY <1>1 DEF Ascending
<1>7. \A n \in 1 .. Now : log[n].at <= LastStamp
  BY <1>1, <1>6 DEF LastStamp
<1>8. \A i \in Items :
         /\ Last[i] \in 0 .. Now
         /\ Last[i] # 0 => log[Last[i]].id = i
         /\ i \in Live => Last[i] # 0
         /\ \A n \in 1 .. Now : log[n].id = i => n <= Last[i]
  BY <1>1, Reads
<1>9. \A i \in Items : Spot[i] = log[Last[i]].at
  BY <1>1, Reads
<1> QED
  BY <1>1, <1>4, <1>5, <1>6, <1>7, <1>8, <1>9

LEMMA CursorInitially == Init => CursorInv
<1> SUFFICES ASSUME Init, kind \in CursorKinds
             PROVE  CursorInv
  BY DEF CursorInv
<1>1. /\ res = [seen |-> FALSE, last |-> 0, path |-> conf]
      /\ job = Idle /\ table = [i \in Items |-> 0] /\ Common
  BY CommonInit DEF Init, CursorInit, Unseen, CursorKinds
<1>2. CursorEntry(res)
  BY <1>1, Clock DEF CursorEntry
<1>3. ASSUME NEW i \in Held, CursorOld(i, res)
      PROVE  CursorFine(i)
  <2>1. i \in Items
    BY <1>1, HoldsAssumption DEF Held, Common, Logged
  <2>2. i \notin Live
    BY <1>1, <1>3, <2>1, Clock DEF CursorOld
  <2> QED
    BY <1>1, <2>1, <2>2 DEF CursorFine, Shown
<1> QED
  BY <1>1, <1>2, <1>3 DEF CursorInv, CursorKept

\* A change bears the clock's stamp, which no stored one is past.
LEMMA CursorMoves ==
    ASSUME Common, CursorInv, kind \in CursorKinds, HostChanges
    PROVE  CursorInv'
<1>1. PICK j \in Held, at \in Places(kind), gone \in BOOLEAN :
         /\ Change(j, at, gone)
         /\ kind \in CursorKinds => at \in LastStamp .. LastStamp + 1
  BY HostChange
<1>2. /\ Logged /\ j \in Items /\ Held \subseteq Items /\ Held' = Held
      /\ kind' = kind /\ table' = table /\ res' = res
      /\ tied' = tied /\ missed' = missed /\ job' = job
  BY <1>1, HoldsAssumption DEF Held, Common, Logged, Change, landed
<1>3. Grown(j, at, gone)
  BY <1>1, <1>2, Changing, Zenon
<1>4. /\ Now \in Nat /\ LastStamp \in Nat /\ at \in Nat /\ at >= LastStamp
      /\ \A i \in Items : /\ Last[i] \in 0 .. Now
                          /\ i \in Live => Last[i] # 0
  BY <1>1, Clock
<1>5. /\ Now' = Now + 1 /\ Last'[j] = Now + 1 /\ Spot'[j] = at
      /\ \A n \in 1 .. Now : log'[n] = log[n]
      /\ \A i \in Items \ {j} :
            /\ Last'[i] = Last[i]
            /\ i \in Live' <=> i \in Live
            /\ Last[i] # 0 => Spot'[i] = Spot[i]
  <2>1. Last \in [Items -> Nat]
    BY <1>2, Reads DEF Last
  <2> QED
    BY <1>2, <1>3, <2>1 DEF Grown
<1>6. LastStamp' = at
  <2>1. log'[Now'] = [id |-> j, at |-> at, gone |-> gone] /\ Now' # 0
    BY <1>3, <1>4 DEF Grown
  <2> QED
    BY <2>1 DEF LastStamp
<1>7. ASSUME NEW entry, CursorEntry(entry)
      PROVE  /\ {"seen", "last", "path"} \subseteq DOMAIN entry
             /\ entry.last \in 0 .. LastStamp'
             /\ ~ (Last'[j] = 0 \/ (entry.seen /\ Spot'[j] < entry.last))
  BY <1>4, <1>5, <1>6, <1>7 DEF CursorEntry
<1>8. CursorEntry(res)'
  BY <1>2, <1>7 DEF CursorInv, CursorEntry
<1>9. \A i \in Items \ {j} : /\ Shown(i)' = Shown(i)
                             /\ CursorFine(i)' <=> CursorFine(i)
  <2>1. \A i \in Items \ {j} : Shown(i)' = Shown(i)
    BY <1>5 DEF Shown
  <2> QED
    BY <1>2, <2>1 DEF CursorFine
<1>10. \A i \in Held : CursorOld(i, res)' => i # j /\ CursorOld(i, res)
  BY <1>2, <1>5, <1>7 DEF CursorInv, CursorOld
<1>11. CursorKept'
  BY <1>2, <1>9, <1>10 DEF CursorInv, CursorKept
<1>12. ASSUME CursorRun
       PROVE  CursorRun'
  <2>1. Packed'
    BY <1>2, <1>4, <1>5, <1>12 DEF CursorRun, Packed
  <2>2. CursorEntry(job.res)'
    BY <1>2, <1>7, <1>12 DEF CursorRun, CursorEntry
  <2>3. \A b \in job.batch : b[1] \in Items /\ b[2] \in 0 .. Now
    BY <1>12 DEF CursorRun, Packed
  <2>4. Cursored' <=> Cursored
    BY <1>2 DEF Cursored
  <2>5. CursorFrom => CursorFrom'
    BY <1>2, <1>5, <2>3, <2>4 DEF CursorFrom
  <2>6. \A i \in Items \ {j} : Wanted(i)' <=> Wanted(i)
    BY <1>2, <1>4, <1>5, <2>4 DEF Wanted
  <2>7. CursorPage => CursorPage'
    BY <1>2, <1>4, <1>5, <2>6 DEF CursorPage
  <2>8. CursorFiles => CursorFiles'
    <3>1. SUFFICES ASSUME CursorFiles
                   PROVE  CursorFiles'
      OBVIOUS
    <3>2. job.read[j] # Last'[j] /\ job.read \in [Items -> 0 .. Now']
      BY <1>2, <1>4, <1>5, <3>1 DEF CursorFiles
    <3> QED
      BY <1>2, <1>5, <2>6, <3>1, <3>2 DEF CursorFiles
  <2>9. ASSUME job.pc = "extracted", NEW i \in Held, CursorOld(i, job.res)'
        PROVE  CursorBrings(i)'
    <3>1. i \in Items /\ i # j /\ CursorOld(i, job.res)
      BY <1>2, <1>5, <1>7, <1>12, <2>9 DEF CursorRun, CursorOld
    <3>2. CursorBrings(i)
      BY <1>12, <2>9, <3>1 DEF CursorRun
    <3>3. Picks' = Picks /\ Of(i)' = Of(i) /\ (Sorted' <=> Sorted)
      BY <1>2 DEF Picks, Of, Sorted
    <3>4. Candidates(i)' = Candidates(i)
      <4>1. CASE ~ Sorted
        BY <3>3, <4>1 DEF Candidates
      <4>2. CASE Sorted
        <5>1. \A b \in Of(i) : b[2] \in 1 .. Now
          BY <1>4, <1>12, <2>3, <2>9, <4>2 DEF CursorRun, Of, Sorted
        <5>2. \A b \in Of(i) : Stamp(b[2])' = Stamp(b[2])
          BY <1>2, <1>5, <5>1 DEF Stamp
        <5>3. Newest(i)' = Newest(i)
          BY <3>3, <5>2 DEF Newest
        <5> QED
          BY <3>3, <4>2, <5>3 DEF Candidates
      <4> QED
        BY <4>1, <4>2
    <3> QED
      BY <1>2, <1>9, <3>1, <3>2, <3>3, <3>4 DEF CursorBrings
  <2> QED
    BY <1>2, <1>12, <2>1, <2>2, <2>5, <2>7, <2>8, <2>9 DEF CursorRun
<1> QED
  BY <1>2, <1>8, <1>11, <1>12 DEF CursorInv

\* The stamp kept is that of a row, or the one kept before.
LEMMA CursorSeen ==
    ASSUME Common, kind \in CursorKinds, CursorEntry(job.res),
           NEW items \in SUBSET {i \in Items : Last[i] # 0}
    PROVE  CursorEntry(Seen(items))
<1> DEFINE S == {job.res.last} \cup {Entry(i, Now).at : i \in items}
<1>1. LastStamp \in Nat /\ job.res.last \in 0 .. LastStamp
  BY Clock DEF CursorEntry
<1>2. ASSUME NEW i \in items
      PROVE  Entry(i, Now).at \in 0 .. LastStamp
  <2>1. Last[i] \in 1 .. Now /\ Spot[i] = log[Last[i]].at /\ Now \in Nat
        /\ Logged
    BY Clock
  <2>2. Entry(i, Now).at = Spot[i]
    BY <2>1, Reads
  <2>3. log[Last[i]].at \in Nat /\ log[Last[i]].at <= LastStamp
    BY <2>1, Clock
  <2> QED
    BY <1>1, <2>1, <2>2, <2>3
<1>3. S # {} /\ \A n \in S : n \in 0 .. LastStamp
  BY <1>1, <1>2
<1> HIDE DEF S
<1>4. S \in SUBSET Nat /\ \A n \in S : n <= LastStamp
  BY <1>1, <1>3
<1>5. Max(S) \in 0 .. LastStamp
  BY <1>1, <1>3, <1>4, Greatest
<1> PICK last : last = Max(S)
  OBVIOUS
<1> PICK seen : seen = (job.res.seen \/ items # {})
  OBVIOUS
<1>6. Seen(items) = IF ~ Cursored THEN job.res
                    ELSE [job.res EXCEPT !.seen = seen, !.last = last]
  BY DEF Seen, S
<1> QED
  BY <1>5, <1>6 DEF CursorEntry

\* An API and files return what is there, and is asked for.
LEMMA CursorReturned ==
    ASSUME Common, kind \in {"rest", "bucket"}, NEW i \in Items
    PROVE  /\ Returned(i) <=> Wanted(i)
           /\ ~ Alive(i, Now) <=> i \notin Live
           /\ LastOf(i, Now) = Last[i]
<1>1. Logged
  BY DEF Common
<1>2. /\ LastOf(i, Now) = Last[i]
      /\ Entry(i, Now).at = Spot[i]
      /\ Alive(i, Now) <=> i \in Live
      /\ i \in Live <=> Last[i] # 0 /\ ~ Entry(i, Now).gone
  BY <1>1, Reads
<1>3. Selected(Entry(i, Now)) <=>
         (Cursored /\ job.start.seen => Spot[i] >= job.start.last)
  BY <1>2 DEF Selected, Asked, AtLeast, Literal, Cursored
<1> QED
  BY <1>2, <1>3 DEF Returned, Wanted

\* What was asked for leaves every row fine: of several versions the latest is
\* a candidate, as its stamp is the greatest.
LEMMA CursorDone ==
    ASSUME Common, kind \in {"rest", "bucket"}, kind' = kind, log' = log,
           UNCHANGED landed, CursorKept, CursorEntry(res), CursorFrom,
           job'.scope = job.scope,
           \A b \in job'.batch :
              /\ b \in Items \X (1 .. Now)
              /\ log[b[2]].id = b[1]
              /\ Cursored /\ job.start.seen => log[b[2]].at >= job.start.last,
           \A i \in Items :
              Wanted(i) => \/ <<i, Last[i]>> \in job'.batch
                           \/ kind = "bucket" /\ i \in job'.unseen,
           Items \ Live \subseteq job'.unseen,
           NEW i \in Held
    PROVE  CursorBrings(i)'
<1>1. /\ Now' = Now /\ Last' = Last /\ Live' = Live /\ kind \in CursorKinds
      /\ table' = table /\ tied' = tied /\ missed' = missed
  BY Standstill DEF landed, CursorKinds
<1>2. /\ i \in Items /\ Now \in Nat /\ LastStamp \in Nat
      /\ Last[i] \in 0 .. Now
      /\ Last[i] # 0 => log[Last[i]].id = i /\ Spot[i] = log[Last[i]].at
      /\ i \in Live => Last[i] # 0
      /\ \A n \in 1 .. Now : log[n].id = i => n <= Last[i]
      /\ \A m, n \in 1 .. Now : m <= n => log[m].at <= log[n].at
      /\ \A n \in 1 .. Now : log[n].at \in Nat
  <2>1. i \in Items
    BY HoldsAssumption DEF Held, Common, Logged
  <2> QED
    BY <1>1, <2>1, Clock
<1>3. Shown(i)' = Shown(i) /\ (CursorFine(i)' <=> CursorFine(i))
  <2>1. Shown(i)' = Shown(i)
    BY <1>1 DEF Shown
  <2> QED
    BY <1>1, <2>1 DEF CursorFine
<1>4. /\ Of(i)' = {b \in job'.batch : b[1] = i}
      /\ Picks' = {b[1] : b \in job'.batch}
  BY DEF Of, Picks
<1>5. \A b \in Of(i)' : /\ b[2] \in 1 .. Now /\ b[2] <= Last[i]
                        /\ log[b[2]].at <= Spot[i]
  <2> SUFFICES ASSUME NEW b \in Of(i)'
               PROVE  /\ b[2] \in 1 .. Now /\ b[2] <= Last[i]
                      /\ log[b[2]].at <= Spot[i]
    OBVIOUS
  <2>1. b[2] \in 1 .. Now /\ log[b[2]].id = i
    BY <1>4
  <2>2. b[2] <= Last[i] /\ Last[i] \in 1 .. Now
    BY <1>2, <2>1
  <2> QED
    BY <1>2, <2>1, <2>2
<1>6. i \in Picks' => \E b \in Of(i)' : TRUE
  BY <1>4
<1>7. Candidates(i)' \subseteq Of(i)'
  BY DEF Candidates, Newest
<1>8. CASE Last[i] = 0
  <2>1. i \notin Picks'
    BY <1>2, <1>5, <1>6, <1>8
  <2>2. CursorFine(i)
    BY <1>8 DEF CursorKept, CursorOld
  <2> QED
    BY <1>3, <2>1, <2>2 DEF CursorBrings
<1>9. CASE Last[i] # 0 /\ i \notin Live
  <2>1. i \in job'.unseen /\ Shown(i) = 0
    BY <1>2, <1>9 DEF Shown
  <2>2. \A b \in Candidates(i)' : b[2] # 0
    BY <1>5, <1>7
  <2> QED
    BY <1>1, <1>3, <2>1, <2>2 DEF CursorBrings, CursorFine
<1>10. CASE Wanted(i) /\ <<i, Last[i]>> \in job'.batch
  <2>1. <<i, Last[i]>>[1] = i /\ <<i, Last[i]>>[2] = Last[i]
    OBVIOUS
  <2>2. <<i, Last[i]>> \in Of(i)' /\ i \in Picks'
    BY <1>4, <1>10, <2>1
  <2>3. <<i, Last[i]>> \in Newest(i)'
    <3>1. \A b \in Of(i)' : Stamp(b[2])' = log[b[2]].at
      BY DEF Stamp
    <3>2. Stamp(Last[i])' = Spot[i]
      BY <1>1, <1>2, <1>10 DEF Stamp, Wanted
    <3> QED
      BY <1>1, <1>5, <2>1, <2>2, <3>1, <3>2 DEF Newest
  <2>4. <<i, Last[i]>> \in Candidates(i)'
    BY <2>2, <2>3 DEF Candidates
  <2>5. Shown(i) = Last[i]
    BY <1>10 DEF Shown, Wanted
  <2> QED
    BY <1>3, <2>1, <2>2, <2>4, <2>5 DEF CursorBrings
<1>11. CASE kind = "bucket" /\ i \in job'.unseen
  BY <1>11 DEF CursorBrings
<1>12. CASE i \in Live /\ ~ Wanted(i)
  <2>1. Cursored /\ job.start.seen /\ ~ Spot[i] >= job.start.last
        /\ job.start = res /\ res.last \in Nat
    BY <1>2, <1>12 DEF Wanted, CursorFrom, CursorEntry
  <2>2. Spot[i] \in Nat
    BY <1>2, <1>12
  <2>3. CursorFine(i)
    BY <2>1, <2>2 DEF CursorKept, CursorOld
  <2>4. i \notin Picks'
    <3>1. SUFFICES ASSUME NEW b \in Of(i)'
                   PROVE  FALSE
      BY <1>6
    <3>2. log[b[2]].at >= job.start.last /\ log[b[2]].at <= Spot[i]
          /\ log[b[2]].at \in Nat
      BY <1>2, <1>4, <1>5, <2>1
    <3> QED
      BY <2>1, <2>2, <3>2
  <2> QED
    BY <1>3, <2>3, <2>4 DEF CursorBrings
<1> QED
  BY <1>2, <1>8, <1>9, <1>10, <1>11, <1>12

\* The steps of a Run leave what is stored as it was.
CursorStill ==
    /\ Common /\ CursorInv /\ kind \in CursorKinds /\ kind' = kind
    /\ log' = log
    /\ UNCHANGED landed

LEMMA CursorRests ==
    ASSUME CursorStill
    PROVE  /\ Logged /\ Now' = Now /\ Last' = Last /\ Live' = Live
           /\ Spot' = Spot /\ LastStamp' = LastStamp /\ Held' = Held
           /\ res' = res /\ CursorEntry(res) /\ CursorKept
           /\ Now \in Nat
           /\ \A i \in Items :
                 /\ Last[i] \in 0 .. Now
                 /\ Last[i] # 0 => /\ log[Last[i]].id = i
                                   /\ Spot[i] = log[Last[i]].at
                 /\ i \in Live => Last[i] # 0
<1>1. Logged /\ Now' = Now /\ Last' = Last /\ Live' = Live /\ Spot' = Spot
  BY Standstill DEF CursorStill, Common
<1>2. LastStamp' = LastStamp /\ Held' = Held
  BY <1>1 DEF LastStamp, Held, CursorStill
<1>3. res' = res /\ CursorEntry(res) /\ CursorKept
  BY DEF CursorStill, CursorInv, landed
<1>4. /\ Now \in Nat
      /\ \A i \in Items :
            /\ Last[i] \in 0 .. Now
            /\ Last[i] # 0 => /\ log[Last[i]].id = i
                              /\ Spot[i] = log[Last[i]].at
            /\ i \in Live => Last[i] # 0
  BY Clock DEF CursorStill
<1> QED
  BY <1>1, <1>2, <1>3, <1>4

LEMMA CursorStarts ==
    ASSUME CursorStill, CursorStart
    PROVE  CursorRun'
<1>1. /\ Logged /\ Now' = Now /\ LastStamp' = LastStamp /\ res' = res
      /\ Last' = Last /\ Live' = Live /\ CursorEntry(res)
      /\ Now \in Nat /\ LastStamp \in Nat
      /\ \A i \in Items : Last[i] \in 0 .. Now /\ (i \in Live => Last[i] # 0)
  BY CursorRests, Clock DEF CursorStill
<1> PICK state : state = Stored
  OBVIOUS
<1>2. CursorEntry(state) /\ (state.seen => state = res)
  BY <1>1 DEF Stored, Unseen, CursorEntry
<1> PICK request : request = FirstRequest
  OBVIOUS
<1>3. /\ kind \in {"soql", "sql"} => request = [pc |-> "query"]
      /\ kind = "rest" => request = [pc |-> "page", after |-> 0]
      /\ kind = "bucket" => request = [pc |-> "list"]
  BY DEF FirstRequest
<1>4. job' = Over(Over(request, [start |-> state, res |-> state]),
                  [batch |-> {}, res |-> res, scope |-> conf])
  BY DEF CursorStart, Begin
<1>5. /\ DOMAIN request \subseteq {"pc", "after"} /\ "pc" \in DOMAIN request
      /\ kind = "rest" => "after" \in DOMAIN request
  BY <1>3 DEF CursorStill, CursorKinds
<1>6. /\ {"pc", "batch", "res", "scope", "start"} \subseteq DOMAIN job'
      /\ job'.pc = request.pc /\ job'.batch = {} /\ job'.res = state
      /\ job'.start = state
      /\ kind = "rest" => /\ "after" \in DOMAIN job'
                          /\ job'.after = request.after
  BY <1>4, <1>5 DEF Over
<1>7. CursorFrom'
  BY <1>1, <1>2, <1>6 DEF CursorFrom, CursorEntry
<1>8. CursorEntry(job.res)' /\ Packed'
  BY <1>1, <1>2, <1>6 DEF CursorEntry, Packed
<1>9. kind = "rest" => CursorPage'
  BY <1>1, <1>3, <1>6 DEF CursorPage, CursorStill, Wanted
<1>10. /\ job'.pc \in {"query", "page", "list"}
       /\ job'.pc = "query" => kind \in {"soql", "sql"}
       /\ job'.pc = "page" => kind = "rest"
       /\ job'.pc = "list" => kind = "bucket"
  BY <1>3, <1>6 DEF CursorStill, CursorKinds
<1> QED
  BY <1>6, <1>7, <1>8, <1>9, <1>10 DEF CursorRun, CursorStill

\* An answer has every row that is asked for as it is.
LEMMA CursorQueries ==
    ASSUME CursorStill, Query
    PROVE  CursorRun'
<1>1. /\ Logged /\ Now' = Now /\ LastStamp' = LastStamp /\ res' = res
      /\ Last' = Last /\ Live' = Live /\ Spot' = Spot /\ Held' = Held
      /\ CursorEntry(res) /\ CursorKept
      /\ Now \in Nat /\ LastStamp \in Nat
      /\ \A i \in Items :
            /\ Last[i] \in 0 .. Now
            /\ Last[i] # 0 => Spot[i] = log[Last[i]].at
            /\ i \in Live => Last[i] # 0
      /\ \A n \in 1 .. Now : log[n].at \in Nat
      /\ table' = table /\ tied' = tied /\ missed' = missed
  BY CursorRests, Clock DEF CursorStill, landed
<1>2. /\ job # Idle /\ job.pc = "query" /\ kind \in {"soql", "sql"}
      /\ CursorRun /\ job.batch = {} /\ CursorFrom /\ CursorEntry(job.res)
  BY DEF Query, Idle, CursorStill, CursorInv, CursorRun
<1>3. \A i \in Items : /\ LastOf(i, Now) = Last[i]
                       /\ Entry(i, Now).at = Spot[i]
                       /\ Alive(i, Now) <=> i \in Live
                       /\ i \in Live <=> Last[i] # 0 /\ ~ Entry(i, Now).gone
  BY <1>1, Reads
<1>4. \A i \in Rows : /\ i \in Items /\ Last[i] # 0
                      /\ Emitted(i) = <<i, Shown(i)>>
  <2> SUFFICES ASSUME NEW i \in Rows
               PROVE  /\ i \in Items /\ Last[i] # 0
                      /\ Emitted(i) = <<i, Shown(i)>>
    OBVIOUS
  <2>1. i \in Items /\ Last[i] # 0
    BY <1>3 DEF Rows, Returned
  <2> QED
    BY <1>3, <2>1 DEF Emitted, Tombstone, Record, Shown
<1>5. ASSUME NEW i \in Items \ Rows, i \in Live
      PROVE  job.start = res /\ res.seen /\ Spot[i] < res.last
  <2>1. ~ Selected(Entry(i, Now)) /\ Spot[i] \in Nat
    BY <1>1, <1>3, <1>5 DEF Rows, Returned
  <2>2. job.start.seen /\ ~ /\ Spot[i] >= Literal(job.start.last)
                            /\ Spot[i] >= job.start.last
    BY <1>3, <2>1 DEF Selected, Asked, AtLeast
  <2>3. job.start = res /\ res.seen /\ res.last \in Nat
    BY <1>1, <1>2, <2>2 DEF CursorFrom, CursorEntry
  <2>4. res.last % 2 \in 0 .. res.last
    <3>1. res.last % 2 \in 0 .. 1 /\ (res.last = 0 => res.last % 2 = 0)
      BY <2>3
    <3> QED
      BY <2>3, <3>1
  <2> QED
    BY <2>1, <2>2, <2>3, <2>4 DEF Literal
<1> PICK rows : rows = {Emitted(i) : i \in Rows}
  OBVIOUS
<1> PICK state : state = Seen(Rows)
  OBVIOUS
<1>6. CursorEntry(state)
  <2>1. Rows \in SUBSET {i \in Items : Last[i] # 0}
    BY <1>4
  <2> QED
    BY <1>2, <2>1, CursorSeen DEF CursorStill
<1>7. /\ {"pc", "batch", "res", "scope"} \subseteq DOMAIN job'
      /\ job'.pc = "extracted" /\ job'.batch = rows /\ job'.res = state
      /\ job'.unseen = NeverServed /\ job'.scope = job.scope
  BY <1>2 DEF Query, Finish, Yield
<1>8. \A b \in rows :
         b[1] \in Rows /\ b[1] \in Items /\ b = <<b[1], Shown(b[1])>>
  BY <1>4
<1>9. \A i \in Rows : <<i, Shown(i)>> \in rows
  BY <1>4
<1>10. Packed'
  <2>1. \A i \in Items : Shown(i) \in 0 .. Now
    BY <1>1 DEF Shown
  <2> QED
    BY <1>1, <1>7, <1>8, <2>1 DEF Packed
<1>11. ASSUME NEW i \in Held, CursorOld(i, job.res)'
       PROVE  CursorBrings(i)'
  <2>1. i \in Items
    BY <1>1, HoldsAssumption DEF Held, Logged
  <2>2. Shown(i)' = Shown(i) /\ (CursorFine(i)' <=> CursorFine(i))
    <3>1. Shown(i)' = Shown(i)
      BY <1>1 DEF Shown
    <3> QED
      BY <1>1, <3>1 DEF CursorFine, CursorStill
  <2>3. /\ Candidates(i)' \subseteq {b \in rows : b[1] = i}
        /\ Picks' = {b[1] : b \in rows}
    BY <1>7 DEF Of, Picks, Candidates, Newest
  <2>4. CASE i \in Rows
    <3>1. i \in Picks'
      <4>1. <<i, Shown(i)>>[1] = i
        OBVIOUS
      <4> QED
        BY <1>9, <2>3, <2>4, <4>1
    <3>2. \A b \in Candidates(i)' : b[2] = Shown(i)
      BY <1>8, <2>3
    <3> QED
      BY <2>2, <3>1, <3>2 DEF CursorBrings
  <2>5. CASE i \notin Rows
    <3>1. i \notin Picks'
      BY <1>8, <2>3, <2>5
    <3>2. CASE i \in Live
      BY <1>1, <1>5, <2>1, <2>2, <2>5, <3>1, <3>2
      DEF CursorKept, CursorOld, CursorBrings
    <3>3. CASE i \notin Live
      <4>1. i \in job'.unseen /\ Shown(i) = 0
        BY <1>3, <1>7, <2>1, <2>5, <3>3 DEF NeverServed, Rows, Shown
      <4> QED
        BY <1>1, <2>2, <3>1, <4>1 DEF CursorBrings, CursorFine
    <3> QED
      BY <3>2, <3>3
  <2> QED
    BY <2>4, <2>5
<1>12. CursorEntry(job.res)'
  BY <1>1, <1>6, <1>7 DEF CursorEntry
<1> QED
  BY <1>1, <1>2, <1>7, <1>10, <1>11, <1>12 DEF CursorRun, CursorStill

\* Rows that were returned may join those that were asked for.
LEMMA CursorYields ==
    ASSUME CursorStill, kind \in {"rest", "bucket"}, CursorFrom, Packed,
           NEW some \in SUBSET {i \in Items : Wanted(i)},
           NEW rows, rows = job.batch \cup {Record(i) : i \in some}
    PROVE  /\ \A b \in rows :
                 /\ b \in Items \X (1 .. Now)
                 /\ log[b[2]].id = b[1]
                 /\ Cursored /\ job.start.seen =>
                       log[b[2]].at >= job.start.last
           /\ \A i \in some : <<i, Last[i]>> \in rows
<1>1. /\ Now \in Nat
      /\ \A i \in Items :
            /\ Last[i] \in 0 .. Now
            /\ Last[i] # 0 => /\ log[Last[i]].id = i
                              /\ Spot[i] = log[Last[i]].at
            /\ i \in Live => Last[i] # 0
            /\ LastOf(i, Now) = Last[i]
  BY CursorRests, CursorReturned DEF CursorStill
<1>2. \A b \in job.batch :
         /\ b \in Items \X (1 .. Now)
         /\ log[b[2]].id = b[1]
         /\ Cursored /\ job.start.seen => log[b[2]].at >= job.start.last
  BY <1>1 DEF CursorFrom, Packed
<1>3. ASSUME NEW i \in some
      PROVE  /\ Record(i) = <<i, Last[i]>>
             /\ i \in Items /\ Last[i] \in 1 .. Now
             /\ log[Last[i]].id = i
             /\ Cursored /\ job.start.seen => log[Last[i]].at >= job.start.last
  BY <1>1 DEF Record, Wanted
<1>4. \A b \in rows \ job.batch : \E i \in some : b = <<i, Last[i]>>
  BY <1>3
<1>5. \A i \in some : <<i, Last[i]>> \in rows
  BY <1>3
<1>6. ASSUME NEW i \in some, NEW b, b = <<i, Last[i]>>
      PROVE  /\ b \in Items \X (1 .. Now)
             /\ log[b[2]].id = b[1]
             /\ Cursored /\ job.start.seen => log[b[2]].at >= job.start.last
  BY <1>3, <1>6
<1> QED
  BY <1>2, <1>4, <1>5, <1>6

LEMMA CursorPages ==
    ASSUME CursorStill, ApiPage
    PROVE  CursorRun'
<1>1. /\ Logged /\ Now' = Now /\ LastStamp' = LastStamp /\ res' = res
      /\ Last' = Last /\ Live' = Live /\ Spot' = Spot /\ Held' = Held
      /\ CursorEntry(res) /\ CursorKept /\ Now \in Nat
      /\ \A i \in Items : Last[i] \in 0 .. Now /\ (i \in Live => Last[i] # 0)
  BY CursorRests
<1>2. /\ job # Idle /\ job.pc = "page" /\ kind = "rest" /\ kind' = kind
      /\ CursorRun /\ CursorFrom /\ CursorPage /\ CursorEntry(job.res)
      /\ Packed
      /\ {"pc", "batch", "res", "scope", "start", "after"} \subseteq DOMAIN job
  BY DEF ApiPage, Reading, Idle, CursorStill, CursorInv, CursorRun,
     CursorFrom, CursorPage
<1> DEFINE wanted == {i \in Items : Wanted(i)}
           fresh == {i \in wanted : Last[i] > job.after}
           upto(m) == {i \in fresh : Last[i] <= m}
<1>3. \A i \in Items : /\ Returned(i) <=> Wanted(i)
                       /\ LastOf(i, Now) = Last[i]
                       /\ Alive(i, Now) <=> i \in Live
  BY <1>2, CursorReturned DEF CursorStill
<1>4. Rows = wanted
  BY <1>3 DEF Rows
<1>5. {i \in Rows : LastOf(i, Now) > job.after} = fresh
  BY <1>3, <1>4
<1>6. \A m : {i \in fresh : LastOf(i, Now) <= m} = upto(m)
  BY <1>3
<1>7. \/ \E m \in {LastOf(i, Now) : i \in fresh} :
            Go([after |-> m, res |-> Seen(upto(m)),
                batch |-> Yield({Record(i) : i \in upto(m)})])
      \/ Finish(Seen(fresh), {Record(i) : i \in fresh}, NeverServed)
  BY <1>5, <1>6 DEF ApiPage
<1>8. ASSUME NEW some \in SUBSET wanted
      PROVE  CursorEntry(Seen(some))
  <2>1. some \in SUBSET {i \in Items : Last[i] # 0}
    BY <1>1 DEF Wanted
  <2> QED
    BY <1>2, <2>1, CursorSeen DEF CursorStill
<1>9. CASE \E m \in {LastOf(i, Now) : i \in fresh} :
              Go([after |-> m, res |-> Seen(upto(m)),
                  batch |-> Yield({Record(i) : i \in upto(m)})])
  <2>1. PICK m \in {LastOf(i, Now) : i \in fresh} :
           Go([after |-> m, res |-> Seen(upto(m)),
               batch |-> Yield({Record(i) : i \in upto(m)})])
    BY <1>9
  <2> PICK rows : rows = job.batch \cup {Record(i) : i \in upto(m)}
    OBVIOUS
  <2> PICK state : state = Seen(upto(m))
    OBVIOUS
  <2>2. m \in 0 .. Now /\ upto(m) \in SUBSET wanted
    BY <1>1, <1>3
  <2>3. job' = Over([after |-> m, res |-> state, batch |-> rows], job)
    BY <2>1 DEF Go, Yield
  <2>4. CursorEntry(state)
    BY <1>8, <2>2
  <2>5. /\ \A b \in rows :
              /\ b \in Items \X (1 .. Now)
              /\ log[b[2]].id = b[1]
              /\ Cursored /\ job.start.seen =>
                    log[b[2]].at >= job.start.last
        /\ \A i \in upto(m) : <<i, Last[i]>> \in rows
    <3> PICK some : some = upto(m)
      OBVIOUS
    <3>1. /\ some \in SUBSET {i \in Items : Wanted(i)}
          /\ rows = job.batch \cup {Record(i) : i \in some}
      BY <2>2
    <3> HIDE DEF upto, fresh, wanted
    <3> QED
      BY <1>2, <3>1, CursorYields
  <2>6. ASSUME NEW i \in Items, Last[i] <= m, Wanted(i)
        PROVE  <<i, Last[i]>> \in rows
    <3>1. CASE Last[i] <= job.after
      BY <1>2, <2>6, <3>1 DEF CursorPage
    <3>2. CASE ~ Last[i] <= job.after
      <4>1. Last[i] > job.after
        BY <1>1, <1>2, <3>2 DEF CursorPage
      <4>2. i \in upto(m)
        BY <2>6, <4>1
      <4> QED
        BY <2>5, <4>2
    <3> QED
      BY <3>1, <3>2
  <2> HIDE DEF upto, fresh, wanted
  <2>7. /\ {"pc", "batch", "res", "scope", "start", "after"}
              \subseteq DOMAIN job'
        /\ job'.pc = "page" /\ job'.batch = rows /\ job'.res = state
        /\ job'.after = m /\ job'.start = job.start /\ job'.scope = job.scope
    BY <1>2, <2>3 DEF Over
  <2>8. (Cursored' <=> Cursored) /\ \A i : Wanted(i)' <=> Wanted(i)
    <3>1. Cursored' <=> Cursored
      BY <1>2, <2>7 DEF Cursored
    <3> QED
      BY <1>1, <2>7, <3>1 DEF Wanted
  <2>9. CursorPage'
    BY <1>1, <1>2, <2>2, <2>6, <2>7, <2>8 DEF CursorPage
  <2>10. \A b \in rows : b[2] # 0 /\ b \in Items \X (0 .. Now)
    BY <1>1, <2>5
  <2>11. CursorFrom'
    BY <1>1, <1>2, <2>5, <2>7, <2>8, <2>10 DEF CursorFrom, CursorStill
  <2>12. CursorEntry(job.res)' /\ Packed'
    BY <1>1, <2>4, <2>7, <2>10 DEF CursorEntry, Packed
  <2> QED
    BY <2>7, <2>9, <2>11, <2>12 DEF CursorRun
<1>10. CASE Finish(Seen(fresh), {Record(i) : i \in fresh}, NeverServed)
  <2> PICK rows : rows = job.batch \cup {Record(i) : i \in fresh}
    OBVIOUS
  <2> PICK state : state = Seen(fresh)
    OBVIOUS
  <2>1. /\ {"pc", "batch", "res", "scope"} \subseteq DOMAIN job'
        /\ job'.pc = "extracted" /\ job'.batch = rows /\ job'.res = state
        /\ job'.unseen = NeverServed /\ job'.scope = job.scope
    BY <1>10 DEF Finish, Yield
  <2>2. fresh \in SUBSET wanted
    OBVIOUS
  <2>3. /\ \A b \in rows :
              /\ b \in Items \X (1 .. Now)
              /\ log[b[2]].id = b[1]
              /\ Cursored /\ job.start.seen =>
                    log[b[2]].at >= job.start.last
        /\ \A i \in fresh : <<i, Last[i]>> \in rows
    <3> PICK some : some = fresh
      OBVIOUS
    <3>1. /\ some \in SUBSET {i \in Items : Wanted(i)}
          /\ rows = job.batch \cup {Record(i) : i \in some}
      BY <2>2
    <3> HIDE DEF fresh, wanted
    <3> QED
      BY <1>2, <3>1, CursorYields
  <2>4. ASSUME NEW i \in Items, Wanted(i)
        PROVE  <<i, Last[i]>> \in rows
    <3>1. CASE Last[i] <= job.after
      BY <1>2, <2>4, <3>1 DEF CursorPage
    <3>2. CASE ~ Last[i] <= job.after
      <4>1. Last[i] > job.after
        BY <1>1, <1>2, <3>2 DEF CursorPage
      <4> QED
        BY <2>3, <2>4, <4>1
    <3> QED
      BY <3>1, <3>2
  <2>5. CursorEntry(state)
    BY <1>8, <2>2
  <2> HIDE DEF upto, fresh, wanted
  <2>6. Items \ Live \subseteq job'.unseen
    BY <1>3, <2>1 DEF NeverServed, Wanted
  <2>7. \A i \in Held : CursorBrings(i)'
    BY <1>1, <1>2, <2>1, <2>3, <2>4, <2>6, CursorDone DEF CursorStill
  <2>8. \A b \in rows : b[2] # 0 /\ b \in Items \X (0 .. Now)
    BY <1>1, <2>3
  <2>9. CursorEntry(job.res)' /\ Packed'
    BY <1>1, <2>1, <2>5, <2>8 DEF CursorEntry, Packed
  <2> QED
    BY <1>1, <2>1, <2>7, <2>8, <2>9 DEF CursorRun
<1> QED
  BY <1>7, <1>9, <1>10

LEMMA CursorReads ==
    ASSUME CursorStill, ListFiles \/ ReadFile \/ LastFile
    PROVE  CursorRun'
<1>1. /\ Logged /\ Now' = Now /\ LastStamp' = LastStamp /\ res' = res
      /\ Last' = Last /\ Live' = Live /\ Spot' = Spot /\ Held' = Held
      /\ CursorEntry(res) /\ CursorKept /\ Now \in Nat
      /\ \A i \in Items : Last[i] \in 0 .. Now /\ (i \in Live => Last[i] # 0)
  BY CursorRests
<1>2. /\ job # Idle /\ kind = "bucket" /\ kind' = kind
      /\ job.pc \in {"list", "file"}
      /\ CursorRun /\ CursorFrom /\ CursorEntry(job.res) /\ Packed
      /\ {"pc", "batch", "res", "scope", "start"} \subseteq DOMAIN job
  BY DEF ListFiles, ReadFile, LastFile, Reading, Idle, CursorStill,
     CursorInv, CursorRun, CursorFrom
<1>3. \A i \in Items : /\ Returned(i) <=> Wanted(i)
                       /\ LastOf(i, Now) = Last[i]
                       /\ Alive(i, Now) <=> i \in Live
  BY <1>2, CursorReturned DEF CursorStill
<1>4. ASSUME job'.start = job.start, job'.scope = job.scope
      PROVE  /\ Cursored' <=> Cursored
             /\ \A i : Wanted(i)' <=> Wanted(i)
  <2>1. Cursored' <=> Cursored
    BY <1>2, <1>4 DEF Cursored
  <2> QED
    BY <1>1, <1>4, <2>1 DEF Wanted
<1>5. CASE ListFiles
  <2>1. job' = Over([pc |-> "file", todo |-> {i \in Items : Alive(i, Now)},
                     read |-> [i \in Items |-> 0]], job)
        /\ job.pc = "list"
    BY <1>5 DEF ListFiles, Go, Reading
  <2>2. /\ {"pc", "batch", "res", "scope", "start", "todo", "read"}
              \subseteq DOMAIN job'
        /\ job'.pc = "file" /\ job'.batch = job.batch
        /\ job'.res = job.res /\ job'.start = job.start
        /\ job'.scope = job.scope /\ job'.todo \subseteq Items
        /\ job'.read = [i \in Items |-> 0]
    BY <1>2, <2>1 DEF Over
  <2>3. CursorFiles'
    BY <1>1, <1>2, <1>4, <2>2 DEF CursorFiles, Wanted
  <2>4. CursorFrom'
    BY <1>1, <1>2, <1>4, <2>2 DEF CursorFrom, CursorStill
  <2>5. CursorEntry(job.res)' /\ Packed'
    BY <1>1, <1>2, <2>2 DEF CursorEntry, Packed
  <2> QED
    BY <2>2, <2>3, <2>4, <2>5 DEF CursorRun
<1>6. CASE ReadFile
  <2>1. job.pc = "file" /\ CursorFiles
    BY <1>2, <1>6 DEF ReadFile, Reading, CursorRun
  <2>2. PICK i \in {j \in job.todo : Alive(j, Now)} :
           LET row == {i} \cap Rows
           IN  Go([todo |-> job.todo \ {i},
                   read |-> [job.read EXCEPT ![i] = LastOf(i, Now)],
                   res |-> Seen(row),
                   batch |-> Yield({Record(j) : j \in row})])
    BY <1>6 DEF ReadFile
  <2> PICK some : some = {i} \cap Rows
    OBVIOUS
  <2> PICK rows : rows = job.batch \cup {Record(j) : j \in some}
    OBVIOUS
  <2> PICK state : state = Seen(some)
    OBVIOUS
  <2>3. i \in Items /\ LastOf(i, Now) = Last[i]
    BY <1>3, <2>1 DEF CursorFiles
  <2>4. job' = Over([todo |-> job.todo \ {i},
                     read |-> [job.read EXCEPT ![i] = Last[i]],
                     res |-> state, batch |-> rows], job)
    BY <2>2, <2>3 DEF Go, Yield
  <2>5. some \in SUBSET {j \in Items : Wanted(j)} /\ (Wanted(i) => i \in some)
    BY <1>3, <2>3 DEF Rows
  <2>6. CursorEntry(state)
    <3>1. some \in SUBSET {j \in Items : Last[j] # 0}
      BY <1>1, <2>5 DEF Wanted
    <3> QED
      BY <1>2, <3>1, CursorSeen DEF CursorStill
  <2>7. /\ \A b \in rows :
              /\ b \in Items \X (1 .. Now)
              /\ log[b[2]].id = b[1]
              /\ Cursored /\ job.start.seen =>
                    log[b[2]].at >= job.start.last
        /\ \A j \in some : <<j, Last[j]>> \in rows
    <3>1. some \in SUBSET {j \in Items : Wanted(j)}
      BY <2>5
    <3>2. rows = job.batch \cup {Record(j) : j \in some}
      OBVIOUS
    <3> QED
      BY <1>2, <3>1, <3>2, CursorYields
  <2>8. /\ {"pc", "batch", "res", "scope", "start", "todo", "read"}
              \subseteq DOMAIN job'
        /\ job'.pc = "file" /\ job'.batch = rows
        /\ job'.res = state /\ job'.start = job.start
        /\ job'.scope = job.scope /\ job'.todo \subseteq Items
        /\ job'.read = [job.read EXCEPT ![i] = Last[i]]
    BY <1>2, <2>1, <2>4 DEF Over, CursorFiles
  <2>9. CursorFiles'
    <3>1. job'.read \in [Items -> 0 .. Now]
      BY <1>1, <2>1, <2>3, <2>8 DEF CursorFiles
    <3>2. ASSUME NEW j \in Items, job'.read[j] = Last[j], Wanted(j)
          PROVE  <<j, Last[j]>> \in rows
      <4>1. CASE j = i
        BY <2>5, <2>7, <3>2, <4>1
      <4>2. CASE j # i
        <5>1. job.read[j] = Last[j]
          BY <2>1, <2>8, <3>2, <4>2 DEF CursorFiles
        <5> QED
          BY <2>1, <3>2, <5>1 DEF CursorFiles
      <4> QED
        BY <4>1, <4>2
    <3> QED
      BY <1>1, <1>2, <1>4, <2>8, <3>1, <3>2 DEF CursorFiles
  <2>10. \A b \in rows : b[2] # 0 /\ b \in Items \X (0 .. Now)
    BY <1>1, <2>7
  <2>11. CursorFrom'
    BY <1>1, <1>2, <1>4, <2>7, <2>8, <2>10 DEF CursorFrom, CursorStill
  <2>12. CursorEntry(job.res)' /\ Packed'
    BY <1>1, <2>6, <2>8, <2>10 DEF CursorEntry, Packed
  <2> QED
    BY <2>8, <2>9, <2>11, <2>12 DEF CursorRun
<1>7. CASE LastFile
  <2>1. job.pc = "file" /\ CursorFiles
    BY <1>2, <1>7 DEF LastFile, Reading, CursorRun
  <2>2. /\ {"pc", "batch", "res", "scope"} \subseteq DOMAIN job'
        /\ job'.pc = "extracted" /\ job'.batch = job.batch
        /\ job'.res = job.res /\ job'.scope = job.scope
        /\ job'.unseen =
              NeverServed \cup {i \in Items : LastOf(i, Now) # job.read[i]}
    BY <1>7 DEF LastFile, Finish, Yield
  <2>3. Items \ Live \subseteq job'.unseen
    BY <1>3, <2>2 DEF NeverServed, Wanted
  <2>4. \A i \in Items :
           Wanted(i) => <<i, Last[i]>> \in job'.batch \/ i \in job'.unseen
    BY <1>3, <2>1, <2>2 DEF CursorFiles
  <2>5. \A b \in job'.batch :
           /\ b \in Items \X (1 .. Now)
           /\ log[b[2]].id = b[1]
           /\ Cursored /\ job.start.seen => log[b[2]].at >= job.start.last
    BY <1>1, <1>2, <2>2 DEF CursorFrom, Packed
  <2>6. \A i \in Held : CursorBrings(i)'
    BY <1>1, <1>2, <2>2, <2>3, <2>4, <2>5, CursorDone DEF CursorStill
  <2>7. CursorEntry(job.res)' /\ Packed'
    BY <1>1, <1>2, <2>2 DEF CursorEntry, Packed
  <2> QED
    BY <1>1, <1>2, <2>2, <2>6, <2>7 DEF CursorRun
<1> QED
  BY <1>5, <1>6, <1>7

LEMMA CursorLoads ==
    ASSUME CursorInv, Common, kind \in CursorKinds, Load, log' = log,
           kind' = kind
    PROVE  CursorInv'
<1>1. job # Idle /\ job.pc = "extracted" /\ CursorRun
      /\ table \in [Items -> Nat] /\ Logged
  BY DEF Load, Idle, CursorInv, Common
<1>2. res' = job.res /\ job' = Idle /\ Held' = Held
      /\ LastStamp' = LastStamp
  BY DEF Load, Held, LastStamp, Now
<1>3. Now' = Now /\ Last' = Last /\ Live' = Live /\ Spot' = Spot
  BY Standstill
<1>4. /\ table' \in [Items -> Nat]
      /\ \A i \in Items \ Picks :
            /\ table'[i] = table[i]
            /\ i \in tied' <=> i \in tied
            /\ i \in missed' <=> i \in missed \/ i \in job.unseen
      /\ \A i \in Picks :
            /\ <<i, table'[i]>> \in Candidates(i)
            /\ i \in missed' <=> i \in job.unseen
            /\ i \notin tied' =>
                  \A b \in Candidates(i) : b[2] = table'[i]
  BY <1>1, Loading DEF CursorRun
<1>5. ASSUME NEW i \in Held, CursorOld(i, res)'
      PROVE  CursorFine(i)'
  <2>1. i \in Items
    BY HoldsAssumption DEF Held, Common, Logged
  <2>2. CursorBrings(i)
    BY <1>1, <1>2, <1>3, <1>5 DEF CursorRun, CursorOld
  <2>3. Shown(i)' = Shown(i)
    BY <1>3 DEF Shown
  <2>4. CASE i \notin Picks
    BY <1>4, <2>1, <2>2, <2>3, <2>4 DEF CursorBrings, CursorFine
  <2>5. CASE i \in Picks /\ i \notin tied'
    <3>1. \A b \in Candidates(i) : b = <<i, b[2]>>
      <4>1. job.batch \subseteq Items \X (0 .. Now)
        BY <1>1 DEF CursorRun, Packed
      <4> QED
        BY <4>1 DEF Candidates, Newest, Of
    <3>2. \A b \in Candidates(i) : b[2] = table'[i]
      BY <1>4, <2>5
    <3>3. \A a, b \in Candidates(i) : a = b
      BY <3>1, <3>2
    <3>4. <<i, table'[i]>> \in Candidates(i) /\ <<i, table'[i]>>[2] = table'[i]
      BY <1>4, <2>5
    <3>5. \/ table'[i] = Shown(i)
          \/ i \in job.unseen /\ (table'[i] # 0 \/ kind = "bucket")
      BY <2>2, <2>5, <3>3, <3>4 DEF CursorBrings
    <3> QED
      BY <1>4, <2>3, <2>5, <3>5 DEF CursorFine
  <2> QED
    BY <2>4, <2>5 DEF CursorFine
<1> QED
  BY <1>1, <1>2, <1>3, <1>4, <1>5
  DEF CursorInv, CursorKept, CursorRun, CursorEntry

LEMMA CursorStep == Common /\ CursorInv /\ [Next]_vars => CursorInv'
<1> SUFFICES ASSUME Common, CursorInv, [Next]_vars, kind \in CursorKinds
             PROVE  CursorInv'
  BY Steps DEF CursorInv, CursorKinds
<1>1. kind' = kind /\ Logged
  BY Steps DEF Common
<1>2. CASE HostChanges
  BY <1>1, <1>2, CursorMoves
<1>3. ASSUME log' = log, UNCHANGED landed
      PROVE  /\ UNCHANGED <<Now, Last, Live, Spot, LastStamp, Held>>
             /\ CursorKept' <=> CursorKept
             /\ CursorEntry(res)' <=> CursorEntry(res)
             /\ table' = table
  <2>1. UNCHANGED <<Now, Last, Live, Spot, LastStamp, Held>>
    BY <1>1, <1>3, CursorRests DEF CursorStill
  <2> QED
    BY <1>1, <1>3, <2>1
    DEF CursorKept, CursorOld, CursorFine, Shown, CursorEntry, landed
<1>4. CASE Aside /\ log' = log
  <2>1. UNCHANGED <<landed, job, Now, Last, Live, Spot, LastStamp, Held>>
    BY <1>3, <1>4 DEF Aside
  <2>2. CursorRun' <=> CursorRun
    <3>1. /\ Packed' <=> Packed
          /\ CursorEntry(job.res)' <=> CursorEntry(job.res)
          /\ Cursored' <=> Cursored
      BY <1>1, <2>1 DEF Packed, CursorEntry, Cursored
    <3>2. /\ CursorFrom' <=> CursorFrom
          /\ \A i : Wanted(i)' <=> Wanted(i)
      BY <1>1, <1>4, <2>1, <3>1 DEF CursorFrom, Wanted, landed
    <3>3. /\ CursorPage' <=> CursorPage
          /\ CursorFiles' <=> CursorFiles
      BY <1>1, <2>1, <3>2 DEF CursorPage, CursorFiles
    <3>4. /\ Picks' = Picks
          /\ \A i : Candidates(i)' = Candidates(i)
      BY <1>1, <1>4, <2>1 DEF Picks, Candidates, Sorted, Newest, Of, Stamp
    <3>5. \A i : CursorBrings(i)' <=> CursorBrings(i)
      BY <1>1, <2>1, <3>4 DEF CursorBrings, CursorFine, Shown, landed
    <3> QED
      BY <1>1, <2>1, <3>1, <3>2, <3>3, <3>5 DEF CursorRun, CursorOld
  <2> QED
    BY <1>1, <1>3, <1>4, <2>1, <2>2 DEF CursorInv
<1>5. CASE log' = log /\ job' = Idle /\ UNCHANGED landed
  BY <1>1, <1>3, <1>5 DEF CursorInv
<1>6. CASE log' = log /\ Load
  BY <1>1, <1>6, CursorLoads
<1>7. CASE Goes
  <2>1. log' = log /\ UNCHANGED landed /\ Cursor
    BY <1>7 DEF Goes, CursorKinds
  <2>2. CursorStill
    BY <1>1, <2>1 DEF CursorStill
  <2>3. CASE FileGone
    BY <1>1, <1>3, <2>1, <2>3 DEF CursorInv, FileGone, Fail
  <2>4. CASE ~ FileGone
    <3>1. CursorRun'
      BY <2>1, <2>2, <2>4, CursorStarts, CursorQueries, CursorPages,
         CursorReads, Zenon DEF Cursor
    <3> QED
      BY <1>1, <1>3, <2>1, <3>1 DEF CursorInv
  <2> QED
    BY <2>3, <2>4
<1> QED
  BY <1>2, <1>4, <1>5, <1>6, <1>7, Steps

LEMMA CursorInvariant == Spec => []CursorInv
<1> QED
  BY CommonInvariant, CursorInitially, CursorStep, PTL DEF Spec

-----------------------------------------------------------------------------
(* Drive's tree *)

\* Where each item is.
Place == [i \in Items |-> IF Last[i] # 0 THEN Spot[i] ELSE NoParent]

\* The folders above i, where P says of each item what it is in.
Upward(P, i, S) == \A j \in S \cup {i} : P[j] \in Folders => P[j] \in S
Chain(P, i) ==
    {f \in Folders : \A S \in SUBSET Folders : Upward(P, i, S) => f \in S}

\* No folder is below itself.
Acyclic(P) == \A S \in SUBSET Folders \ {{}} : \E f \in S : P[f] \notin S

\* i is in scope, and no folder on the way has changed after what is in it:
\* of items in L, with T the latest changes.
Plain(P, L, T, i, scope) ==
    LET chain == {i} \cup Chain(P, i)
    IN  /\ \E j \in chain : P[j] = scope
        /\ chain \subseteq L
        /\ \A j \in chain : P[j] \in Folders => T[P[j]] <= T[j]
PlainNow(i, scope) == Plain(Place, Live, Last, i, scope)

LEMMA ChainIs ==
    ASSUME NEW P, NEW i
    PROVE  /\ Chain(P, i) \subseteq Folders
           /\ Upward(P, i, Chain(P, i))
           /\ \A S \in SUBSET Folders :
                 Upward(P, i, S) => Chain(P, i) \subseteq S
<1>1. ASSUME NEW j \in Chain(P, i) \cup {i}, P[j] \in Folders
      PROVE  P[j] \in Chain(P, i)
  <2> SUFFICES ASSUME NEW S \in SUBSET Folders, Upward(P, i, S)
               PROVE  P[j] \in S
    BY <1>1 DEF Chain
  <2>1. j \in S \cup {i}
    BY <1>1 DEF Chain
  <2> QED
    BY <1>1, <2>1 DEF Upward
<1> QED
  BY <1>1 DEF Chain, Upward

\* What is above i is the folder it is in, and what is above that.
LEMMA ChainOn ==
    ASSUME NEW P, NEW i, P[i] \in Folders
    PROVE  Chain(P, i) = {P[i]} \cup Chain(P, P[i])
<1>1. P[i] \in Chain(P, i)
  BY ChainIs DEF Upward
<1>2. Upward(P, P[i], Chain(P, i))
  BY <1>1, ChainIs DEF Upward
<1>3. Chain(P, P[i]) \subseteq Chain(P, i)
  BY <1>2, ChainIs
<1>4. Upward(P, i, {P[i]} \cup Chain(P, P[i]))
  BY ChainIs DEF Upward
<1>5. Chain(P, i) \subseteq {P[i]} \cup Chain(P, P[i])
  BY <1>4, ChainIs
<1> QED
  BY <1>1, <1>3, <1>5

LEMMA ChainEnds ==
    ASSUME NEW P, NEW i, P[i] \notin Folders
    PROVE  Chain(P, i) = {}
<1>1. Upward(P, i, {})
  BY DEF Upward
<1> QED
  BY <1>1, ChainIs

\* What holds of i holds of the folder it is in, unless that is the root.
LEMMA PlainAbove ==
    ASSUME NEW P, NEW L, NEW T, NEW i, NEW scope, Plain(P, L, T, i, scope),
           scope \notin Folders, P[i] # scope
    PROVE  /\ P[i] \in Folders
           /\ Plain(P, L, T, P[i], scope)
           /\ T[P[i]] <= T[i]
<1>1. P[i] \in Folders
  <2>1. CASE P[i] \notin Folders
    BY <2>1, ChainEnds DEF Plain
  <2> QED
    BY <2>1
<1>2. Chain(P, i) = {P[i]} \cup Chain(P, P[i])
  BY <1>1, ChainOn
<1> QED
  BY <1>1, <1>2 DEF Plain

\* What is above i has changed no later.
LEMMA PlainOlder ==
    ASSUME NEW P, NEW L, NEW T \in [Items -> Nat], NEW i \in Items,
           NEW scope, Plain(P, L, T, i, scope)
    PROVE  \A c \in Chain(P, i) : T[c] <= T[i]
<1> DEFINE S == {c \in Chain(P, i) : T[c] <= T[i]}
<1>1. Upward(P, i, S)
  <2> SUFFICES ASSUME NEW j \in S \cup {i}, P[j] \in Folders
               PROVE  P[j] \in S
    BY DEF Upward
  <2>1. j \in Chain(P, i) \cup {i} /\ T[j] <= T[i] /\ j \in Items
    BY ChainIs, DriveAssumption
  <2>2. P[j] \in Chain(P, i) /\ P[j] \in Items
    BY <2>1, ChainIs, DriveAssumption DEF Upward
  <2>3. T[P[j]] <= T[j]
    BY <2>1 DEF Plain
  <2> QED
    BY <2>1, <2>2, <2>3
<1>2. S \in SUBSET Folders
  BY ChainIs
<1>3. Chain(P, i) \subseteq S
  <2> HIDE DEF S
  <2> QED
    BY <1>1, <1>2, ChainIs
<1> QED
  BY <1>3

\* A change is of nothing that is plainly in scope, or above it, with earlier
\* changes only.
LEMMA PlainBefore ==
    ASSUME NEW P, NEW L, NEW T, NEW Q, NEW M, NEW U \in [Items -> Nat],
           NEW i \in Items, NEW k \in Items, NEW scope,
           \A j \in Items \ {k} : Q[j] = P[j] /\ U[j] = T[j]
                                  /\ (j \in M => j \in L),
           Plain(Q, M, U, i, scope), U[i] < U[k]
    PROVE  Plain(P, L, T, i, scope)
<1>1. k \notin Chain(Q, i) \cup {i}
  <2>1. \A c \in Chain(Q, i) : U[c] <= U[i]
    BY PlainOlder
  <2> QED
    BY <2>1
<1>2. Chain(Q, i) \cup {i} \subseteq Items \ {k}
  BY <1>1, ChainIs, DriveAssumption
<1>3. Upward(P, i, Chain(Q, i))
  BY <1>2, ChainIs DEF Upward
<1>4. Chain(P, i) \subseteq Chain(Q, i)
  BY <1>3, ChainIs
<1>5. Upward(Q, i, Chain(P, i))
  BY <1>2, <1>4, ChainIs DEF Upward
<1>6. Chain(P, i) = Chain(Q, i)
  BY <1>4, <1>5, ChainIs
<1>7. \A j \in {i} \cup Chain(Q, i) :
         Q[j] \in Folders => Q[j] \in Chain(Q, i)
  BY ChainIs DEF Upward
<1> QED
  BY <1>2, <1>6, <1>7 DEF Plain

\* Drive lets no folder be moved below itself.
LEMMA AcyclicOn ==
    ASSUME NEW P, NEW Q, NEW k, NEW at, Acyclic(P),
           \A f \in Folders : Q[f] = IF f = k THEN at ELSE P[f],
           at \in Folders => k # at /\ k \notin Chain(P, at)
    PROVE  Acyclic(Q)
<1> SUFFICES ASSUME NEW S \in SUBSET Folders \ {{}},
                    \A f \in S : Q[f] \in S
             PROVE  FALSE
  BY DEF Acyclic
<1>1. CASE k \notin S
  BY <1>1 DEF Acyclic
<1>2. CASE k \in S
  <2> DEFINE R == S \cap ({at} \cup Chain(P, at))
  <2>1. at \in S
    BY <1>2
  <2>2. R \in SUBSET Folders \ {{}} /\ k \notin R
    BY <2>1
  <2>3. ASSUME NEW f \in R
        PROVE  P[f] \in R
    <3>1. P[f] \in S
      BY <2>2, <2>3
    <3>2. P[f] \in Chain(P, at)
      BY <2>3, <3>1, ChainIs DEF Upward
    <3> QED
      BY <3>1, <3>2
  <2> HIDE DEF R
  <2> QED
    BY <2>2, <2>3 DEF Acyclic
<1> QED
  BY <1>1, <1>2

LEMMA PlaceIs ==
    ASSUME Logged, kind = "drive"
    PROVE  /\ Place \in [Items -> Roots \cup Folders \cup {NoParent}]
           /\ \A i \in Items : Parent(i, Now) = Place[i]
           /\ \A i : i \notin Items => Parent(i, Now) = NoParent
<1>1. Places(kind) = Roots \cup Folders
  BY DEF Places, CursorKinds
<1>2. \A i \in Items : Last[i] # 0 => Spot[i] \in Roots \cup Folders
  BY <1>1, Reads
<1>3. \A i \in Items : Parent(i, Now) = IF Last[i] # 0 THEN Spot[i]
                                                      ELSE NoParent
  BY Reads DEF Parent
<1> QED
  BY <1>2, <1>3 DEF Place, Parent

\* FoldersAbove, Above, Trashed and Hidden, told from Place.
LEMMA AboveIs ==
    ASSUME Logged, kind = "drive", NEW i \in Items
    PROVE  /\ FoldersAbove(i, Now) = Chain(Place, i)
           /\ Above(i, Now) \cap Items = {i} \cup Chain(Place, i)
           /\ Trashed(i, Now) <=> ~ ({i} \cup Chain(Place, i) \subseteq Live)
           /\ \A scope \in Roots :
                 scope \in Above(i, Now) <=>
                    \E j \in {i} \cup Chain(Place, i) : Place[j] = scope
<1> DEFINE steps == {<<j, Parent(j, Now)>> : j \in Folders \cup {i}}
           up == {step \in steps : step[2] \in Folders}
           sets == {S \in SUBSET Folders :
                      \A step \in up : step[1] \in S \cup {i} => step[2] \in S}
<1>1. FoldersAbove(i, Now) = InAll(sets)
  BY DEF FoldersAbove
<1>2. \A j \in Folders \cup {i} : Parent(j, Now) = Place[j]
  BY PlaceIs, DriveAssumption
<1>3. ASSUME NEW S \in SUBSET Folders
      PROVE  S \in sets <=> Upward(Place, i, S)
  <2>1. ASSUME \A step \in up : step[1] \in S \cup {i} => step[2] \in S,
               NEW j \in S \cup {i}, Place[j] \in Folders
        PROVE  Place[j] \in S
    <3>1. <<j, Place[j]>> \in steps
      BY <1>2, <2>1
    <3>2. <<j, Place[j]>> \in up
      BY <2>1, <3>1
    <3> QED
      BY <2>1, <3>2
  <2>2. ASSUME Upward(Place, i, S), NEW step \in up, step[1] \in S \cup {i}
        PROVE  step[2] \in S
    <3>1. PICK j \in Folders \cup {i} : step = <<j, Place[j]>>
      BY <1>2
    <3>2. step[1] = j /\ step[2] = Place[j]
      BY <3>1
    <3>3. Place[j] \in Folders
      BY <3>2
    <3> HIDE DEF up
    <3> QED
      BY <2>2, <3>2, <3>3 DEF Upward
  <2>3. S \in sets
          <=> \A step \in up : step[1] \in S \cup {i} => step[2] \in S
    <3> HIDE DEF up
    <3> QED
      OBVIOUS
  <2> HIDE DEF sets, up
  <2> QED
    BY <2>1, <2>2, <2>3 DEF Upward
<1>4. sets \subseteq SUBSET Folders /\ Folders \in sets
  <2>1. Upward(Place, i, Folders)
    BY DEF Upward
  <2> QED
    BY <1>3, <2>1
<1> HIDE DEF sets
<1>5. InAll(sets) = Chain(Place, i)
  BY <1>3, <1>4 DEF InAll, Chain
<1> DEFINE chain == {i} \cup Chain(Place, i)
<1>6. chain \subseteq Items /\ chain \subseteq Folders \cup {i}
  BY ChainIs, DriveAssumption
<1>7. \A j \in chain : Parent(j, Now) = Place[j]
  BY <1>2, <1>6
<1>8. Above(i, Now) = chain \cup {Place[j] : j \in chain}
  BY <1>1, <1>5, <1>7 DEF Above
<1>9. \A j \in chain : Place[j] \in Items => Place[j] \in chain
  <2> SUFFICES ASSUME NEW j \in chain, Place[j] \in Items
               PROVE  Place[j] \in chain
    OBVIOUS
  <2>1. Place[j] \in Folders
    BY <1>6, PlaceIs, DriveAssumption
  <2> QED
    BY <2>1, ChainIs DEF Upward
<1>10. Above(i, Now) \cap Items = chain
  <2> HIDE DEF chain
  <2> QED
    BY <1>6, <1>8, <1>9
<1>11. Trashed(i, Now) <=> ~ (chain \subseteq Live)
  <2>1. \A j \in chain : Alive(j, Now) <=> j \in Live
    BY <1>6, Reads
  <2> HIDE DEF chain
  <2> QED
    BY <1>10, <2>1 DEF Trashed
<1>12. ASSUME NEW scope \in Roots
       PROVE  scope \in Above(i, Now) <=> \E j \in chain : Place[j] = scope
  <2>1. scope \notin chain
    BY <1>6, DriveAssumption
  <2> HIDE DEF chain
  <2> QED
    BY <1>8, <2>1
<1> QED
  BY <1>1, <1>5, <1>10, <1>11, <1>12

\* What an item has above it when the promise is asked of it.
LEMMA PlainIs ==
    ASSUME Logged, kind = "drive", NEW i \in Items, NEW scope \in Roots
    PROVE  PlainNow(i, scope) <=> /\ scope \in Above(i, Now)
                                  /\ ~ Trashed(i, Now)
                                  /\ ~ Hidden(i)
<1> DEFINE chain == {i} \cup Chain(Place, i)
<1>1. /\ Above(i, Now) \cap Items = chain
      /\ Trashed(i, Now) <=> ~ (chain \subseteq Live)
      /\ scope \in Above(i, Now) <=> \E j \in chain : Place[j] = scope
  BY AboveIs
<1>2. chain \subseteq Items
  BY ChainIs, DriveAssumption
<1>3. \A j \in chain :
         /\ Parent(j, Now) = Place[j]
         /\ LastOf(j, Now) = Last[j] /\ Last[j] \in Nat
         /\ Place[j] \in Folders => /\ LastOf(Place[j], Now) = Last[Place[j]]
                                    /\ Last[Place[j]] \in Nat
  <2>1. \A j \in Items : LastOf(j, Now) = Last[j] /\ Last[j] \in 0 .. Now
    BY Reads
  <2>2. \A j \in Items : Last[j] \in Nat
    BY <2>1, Reads
  <2> QED
    BY <1>2, <2>1, <2>2, PlaceIs, DriveAssumption
<1>4. PlainNow(i, scope) <=>
         /\ \E j \in chain : Place[j] = scope
         /\ chain \subseteq Live
         /\ \A j \in chain : Place[j] \in Folders => Last[Place[j]] <= Last[j]
  BY DEF PlainNow, Plain
<1> HIDE DEF chain
<1>5. Hidden(i) <=>
         \E j \in chain : Place[j] \in Folders /\ Last[Place[j]] > Last[j]
  BY <1>1, <1>3 DEF Hidden
<1> QED
  BY <1>1, <1>3, <1>4, <1>5

-----------------------------------------------------------------------------
(* Drive's changes feed *)

\* Below the root, what the entry knows is in what the entry knows.
Rooted(entry) ==
    /\ entry.scope \in DOMAIN entry.folders
    /\ entry.folders[entry.scope] = NoParent
    /\ DOMAIN entry.folders \subseteq Folders \cup {entry.scope}
    /\ \A f \in DOMAIN entry.folders \ {entry.scope} :
          entry.folders[f] \in DOMAIN entry.folders
    /\ DOMAIN entry.files \subseteq Items \ Folders
    /\ \A i \in DOMAIN entry.files : entry.files[i] \in DOMAIN entry.folders

\* It is true of what has not changed since pos.
Right(P, L, T, entry, pos) ==
    /\ \A f \in DOMAIN entry.folders \ {entry.scope} :
          T[f] <= pos => f \in L /\ P[f] = entry.folders[f]
    /\ \A i \in DOMAIN entry.files :
          T[i] <= pos => i \in L /\ P[i] = entry.files[i]

Has(entry, i) == i \in DOMAIN entry.folders \cup DOMAIN entry.files

\* Of that, it has all the feed can have told it of.
Complete(P, L, T, entry, pos) ==
    \A i \in Items :
        Plain(P, L, T, i, entry.scope) /\ T[i] <= pos => Has(entry, i)

\* A folder has been listed with what is in it.
Found(P, L, T, entry, pending, pos) ==
    \A i \in Items :
        /\ Plain(P, L, T, i, entry.scope)
        /\ T[i] <= pos
        /\ P[i] \in DOMAIN entry.folders \ pending
        => Has(entry, i)

\* The row of a file that is in the entry shows it as it is.
FileFine(i) ==
    \/ table[i] = Last[i]
    \/ i \in tied
    \/ table[i] # 0 /\ i \in missed
FileBrings(i) ==
    IF i \in Picks THEN <<i, Last[i]>> \in job.batch ELSE FileFine(i)

FilesKept ==
    \A i \in DOMAIN res.files : Last[i] <= res.token => FileFine(i)

\* A Run that has read all changes up to pos.
ReadUpTo(pos) ==
    /\ pos \in 0 .. Now
    /\ Rooted(job.res)
    /\ Right(Place, Live, Last, job.res, pos)
    /\ \A i \in DOMAIN job.res.files : Last[i] <= pos => FileBrings(i)
CompleteTo(pos) == Complete(Place, Live, Last, job.res, pos)

TreeRun ==
    /\ job.scope \in Roots
    /\ job.res.scope = job.scope
    /\ Picks \cap Folders = {}
    /\ job.pc \in {"token", "walk", "changes", "feed", "extracted"}
    /\ job.pc = "walk" =>
          /\ ReadUpTo(job.token)
          /\ "pending" \in DOMAIN job
          /\ job.pending \subseteq DOMAIN job.res.folders
          /\ Found(Place, Live, Last, job.res, job.pending, job.token)
    /\ job.pc \in {"changes", "extracted"} =>
          /\ job.res.walked
          /\ ReadUpTo(job.res.token)
          /\ CompleteTo(job.res.token)
    /\ job.pc = "feed" => ReadUpTo(job.pos) /\ CompleteTo(job.pos)

TreeEntry ==
    /\ res.scope \in Roots
    /\ res.token \in 0 .. Now
    /\ Rooted(res)
    /\ Right(Place, Live, Last, res, res.token)
    /\ Complete(Place, Live, Last, res, res.token)
    /\ FilesKept
TreeInv ==
    kind = "drive" =>
        /\ Acyclic(Place)
        /\ conf \in Roots
        /\ \A f \in Folders : table[f] = 0
        /\ IF res.walked
           THEN TreeEntry
           ELSE res.token = 0 /\ table = [i \in Items |-> 0]
        /\ job = Idle \/ TreeRun

\* What is in a folder of its own kind, and that in another, for ever, is
\* nothing.
LEMMA NoneBelow ==
    ASSUME NEW P, Acyclic(P), NEW B,
           \A j \in B : P[j] \in Folders /\ P[j] \in B
    PROVE  B = {}
<1>1. B \cap Folders = {}
  BY DEF Acyclic
<1> QED
  BY <1>1

\* A walk that has listed every folder it found has found what there is.
LEMMA WalkIsComplete ==
    ASSUME NEW P, NEW L, NEW T \in [Items -> Nat], NEW entry, NEW pos \in Nat,
           Acyclic(P), Rooted(entry), entry.scope \in Roots,
           Found(P, L, T, entry, {}, pos)
    PROVE  Complete(P, L, T, entry, pos)
<1> DEFINE B == {j \in Items : /\ Plain(P, L, T, j, entry.scope)
                               /\ T[j] <= pos
                               /\ ~ Has(entry, j)}
<1>1. entry.scope \notin Folders
  BY DriveAssumption
<1>2. ASSUME NEW j \in B
      PROVE  P[j] \in Folders /\ P[j] \in B
  <2>1. P[j] \notin DOMAIN entry.folders
    BY <1>2 DEF Found
  <2>2. P[j] # entry.scope
    BY <2>1 DEF Rooted
  <2>3. /\ P[j] \in Folders
        /\ Plain(P, L, T, P[j], entry.scope)
        /\ T[P[j]] <= T[j]
    BY <1>1, <1>2, <2>2, PlainAbove
  <2>4. P[j] \in Items /\ T[P[j]] <= pos
    BY <1>2, <2>3, DriveAssumption
  <2>5. ~ Has(entry, P[j])
    BY <2>1, <2>3 DEF Has, Rooted
  <2> QED
    BY <2>3, <2>4, <2>5
<1> HIDE DEF B
<1>3. B = {}
  BY <1>2, NoneBelow
<1> QED
  BY <1>3 DEF B, Complete

\* The next item the feed lists, and what it makes of the entry.
NextListed(T, pos, n, i) ==
    /\ T[i] = n
    /\ pos < n
    /\ \A j \in Items : T[j] <= n => T[j] <= pos \/ j = i
Follow(P, L, T, entry, n, i, after) ==
    /\ after[1].scope = entry.scope
    /\ Rooted(after[1])
    /\ Right(P, L, T, after[1], n)
    /\ Complete(P, L, T, after[1], n)
    /\ \A b \in after[2] : b[1] \notin Folders
    /\ \A j \in DOMAIN after[1].files :
          IF j = i THEN <<i, n>> \in after[2]
                   ELSE /\ j \in DOMAIN entry.files
                        /\ \A b \in after[2] : b[1] # j

\* A listed item that is plainly in scope is in a folder that is known.
LEMMA PlainListed ==
    ASSUME NEW P, NEW L, NEW T \in [Items -> Nat], NEW entry, NEW pos \in Nat,
           NEW n \in Nat, NEW i \in Items, NextListed(T, pos, n, i),
           Acyclic(P), Rooted(entry), entry.scope \in Roots,
           Complete(P, L, T, entry, pos), Plain(P, L, T, i, entry.scope)
    PROVE  P[i] \in DOMAIN entry.folders
<1>1. CASE P[i] = entry.scope
  BY <1>1 DEF Rooted
<1>2. CASE P[i] # entry.scope
  <2>1. /\ P[i] \in Folders
        /\ Plain(P, L, T, P[i], entry.scope)
        /\ T[P[i]] <= n
    BY <1>2, PlainAbove, DriveAssumption DEF NextListed
  <2>2. P[i] \in Items
    BY <2>1, DriveAssumption
  <2>3. P[i] # i
    <3>1. i \in Folders => P[i] \notin {i}
      BY DEF Acyclic
    <3> QED
      BY <2>1, <3>1
  <2>4. T[P[i]] <= pos
    BY <2>1, <2>2, <2>3 DEF NextListed
  <2>5. Has(entry, P[i])
    BY <2>1, <2>2, <2>4 DEF Complete
  <2> QED
    BY <2>1, <2>5 DEF Has, Rooted
<1> QED
  BY <1>1, <1>2

\* What is below f, among folders: f, what is in it, and no more.
LEMMA SubtreeIs ==
    ASSUME NEW folders, NEW f \in DOMAIN folders
    PROVE  /\ Subtree(folders, f) \subseteq DOMAIN folders
           /\ f \in Subtree(folders, f)
           /\ \A g \in DOMAIN folders :
                 folders[g] \in Subtree(folders, f) => g \in Subtree(folders, f)
           /\ \A S \in SUBSET DOMAIN folders :
                 (/\ f \in S
                  /\ \A g \in DOMAIN folders : folders[g] \in S => g \in S)
                 => Subtree(folders, f) \subseteq S
<1> DEFINE sets == {S \in SUBSET DOMAIN folders :
                      /\ f \in S
                      /\ \A g \in DOMAIN folders : folders[g] \in S => g \in S}
<1>1. Subtree(folders, f) = InAll(sets)
  BY DEF Subtree
<1>2. DOMAIN folders \in sets
  OBVIOUS
<1>3. InAll(sets) \subseteq DOMAIN folders
  BY <1>2 DEF InAll
<1>4. f \in InAll(sets)
  BY <1>2 DEF InAll
<1>5. ASSUME NEW g \in DOMAIN folders, folders[g] \in InAll(sets)
      PROVE  g \in InAll(sets)
  <2>1. \A S \in sets : folders[g] \in S
    BY <1>5 DEF InAll
  <2>2. \A S \in sets : g \in S
    BY <1>5, <2>1
  <2> HIDE DEF sets
  <2> QED
    BY <1>2, <2>2 DEF InAll
<1>6. ASSUME NEW S \in SUBSET DOMAIN folders, f \in S,
             \A g \in DOMAIN folders : folders[g] \in S => g \in S
      PROVE  InAll(sets) \subseteq S
  <2>1. S \in sets
    BY <1>6
  <2> HIDE DEF sets
  <2> QED
    BY <2>1 DEF InAll
<1> HIDE DEF sets
<1> QED
  BY <1>1, <1>3, <1>4, <1>5, <1>6

\* The entry and the part of the tree that the feed has told it of.
Told(P, L, T, entry, pos) ==
    /\ Acyclic(P)
    /\ entry.scope \in Roots
    /\ Rooted(entry)
    /\ Right(P, L, T, entry, pos)
    /\ Complete(P, L, T, entry, pos)

\* A folder that has left takes with it what was below it, and nothing that is
\* plainly in scope.
LEMMA DropFollows ==
    ASSUME NEW P, NEW L, NEW T \in [Items -> Nat], NEW entry, NEW pos \in Nat,
           NEW n \in Nat, NEW i \in Items, NextListed(T, pos, n, i),
           Told(P, L, T, entry, pos), EntryShape(entry),
           i \in DOMAIN entry.folders, ~ Plain(P, L, T, i, entry.scope)
    PROVE  Follow(P, L, T, entry, n, i, DropSubtree(entry, i))
<1> DEFINE S == Subtree(entry.folders, i)
           left == {j \in DOMAIN entry.files : entry.files[j] \in S}
           after == [entry EXCEPT !.folders = Without(@, S),
                                  !.files = Without(@, left)]
           rows == {Tombstone(j) : j \in left}
           scope == entry.scope
<1>1. DropSubtree(entry, i) = <<after, rows>>
  BY DEF DropSubtree, Drop
<1>2. /\ DOMAIN after.folders = DOMAIN entry.folders \ S
      /\ \A f \in DOMAIN after.folders : after.folders[f] = entry.folders[f]
      /\ DOMAIN after.files = DOMAIN entry.files \ left
      /\ \A j \in DOMAIN after.files : after.files[j] = entry.files[j]
      /\ after.scope = scope
  BY DEF EntryShape, Without, Restrict
<1>3. /\ S \subseteq DOMAIN entry.folders
      /\ i \in S
      /\ \A g \in DOMAIN entry.folders : entry.folders[g] \in S => g \in S
      /\ \A R \in SUBSET DOMAIN entry.folders :
            (/\ i \in R
             /\ \A g \in DOMAIN entry.folders : entry.folders[g] \in R
                                                  => g \in R)
            => S \subseteq R
  BY SubtreeIs
<1>4. /\ Rooted(entry) /\ Acyclic(P) /\ scope \in Roots
      /\ Right(P, L, T, entry, pos) /\ Complete(P, L, T, entry, pos)
  BY DEF Told
<1>5. /\ i # scope /\ scope \notin Folders /\ i \in Folders
      /\ NoParent \notin DOMAIN entry.folders
  BY <1>4, DriveAssumption DEF Rooted
<1> DEFINE R == {g \in DOMAIN entry.folders :
                   /\ g # scope
                   /\ ~ (Plain(P, L, T, g, scope) /\ T[g] <= pos)}
<1>6. ASSUME NEW g \in DOMAIN entry.folders, entry.folders[g] \in R
      PROVE  g \in R
  <2>1. g # scope
    BY <1>4, <1>5, <1>6 DEF Rooted
  <2>2. ASSUME Plain(P, L, T, g, scope), T[g] <= pos
        PROVE  FALSE
    <3>1. g \in Folders /\ P[g] = entry.folders[g]
      BY <1>4, <1>6, <2>1, <2>2 DEF Right, Rooted
    <3>2. /\ P[g] \in Folders
          /\ Plain(P, L, T, P[g], scope)
          /\ T[P[g]] <= T[g]
      BY <1>5, <1>6, <2>2, <3>1, PlainAbove
    <3>3. T[P[g]] <= pos
      BY <2>2, <3>1, <3>2, DriveAssumption
    <3> QED
      BY <1>6, <3>1, <3>2, <3>3
  <2> QED
    BY <1>6, <2>1, <2>2
<1>7. i \in R
  BY <1>5 DEF NextListed
<1>8. S \subseteq R
  <2>1. R \in SUBSET DOMAIN entry.folders
    OBVIOUS
  <2> HIDE DEF R, S
  <2> QED
    BY <1>3, <1>6, <1>7, <2>1
<1>9. scope \notin S /\ \A g \in S : ~ (Plain(P, L, T, g, scope)
                                        /\ T[g] <= pos)
  BY <1>8
<1> HIDE DEF S, R
<1>10. Rooted(after)
  <2>1. scope \in DOMAIN after.folders /\ after.folders[scope] = NoParent
    BY <1>2, <1>4, <1>9 DEF Rooted
  <2>2. \A f \in DOMAIN after.folders \ {scope} :
           after.folders[f] \in DOMAIN after.folders
    BY <1>2, <1>3, <1>4 DEF Rooted
  <2>3. \A j \in DOMAIN after.files : after.files[j] \in DOMAIN after.folders
    BY <1>2, <1>4 DEF Rooted
  <2> HIDE DEF after, left
  <2> QED
    BY <1>2, <1>4, <2>1, <2>2, <2>3 DEF Rooted
<1>11. \A j \in DOMAIN entry.files : j # i /\ j \in Items
  BY <1>4, <1>5 DEF Rooted
<1> HIDE DEF after
<1>12. Right(P, L, T, after, n)
  <2>1. \A f \in DOMAIN after.folders \ {scope} :
           f \in Items /\ f # i /\ (T[f] <= n => T[f] <= pos)
    BY <1>2, <1>3, <1>4, DriveAssumption DEF Rooted, NextListed
  <2>2. \A j \in DOMAIN after.files : T[j] <= n => T[j] <= pos
    BY <1>2, <1>11 DEF NextListed
  <2> QED
    BY <1>2, <1>4, <2>1, <2>2 DEF Right
<1>13. Complete(P, L, T, after, n)
  <2> SUFFICES ASSUME NEW j \in Items, Plain(P, L, T, j, scope), T[j] <= n
               PROVE  Has(after, j)
    BY <1>2 DEF Complete
  <2>1. T[j] <= pos
    BY DEF NextListed
  <2>2. Has(entry, j)
    BY <1>4, <2>1 DEF Complete
  <2>3. CASE j \in DOMAIN entry.folders
    BY <1>2, <1>9, <2>1, <2>3 DEF Has
  <2>4. CASE j \in DOMAIN entry.files
    <3>1. P[j] = entry.files[j]
      BY <1>4, <2>1, <2>4 DEF Right
    <3>2. entry.files[j] \notin S
      <4>1. SUFFICES ASSUME P[j] \in S
                     PROVE  FALSE
        BY <3>1
      <4>2. /\ P[j] \in Folders
            /\ Plain(P, L, T, P[j], scope)
            /\ T[P[j]] <= T[j]
        BY <1>5, <1>9, <4>1, PlainAbove
      <4>3. T[P[j]] <= pos
        BY <2>1, <4>2, DriveAssumption
      <4> QED
        BY <1>9, <4>1, <4>2, <4>3
    <3> QED
      BY <1>2, <2>4, <3>2 DEF Has
  <2> QED
    BY <2>2, <2>3, <2>4 DEF Has
<1>14. /\ \A b \in rows : b[1] \notin Folders
       /\ \A j \in DOMAIN after.files :
             /\ j # i /\ j \in DOMAIN entry.files
             /\ \A b \in rows : b[1] # j
  BY <1>2, <1>4, <1>11 DEF Tombstone, Rooted
<1> HIDE DEF rows
<1> QED
  BY <1>1, <1>2, <1>10, <1>12, <1>13, <1>14 DEF Follow

\* The two branches of _changes: a folder that is known, ...
LEMMA KnownFolderFollows ==
    ASSUME NEW P, NEW L, NEW T \in [Items -> Nat], NEW entry, NEW pos \in Nat,
           NEW n \in Nat, NEW i \in Items, NextListed(T, pos, n, i),
           Told(P, L, T, entry, pos), EntryShape(entry),
           i \in DOMAIN entry.folders, NEW gone \in BOOLEAN,
           gone => ~ Plain(P, L, T, i, entry.scope), ~ gone => i \in L
    PROVE  Follow(P, L, T, entry, n, i, KnownFolder(entry, i, gone, P[i]))
<1> DEFINE scope == entry.scope
<1>1. CASE gone \/ P[i] \notin DOMAIN entry.folders
  <2>1. ~ Plain(P, L, T, i, entry.scope)
    BY <1>1, PlainListed DEF Told
  <2>2. Follow(P, L, T, entry, n, i, DropSubtree(entry, i))
    BY <2>1, DropFollows
  <2> QED
    BY <1>1, <2>2 DEF KnownFolder
<1>2. CASE ~ gone /\ P[i] \in DOMAIN entry.folders
  <2> DEFINE after == [entry EXCEPT !.folders[i] = P[i]]
  <2>1. KnownFolder(entry, i, gone, P[i]) = <<after, {}>>
    BY <1>2 DEF KnownFolder
  <2>2. /\ DOMAIN after.folders = DOMAIN entry.folders
        /\ after.folders[i] = P[i]
        /\ \A f \in DOMAIN entry.folders \ {i} :
              after.folders[f] = entry.folders[f]
        /\ after.files = entry.files
        /\ after.scope = scope
    BY DEF EntryShape
  <2> HIDE DEF after
  <2>3. /\ Rooted(entry) /\ scope \in Roots
        /\ Right(P, L, T, entry, pos) /\ Complete(P, L, T, entry, pos)
        /\ i # scope /\ i \in Folders
        /\ DOMAIN entry.folders \ {scope} \subseteq Items
        /\ \A j \in DOMAIN entry.files : j # i /\ j \in Items
    BY DriveAssumption DEF Told, Rooted
  <2>4. Rooted(after)
    BY <1>2, <2>2, <2>3 DEF Rooted
  <2>5. \A j \in Items \ {i} : T[j] <= n => T[j] <= pos
    BY DEF NextListed
  <2>6. Right(P, L, T, after, n)
    BY <1>2, <2>2, <2>3, <2>5 DEF Right
  <2>7. Complete(P, L, T, after, n)
    BY <2>2, <2>3, <2>5 DEF Complete, Has
  <2> QED
    BY <2>1, <2>2, <2>3, <2>4, <2>6, <2>7 DEF Follow
<1> QED
  BY <1>1, <1>2

\* ... and any other item.
LEMMA OtherItemFollows ==
    ASSUME NEW P, NEW L, NEW T \in [Items -> Nat], NEW entry, NEW pos \in Nat,
           NEW n \in Nat, NEW i \in Items, NextListed(T, pos, n, i),
           Told(P, L, T, entry, pos), EntryShape(entry),
           i \notin DOMAIN entry.folders, NEW gone \in BOOLEAN,
           gone => ~ Plain(P, L, T, i, entry.scope), ~ gone => i \in L,
           Record(i) = <<i, n>>
    PROVE  Follow(P, L, T, entry, n, i, OtherItem(entry, i, gone, P[i]))
<1> DEFINE scope == entry.scope
           inScope == ~ gone /\ P[i] \in DOMAIN entry.folders
<1>1. /\ Rooted(entry) /\ scope \in Roots
      /\ Right(P, L, T, entry, pos) /\ Complete(P, L, T, entry, pos)
      /\ i # scope
      /\ DOMAIN entry.folders \ {scope} \subseteq Items
      /\ DOMAIN entry.files \subseteq Items \ Folders
  BY DriveAssumption DEF Told, Rooted
<1>2. \A j \in Items \ {i} : T[j] <= n => T[j] <= pos
  BY DEF NextListed
<1>3. CASE inScope /\ i \in Folders
  <2> DEFINE after == [entry EXCEPT !.folders = With(@, {i}, P[i])]
  <2>1. OtherItem(entry, i, gone, P[i]) = <<after, {}>>
    BY <1>3 DEF OtherItem
  <2>2. /\ DOMAIN after.folders = DOMAIN entry.folders \cup {i}
        /\ after.folders[i] = P[i]
        /\ \A f \in DOMAIN entry.folders :
              after.folders[f] = entry.folders[f]
        /\ after.files = entry.files
        /\ after.scope = scope
    BY DEF EntryShape, With, Over
  <2> HIDE DEF after
  <2>3. Rooted(after)
    BY <1>1, <1>3, <2>2 DEF Rooted
  <2>4. Right(P, L, T, after, n)
    BY <1>1, <1>2, <1>3, <2>2 DEF Right
  <2>5. Complete(P, L, T, after, n)
    BY <1>1, <1>2, <2>2 DEF Complete, Has
  <2> QED
    BY <1>1, <1>3, <2>1, <2>2, <2>3, <2>4, <2>5 DEF Follow
<1>4. CASE inScope /\ i \notin Folders
  <2> DEFINE after == [entry EXCEPT !.files = With(@, {i}, P[i])]
  <2>1. OtherItem(entry, i, gone, P[i]) = <<after, {<<i, n>>}>>
    BY <1>4 DEF OtherItem
  <2>2. /\ DOMAIN after.files = DOMAIN entry.files \cup {i}
        /\ after.files[i] = P[i]
        /\ \A j \in DOMAIN entry.files \ {i} :
              after.files[j] = entry.files[j]
        /\ after.folders = entry.folders
        /\ after.scope = scope
    BY DEF EntryShape, With, Over
  <2> HIDE DEF after
  <2>3. Rooted(after)
    BY <1>1, <1>4, <2>2 DEF Rooted
  <2>4. Right(P, L, T, after, n)
    BY <1>1, <1>2, <1>4, <2>2 DEF Right
  <2>5. Complete(P, L, T, after, n)
    BY <1>1, <1>2, <2>2 DEF Complete, Has
  <2>6. /\ \A b \in {<<i, n>>} : b[1] \notin Folders
        /\ \A j : j # i => \A b \in {<<i, n>>} : b[1] # j
    BY <1>4
  <2> QED
    BY <1>1, <2>1, <2>2, <2>3, <2>4, <2>5, <2>6 DEF Follow
<1>5. CASE ~ inScope
  <2> DEFINE after == [entry EXCEPT !.files = Without(@, {i})]
             rows == IF i \in DOMAIN entry.files THEN {Tombstone(i)} ELSE {}
  <2>1. OtherItem(entry, i, gone, P[i]) = <<after, rows>>
    BY <1>5 DEF OtherItem, Forget
  <2>2. /\ DOMAIN after.files = DOMAIN entry.files \ {i}
        /\ \A j \in DOMAIN after.files : after.files[j] = entry.files[j]
        /\ after.folders = entry.folders
        /\ after.scope = scope
    BY DEF EntryShape, Without, Restrict
  <2>3. \A b \in rows : b[1] = i /\ i \notin Folders
    BY <1>1 DEF Tombstone
  <2> HIDE DEF after, rows
  <2>4. Rooted(after)
    BY <1>1, <2>2 DEF Rooted
  <2>5. Right(P, L, T, after, n)
    BY <1>1, <1>2, <2>2 DEF Right
  <2>6. ~ Plain(P, L, T, i, scope)
    BY <1>5, PlainListed DEF Told
  <2>7. Complete(P, L, T, after, n)
    BY <1>1, <1>2, <2>2, <2>6 DEF Complete, Has
  <2> QED
    BY <1>1, <2>1, <2>2, <2>3, <2>4, <2>5, <2>7 DEF Follow
<1> QED
  BY <1>3, <1>4, <1>5

LEMMA TreeStill ==
    ASSUME log' = log
    PROVE  /\ Now' = Now /\ Last' = Last /\ Live' = Live /\ Spot' = Spot
           /\ Place' = Place
BY Standstill DEF Place

\* Drive changes one item: what was read before that stays true of what has not
\* changed since, and complete.
LEMMA TreeGrows ==
    ASSUME Common, kind = "drive", HostChanges, Acyclic(Place)
    PROVE  /\ Now \in Nat /\ Now' = Now + 1
           /\ Last \in [Items -> Nat]
           /\ Acyclic(Place')
           /\ \E k \in Items :
                 /\ Last'[k] = Now + 1 /\ Last[k] <= Now
                 /\ \A j \in Items \ {k} :
                       /\ Place'[j] = Place[j]
                       /\ Last'[j] = Last[j]
                       /\ j \in Live' <=> j \in Live
           /\ Last' \in [Items -> Nat]
<1>1. Logged /\ Held \subseteq Items /\ Places(kind) = Roots \cup Folders
  BY HoldsAssumption DEF Common, Logged, Held, Places, CursorKinds
<1>2. PICK k \in Held, at \in Roots \cup Folders, gone \in BOOLEAN :
         /\ at \in Folders => /\ at # k
                              /\ k \notin Above(at, Now)
         /\ Change(k, at, gone)
  <2>1. PICK k \in Held : DriveChange(k)
    BY DEF HostChanges, CursorKinds
  <2> QED
    BY <2>1 DEF DriveChange
<1>3. k \in Items /\ Grown(k, at, gone)
  BY <1>1, <1>2, Changing, Zenon
<1>4. Now \in Nat /\ \A i \in Items : Last[i] \in 0 .. Now
  BY <1>1, Reads
<1>5. Last \in [Items -> Nat]
  BY <1>4 DEF Last
<1>6. /\ Now' = Now + 1
      /\ Last' = [Last EXCEPT ![k] = Now + 1]
      /\ \A i \in Items \ {k} : i \in Live' <=> i \in Live
      /\ \A i \in Items \ {k} : Last[i] # 0 => Spot'[i] = Spot[i]
      /\ Spot'[k] = at
  BY <1>3 DEF Grown
<1>7. Last' \in [Items -> Nat]
  <2>1. Now + 1 \in Nat /\ Last' = [Last EXCEPT ![k] = Now + 1]
    BY <1>4, <1>6
  <2> QED
    BY <1>5, <2>1
<1>8. \A j \in Items \ {k} : Last'[j] = Last[j]
  BY <1>5, <1>6
<1>9. Last'[k] = Now + 1
  BY <1>3, <1>5, <1>6
<1>10. /\ \A i \in Items : Place[i] = IF Last[i] # 0 THEN Spot[i] ELSE NoParent
       /\ \A i \in Items : Place'[i] = IF Last'[i] # 0 THEN Spot'[i]
                                                       ELSE NoParent
  BY DEF Place
<1>11. Place'[k] = at
  BY <1>3, <1>4, <1>6, <1>9, <1>10
<1>12. \A j \in Items \ {k} : Place'[j] = Place[j]
  BY <1>6, <1>8, <1>10
<1>13. at \in Folders => k # at /\ k \notin Chain(Place, at)
  <2> SUFFICES ASSUME at \in Folders
               PROVE  k # at /\ k \notin Chain(Place, at)
    OBVIOUS
  <2>1. at \in Items
    BY DriveAssumption
  <2>2. Above(at, Now) \cap Items = {at} \cup Chain(Place, at)
    BY <1>1, <2>1, AboveIs
  <2> QED
    BY <1>2, <1>3, <2>2
<1>14. Acyclic(Place')
  <2>1. \A f \in Folders : Place'[f] = IF f = k THEN at ELSE Place[f]
    BY <1>11, <1>12, DriveAssumption
  <2> HIDE DEF Place
  <2> QED
    BY <1>13, <2>1, AcyclicOn
<1> QED
  BY <1>3, <1>4, <1>5, <1>6, <1>7, <1>8, <1>9, <1>12, <1>14

\* The three facts that are about what has not changed since pos.
LEMMA TreeKept ==
    ASSUME NEW P, NEW L, NEW T, NEW Q, NEW M, NEW U \in [Items -> Nat],
           NEW k \in Items, NEW pos \in Nat, pos < U[k],
           \A j \in Items \ {k} : Q[j] = P[j] /\ U[j] = T[j]
                                  /\ (j \in M <=> j \in L),
           NEW entry, entry.scope \in Roots, Rooted(entry), NEW pending
    PROVE  /\ Right(P, L, T, entry, pos) => Right(Q, M, U, entry, pos)
           /\ Complete(P, L, T, entry, pos) => Complete(Q, M, U, entry, pos)
           /\ Found(P, L, T, entry, pending, pos)
                => Found(Q, M, U, entry, pending, pos)
<1>1. \A j \in Items : U[j] <= pos => j # k /\ U[j] = T[j] /\ Q[j] = P[j]
                                      /\ (j \in M <=> j \in L)
  OBVIOUS
<1>2. \A j \in Items : Plain(Q, M, U, j, entry.scope) /\ U[j] <= pos
                         => Plain(P, L, T, j, entry.scope)
  <2> SUFFICES ASSUME NEW j \in Items, Plain(Q, M, U, j, entry.scope),
                      U[j] <= pos
               PROVE  Plain(P, L, T, j, entry.scope)
    OBVIOUS
  <2>1. U[j] < U[k]
    OBVIOUS
  <2> QED
    BY <2>1, PlainBefore
<1>3. /\ DOMAIN entry.folders \ {entry.scope} \subseteq Items
      /\ DOMAIN entry.files \subseteq Items
  BY DriveAssumption DEF Rooted
<1>4. Right(P, L, T, entry, pos) => Right(Q, M, U, entry, pos)
  BY <1>1, <1>3 DEF Right
<1>5. Complete(P, L, T, entry, pos) => Complete(Q, M, U, entry, pos)
  BY <1>1, <1>2 DEF Complete
<1>6. Found(P, L, T, entry, pending, pos)
        => Found(Q, M, U, entry, pending, pos)
  BY <1>1, <1>2 DEF Found
<1> QED
  BY <1>4, <1>5, <1>6

LEMMA ConfStays ==
    ASSUME [Next]_vars, kind = "drive", conf \in Roots
    PROVE  conf' \in Roots
<1>1. CASE UNCHANGED vars
  BY <1>1 DEF vars
<1>2. CASE Graph \/ Item \/ File \/ Gmail \/ Cursor
  <2>1. ~ (Graph \/ Item)
    BY DEF Graph, GraphStart, Delta, Resync, Page, LastPage, Item, ItemStart,
       SingleItem, Reading
  <2>2. ~ File
    BY DEF File, FileStart, SingleFile, Reading
  <2>3. ~ Gmail
    <3>1. ~ (GmailStart \/ HistoryPage \/ HistoryTooOld \/ Plan \/ Profile)
      BY DEF GmailStart, HistoryPage, HistoryTooOld, Plan, Profile, Reading
    <3>2. ~ (FetchChanged \/ EmitDeleted \/ ListPage \/ FetchListed \/ Park
                \/ FullSyncEnds)
      BY DEF FetchChanged, EmitDeleted, ListPage, FetchListed, Park,
             FullSyncEnds, Reading
    <3> QED
      BY <3>1, <3>2 DEF Gmail
  <2>4. ~ Cursor
    BY DEF Cursor, CursorStart, Query, ApiPage, ListFiles, ReadFile, FileGone,
       LastFile, Reading, CursorKinds
  <2> QED
    BY <1>2, <2>1, <2>2, <2>3, <2>4
<1>3. CASE Drive
  BY <1>3 DEF Drive, DriveStart, StartToken, Walk, WalkEnds, FeedStart,
     TokenExpired, FeedChange, FeedEnds, Begin, Go, Finish
<1>4. CASE Load \/ Fail \/ Expire
  BY <1>4 DEF Load, Fail, Expire
<1>5. CASE \E s \in Scopes \ {First[kind]} : Repoint(s)
  BY <1>5 DEF Repoint, Scopes
<1>6. CASE HostChanges
  BY <1>6 DEF HostChanges, DriveChange, Change, CursorKinds
<1> QED
  BY <1>1, <1>2, <1>3, <1>4, <1>5, <1>6 DEF Next, Progress

LEMMA TreeInitially == Init => TreeInv
<1> SUFFICES ASSUME Init, kind = "drive"
             PROVE  TreeInv
  BY DEF TreeInv
<1>1. /\ res = NewEntry(NoParent) /\ job = Idle /\ table = [i \in Items |-> 0]
      /\ kind \in Kinds /\ conf = First["drive"] /\ log = Before["drive"]
  BY DEF Init, DriveInit, CursorKinds
<1>2. conf \in Roots
  BY <1>1, FirstAssumption
<1>3. Acyclic(Place)
  <2>1. SUFFICES ASSUME NEW S \in SUBSET Folders \ {{}}
                 PROVE  \E f \in S : Place[f] \notin S
    BY DEF Acyclic
  <2>2. PICK f \in S : \A n \in DOMAIN log :
           \/ log[n].id # f
           \/ log[n].at \notin S
           \/ \E m \in n + 1 .. Len(log) : log[m].id = f
    BY <1>1, BeforeAssumption DEF Nested
  <2>3. Logged /\ f \in Items /\ S \subseteq Items
    BY DriveAssumption, CommonInit DEF Common
  <2>4. /\ Now \in Nat /\ Last[f] \in 0 .. Now
        /\ Last[f] # 0 => log[Last[f]].id = f
        /\ Spot[f] = log[Last[f]].at
        /\ \A m \in 1 .. Now : log[m].id = f => m <= Last[f]
    BY <2>3, Reads
  <2>5. CASE Last[f] = 0
    <3>1. Place[f] = NoParent /\ NoParent \notin S
      BY <2>3, <2>5, DriveAssumption DEF Place
    <3> QED
      BY <3>1
  <2>6. CASE Last[f] # 0
    <3>1. Place[f] = log[Last[f]].at
      BY <2>3, <2>4, <2>6 DEF Place
    <3>2. DOMAIN log = 1 .. Now
      BY <2>3 DEF Logged, Histories, Now
    <3>3. Last[f] \in DOMAIN log
      BY <2>4, <2>6, <3>2
    <3>4. ~ \E m \in Last[f] + 1 .. Now : log[m].id = f
      BY <2>4
    <3>5. log[Last[f]].at \notin S
      BY <2>2, <2>4, <2>6, <3>3, <3>4 DEF Now
    <3> QED
      BY <3>1, <3>5
  <2> QED
    BY <2>5, <2>6
<1>4. ~ res.walked /\ res.token = 0
  BY <1>1 DEF NewEntry
<1>5. \A f \in Folders : table[f] = 0
  BY <1>1, DriveAssumption
<1> QED
  BY <1>1, <1>2, <1>3, <1>4, <1>5 DEF TreeInv

\* While the Binding and its Run stand still.
LEMMA TreeAside ==
    ASSUME Common, DriveInv, TreeInv, [Next]_vars, kind = "drive", Aside
    PROVE  TreeInv'
<1>1. /\ kind' = kind /\ conf' \in Roots
      /\ res' = res /\ table' = table /\ tied' = tied /\ missed' = missed
      /\ job' = job
  BY Steps, ConfStays DEF Aside, landed, TreeInv
<1>2. CASE log' = log
  <2>1. /\ Now' = Now /\ Last' = Last /\ Live' = Live /\ Place' = Place
    BY <1>2, TreeStill
  <2>2. TreeEntry => TreeEntry'
    BY <1>1, <2>1 DEF TreeEntry, FilesKept, FileFine
  <2>3. \A pos : ReadUpTo(pos) => ReadUpTo(pos)'
    BY <1>1, <2>1 DEF ReadUpTo, FileBrings, FileFine, Picks
  <2>4. TreeRun => TreeRun'
    BY <1>1, <2>1, <2>3 DEF TreeRun, ReadUpTo, FileBrings, FileFine, Picks,
       CompleteTo
  <2> QED
    BY <1>1, <2>1, <2>2, <2>4 DEF TreeInv
<1>3. CASE HostChanges
  <2>1. /\ Now \in Nat /\ Now' = Now + 1
        /\ Acyclic(Place') /\ Last' \in [Items -> Nat]
    BY <1>3, TreeGrows DEF TreeInv
  <2>2. PICK k \in Items :
           /\ Last'[k] = Now + 1
           /\ \A j \in Items \ {k} :
                 /\ Place'[j] = Place[j]
                 /\ Last'[j] = Last[j]
                 /\ j \in Live' <=> j \in Live
    BY <1>3, TreeGrows DEF TreeInv
  <2>3. ASSUME NEW entry, entry.scope \in Roots, Rooted(entry),
               NEW pos \in 0 .. Now, NEW pending
        PROVE  /\ Right(Place, Live, Last, entry, pos)
                    => Right(Place', Live', Last', entry, pos)
               /\ Complete(Place, Live, Last, entry, pos)
                    => Complete(Place', Live', Last', entry, pos)
               /\ Found(Place, Live, Last, entry, pending, pos)
                    => Found(Place', Live', Last', entry, pending, pos)
               /\ \A j \in DOMAIN entry.files :
                     Last'[j] <= pos => Last'[j] = Last[j]
    <3>1. pos \in Nat /\ pos < Last'[k]
      BY <2>1, <2>2, <2>3
    <3>2. \A j \in DOMAIN entry.files : j \in Items
      BY <2>3 DEF Rooted
    <3>3. \A j \in DOMAIN entry.files : Last'[j] <= pos => Last'[j] = Last[j]
      BY <2>1, <2>2, <3>1, <3>2
    <3> QED
      BY <2>1, <2>2, <2>3, <3>1, <3>3, TreeKept
  <2>4. \A j : Last'[j] = Last[j] => FileFine(j)' = FileFine(j)
                                     /\ FileBrings(j)' = FileBrings(j)
    BY <1>1 DEF FileFine, FileBrings, Picks
  <2>5. 0 .. Now \subseteq 0 .. Now'
    BY <2>1
  <2>6. TreeEntry => TreeEntry'
    <3> SUFFICES ASSUME TreeEntry
                 PROVE  TreeEntry'
      OBVIOUS
    <3>1. /\ res.scope \in Roots /\ Rooted(res) /\ res.token \in 0 .. Now
          /\ Right(Place, Live, Last, res, res.token)
          /\ Complete(Place, Live, Last, res, res.token)
          /\ FilesKept
      BY DEF TreeEntry
    <3>2. /\ Right(Place', Live', Last', res, res.token)
          /\ Complete(Place', Live', Last', res, res.token)
          /\ \A j \in DOMAIN res.files :
                Last'[j] <= res.token => Last'[j] = Last[j]
      BY <2>3, <3>1
    <3>3. FilesKept'
      BY <1>1, <2>4, <3>1, <3>2 DEF FilesKept
    <3> QED
      BY <1>1, <2>5, <3>1, <3>2, <3>3 DEF TreeEntry
  <2>7. TreeRun => TreeRun'
    <3> SUFFICES ASSUME TreeRun
                 PROVE  TreeRun'
      OBVIOUS
    <3>1. job.scope \in Roots /\ job.res.scope = job.scope
      BY DEF TreeRun
    <3>2. ASSUME NEW pos, ReadUpTo(pos)
          PROVE  /\ ReadUpTo(pos)'
                 /\ CompleteTo(pos) => CompleteTo(pos)'
                 /\ \A pending :
                       Found(Place, Live, Last, job.res, pending, pos)
                         => Found(Place', Live', Last', job.res, pending, pos)
      <4>1. /\ pos \in 0 .. Now /\ Rooted(job.res)
            /\ Right(Place, Live, Last, job.res, pos)
            /\ \A i \in DOMAIN job.res.files :
                  Last[i] <= pos => FileBrings(i)
        BY <3>2 DEF ReadUpTo
      <4>2. /\ Right(Place', Live', Last', job.res, pos)
            /\ \A j \in DOMAIN job.res.files :
                  Last'[j] <= pos => Last'[j] = Last[j]
            /\ Complete(Place, Live, Last, job.res, pos)
                 => Complete(Place', Live', Last', job.res, pos)
            /\ \A pending :
                  Found(Place, Live, Last, job.res, pending, pos)
                    => Found(Place', Live', Last', job.res, pending, pos)
        BY <2>3, <3>1, <4>1
      <4>3. \A j \in DOMAIN job.res.files : Last'[j] <= pos => FileBrings(j)'
        BY <2>4, <4>1, <4>2
      <4>4. ReadUpTo(pos)'
        BY <1>1, <2>5, <4>1, <4>2, <4>3 DEF ReadUpTo
      <4> QED
        BY <1>1, <4>2, <4>4 DEF CompleteTo
    <3> QED
      BY <1>1, <3>2 DEF TreeRun, Picks
  <2> QED
    BY <1>1, <2>1, <2>6, <2>7 DEF TreeInv
<1> QED
  BY <1>2, <1>3, Steps

LEMMA TreeStarts ==
    ASSUME Common, TreeInv, kind = "drive", DriveStart, log' = log,
           UNCHANGED landed
    PROVE  TreeRun'
<1> DEFINE entry == IF res.scope = conf THEN res ELSE NewEntry(conf)
           pc == IF entry.walked THEN "changes" ELSE "token"
<1>1. /\ Place' = Place /\ Last' = Last /\ Live' = Live /\ Now' = Now
      /\ table' = table /\ tied' = tied /\ missed' = missed
      /\ conf \in Roots
  BY TreeStill DEF landed, TreeInv
<1>2. /\ entry.scope = conf
      /\ entry.walked => entry = res
      /\ pc \in {"changes", "token"}
      /\ pc = "changes" => entry.walked
  BY DEF NewEntry
<1>3. job' = Over([pc |-> pc, res |-> entry],
                  [batch |-> {}, res |-> res, scope |-> conf])
  BY DEF DriveStart, Begin
<1> HIDE DEF entry, pc
<1>4. /\ job'.pc = pc /\ job'.batch = {} /\ job'.res = entry
      /\ job'.scope = conf
  BY <1>3 DEF Over
<1>5. Picks' = {}
  BY <1>4 DEF Picks
<1>6. ASSUME entry.walked
      PROVE  ReadUpTo(job.res.token)' /\ CompleteTo(job.res.token)'
  <2>1. job'.res = res /\ TreeEntry
    BY <1>2, <1>4, <1>6 DEF TreeInv
  <2>2. \A i \in DOMAIN res.files : Last[i] <= res.token => FileBrings(i)'
    BY <1>1, <1>5, <2>1 DEF TreeEntry, FilesKept, FileBrings, FileFine
  <2> QED
    BY <1>1, <2>1, <2>2 DEF TreeEntry, ReadUpTo, CompleteTo
<1> QED
  BY <1>1, <1>2, <1>4, <1>5, <1>6 DEF TreeRun

LEMMA TreeStartsOver ==
    ASSUME Common, DriveInv, TreeInv, kind = "drive", StartToken, log' = log
    PROVE  TreeRun'
<1>1. /\ Place' = Place /\ Last' = Last /\ Live' = Live /\ Now' = Now
      /\ Now \in Nat
  BY TreeStill, Reads DEF Common
<1>2. job # Idle /\ DriveRun /\ TreeRun
  BY DEF StartToken, Reading, Idle, DriveInv, TreeInv
<1>3. job' = Over([pc |-> "walk", token |-> Now, pending |-> {job.scope},
                   res |-> NewEntry(job.scope)], job)
  BY DEF StartToken, Go
<1>4. /\ job'.pc = "walk" /\ job'.batch = job.batch /\ job'.scope = job.scope
      /\ job'.res = NewEntry(job.scope)
      /\ "pending" \in DOMAIN job' /\ job'.pending = {job.scope}
      /\ job'.token = Now
  BY <1>2, <1>3 DEF Over, DriveRun
<1>5. /\ job'.res.scope = job.scope
      /\ DOMAIN job'.res.folders = {job.scope}
      /\ job'.res.folders[job.scope] = NoParent
      /\ DOMAIN job'.res.files = {}
  BY <1>4 DEF NewEntry
<1>6. Rooted(job'.res) /\ Right(Place, Live, Last, job'.res, Now)
  BY <1>5 DEF Rooted, Right
<1>7. Found(Place, Live, Last, job'.res, job'.pending, Now)
  BY <1>4, <1>5 DEF Found
<1>8. ReadUpTo(job.token)'
  BY <1>1, <1>4, <1>5, <1>6 DEF ReadUpTo
<1> QED
  BY <1>1, <1>2, <1>4, <1>5, <1>7, <1>8 DEF TreeRun, Picks

LEMMA TreeListed ==
    ASSUME Common, DriveInv, TreeInv, kind = "drive", Walk, log' = log,
           UNCHANGED landed
    PROVE  TreeRun'
<1>1. /\ Place' = Place /\ Last' = Last /\ Live' = Live /\ Now' = Now
      /\ table' = table /\ tied' = tied /\ missed' = missed
      /\ Logged
  BY TreeStill DEF landed, Common
<1>2. job # Idle /\ DriveRun /\ TreeRun /\ job.pc = "walk"
  BY DEF Walk, Reading, Idle, DriveInv, TreeInv
<1>3. PICK folder \in job.pending : \E in \in {Listing(folder)} :
         LET sub == (in \cap Folders) \ DOMAIN job.res.folders
             found == in \ Folders
         IN  Go([pending |-> (job.pending \ {folder}) \cup sub,
                 batch |-> Yield({Record(i) : i \in found}),
                 res |-> [job.res EXCEPT !.folders = With(@, sub, folder),
                                         !.files = With(@, found, folder)]])
  BY DEF Walk
<1>4. PICK in, sub, found :
         /\ in = Listing(folder)
         /\ sub = (in \cap Folders) \ DOMAIN job.res.folders
         /\ found = in \ Folders
         /\ job' = Over([pending |-> (job.pending \ {folder}) \cup sub,
                         batch |-> Yield({Record(i) : i \in found}),
                         res |-> [job.res EXCEPT
                                    !.folders = With(@, sub, folder),
                                    !.files = With(@, found, folder)]], job)
  BY <1>3 DEF Go
<1>5. /\ job'.pc = "walk" /\ job'.scope = job.scope
      /\ job'.token = job.token
      /\ "pending" \in DOMAIN job'
      /\ job'.pending = (job.pending \ {folder}) \cup sub
      /\ job'.batch = Yield({Record(i) : i \in found})
      /\ job'.res = [job.res EXCEPT !.folders = With(@, sub, folder),
                                    !.files = With(@, found, folder)]
  BY <1>2, <1>4 DEF Over, DriveRun
<1>6. /\ DOMAIN job'.res.folders = DOMAIN job.res.folders \cup sub
      /\ \A f \in sub : job'.res.folders[f] = folder
      /\ \A f \in DOMAIN job.res.folders \ sub :
            job'.res.folders[f] = job.res.folders[f]
      /\ DOMAIN job'.res.files = DOMAIN job.res.files \cup found
      /\ \A i \in found : job'.res.files[i] = folder
      /\ \A i \in DOMAIN job.res.files \ found :
            job'.res.files[i] = job.res.files[i]
      /\ job'.res.scope = job.res.scope
  <2>1. EntryShape(job.res)
    BY <1>2 DEF DriveRun
  <2> QED
    BY <1>5, <2>1 DEF EntryShape, With, Over
<1>7. /\ Rooted(job.res)
      /\ Right(Place, Live, Last, job.res, job.token)
      /\ Found(Place, Live, Last, job.res, job.pending, job.token)
      /\ \A i \in DOMAIN job.res.files :
            Last[i] <= job.token => FileBrings(i)
      /\ job.token \in 0 .. Now
      /\ job.pending \subseteq DOMAIN job.res.folders
      /\ job.scope \in Roots /\ job.res.scope = job.scope
      /\ Picks \cap Folders = {}
  BY <1>2 DEF TreeRun, ReadUpTo
<1>8. \A i \in Items : i \in in <=> /\ Place[i] = folder
                                    /\ {i} \cup Chain(Place, i) \subseteq Live
  BY <1>1, <1>4, PlaceIs, AboveIs DEF Listing
<1>9. in \subseteq Items
  BY <1>4 DEF Listing
<1>10. /\ sub \subseteq Folders /\ sub \cap DOMAIN job.res.folders = {}
       /\ found \subseteq Items \ Folders
       /\ \A i \in sub \cup found : Place[i] = folder /\ i \in Live
       /\ folder \in DOMAIN job.res.folders
  <2>1. \A i \in in : Place[i] = folder /\ i \in Live
    BY <1>8, <1>9
  <2> QED
    BY <1>3, <1>4, <1>7, <1>9, <2>1
<1>11. Rooted(job'.res)
  BY <1>6, <1>7, <1>10 DEF Rooted
<1>12. Right(Place, Live, Last, job'.res, job.token)
  BY <1>6, <1>7, <1>10 DEF Right
<1>13. Found(Place, Live, Last, job'.res, job'.pending, job.token)
  <2> SUFFICES ASSUME NEW i \in Items,
                      Plain(Place, Live, Last, i, job.scope),
                      Last[i] <= job.token,
                      Place[i] \in DOMAIN job'.res.folders \ job'.pending
               PROVE  Has(job'.res, i)
    BY <1>6, <1>7 DEF Found
  <2>1. Place[i] \in DOMAIN job.res.folders
        /\ (Place[i] = folder \/ Place[i] \notin job.pending)
    BY <1>5, <1>6
  <2>2. CASE Place[i] # folder
    <3>1. Plain(Place, Live, Last, i, job.res.scope)
      BY <1>7
    <3>2. Has(job.res, i)
      BY <1>7, <2>1, <2>2, <3>1 DEF Found
    <3> QED
      BY <1>6, <3>2 DEF Has
  <2>3. CASE Place[i] = folder
    <3>1. i \in in
      BY <1>8, <2>3 DEF Plain
    <3> QED
      BY <1>4, <1>6, <3>1 DEF Has
  <2> QED
    BY <2>2, <2>3
<1>14. \A i \in found : Record(i) = <<i, Last[i]>>
  BY <1>1, <1>10, Reads DEF Record
<1>15. Picks' = Picks \cup found
  BY <1>5, <1>14 DEF Picks, Yield
<1>16. \A i \in DOMAIN job'.res.files : Last[i] <= job.token => FileBrings(i)'
  <2> SUFFICES ASSUME NEW i \in DOMAIN job'.res.files, Last[i] <= job.token
               PROVE  FileBrings(i)'
    OBVIOUS
  <2>1. CASE i \in found
    <3>1. <<i, Last[i]>> \in job'.batch
      BY <1>5, <1>14, <2>1 DEF Yield
    <3> QED
      BY <1>1, <1>15, <2>1, <3>1 DEF FileBrings
  <2>2. CASE i \notin found
    <3>1. FileBrings(i) /\ (i \in Picks' <=> i \in Picks)
      BY <1>6, <1>7, <1>15, <2>2
    <3>2. job.batch \subseteq job'.batch
      BY <1>5 DEF Yield
    <3> QED
      BY <1>1, <3>1, <3>2 DEF FileBrings, FileFine
  <2> QED
    BY <2>1, <2>2
<1>17. ReadUpTo(job.token)'
  BY <1>1, <1>5, <1>7, <1>11, <1>12, <1>16 DEF ReadUpTo
<1>18. job'.pending \subseteq DOMAIN job'.res.folders
  BY <1>5, <1>6, <1>7
<1>19. Picks' \cap Folders = {}
  BY <1>7, <1>10, <1>15
<1> QED
  BY <1>1, <1>5, <1>6, <1>7, <1>13, <1>17, <1>18, <1>19 DEF TreeRun

\* What a reading without a listing leaves as it was.
LEMMA ReadUpToStays ==
    ASSUME log' = log, UNCHANGED landed, NEW entry, NEW pos, NEW old,
           job'.batch = job.batch, ReadUpTo(old), pos = old,
           job'.res = entry, entry.folders = job.res.folders,
           entry.files = job.res.files, entry.scope = job.res.scope
    PROVE  /\ ReadUpTo(pos)'
           /\ Picks' = Picks
           /\ CompleteTo(old) => CompleteTo(pos)'
<1>1. /\ Place' = Place /\ Last' = Last /\ Live' = Live /\ Now' = Now
      /\ table' = table /\ tied' = tied /\ missed' = missed
  BY TreeStill DEF landed
<1>2. Picks' = Picks
  BY DEF Picks
<1>3. \A i : FileBrings(i) => FileBrings(i)'
  BY <1>1, <1>2 DEF FileBrings, FileFine
<1>4. /\ Rooted(job.res) => Rooted(entry)
      /\ Right(Place, Live, Last, job.res, old)
           => Right(Place, Live, Last, entry, pos)
      /\ Complete(Place, Live, Last, job.res, old)
           => Complete(Place, Live, Last, entry, pos)
  BY DEF Rooted, Right, Complete, Has
<1> QED
  BY <1>1, <1>2, <1>3, <1>4 DEF ReadUpTo, CompleteTo

LEMMA TreeWalked ==
    ASSUME Common, DriveInv, TreeInv, kind = "drive", WalkEnds, log' = log,
           UNCHANGED landed
    PROVE  TreeRun'
<1>1. /\ Place' = Place /\ Last' = Last /\ Live' = Live
      /\ Logged /\ Now \in Nat
  BY TreeStill, Reads DEF Common
<1>2. job # Idle /\ DriveRun /\ TreeRun /\ job.pc = "walk"
  BY DEF WalkEnds, Reading, Idle, DriveInv, TreeInv
<1>3. /\ job.pending = {}
      /\ job'.pc = "extracted" /\ job'.batch = job.batch
      /\ job'.scope = job.scope
      /\ job'.res = [job.res EXCEPT !.token = job.token, !.walked = TRUE]
  BY DEF WalkEnds, Finish, Yield
<1>4. /\ job'.res.folders = job.res.folders /\ job'.res.files = job.res.files
      /\ job'.res.scope = job.res.scope
      /\ job'.res.walked /\ job'.res.token = job.token
  BY <1>2, <1>3 DEF EntryShape, DriveRun
<1>5. Complete(Place, Live, Last, job.res, job.token)
  <2>1. Last \in [Items -> Nat]
    <3>1. \A i \in Items : Last[i] \in Nat
      BY <1>1, Reads
    <3> QED
      BY <3>1 DEF Last
  <2>2. /\ Found(Place, Live, Last, job.res, {}, job.token)
        /\ Rooted(job.res) /\ job.res.scope \in Roots
        /\ job.token \in Nat
    BY <1>1, <1>2, <1>3 DEF TreeRun, ReadUpTo
  <2>3. Acyclic(Place)
    BY DEF TreeInv
  <2> QED
    BY <2>1, <2>2, <2>3, WalkIsComplete
<1>6. /\ ReadUpTo(job.res.token)' /\ Picks' = Picks
      /\ CompleteTo(job.res.token)'
  <2>1. ReadUpTo(job.token)
    BY <1>2 DEF TreeRun
  <2>2. PICK entry, pos : entry = job'.res /\ pos = job.token
    OBVIOUS
  <2>3. /\ ReadUpTo(pos)' /\ Picks' = Picks
        /\ CompleteTo(pos)'
    BY <1>3, <1>4, <1>5, <2>1, <2>2, ReadUpToStays DEF CompleteTo
  <2> QED
    BY <1>4, <2>2, <2>3 DEF ReadUpTo, CompleteTo
<1> QED
  BY <1>2, <1>3, <1>4, <1>6 DEF TreeRun

LEMMA TreeFollows ==
    ASSUME Common, DriveInv, TreeInv, kind = "drive", FeedStart, log' = log,
           UNCHANGED landed
    PROVE  TreeRun'
<1>1. job # Idle /\ DriveRun /\ TreeRun /\ job.pc = "changes"
  BY DEF FeedStart, Reading, Idle, DriveInv, TreeInv
<1>2. job' = Over([pc |-> "feed", pos |-> job.res.token], job)
  BY DEF FeedStart, Go
<1>3. /\ job'.pc = "feed" /\ job'.batch = job.batch /\ job'.res = job.res
      /\ job'.scope = job.scope /\ job'.pos = job.res.token
  BY <1>1, <1>2 DEF Over, DriveRun
<1>4. ReadUpTo(job.pos)' /\ Picks' = Picks /\ CompleteTo(job.pos)'
  <2>1. ReadUpTo(job.res.token) /\ CompleteTo(job.res.token)
    BY <1>1 DEF TreeRun
  <2>2. PICK entry, pos : entry = job'.res /\ pos = job.res.token
    OBVIOUS
  <2>3. /\ ReadUpTo(pos)' /\ Picks' = Picks
        /\ CompleteTo(pos)'
    BY <1>3, <2>1, <2>2, ReadUpToStays
  <2> QED
    BY <1>3, <2>2, <2>3 DEF ReadUpTo, CompleteTo
<1> QED
  BY <1>1, <1>3, <1>4 DEF TreeRun

LEMMA TreeFallsBack ==
    ASSUME DriveInv, TreeInv, kind = "drive", TokenExpired
    PROVE  TreeRun'
<1>1. job # Idle /\ DriveRun /\ TreeRun
  BY DEF TokenExpired, Reading, Idle, DriveInv, TreeInv
<1>2. job' = Over([pc |-> "token"], job)
  BY DEF TokenExpired, Go
<1>3. /\ job'.pc = "token" /\ job'.batch = job.batch /\ job'.res = job.res
      /\ job'.scope = job.scope
  BY <1>1, <1>2 DEF Over, DriveRun
<1> QED
  BY <1>1, <1>3 DEF TreeRun, Picks

LEMMA TreeFollowed ==
    ASSUME Common, DriveInv, TreeInv, kind = "drive", FeedEnds, log' = log,
           UNCHANGED landed
    PROVE  TreeRun'
<1>1. job # Idle /\ DriveRun /\ TreeRun /\ job.pc = "feed"
  BY DEF FeedEnds, Reading, Idle, DriveInv, TreeInv
<1>2. /\ job.pos = Now
      /\ job'.pc = "extracted" /\ job'.batch = job.batch
      /\ job'.scope = job.scope
      /\ job'.res = [job.res EXCEPT !.token = Now]
  BY DEF FeedEnds, Finish, Yield
<1>3. /\ job'.res.folders = job.res.folders /\ job'.res.files = job.res.files
      /\ job'.res.scope = job.res.scope
      /\ job'.res.walked /\ job'.res.token = job.pos
  BY <1>1, <1>2 DEF EntryShape, DriveRun
<1>4. /\ ReadUpTo(job.res.token)' /\ Picks' = Picks
      /\ CompleteTo(job.res.token)'
  <2>1. ReadUpTo(job.pos) /\ CompleteTo(job.pos)
    BY <1>1 DEF TreeRun
  <2>2. PICK entry, pos : entry = job'.res /\ pos = job.pos
    OBVIOUS
  <2>3. /\ ReadUpTo(pos)' /\ Picks' = Picks
        /\ CompleteTo(pos)'
    BY <1>2, <1>3, <2>1, <2>2, ReadUpToStays
  <2> QED
    BY <1>3, <2>2, <2>3 DEF ReadUpTo, CompleteTo
<1> QED
  BY <1>1, <1>2, <1>3, <1>4 DEF TreeRun

LEMMA TreeTold ==
    ASSUME Common, DriveInv, TreeInv, kind = "drive", FeedChange, log' = log,
           UNCHANGED landed
    PROVE  TreeRun'
<1>1. /\ Place' = Place /\ Last' = Last /\ Live' = Live /\ Now' = Now
      /\ table' = table /\ tied' = tied /\ missed' = missed
      /\ Logged /\ Now \in Nat
  BY TreeStill, Reads DEF landed, Common
<1>2. job # Idle /\ DriveRun /\ TreeRun /\ job.pc = "feed"
  BY DEF FeedChange, Reading, Idle, DriveInv, TreeInv
<1>3. PICK n, i, gone, after :
         /\ n \in job.pos + 1 .. Now
         /\ i = log[n].id
         /\ gone = Trashed(i, Now)
         /\ after = IF i \in DOMAIN job.res.folders
                    THEN KnownFolder(job.res, i, gone, Parent(i, Now))
                    ELSE OtherItem(job.res, i, gone, Parent(i, Now))
         /\ Listed(n)
         /\ \A k \in job.pos + 1 .. n - 1 : ~ Listed(k)
         /\ job' = Over([pos |-> n, res |-> after[1],
                         batch |-> Yield(after[2])], job)
  BY DEF FeedChange, Go
<1>4. /\ ReadUpTo(job.pos) /\ CompleteTo(job.pos)
      /\ job.pos \in 0 .. Now /\ n \in 1 .. Now /\ job.pos < n
      /\ job.scope \in Roots /\ job.res.scope = job.scope
      /\ Picks \cap Folders = {}
      /\ EntryShape(job.res) /\ job.res.walked
      /\ Acyclic(Place)
  BY <1>1, <1>2, <1>3 DEF TreeRun, ReadUpTo, DriveRun, TreeInv
<1>5. i \in Items
  <2>1. log \in Seq(Changes(kind))
    BY <1>1 DEF Logged, Histories, Changes
  <2>2. log[n] \in Changes(kind)
    BY <1>1, <1>4, <2>1 DEF Now
  <2> QED
    BY <1>3, <2>2 DEF Changes
<1>6. \A j \in Items : /\ Last[j] \in 0 .. Now /\ LastOf(j, Now) = Last[j]
                       /\ Last[j] # 0 => log[Last[j]].id = j
  BY <1>1, Reads
<1>7. Last \in [Items -> Nat]
  <2>1. \A j \in Items : Last[j] \in Nat
    BY <1>1, <1>6
  <2> QED
    BY <2>1 DEF Last
<1>8. NextListed(Last, job.pos, n, i)
  <2>1. Last[i] = n
    BY <1>3, <1>5, <1>6 DEF Listed
  <2>2. ASSUME NEW j \in Items, Last[j] <= n, ~ Last[j] <= job.pos, j # i
        PROVE  FALSE
    <3>1. Last[j] # n
      BY <1>3, <1>4, <1>6, <2>2
    <3>2. Last[j] \in job.pos + 1 .. n - 1
      BY <1>1, <1>4, <1>6, <2>2, <3>1
    <3>3. Listed(Last[j])
      BY <1>4, <1>6, <2>2, <3>2 DEF Listed
    <3> QED
      BY <1>3, <3>2, <3>3
  <2> QED
    BY <1>4, <2>1, <2>2 DEF NextListed
<1>9. /\ Parent(i, Now) = Place[i] /\ gone \in BOOLEAN
      /\ gone => ~ Plain(Place, Live, Last, i, job.res.scope)
      /\ ~ gone => i \in Live
      /\ Record(i) = <<i, n>>
  <2>1. Parent(i, Now) = Place[i]
    BY <1>1, <1>5, PlaceIs
  <2>2. gone <=> ~ ({i} \cup Chain(Place, i) \subseteq Live)
    BY <1>1, <1>3, <1>5, AboveIs
  <2>3. gone \in BOOLEAN
    BY <1>3 DEF Trashed
  <2>4. Record(i) = <<i, n>>
    BY <1>5, <1>6, <1>8 DEF Record, NextListed
  <2> QED
    BY <2>1, <2>2, <2>3, <2>4 DEF Plain
<1>10. Told(Place, Live, Last, job.res, job.pos)
  BY <1>4 DEF Told, ReadUpTo, CompleteTo
<1>11. Follow(Place, Live, Last, job.res, n, i, after)
  <2>1. job.pos \in Nat /\ n \in Nat
    BY <1>1, <1>4
  <2>2. CASE i \in DOMAIN job.res.folders
    BY <1>3, <1>4, <1>5, <1>7, <1>8, <1>9, <1>10, <2>1, <2>2,
       KnownFolderFollows
  <2>3. CASE i \notin DOMAIN job.res.folders
    BY <1>3, <1>4, <1>5, <1>7, <1>8, <1>9, <1>10, <2>1, <2>3,
       OtherItemFollows
  <2> QED
    BY <2>2, <2>3
<1>12. /\ job'.pc = "feed" /\ job'.res = after[1] /\ job'.scope = job.scope
       /\ job'.pos = n /\ job'.batch = job.batch \cup after[2]
  BY <1>2, <1>3 DEF Over, DriveRun, Yield
<1>13. Picks' = Picks \cup {b[1] : b \in after[2]}
  BY <1>12 DEF Picks
<1>14. Picks' \cap Folders = {}
  BY <1>4, <1>11, <1>13 DEF Follow
<1>15. ASSUME NEW j \in DOMAIN after[1].files, Last[j] <= n
       PROVE  FileBrings(j)'
  <2>1. CASE j = i
    <3>1. <<i, n>> \in after[2] /\ Last[i] = n
      BY <1>8, <1>11, <1>15, <2>1 DEF Follow, NextListed
    <3>2. i \in Picks'
      BY <1>13, <3>1
    <3> QED
      BY <1>1, <1>12, <2>1, <3>1, <3>2 DEF FileBrings
  <2>2. CASE j # i
    <3>1. j \in DOMAIN job.res.files /\ \A b \in after[2] : b[1] # j
      BY <1>11, <1>15, <2>2 DEF Follow
    <3>2. j \in Items
      BY <1>4, <3>1 DEF EntryShape
    <3>3. FileBrings(j)
      BY <1>4, <1>8, <1>15, <2>2, <3>1, <3>2 DEF ReadUpTo, NextListed
    <3>4. j \in Picks' <=> j \in Picks
      BY <1>13, <3>1
    <3> QED
      BY <1>1, <1>12, <3>3, <3>4 DEF FileBrings, FileFine
  <2> QED
    BY <2>1, <2>2
<1>16. n \in 0 .. Now
  BY <1>1, <1>4
<1>17. ReadUpTo(job.pos)'
  BY <1>1, <1>11, <1>12, <1>15, <1>16 DEF ReadUpTo, Follow
<1>18. CompleteTo(job.pos)'
  BY <1>1, <1>11, <1>12 DEF CompleteTo, Follow
<1>19. job'.res.scope = job'.scope
  BY <1>4, <1>11, <1>12 DEF Follow
<1> QED
  BY <1>4, <1>12, <1>14, <1>17, <1>18, <1>19 DEF TreeRun

LEMMA TreeLoaded ==
    ASSUME Common, DriveInv, TreeInv, kind = "drive", Load, log' = log
    PROVE  /\ res'.walked
           /\ TreeEntry'
           /\ \A f \in Folders : table'[f] = 0
<1>1. /\ Place' = Place /\ Last' = Last /\ Live' = Live /\ Now' = Now
      /\ Logged
  BY TreeStill DEF Common
<1>2. /\ job # Idle /\ DriveRun /\ TreeRun /\ job.pc = "extracted"
      /\ res' = job.res
      /\ table \in [Items -> Nat] /\ \A f \in Folders : table[f] = 0
  BY DEF Load, Idle, DriveInv, TreeInv
<1>3. /\ \A i \in Items \ Picks :
            /\ table'[i] = table[i]
            /\ i \in tied' <=> i \in tied
            /\ i \in missed' <=> i \in missed \/ i \in job.unseen
      /\ \A i \in Picks :
            i \notin tied' => \A b \in Candidates(i) : b[2] = table'[i]
  BY <1>1, <1>2, Loading DEF DriveRun
<1>4. /\ Rooted(job.res)
      /\ Right(Place, Live, Last, job.res, job.res.token)
      /\ Complete(Place, Live, Last, job.res, job.res.token)
      /\ job.res.token \in 0 .. Now
      /\ \A i \in DOMAIN job.res.files :
            Last[i] <= job.res.token => FileBrings(i)
      /\ job.res.scope \in Roots
      /\ job.res.walked
      /\ Picks \cap Folders = {}
  BY <1>2 DEF TreeRun, ReadUpTo, CompleteTo
<1>5. \A f \in Folders : table'[f] = 0
  BY <1>2, <1>3, <1>4, DriveAssumption
<1>6. ASSUME NEW i \in DOMAIN job.res.files, Last[i] <= job.res.token
      PROVE  FileFine(i)'
  <2>1. FileBrings(i) /\ i \in Items
    BY <1>4, <1>6 DEF Rooted
  <2>2. CASE i \in Picks
    <3>1. <<i, Last[i]>> \in job.batch
      BY <2>1, <2>2 DEF FileBrings
    <3>2. <<i, Last[i]>> \in Candidates(i)
      BY <3>1 DEF Candidates, Of, Sorted
    <3>3. i \notin tied' => Last[i] = table'[i]
      BY <1>3, <2>2, <3>2
    <3> QED
      BY <1>1, <3>3 DEF FileFine
  <2>3. CASE i \notin Picks
    <3>1. FileFine(i)
      BY <2>1, <2>3 DEF FileBrings
    <3> QED
      BY <1>1, <1>3, <2>1, <2>3, <3>1 DEF FileFine
  <2> QED
    BY <2>2, <2>3
<1>7. FilesKept'
  BY <1>1, <1>2, <1>6 DEF FilesKept
<1> QED
  BY <1>1, <1>2, <1>4, <1>5, <1>7 DEF TreeEntry

LEMMA TreeStep == Common /\ DriveInv /\ TreeInv /\ [Next]_vars => TreeInv'
<1> SUFFICES ASSUME Common, DriveInv, TreeInv, [Next]_vars, kind = "drive"
             PROVE  TreeInv'
  BY Steps DEF TreeInv
<1>1. kind' = kind /\ conf' \in Roots
  BY Steps, ConfStays DEF TreeInv
<1>2. CASE Aside
  BY <1>2, TreeAside
<1>3. CASE log' = log /\ job' = Idle /\ UNCHANGED landed
  <2>1. /\ Place' = Place /\ Last' = Last /\ Live' = Live /\ Now' = Now
    BY <1>3, TreeStill
  <2>2. TreeEntry => TreeEntry'
    BY <1>3, <2>1 DEF landed, TreeEntry, FilesKept, FileFine
  <2> QED
    BY <1>1, <1>3, <2>1, <2>2 DEF landed, TreeInv
<1>4. CASE log' = log /\ Load
  <2>1. Place' = Place /\ job' = Idle
    BY <1>4, TreeStill DEF Load
  <2> QED
    BY <1>1, <1>4, <2>1, TreeLoaded DEF TreeInv
<1>5. CASE Drive /\ log' = log /\ UNCHANGED landed
  <2>1. TreeRun'
    BY <1>5, TreeStarts, TreeStartsOver, TreeListed, TreeWalked, TreeFollows,
       TreeFallsBack, TreeTold, TreeFollowed DEF Drive
  <2>2. /\ Place' = Place /\ Last' = Last /\ Live' = Live /\ Now' = Now
    BY <1>5, TreeStill
  <2>3. TreeEntry => TreeEntry'
    BY <1>5, <2>2 DEF landed, TreeEntry, FilesKept, FileFine
  <2> QED
    BY <1>1, <1>5, <2>1, <2>2, <2>3 DEF landed, TreeInv
<1> QED
  BY <1>2, <1>3, <1>4, <1>5, Steps DEF Goes, CursorKinds

LEMMA TreeInvariant == Spec => []TreeInv
<1> QED
  BY CommonInvariant, DriveInvariant, TreeInitially, TreeStep, PTL DEF Spec

-----------------------------------------------------------------------------
(* No cursor runs ahead of its table *)

\* The feed has still to report what i has come to since.
LEMMA StillUnread ==
    ASSUME Logged, NEW i \in Items, Consumed \in Nat, Last[i] > Consumed
    PROVE  Unread(i)
<1>1. Last[i] \in Consumed + 1 .. Now /\ log[Last[i]].id = i
  BY Reads
<1> QED
  BY <1>1 DEF Unread

LEMMA GraphNeverAhead ==
    Common /\ GraphInv /\ kind = "graph" => CursorNeverAhead
<1> SUFFICES ASSUME Common, GraphInv, kind = "graph", NEW i \in Held
             PROVE  table[i] = Host(i, Now) \/ Unread(i) \/ Excused(i)
  BY DEF CursorNeverAhead
<1>1. Logged /\ i \in Items /\ GraphEntry(res) /\ GraphKept /\ Now \in Nat
  BY HoldsAssumption, Reads DEF Held, Common, Logged, GraphInv
<1>2. Consumed = res.link /\ res.link \in Nat /\ Last[i] \in Nat
  <2>1. Consumed = res.link
    BY DEF Consumed, CursorKinds
  <2>2. Last[i] \in 0 .. Now
    BY <1>1, Reads
  <2> QED
    BY <1>1, <2>1, <2>2 DEF GraphEntry
<1>3. /\ Host(i, Now) = GraphShow(i, res.scope)
      /\ Left(i, res.scope) => Renamed(i)
  <2>1. /\ Alive(i, Now) <=> i \in Live
        /\ Entry(i, Now).at = Spot[i]
        /\ LastOf(i, Now) = Last[i]
    BY <1>1, Reads
  <2> QED
    BY <2>1 DEF Host, GraphHost, GraphShow, Left, Renamed, CursorKinds
<1>4. CASE Last[i] > res.link
  BY <1>1, <1>2, <1>4, StillUnread
<1>5. CASE ~ Last[i] > res.link
  <2>1. GraphFine(i, res.scope)
    BY <1>1, <1>2, <1>5 DEF GraphKept, GraphOld
  <2> QED
    BY <1>3, <2>1 DEF GraphFine, Excused
<1> QED
  BY <1>4, <1>5

LEMMA GmailNeverAhead ==
    Common /\ GmailInv /\ kind = "gmail" => CursorNeverAhead
<1> SUFFICES ASSUME Common, GmailInv, kind = "gmail", NEW i \in Held
             PROVE  table[i] = Host(i, Now) \/ Unread(i) \/ Excused(i)
  BY DEF CursorNeverAhead
<1>1. Logged /\ i \in Items /\ GmailEntry(res) /\ GmailKept /\ Now \in Nat
  BY HoldsAssumption, Reads DEF Held, Common, Logged, GmailInv
<1>2. Consumed = res.history /\ res.history \in Nat /\ Last[i] \in Nat
  <2>1. Consumed = res.history
    BY DEF Consumed, CursorKinds
  <2>2. Last[i] \in 0 .. Now
    BY <1>1, Reads
  <2> QED
    BY <1>1, <2>1, <2>2 DEF GmailEntry
<1>3. Host(i, Now) = Shown(i)
  <2>1. LastOf(i, Now) = Last[i] /\ (Alive(i, Now) <=> i \in Live)
    BY <1>1, Reads
  <2> QED
    BY <2>1 DEF Host, GmailHost, Shown, CursorKinds
<1>4. CASE Last[i] > res.history
  BY <1>1, <1>2, <1>4, StillUnread
<1>5. CASE ~ Last[i] > res.history
  <2>1. GmailFine(i)
    BY <1>1, <1>2, <1>5 DEF GmailKept, GmailOld
  <2> QED
    BY <1>3, <2>1 DEF GmailFine, Excused
<1> QED
  BY <1>4, <1>5

\* Behind a stored stamp are the changes before it, and no other.
LEMMA StampsRead ==
    ASSUME Common, CursorEntry(res), kind \in CursorKinds
    PROVE  /\ CursorRead \in 0 .. Now
           /\ \A i \in Items : Last[i] <= CursorRead => CursorOld(i, res)
<1>1. /\ Now \in Nat
      /\ \A m, n \in 1 .. Now : m <= n => log[m].at <= log[n].at
      /\ \A n \in 1 .. Now : log[n].at \in Nat
      /\ \A i \in Items : /\ Last[i] \in 0 .. Now
                          /\ Last[i] # 0 => Spot[i] = log[Last[i]].at
  BY Clock
<1>2. CASE CursorRead = 0
  BY <1>1, <1>2 DEF CursorOld
<1>3. CASE CursorRead # 0
  <2> DEFINE S == {0} \cup {n \in 1 .. Now : log[n].at < Stored.last}
  <2>1. Stored.seen /\ CursorRead = Max(S)
    BY <1>3 DEF CursorRead
  <2>2. Stored = res /\ res.seen
    BY <2>1 DEF Stored, Unseen
  <2>3. S \in SUBSET Nat /\ S # {} /\ \A n \in S : n <= Now
    BY <1>1
  <2>4. Max(S) \in S
    <3> HIDE DEF S
    <3> QED
      BY <1>1, <2>3, Greatest
  <2>5. CursorRead \in 1 .. Now /\ log[CursorRead].at < res.last
    BY <1>3, <2>1, <2>2, <2>4
  <2>6. ASSUME NEW i \in Items, Last[i] <= CursorRead, Last[i] # 0
        PROVE  Spot[i] < res.last
    <3>1. Last[i] \in 1 .. Now /\ Spot[i] = log[Last[i]].at
      BY <1>1, <2>6
    <3>2. log[Last[i]].at <= log[CursorRead].at
      BY <1>1, <2>5, <2>6, <3>1
    <3>3. log[Last[i]].at \in Nat /\ log[CursorRead].at \in Nat
          /\ LastStamp \in Nat
      BY <1>1, <2>5, <3>1, Clock
    <3> QED
      BY <2>5, <3>1, <3>2, <3>3 DEF CursorEntry
  <2> QED
    BY <1>1, <2>2, <2>5, <2>6 DEF CursorOld
<1> QED
  BY <1>2, <1>3

LEMMA StampsNeverAhead ==
    Common /\ CursorInv /\ kind \in CursorKinds => CursorNeverAhead
<1> SUFFICES ASSUME Common, CursorInv, kind \in CursorKinds, NEW i \in Held
             PROVE  table[i] = Host(i, Now) \/ Unread(i) \/ Excused(i)
  BY DEF CursorNeverAhead
<1>1. Logged /\ i \in Items /\ CursorEntry(res) /\ CursorKept
      /\ Now \in Nat /\ Last[i] \in Nat
  BY HoldsAssumption, Reads DEF Held, Common, Logged, CursorInv
<1>2. Consumed = CursorRead
  BY DEF Consumed, CursorKinds
<1>3. Host(i, Now) = Shown(i)
  <2>1. LastOf(i, Now) = Last[i] /\ (Alive(i, Now) <=> i \in Live)
    BY <1>1, Reads
  <2> QED
    BY <2>1 DEF Host, CursorHost, Shown, CursorKinds
<1>4. CursorRead \in Nat /\ (Last[i] <= CursorRead => CursorOld(i, res))
  BY <1>1, StampsRead
<1>5. CASE Last[i] > CursorRead
  BY <1>1, <1>2, <1>4, <1>5, StillUnread
<1>6. CASE ~ Last[i] > CursorRead
  <2>1. CursorFine(i)
    BY <1>1, <1>4, <1>6 DEF CursorKept
  <2> QED
    BY <1>3, <2>1 DEF CursorFine, Excused
<1> QED
  BY <1>5, <1>6

\* The folders the entry has above a file that is in it.
LEMMA KnownAboveIs ==
    ASSUME Rooted(res), res.scope \in Roots, NEW i \in DOMAIN res.files
    PROVE  /\ KnownAbove(i) \subseteq DOMAIN res.folders
           /\ res.files[i] \in KnownAbove(i)
           /\ \A f \in KnownAbove(i) \ {res.scope} :
                 res.folders[f] \in KnownAbove(i)
<1> DEFINE sets == {S \in SUBSET DOMAIN res.folders :
                      /\ res.files[i] \in S
                      /\ \A f \in S : \/ res.folders[f] = NoParent
                                      \/ res.folders[f] \in S}
<1>1. KnownAbove(i) = InAll(sets)
  BY DEF KnownAbove
<1>2. DOMAIN res.folders \in sets
  BY DEF Rooted
<1>3. KnownAbove(i) \subseteq DOMAIN res.folders
  <2> HIDE DEF sets
  <2> QED
    BY <1>1, <1>2 DEF InAll
<1>4. res.files[i] \in KnownAbove(i)
  <2>1. \A S \in sets : res.files[i] \in S
    OBVIOUS
  <2> HIDE DEF sets
  <2> QED
    BY <1>1, <1>2, <2>1 DEF InAll, Rooted
<1>5. ASSUME NEW f \in KnownAbove(i) \ {res.scope}
      PROVE  res.folders[f] \in KnownAbove(i)
  <2>1. f \in DOMAIN res.folders \ {res.scope}
    BY <1>3, <1>5
  <2>2. res.folders[f] \in DOMAIN res.folders /\ res.folders[f] # NoParent
    BY <2>1, DriveAssumption DEF Rooted
  <2>3. \A S \in sets : f \in S
    BY <1>1, <1>5 DEF InAll
  <2>4. \A S \in sets : res.folders[f] \in S
    BY <2>2, <2>3
  <2> HIDE DEF sets
  <2> QED
    BY <1>1, <1>2, <2>2, <2>4 DEF InAll
<1> QED
  BY <1>3, <1>4, <1>5

\* A file that is in the entry is in scope, when neither it nor a folder the
\* entry has above it has changed since.
LEMMA KnownIsInScope ==
    ASSUME Logged, kind = "drive", TreeEntry, Acyclic(Place),
           NEW i \in DOMAIN res.files, Last[i] <= res.token,
           \A f \in KnownAbove(i) \cap Items : Last[f] <= res.token
    PROVE  res.scope \in Above(i, Now) /\ ~ Trashed(i, Now)
<1> DEFINE K == KnownAbove(i)
           scope == res.scope
<1>1. /\ K \subseteq DOMAIN res.folders
      /\ res.files[i] \in K
      /\ \A f \in K \ {scope} : res.folders[f] \in K
  BY KnownAboveIs DEF TreeEntry
<1>2. /\ scope \in Roots /\ scope \notin Items
      /\ DOMAIN res.folders \subseteq Folders \cup {scope}
      /\ i \in Items \ Folders
      /\ Right(Place, Live, Last, res, res.token)
  BY DriveAssumption DEF TreeEntry, Rooted
<1> HIDE DEF K
<1>3. i \in Live /\ Place[i] \in K
  BY <1>1, <1>2 DEF Right
<1>4. \A f \in K \ {scope} : f \in Folders /\ f \in Live /\ Place[f] \in K
  <2> SUFFICES ASSUME NEW f \in K \ {scope}
               PROVE  f \in Folders /\ f \in Live /\ Place[f] \in K
    OBVIOUS
  <2>1. f \in Folders /\ f \in DOMAIN res.folders
    BY <1>1, <1>2
  <2>2. Last[f] <= res.token
    BY <2>1, DriveAssumption DEF K
  <2>3. f \in Live /\ Place[f] = res.folders[f]
    BY <1>2, <2>1, <2>2 DEF Right
  <2> QED
    BY <1>1, <2>1, <2>3
<1>5. Chain(Place, i) \subseteq K \ {scope}
  <2>1. scope \notin Folders
    BY <1>2, DriveAssumption
  <2>2. Upward(Place, i, K \ {scope})
    BY <1>3, <1>4, <2>1 DEF Upward
  <2>3. K \ {scope} \subseteq Folders
    BY <1>4
  <2> QED
    BY <2>2, <2>3, ChainIs
<1>6. {i} \cup Chain(Place, i) \subseteq Live
  BY <1>3, <1>4, <1>5
<1>7. \E j \in {i} \cup Chain(Place, i) : Place[j] = scope
  <2> SUFFICES ASSUME \A j \in {i} \cup Chain(Place, i) : Place[j] # scope
               PROVE  FALSE
    OBVIOUS
  <2> DEFINE B == {i} \cup Chain(Place, i)
  <2>1. ASSUME NEW j \in B
        PROVE  Place[j] \in Folders /\ Place[j] \in B
    <3>1. Place[j] \in K \ {scope}
      BY <1>3, <1>4, <1>5
    <3>2. Place[j] \in Folders
      BY <1>4, <3>1
    <3>3. Place[j] \in Chain(Place, i)
      BY <3>2, ChainIs DEF Upward
    <3> QED
      BY <3>2, <3>3
  <2>2. i \in B
    OBVIOUS
  <2> HIDE DEF B
  <2>3. B = {}
    BY <2>1, NoneBelow
  <2> QED
    BY <2>2, <2>3
<1> QED
  BY <1>2, <1>6, <1>7, AboveIs

LEMMA DriveNeverAhead ==
    Common /\ DriveInv /\ TreeInv /\ kind = "drive" => CursorNeverAhead
<1> SUFFICES ASSUME Common, DriveInv, TreeInv, kind = "drive", NEW i \in Held
             PROVE  table[i] = Host(i, Now) \/ Unread(i) \/ Excused(i)
  BY DEF CursorNeverAhead
<1>1. Logged /\ i \in Items /\ Now \in Nat /\ Acyclic(Place)
  BY HoldsAssumption, Reads DEF Held, Common, Logged, TreeInv
<1>2. /\ LastOf(i, Now) = Last[i] /\ Last[i] \in 0 .. Now
      /\ \A j \in Items : Last[j] \in 0 .. Now
                          /\ (Last[j] # 0 => log[Last[j]].id = j)
  BY <1>1, Reads
<1>3. /\ Consumed = res.token /\ res.token \in Nat
      /\ Host(i, Now) = DriveHost(i, Now)
  BY DEF Consumed, Host, CursorKinds, DriveInv, EntryShape
<1>4. CASE i \in Folders
  BY <1>3, <1>4 DEF TreeInv, DriveHost
<1>5. CASE Last[i] > res.token
  BY <1>1, <1>3, <1>5, StillUnread
<1>6. CASE i \notin Folders /\ ~ Last[i] > res.token /\ ~ res.walked
  <2>1. table[i] = 0 /\ Last[i] = 0
    BY <1>1, <1>2, <1>6 DEF TreeInv
  <2> QED
    BY <1>2, <1>3, <2>1 DEF DriveHost
<1>7. CASE i \notin Folders /\ ~ Last[i] > res.token /\ res.walked
  <2>1. TreeEntry /\ Last[i] <= res.token
    BY <1>2, <1>3, <1>7 DEF TreeInv
  <2>2. CASE i \in DOMAIN res.files
    <3>1. FileFine(i)
      BY <2>1, <2>2 DEF TreeEntry, FilesKept
    <3>2. CASE table[i] # Last[i]
      BY <3>1, <3>2 DEF FileFine, Excused
    <3>3. CASE /\ table[i] = Last[i]
               /\ \A f \in KnownAbove(i) \cap Items : Last[f] <= res.token
      <4>1. res.scope \in Above(i, Now) /\ ~ Trashed(i, Now)
        BY <1>1, <2>1, <2>2, <3>3, KnownIsInScope
      <4> QED
        BY <1>2, <1>3, <1>7, <3>3, <4>1 DEF DriveHost
    <3>4. CASE \E f \in KnownAbove(i) \cap Items : ~ Last[f] <= res.token
      <4>1. PICK f \in KnownAbove(i) \cap Items : ~ Last[f] <= res.token
        BY <3>4
      <4>2. Last[f] \in res.token + 1 .. Now /\ log[Last[f]].id = f
        BY <1>1, <1>2, <1>3, <4>1
      <4> QED
        BY <1>3, <2>2, <4>1, <4>2 DEF Unread
    <3> QED
      BY <3>2, <3>3, <3>4
  <2>3. CASE i \notin DOMAIN res.files
    <3>1. Settled(i)
      BY <1>7, <2>3 DEF DriveInv, Remembered, Rest
    <3>2. CASE table[i] # 0
      BY <3>1, <3>2 DEF Settled, Excused
    <3>3. CASE table[i] = 0 /\ Hidden(i)
      BY <3>3 DEF Excused
    <3>4. CASE table[i] = 0 /\ ~ Hidden(i)
      <4>1. ~ PlainNow(i, res.scope)
        <5>1. res.scope \in Roots /\ res.scope \notin Items
              /\ ~ Has(res, i)
          BY <1>1, <1>7, <2>1, <2>3, DriveAssumption
          DEF TreeEntry, Rooted, Has
        <5> QED
          BY <1>1, <2>1, <5>1 DEF TreeEntry, Complete, PlainNow
      <4>2. ~ (res.scope \in Above(i, Now) /\ ~ Trashed(i, Now))
        BY <1>1, <2>1, <3>4, <4>1, PlainIs DEF TreeEntry
      <4> QED
        BY <1>3, <3>4, <4>2 DEF DriveHost
    <3> QED
      BY <3>2, <3>3, <3>4
  <2> QED
    BY <2>2, <2>3
<1> QED
  BY <1>4, <1>5, <1>6, <1>7

\* Whatever fails, expires, is repointed or changes at the provider during a
\* reading, what the table does not show of SharePoint, Drive, Gmail,
\* Salesforce, a database, an API or a bucket is still ahead of the stored
\* cursor, or exempt.
THEOREM NeverAhead == Spec => []CursorNeverAhead
<1>1. Common /\ GraphInv /\ DriveInv /\ TreeInv /\ GmailInv /\ CursorInv
         => CursorNeverAhead
  BY GraphNeverAhead, DriveNeverAhead, GmailNeverAhead, StampsNeverAhead
     DEF CursorNeverAhead, Feeds
<1> QED
  BY <1>1, CommonInvariant, GraphInvariant, DriveInvariant, TreeInvariant,
     GmailInvariant, CursorInvariant, PTL
=============================================================================
