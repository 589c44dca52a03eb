---------------------------- MODULE OutsideProofs ----------------------------
(***************************************************************************)
(* What others keep for the system.  The host keeps records: what the run  *)
(* of Projecting.tla checks of them for two workers and two packages, for  *)
(* any number of workers, packages and rows and for every mapping, and     *)
(* that batches may be cut anywhere.  The provider keeps registrations:    *)
(* what the run of Subscriptions.tla checks for one row and two callers,   *)
(* for any number of rows, callers and moments and for every lifetime.     *)
(***************************************************************************)
EXTENDS Projecting, Subscriptions, FiniteSetTheorems, SequenceTheorems,
        WellFoundedInduction, TLAPS

-----------------------------------------------------------------------------
(* Batches: what a run hands over does not depend on where they are cut *)

\* Some numbers have a least one...
LEMMA LeastIs ==
    ASSUME NEW S \in SUBSET Nat, S # {}
    PROVE  \E m \in S : \A n \in S : m <= n
<1> DEFINE R == OpToRel(<, Nat)
<1>1. IsWellFoundedOn(R, Nat)
  BY NatLessThanWellFounded, Zenon
<1>2. PICK m \in S : \A n \in S : ~ (<<n, m>> \in R)
  <2> HIDE DEF R
  <2> QED
    BY <1>1, WFMin, Zenon
<1>3. \A n \in S : ~ (n < m)
  BY <1>2 DEF OpToRel
<1> QED
  BY <1>3

\* ...and, if they are bounded, a greatest one.
LEMMA MaxIs ==
    ASSUME NEW S \in SUBSET Nat, S # {}, NEW b \in Nat, \A n \in S : n <= b
    PROVE  Max(S) \in S /\ \A n \in S : n <= Max(S)
<1> DEFINE T == {b - n : n \in S}
<1>1. T \in SUBSET Nat /\ T # {}
  <2>1. \A n \in S : b - n \in Nat
    OBVIOUS
  <2>2. \A c \in T : c \in Nat
    BY <2>1
  <2>3. T # {}
    OBVIOUS
  <2> HIDE DEF T
  <2> QED
    BY <2>2, <2>3
<1>2. PICK d \in T : \A c \in T : d <= c
  <2> HIDE DEF T
  <2> QED
    BY <1>1, LeastIs
<1>3. PICK m \in S : d = b - m
  OBVIOUS
<1>4. ASSUME NEW n \in S
      PROVE  m >= n
  <2>1. b - m <= b - n
    BY <1>2, <1>3
  <2> HIDE DEF T
  <2> QED
    BY <2>1
<1> QED
  BY <1>4 DEF Max

\* The record of i that a batch hands over is the last it has.
LEMMA LastUpsert ==
    ASSUME NEW C, NEW batch \in Seq(C), NEW i \in Ids(batch) \ Deletes(batch)
    PROVE  LET last == Max(Upserts(batch, i))
           IN  /\ last \in Upserts(batch, i)
               /\ \A n \in Upserts(batch, i) : n <= last
<1>1. /\ Upserts(batch, i) \in SUBSET Nat
      /\ \A n \in Upserts(batch, i) : n <= Len(batch)
      /\ Len(batch) \in Nat
  <2>1. DOMAIN batch = 1 .. Len(batch) /\ Len(batch) \in Nat
    OBVIOUS
  <2>2. Upserts(batch, i) \subseteq DOMAIN batch
    BY DEF Upserts
  <2> QED
    BY <2>1, <2>2
<1>2. Upserts(batch, i) # {}
  <2>1. PICK n \in DOMAIN batch : batch[n].id = i
    BY DEF Ids
  <2>2. n \in Upserts(batch, i)
    BY <2>1 DEF Upserts, Deletes
  <2> QED
    BY <2>2
<1> QED
  BY <1>1, <1>2, MaxIs

\* What two batches name, delete and hand over, put one after the other.
LEMMA Joined ==
    ASSUME NEW C, NEW a \in Seq(C), NEW b \in Seq(C)
    PROVE  /\ Ids(a \o b) = Ids(a) \cup Ids(b)
           /\ Deletes(a \o b) = Deletes(a) \cup Deletes(b)
           /\ \A i : /\ Upserts(a, i) = Upserts(a \o b, i) \cap DOMAIN a
                     /\ Upserts(b, i) = {n \in DOMAIN b :
                                   Len(a) + n \in Upserts(a \o b, i)}
<1> DEFINE c == a \o b
<1>1. /\ DOMAIN a = 1 .. Len(a) /\ DOMAIN b = 1 .. Len(b)
      /\ DOMAIN c = 1 .. Len(a) + Len(b)
      /\ Len(a) \in Nat /\ Len(b) \in Nat
      /\ \A n \in DOMAIN a : c[n] = a[n]
      /\ \A n \in DOMAIN b : c[Len(a) + n] = b[n]
  OBVIOUS
<1> HIDE DEF c
<1>2. \A n \in DOMAIN c : n \in DOMAIN a \/ \E m \in DOMAIN b : n = Len(a) + m
  <2> SUFFICES ASSUME NEW n \in DOMAIN c, n \notin DOMAIN a
               PROVE  n - Len(a) \in DOMAIN b /\ n = Len(a) + (n - Len(a))
    OBVIOUS
  <2> QED
    BY <1>1
<1>3. DOMAIN a \subseteq DOMAIN c /\ \A m \in DOMAIN b : Len(a) + m \in DOMAIN c
  BY <1>1
<1>4. Ids(c) = Ids(a) \cup Ids(b)
  BY <1>1, <1>2, <1>3 DEF Ids
<1>5. Deletes(c) = Deletes(a) \cup Deletes(b)
  BY <1>1, <1>2, <1>3 DEF Deletes
<1>6. ASSUME NEW i
      PROVE  /\ Upserts(a, i) = Upserts(c, i) \cap DOMAIN a
             /\ Upserts(b, i) = {n \in DOMAIN b : Len(a) + n \in Upserts(c, i)}
  BY <1>1, <1>3 DEF Upserts
<1> QED
  BY <1>4, <1>5, <1>6 DEF c

\* Handing over two batches, the second with what the first deleted in mind
\* (runner.py _collapse and the deleted set that _run carries from batch to
\* batch), leaves the host with what one batch of all their records would.
THEOREM BoundaryDoesNotMatter ==
    ASSUME NEW C, NEW a \in Seq(C), NEW b \in Seq(C), NEW deleted, NEW records
    PROVE  LET first == Collapse(a, deleted)
               second == Collapse(b, deleted \cup first.deletes)
           IN  Merged(Merged(records, first), second)
                 = Merged(records, Collapse(a \o b, deleted))
<1> DEFINE first == Collapse(a, deleted)
           second == Collapse(b, deleted \cup first.deletes)
           whole == Collapse(a \o b, deleted)
           idsA == Ids(a) \ (Deletes(a) \cup deleted)
           idsB == Ids(b) \ (Deletes(b) \cup (deleted \cup Deletes(a)))
           ids == Ids(a \o b) \ (Deletes(a \o b) \cup deleted)
           kept == DOMAIN records
<1>1. /\ first.deletes = Deletes(a) /\ DOMAIN first.upserts = idsA
      /\ \A i \in idsA : first.upserts[i] = a[Max(Upserts(a, i))].values
  BY DEF Collapse, Collapsed
<1>2. /\ second.deletes = Deletes(b) /\ DOMAIN second.upserts = idsB
      /\ \A i \in idsB : second.upserts[i] = b[Max(Upserts(b, i))].values
  BY <1>1 DEF Collapse, Collapsed
<1>3. /\ whole.deletes = Deletes(a \o b) /\ DOMAIN whole.upserts = ids
      /\ \A i \in ids :
            whole.upserts[i] = (a \o b)[Max(Upserts(a \o b, i))].values
  BY DEF Collapse, Collapsed
<1>4. /\ Ids(a \o b) = Ids(a) \cup Ids(b)
      /\ Deletes(a \o b) = Deletes(a) \cup Deletes(b)
      /\ \A i : /\ Upserts(a, i) = Upserts(a \o b, i) \cap DOMAIN a
                /\ Upserts(b, i) = {n \in DOMAIN b :
                              Len(a) + n \in Upserts(a \o b, i)}
  BY Joined
<1>5. /\ a \o b \in Seq(C)
      /\ DOMAIN a = 1 .. Len(a) /\ DOMAIN b = 1 .. Len(b)
      /\ DOMAIN (a \o b) = 1 .. Len(a) + Len(b)
      /\ Len(a) \in Nat /\ Len(b) \in Nat
      /\ \A n \in DOMAIN a : (a \o b)[n] = a[n]
      /\ \A n \in DOMAIN b : (a \o b)[Len(a) + n] = b[n]
  OBVIOUS
<1>6. ASSUME NEW i \in ids
      PROVE  LET m == Max(Upserts(a \o b, i))
             IN  /\ m \in Upserts(a \o b, i)
                 /\ \A n \in Upserts(a \o b, i) : n <= m
  BY <1>5, LastUpsert
<1>7. ASSUME NEW i \in idsB
      PROVE  i \in ids /\ whole.upserts[i] = second.upserts[i]
  <2>1. i \in ids
    BY <1>4
  <2> DEFINE m == Max(Upserts(a \o b, i))
             k == Max(Upserts(b, i))
  <2>2. m \in Upserts(a \o b, i) /\ \A n \in Upserts(a \o b, i) : n <= m
    BY <1>6, <2>1
  <2>3. k \in Upserts(b, i) /\ \A n \in Upserts(b, i) : n <= k
    BY LastUpsert
  <2> HIDE DEF m, k
  <2>4. k \in DOMAIN b /\ Len(a) + k \in Upserts(a \o b, i)
    BY <1>4, <2>3
  <2>5. m \in DOMAIN (a \o b) /\ m >= Len(a) + k
    BY <2>2, <2>4 DEF Upserts
  <2>6. m - Len(a) \in DOMAIN b /\ Len(a) + (m - Len(a)) = m
    BY <1>5, <2>4, <2>5
  <2>7. m - Len(a) \in Upserts(b, i)
    BY <1>4, <2>2, <2>6
  <2>8. m = Len(a) + k
    BY <1>5, <2>3, <2>4, <2>5, <2>6, <2>7
  <2>9. (a \o b)[m] = b[k]
    BY <1>5, <2>4, <2>8
  <2> QED
    BY <1>2, <1>3, <2>1, <2>9 DEF m, k
<1>8. ASSUME NEW i \in idsA, i \notin Ids(b)
      PROVE  i \in ids /\ whole.upserts[i] = first.upserts[i]
  <2>1. i \in ids
    BY <1>4, <1>8 DEF Deletes, Ids
  <2> DEFINE m == Max(Upserts(a \o b, i))
             k == Max(Upserts(a, i))
  <2>2. m \in Upserts(a \o b, i) /\ \A n \in Upserts(a \o b, i) : n <= m
    BY <1>6, <2>1
  <2>3. k \in Upserts(a, i) /\ \A n \in Upserts(a, i) : n <= k
    BY LastUpsert
  <2> HIDE DEF m, k
  <2>4. m \in DOMAIN (a \o b) /\ (a \o b)[m].id = i
    BY <2>2 DEF Upserts
  <2>5. m \in DOMAIN a
    <3>1. \A n \in DOMAIN b : m # Len(a) + n
      BY <1>5, <1>8, <2>4 DEF Ids
    <3>2. CASE m > Len(a)
      <4>1. m - Len(a) \in DOMAIN b /\ m = Len(a) + (m - Len(a))
        BY <1>5, <2>4, <3>2
      <4> QED
        BY <3>1, <4>1
    <3> QED
      BY <1>5, <2>4, <3>2
  <2>6. m \in Upserts(a, i) /\ k \in Upserts(a \o b, i)
    BY <1>4, <2>2, <2>3, <2>5
  <2>7. m = k
    BY <1>5, <2>2, <2>3, <2>4, <2>5, <2>6 DEF Upserts
  <2>8. (a \o b)[m] = a[k]
    BY <1>5, <2>5, <2>7
  <2> QED
    BY <1>1, <1>3, <2>1, <2>8 DEF m, k
<1>9. ids = idsB \cup (idsA \ Deletes(b)) /\ Deletes(b) \subseteq Ids(b)
  BY <1>4 DEF Deletes, Ids
<1> DEFINE once == Merged(records, first)
           twice == Merged(once, second)
           atOnce == Merged(records, whole)
           stays == kept \ (Deletes(a) \cup Deletes(b))
<1> HIDE DEF first, second, whole, idsA, idsB, ids, kept
<1>10. /\ DOMAIN once = (kept \ Deletes(a)) \cup idsA
       /\ \A i \in idsA : once[i] = first.upserts[i]
       /\ \A i \in kept \ Deletes(a) : i \notin idsA => once[i] = records[i]
  BY <1>1 DEF Merged, kept
<1>11. /\ twice = [i \in (DOMAIN once \ Deletes(b)) \cup idsB |->
                     IF i \in idsB THEN second.upserts[i] ELSE once[i]]
  BY <1>2 DEF Merged
<1>12. atOnce = [i \in stays \cup ids |->
                   IF i \in ids THEN whole.upserts[i] ELSE records[i]]
  <2>1. whole.deletes = Deletes(a) \cup Deletes(b)
    BY <1>3, <1>4
  <2>2. atOnce = [i \in (kept \ whole.deletes) \cup ids |->
                   IF i \in ids THEN whole.upserts[i] ELSE records[i]]
    BY <1>3 DEF Merged, kept
  <2> QED
    BY <2>1, <2>2
<1> HIDE DEF once, twice, atOnce
<1>13. (DOMAIN once \ Deletes(b)) \cup idsB = stays \cup ids
  BY <1>9, <1>10
<1>14. ASSUME NEW i \in stays \cup ids
       PROVE  twice[i] = atOnce[i]
  <2>1. CASE i \in idsB
    BY <1>7, <1>11, <1>12, <1>13, <1>14, <2>1
  <2>2. CASE i \in ids \ idsB
    <3>1. i \in idsA /\ i \notin Ids(b)
      BY <1>4, <1>9, <2>2 DEF idsB, ids
    <3> QED
      BY <1>8, <1>10, <1>11, <1>12, <1>13, <1>14, <2>2, <3>1
  <2>3. CASE i \notin ids
    <3>1. i \in kept \ Deletes(a) /\ i \notin idsA /\ i \notin idsB
      BY <1>9, <1>14, <2>3
    <3> QED
      BY <1>10, <1>11, <1>12, <1>13, <1>14, <2>3, <3>1
  <2> QED
    BY <2>1, <2>2, <2>3
<1>15. twice = atOnce
  BY <1>11, <1>12, <1>13, <1>14
<1> QED
  BY <1>15 DEF once, twice, atOnce, first, second, whole

\* A batch more, after what the batches before it amount to.
LEMMA OneMoreBatch ==
    ASSUME NEW C, NEW before \in Seq(C), NEW batch \in Seq(C), NEW start,
           NEW gone, gone = Deletes(before)
    PROVE  /\ gone \cup Collapse(batch, gone).deletes
                = Deletes(before \o batch)
           /\ Merged(Merged(start, Collapse(before, {})),
                     Collapse(batch, gone))
                = Merged(start, Collapse(before \o batch, {}))
<1>1. /\ Collapse(batch, gone).deletes = Deletes(batch)
      /\ Collapse(before, {}).deletes = gone
  BY DEF Collapse, Collapsed
<1>2. Deletes(before \o batch) = gone \cup Deletes(batch)
  BY Joined
<1>3. Merged(Merged(start, Collapse(before, {})),
             Collapse(batch, {} \cup Collapse(before, {}).deletes))
        = Merged(start, Collapse(before \o batch, {}))
  BY BoundaryDoesNotMatter
<1> QED
  BY <1>1, <1>2, <1>3

\* What a run does with its records, as runner.py _run goes through them: each
\* batch is collapsed with the deletes of the batches before it in mind, and
\* only the first may replace what the host has.
HandedOver(all, cut, K, deleted, records, replace) ==
    /\ deleted[0] = {}
    /\ \A k \in 1 .. K :
          LET batch == SubSeq(all, cut[k - 1] + 1, cut[k])
              handed == Collapse(batch, deleted[k - 1])
          IN  /\ deleted[k] = deleted[k - 1] \cup handed.deletes
              /\ records[k] = Written(records[k - 1], handed,
                                      replace /\ k = 1)

\* So a run leaves the host what one batch of all its records would, wherever
\* the batches are cut and however many there are (runner.py _run: the batch
\* size, the deletes carried along, and replace only with the first batch).
THEOREM BatchesMayBeCutAnywhere ==
    ASSUME NEW C, NEW all \in Seq(C), NEW replace \in BOOLEAN,
           NEW K \in Nat \ {0}, NEW cut \in [0 .. K -> 0 .. Len(all)],
           cut[0] = 0, cut[K] = Len(all),
           \A k \in 1 .. K : cut[k - 1] <= cut[k],
           NEW deleted, NEW records,
           HandedOver(all, cut, K, deleted, records, replace)
    PROVE  records[K] = Written(records[0], Collapse(all, {}), replace)
<1> DEFINE first == IF replace THEN <<>> ELSE records[0]
           Read(k) == SubSeq(all, 1, cut[k])
           Batch(k) == SubSeq(all, cut[k - 1] + 1, cut[k])
           Same(k) == /\ deleted[k] = Deletes(Read(k))
                      /\ records[k] = Merged(first, Collapse(Read(k), {}))
           Wrong == {k \in 1 .. K : ~ Same(k)}
<1>1. \A k \in 0 .. K : cut[k] \in 0 .. Len(all) /\ Len(all) \in Nat
  OBVIOUS
<1>2. Same(1)
  <2>1. Batch(1) = Read(1) /\ 1 \in 1 .. K
    OBVIOUS
  <2>2. Collapse(Read(1), {}).deletes = Deletes(Read(1))
    BY DEF Collapse, Collapsed
  <2>3. /\ deleted[0] = {}
        /\ deleted[1] = deleted[0] \cup Collapse(Batch(1), deleted[0]).deletes
        /\ records[1] = Merged(first, Collapse(Batch(1), deleted[0]))
    <3>1. 1 - 1 = 0
      OBVIOUS
    <3> QED
      BY <2>1, <3>1 DEF Written, HandedOver
  <2> HIDE DEF Read, Batch, first
  <2> QED
    BY <2>1, <2>2, <2>3
<1>3. ASSUME NEW k \in 2 .. K, Same(k - 1)
      PROVE  Same(k)
  <2>1. k \in 1 .. K /\ k - 1 \in 0 .. K /\ k # 1
    OBVIOUS
  <2>2. cut[k - 1] \in 0 .. Len(all) /\ cut[k] \in cut[k - 1] .. Len(all)
    BY <1>1, <2>1
  <2>3. Read(k - 1) \o Batch(k) = Read(k)
    <3>1. 1 \in 1 .. Len(all) + 1 /\ cut[k - 1] \in 1 - 1 .. Len(all)
      BY <1>1, <2>2
    <3> QED
      BY <2>2, <3>1, ConcatAdjacentSubSeq
  <2>4. Read(k - 1) \in Seq(C) /\ Batch(k) \in Seq(C)
    <3>1. \A i \in 1 .. Len(all) : all[i] \in C
      OBVIOUS
    <3>2. /\ 1 \in Int /\ cut[k - 1] \in Int /\ cut[k] \in Int
          /\ cut[k - 1] + 1 \in Int
      BY <2>2
    <3>3. /\ \A i \in 1 .. cut[k - 1] : all[i] \in C
          /\ \A i \in cut[k - 1] + 1 .. cut[k] : all[i] \in C
      <4>1. ASSUME NEW i \in 1 .. cut[k - 1] PROVE i \in 1 .. Len(all)
        BY <2>2
      <4>2. ASSUME NEW i \in cut[k - 1] + 1 .. cut[k]
            PROVE  i \in 1 .. Len(all)
        BY <2>2
      <4> QED
        BY <3>1, <4>1, <4>2
    <3>4. Read(k - 1) \in Seq(C)
      BY <3>2, <3>3, SubSeqProperties
    <3>5. Batch(k) \in Seq(C)
      BY <3>2, <3>3, SubSeqProperties
    <3> QED
      BY <3>4, <3>5
  <2>5. /\ deleted[k] = deleted[k - 1]
                          \cup Collapse(Batch(k), deleted[k - 1]).deletes
        /\ records[k] = Merged(records[k - 1],
                               Collapse(Batch(k), deleted[k - 1]))
    BY <2>1 DEF Written, HandedOver
  <2> DEFINE before == Read(k - 1)
             batch == Batch(k)
             read == Read(k)
  <2> HIDE DEF Read, Batch
  <2>6. before \in Seq(C) /\ batch \in Seq(C) /\ read = before \o batch
    BY <2>3, <2>4
  <2> DEFINE gone == deleted[k - 1]
  <2>7. gone = Deletes(before)
    BY <1>3
  <2> HIDE DEF before, batch, read, gone, first
  <2>8. /\ gone \cup Collapse(batch, gone).deletes = Deletes(read)
        /\ Merged(Merged(first, Collapse(before, {})), Collapse(batch, gone))
             = Merged(first, Collapse(read, {}))
    <3>1. before \in Seq(C) /\ batch \in Seq(C)
      BY <2>6
    <3>2. gone \cup Collapse(batch, gone).deletes = Deletes(before \o batch)
      BY <2>7, <3>1, OneMoreBatch
    <3>3. Merged(Merged(first, Collapse(before, {})), Collapse(batch, gone))
            = Merged(first, Collapse(before \o batch, {}))
      BY <2>7, <3>1, OneMoreBatch
    <3> QED
      BY <2>6, <3>2, <3>3
  <2> QED
    BY <1>3, <2>5, <2>8 DEF before, batch, read, gone
<1>4. Same(K)
  <2> SUFFICES ASSUME Wrong # {} PROVE FALSE
    <3>1. K \in 1 .. K
      OBVIOUS
    <3> HIDE DEF Same
    <3> QED
      BY <3>1
  <2>1. PICK k \in Wrong : \A j \in Wrong : k <= j
    <3>1. Wrong \in SUBSET Nat
      OBVIOUS
    <3> HIDE DEF Wrong
    <3> QED
      BY <3>1, LeastIs
  <2> HIDE DEF Same
  <2>2. k \in 2 .. K
    BY <1>2
  <2>3. k - 1 \in 1 .. K /\ ~ (k <= k - 1)
    BY <2>2
  <2>4. Same(k - 1)
    BY <2>1, <2>3
  <2> QED
    BY <1>3, <2>2, <2>4
<1>5. Read(K) = all
  BY SubSeqFull
<1> HIDE DEF Read
<1> QED
  BY <1>4, <1>5 DEF Written


-----------------------------------------------------------------------------
(* The inductive invariant of what the host shows *)

\* What is left of a run's records.
Left(w) == job[w].next .. Len(job[w].records)

\* A run in progress is to write the row as it is, or is to fail.
Owes(w, id) ==
    /\ Running(w)
    /\ job[w].mode = "incremental"
    /\ table[id].load \in job[w].loads
    /\ \/ job[w].broken # "no"
       \/ \E n \in Left(w) : /\ job[w].records[n].row = id
                             /\ Current(job[w].records[n])
Pending(id) == table[id].load \in owed \/ \E w \in Workers : Owes(w, id)

\* A replay that has replaced what was there, under the mapping as it is.
Replaced(w) == Running(w) /\ job[w].mode = "full" /\ job[w].next > 1
UnderWay(w) == Replaced(w) /\ job[w].doc = doc
ReplayedAsIs ==
    "edit" \notin behind =>
        \A w \in Workers \cap behind : Replaced(w) => job[w].doc = doc
Reliable == "edit" \notin behind /\ \A w \in Workers \cap behind : UnderWay(w)

Writes(i) == \E w \in Workers \cap behind : \E n \in Left(w) :
                job[w].records[n].id = i
Shown(id) ==
    \/ Made(id).id \in Muted
    \/ Made(id).id \in astray
    \/ Pending(id)
    \/ Made(id).id \in DOMAIN host /\ host[Made(id).id] = Made(id).values
    \/ Writes(Made(id).id)
Backed(i) ==
    \/ i \in astray
    \/ \E id \in Present : /\ Made(id).id = i
                           /\ id \in Projects \/ i \in Muted \/ Pending(id)
AllShown == \A id \in Projects : Shown(id)
AllBacked == \A i \in DOMAIN host : Backed(i)
Accounted == Reliable => AllShown /\ AllBacked

\* A record of a row that is as it was says what its mapping makes of the row.
Truthful(d, rec) ==
    LET made == Project(d, rec.row, table[rec.row])
    IN  /\ Matches(d, Columns(rec.row, table[rec.row]))
        /\ made.op \in {"upsert", "delete"}
        /\ rec.op = made.op /\ rec.id = made.id /\ rec.values = made.values
Told(d, rec) ==
    /\ rec.row \in RowIds
    /\ rec.load \in 1 .. loads
    /\ Current(rec) => Truthful(d, rec)
Faithful ==
    \A w \in Workers : Running(w) =>
        \A d \in {job[w].doc}, rec \in Range(job[w].records) : Told(d, rec)

Shape(j) ==
    /\ j.pc = "writing"
    /\ DOMAIN j = {"pc", "mode", "loads", "doc", "records", "broken", "next",
                   "deleted", "errors", "atOnce", "alone"}
    /\ \E S : j.records \in Seq(S)
    /\ j.next \in 1 .. Len(j.records) + 1
Shaped ==
    /\ resource \in Resources
    /\ size \in Nat \ {0}
    /\ loads \in Nat
    /\ \A id \in RowIds : \/ table[id] = NoRow
                          \/ table[id] # NoRow /\ table[id].load \in 1 .. loads
    /\ queued \subseteq 1 .. loads
    /\ owed \subseteq 1 .. loads
    /\ DOMAIN job = Workers
    /\ \A w \in Workers : Running(w) =>
          /\ loads > 0
          /\ Shape(job[w])
          /\ job[w].mode # "full" => job[w].loads \subseteq 1 .. loads
    /\ loads = 0 => DOMAIN host = {}

-----------------------------------------------------------------------------
\* With the row, the mapping and the resource, what is made of a row stays.
LEMMA SameRow ==
    ASSUME UNCHANGED <<resource, doc>>, NEW id, table'[id] = table[id]
    PROVE  Made(id)' = Made(id) /\ (Filtered(id)' <=> Filtered(id))
BY DEF Made, Filtered, Project, Columns, Business

\* With all of them, the rows that project and those that are muted.
LEMMA SameTable ==
    ASSUME UNCHANGED <<resource, doc, table>>
    PROVE  /\ Present' = Present /\ RowIds' = RowIds
           /\ \A id : Made(id)' = Made(id) /\ (Filtered(id)' <=> Filtered(id))
           /\ Projects' = Projects
           /\ Muted' = Muted
<1>1. Present' = Present /\ RowIds' = RowIds
  BY DEF Present, RowIds
<1>2. \A id : Made(id)' = Made(id) /\ (Filtered(id)' <=> Filtered(id))
  BY SameRow
<1>3. Projects' = Projects
  BY <1>1, <1>2 DEF Projects
<1>4. Muted' = Muted
  BY <1>1, <1>2 DEF Muted
<1> QED
  BY <1>1, <1>2, <1>3, <1>4

\* A step after which no row has lost what is to come for it.
LEMMA QuietStep ==
    ASSUME UNCHANGED <<resource, doc, table, host, astray>>,
           AllShown, AllBacked,
           \A id \in Present :
              Pending(id) => \/ Pending(id)'
                             \/ Filtered(id)
                             \/ Made(id).op = "invalid",
           \A i : Writes(i) => Writes(i)'
    PROVE  AllShown' /\ AllBacked'
<1> USE SameTable
<1>1. ASSUME NEW id \in Present, Pending(id)
      PROVE  Pending(id)' \/ (id \notin Projects /\ Made(id).id \in Muted)
  BY <1>1 DEF Muted, Projects
<1>2. AllShown'
  <2> SUFFICES ASSUME NEW id \in Projects PROVE Shown(id)'
    BY DEF AllShown
  <2>1. Shown(id) /\ id \in Present
    BY DEF AllShown, Projects
  <2> QED
    BY <1>1, <2>1 DEF Shown
<1>3. AllBacked'
  <2> SUFFICES ASSUME NEW i \in DOMAIN host PROVE Backed(i)'
    BY DEF AllBacked
  <2>1. Backed(i)
    BY DEF AllBacked
  <2> QED
    BY <1>1, <2>1 DEF Backed
<1> QED
  BY <1>2, <1>3
-----------------------------------------------------------------------------
(* Landing *)

\* A package replaces rows by its own, or removes them.
LEMMA LandRows ==
    ASSUME Shaped, Land
    PROVE  /\ RowIds' = RowIds
           /\ \A id \in RowIds :
                 \/ table'[id] = table[id]
                 \/ table'[id] = NoRow
                 \/ table'[id] # NoRow /\ table'[id].load = loads + 1
<1>1. PICK S \in SUBSET Keys[resource] :
         table' \in IF resource = "wide" THEN WideMerge(S) ELSE FeedMerge(S)
  BY DEF Land
<1>2. loads \in Nat /\ resource' = resource
  BY DEF Shaped, Land, configVars
<1>3. RowIds' = RowIds
  BY <1>2 DEF RowIds
<1>4. CASE resource = "wide"
  <2>1. PICK filled \in [S -> SUBSET Stages] :
           table' = [id \in RowIds |->
              IF id[1] \notin S THEN table[id]
              ELSE IF id[2] \in StagesOf(filled[id[1]])
                   THEN [load |-> loads + 1, gone |-> FALSE,
                         tag |-> IF id[2] \in filled[id[1]] THEN 1 ELSE 0]
                   ELSE NoRow]
    BY <1>1, <1>4 DEF WideMerge
  <2> QED
    BY <1>2, <1>3, <2>1 DEF NoRow
<1>5. CASE resource # "wide"
  <2>1. PICK c \in [S -> Contents \cup {0}] :
           table' = [id \in RowIds |->
              IF id[1] \notin S THEN table[id]
              ELSE [load |-> loads + 1, gone |-> c[id[1]] = 0,
                    tag |-> c[id[1]]]]
    BY <1>1, <1>5 DEF FeedMerge
  <2> QED
    BY <1>2, <1>3, <2>1 DEF NoRow
<1> QED
  BY <1>4, <1>5

\* A row that a package leaves alone is to be written as before.
LEMMA StillPending ==
    ASSUME Land, NEW id, table'[id] = table[id], Pending(id)
    PROVE  Pending(id)'
<1>1. owed \subseteq owed' /\ job' = job
  BY DEF Land
<1>2. ASSUME NEW w \in Workers, Owes(w, id)
      PROVE  Owes(w, id)'
  BY <1>1, <1>2 DEF Owes, Left, Current, Running
<1> QED
  BY <1>1, <1>2 DEF Pending

\* A package leaves a row as it is, or is owed for it; and an identity that a
\* row loses by it is astray.
LEMMA LandAccounted ==
    ASSUME Shaped, Land, Reliable, AllShown, AllBacked
    PROVE  AllShown' /\ AllBacked'
<1>1. /\ UNCHANGED <<resource, doc, job, host, behind>>
      /\ astray' = astray \cup {Made(id).id : id \in {x \in Present : Moves(x)}}
      /\ owed' = owed \cup {loads + 1}
  BY DEF Land, configVars
<1>2. RowIds' = RowIds
  BY LandRows
<1>3. ASSUME NEW id \in Present'
      PROVE  table'[id] = table[id] \/ Pending(id)'
  BY <1>1, <1>2, <1>3, LandRows DEF Present, Pending
<1>4. ASSUME NEW id, table'[id] = table[id]
      PROVE  Made(id)' = Made(id) /\ (Filtered(id)' <=> Filtered(id))
  BY <1>1, <1>4, SameRow
<1>5. \A id : Made(id)' = Project(doc, id, table'[id])
  BY <1>1 DEF Made, Project, Columns, Business
<1>6. ASSUME NEW id \in Present
      PROVE  \/ Made(id).id \in astray'
             \/ id \in Present' /\ Made(id)'.id = Made(id).id
  BY <1>1, <1>2, <1>5 DEF Present, Moves
<1>7. ASSUME NEW i \in Muted
      PROVE  \/ i \in Muted' \cup astray'
             \/ \E id \in Present' : Made(id)'.id = i /\ Pending(id)'
  <2>1. PICK x \in Present :
           /\ i = Made(x).id
           /\ \/ Filtered(x)
              \/ Made(x).op = "invalid"
              \/ \E y \in Present \ {x} : Made(y).id = Made(x).id
    BY DEF Muted
  <2>2. SUFFICES ASSUME i \notin astray', ~ Pending(x)'
                 PROVE  i \in Muted'
    BY <1>6, <2>1
  <2>3. /\ x \in Present' /\ Made(x)'.id = i
        /\ Made(x)' = Made(x) /\ (Filtered(x)' <=> Filtered(x))
    BY <1>3, <1>4, <1>6, <2>1, <2>2
  <2>4. ASSUME NEW y \in Present \ {x}, Made(y).id = Made(x).id
        PROVE  y \in Present' \ {x} /\ Made(y)'.id = Made(x)'.id
    BY <1>6, <2>1, <2>2, <2>3, <2>4
  <2> QED
    BY <2>1, <2>3, <2>4 DEF Muted
<1>8. ASSUME NEW i, Writes(i) PROVE Writes(i)'
  BY <1>1, <1>8 DEF Writes, Left
<1>9. ASSUME NEW id \in Projects' PROVE Shown(id)'
  <2>1. id \in Present'
    BY DEF Projects
  <2>2. SUFFICES ASSUME table'[id] = table[id], ~ Pending(id)'
                 PROVE  Shown(id)'
    BY <1>3, <2>1 DEF Shown
  <2>3. Made(id)' = Made(id) /\ (Filtered(id)' <=> Filtered(id))
    BY <1>4, <2>2
  <2>4. id \in Projects
    BY <1>2, <2>1, <2>2, <2>3 DEF Projects, Present
  <2>5. Shown(id) /\ ~ Pending(id)
    BY <2>2, <2>4, StillPending DEF AllShown
  <2>6. CASE Made(id).id \in Muted
    <3>1. CASE \E y \in Present' : Made(y)'.id = Made(id).id /\ Pending(y)'
      <4>1. PICK y \in Present' : Made(y)'.id = Made(id).id /\ Pending(y)'
        BY <3>1
      <4>2. y # id
        BY <2>2, <4>1
      <4>3. Made(id)'.id \in Muted'
        BY <2>1, <2>3, <4>1, <4>2 DEF Muted
      <4> QED
        BY <4>3 DEF Shown
    <3> QED
      BY <1>7, <2>3, <2>6, <3>1 DEF Shown
  <2> QED
    BY <1>1, <1>8, <2>3, <2>5, <2>6 DEF Shown
<1>10. ASSUME NEW i \in DOMAIN host PROVE Backed(i)'
  <2>1. Backed(i)
    BY DEF AllBacked
  <2>2. SUFFICES ASSUME i \notin astray', NEW id \in Present, Made(id).id = i,
                        id \in Projects \/ i \in Muted \/ Pending(id)
                 PROVE  Backed(i)'
    BY <1>1, <2>1 DEF Backed
  <2>3. id \in Present' /\ Made(id)'.id = i
    BY <1>6, <2>2
  <2>4. SUFFICES ASSUME table'[id] = table[id], ~ Pending(id)'
                 PROVE  Backed(i)'
    BY <1>3, <2>3 DEF Backed
  <2>5. Made(id)' = Made(id) /\ (Filtered(id)' <=> Filtered(id))
    BY <1>4, <2>4
  <2>6. CASE id \in Projects
    BY <2>3, <2>5, <2>6 DEF Backed, Projects
  <2>7. CASE i \in Muted
    BY <1>7, <2>3, <2>7 DEF Backed
  <2>8. ~ Pending(id)
    BY <2>4, StillPending
  <2> QED
    BY <2>2, <2>6, <2>7, <2>8
<1> QED
  BY <1>1, <1>9, <1>10 DEF AllShown, AllBacked
-----------------------------------------------------------------------------
(* Writing a batch *)

UpTo(w) == IF Full(w) THEN job[w].next + size - 1 ELSE Len(job[w].records)
Batch(w) == SubSeq(job[w].records, job[w].next, UpTo(w))
Replaces(w) == job[w].mode = "full" /\ job[w].next = 1

\* A batch is what comes next of the records, and is not empty.
LEMMA BatchIs ==
    ASSUME Shaped, NEW w \in Workers, Running(w), Full(w) \/ Partial(w)
    PROVE  /\ UpTo(w) \in job[w].next .. Len(job[w].records)
           /\ \E S : job[w].records \in Seq(S) /\ Batch(w) \in Seq(S)
           /\ \A n \in DOMAIN Batch(w) : \E m \in job[w].next .. UpTo(w) :
                 m \in DOMAIN job[w].records /\ Batch(w)[n] = job[w].records[m]
           /\ \A m \in job[w].next .. UpTo(w) :
                 \E n \in DOMAIN Batch(w) : Batch(w)[n] = job[w].records[m]
<1>1. PICK S : job[w].records \in Seq(S)
  BY DEF Shaped, Shape
<1> DEFINE r == job[w].records
           k == job[w].next
           l == UpTo(w)
<1>2. /\ Len(r) \in Nat /\ DOMAIN r = 1 .. Len(r)
      /\ k \in 1 .. Len(r) + 1 /\ size \in Nat \ {0}
  BY <1>1 DEF Shaped, Shape
<1>3. l \in k .. Len(r)
  <2>1. CASE Full(w)
    <3>1. l = k + size - 1 /\ Len(r) - k + 1 >= size
      BY <2>1 DEF UpTo, Full, Remaining
    <3> HIDE DEF r, k, l
    <3> QED
      BY <1>2, <3>1
  <2>2. CASE ~ Full(w)
    <3>1. l = Len(r) /\ Len(r) - k + 1 > 0
      BY <2>2 DEF UpTo, Partial, Remaining
    <3> HIDE DEF r, k, l
    <3> QED
      BY <1>2, <3>1
  <2> QED
    BY <2>1, <2>2
<1>4. /\ Batch(w) \in Seq(S)
      /\ DOMAIN Batch(w) = 1 .. l - k + 1
      /\ \A n \in 1 .. l - k + 1 : Batch(w)[n] = r[k + n - 1]
  <2> HIDE DEF r, k, l
  <2>1. r \in Seq(S)
    BY <1>1 DEF r
  <2>2. k \in Nat \ {0} /\ l \in Nat /\ Len(r) \in Nat /\ k <= l /\ l <= Len(r)
    BY <1>2, <1>3
  <2>3. /\ SubSeq(r, k, l) \in Seq(S)
        /\ DOMAIN SubSeq(r, k, l) = 1 .. l - k + 1
        /\ \A n \in 1 .. l - k + 1 : SubSeq(r, k, l)[n] = r[k + n - 1]
    BY <2>1, <2>2
  <2> QED
    BY <2>3 DEF Batch, r, k, l
<1> HIDE DEF r, k, l
<1>5. \A n \in 1 .. l - k + 1 : k + n - 1 \in k .. l /\ k + n - 1 \in DOMAIN r
  BY <1>2, <1>3
<1>6. \A m \in k .. l : m - k + 1 \in 1 .. l - k + 1 /\ k + (m - k + 1) - 1 = m
  BY <1>2, <1>3
<1>7. \A n \in DOMAIN Batch(w) :
         \E m \in k .. l : m \in DOMAIN r /\ Batch(w)[n] = r[m]
  BY <1>4, <1>5
<1>8. \A m \in k .. l : \E n \in DOMAIN Batch(w) : Batch(w)[n] = r[m]
  BY <1>4, <1>6
<1> QED
  BY <1>1, <1>3, <1>4, <1>7, <1>8 DEF r, k, l

\* WriteBatch, by the names of this module.
LEMMA WriteIs ==
    ASSUME NEW w \in Workers, WriteBatch(w)
    PROVE  /\ Running(w) /\ (Full(w) \/ Partial(w))
           /\ host' = Written(host, Collapse(Batch(w), job[w].deleted),
                              Replaces(w))
           /\ astray' = (IF Replaces(w) THEN Wiped(w)
                         ELSE astray \ Settled(w, Batch(w)))
                        \cup (Ids(Batch(w)) \ Settled(w, Batch(w)))
           /\ behind' = (IF Replaces(w) THEN {w} ELSE behind) \cup
                        (IF job[w].doc # doc THEN {"edit"} ELSE {})
           /\ job' = [v \in Workers |->
                IF v = w
                THEN [job[w] EXCEPT
                        !.next = UpTo(w) + 1,
                        !.deleted = @ \cup Deletes(Batch(w))]
                ELSE IF Running(v) THEN [job[v] EXCEPT !.alone = FALSE]
                ELSE NoJob]
           /\ UNCHANGED <<resource, size, policy, table, loads, doc, queued,
                          owed>>
BY DEF WriteBatch, UpTo, Batch, Replaces, Collapse, Collapsed, configVars,
       workVars

\* The other runs lose nothing by it but being alone.
LEMMA JobsAfter ==
    ASSUME Shaped, NEW w \in Workers, WriteBatch(w), NEW v \in Workers
    PROVE  /\ Running(v)' <=> Running(v)
           /\ Running(v) =>
                /\ Shape(job'[v])
                /\ UNCHANGED <<job[v].mode, job[v].loads, job[v].doc,
                               job[v].records, job[v].broken, job[v].errors,
                               job[v].atOnce>>
                /\ v # w => /\ UNCHANGED <<job[v].next, job[v].deleted>>
                            /\ ~ job'[v].alone
           /\ job'[w].next = UpTo(w) + 1
           /\ job'[w].deleted = job[w].deleted \cup Deletes(Batch(w))
           /\ job'[w].alone = job[w].alone
<1>1. /\ Running(w)
      /\ job' = [u \in Workers |->
                IF u = w
                THEN [job[w] EXCEPT
                        !.next = UpTo(w) + 1,
                        !.deleted = @ \cup Deletes(Batch(w))]
                ELSE IF Running(u) THEN [job[u] EXCEPT !.alone = FALSE]
                ELSE NoJob]
  BY WriteIs
<1>2. UpTo(w) \in job[w].next .. Len(job[w].records)
  BY BatchIs, WriteIs
<1>3. Shape(job[w]) /\ (Running(v) => Shape(job[v]))
  BY <1>1 DEF Shaped
<1>4. job[w].next \in Nat /\ Len(job[w].records) \in Nat
  BY <1>3 DEF Shape
<1>5. UpTo(w) + 1 \in 1 .. Len(job[w].records) + 1
  BY <1>2, <1>3, <1>4 DEF Shape
<1>6. /\ job'[w].pc = "writing"
      /\ job'[w].next = UpTo(w) + 1
      /\ job'[w].deleted = job[w].deleted \cup Deletes(Batch(w))
      /\ job'[w].alone = job[w].alone
      /\ UNCHANGED <<job[w].mode, job[w].loads, job[w].doc, job[w].records,
                     job[w].broken, job[w].errors, job[w].atOnce>>
      /\ DOMAIN job'[w] = DOMAIN job[w]
  <2>1. job'[w] = [job[w] EXCEPT
                     !.next = UpTo(w) + 1,
                     !.deleted = @ \cup Deletes(Batch(w))]
    BY <1>1
  <2> QED
    BY <1>3, <2>1 DEF Shape
<1>7. Shape(job'[w])
  BY <1>3, <1>5, <1>6 DEF Shape
<1>8. CASE v = w
  BY <1>1, <1>6, <1>7, <1>8 DEF Running, NoJob
<1>9. CASE v # w /\ Running(v)
  <2>1. job'[v] = [job[v] EXCEPT !.alone = FALSE]
    BY <1>1, <1>9
  <2>2. /\ job'[v].pc = "writing"
        /\ ~ job'[v].alone
        /\ UNCHANGED <<job[v].mode, job[v].loads, job[v].doc, job[v].records,
                       job[v].broken, job[v].errors, job[v].atOnce,
                       job[v].next, job[v].deleted>>
        /\ DOMAIN job'[v] = DOMAIN job[v]
    BY <1>3, <1>9, <2>1 DEF Shape
  <2>3. Shape(job'[v])
    BY <1>3, <1>9, <2>2 DEF Shape
  <2> QED
    BY <1>6, <1>9, <2>2, <2>3 DEF Running, NoJob
<1>10. CASE v # w /\ ~ Running(v)
  BY <1>1, <1>6, <1>10 DEF Running
<1> QED
  BY <1>8, <1>9, <1>10

\* What the host's writer makes of a batch: nothing for an identity that is not
\* in it...
LEMMA HostElsewhere ==
    ASSUME NEW batch, NEW deleted, NEW records, NEW replace \in BOOLEAN,
           NEW i, i \notin Ids(batch)
    PROVE  LET after == Written(records, Collapse(batch, deleted), replace)
           IN  /\ i \in DOMAIN after => i \in DOMAIN records /\ ~ replace
               /\ i \in DOMAIN records /\ ~ replace =>
                     i \in DOMAIN after /\ after[i] = records[i]
<1> DEFINE c == Collapse(batch, deleted)
           before == IF replace THEN <<>> ELSE records
<1>1. i \notin DOMAIN c.upserts /\ i \notin c.deletes
  <2>1. Deletes(batch) \subseteq Ids(batch)
    BY DEF Deletes, Ids
  <2> QED
    BY <2>1 DEF Collapse, Collapsed
<1>2. DOMAIN Merged(before, c)
         = (DOMAIN before \ c.deletes) \cup DOMAIN c.upserts
  BY DEF Merged
<1>3. i \in DOMAIN before => Merged(before, c)[i] = before[i]
  BY <1>1 DEF Merged
<1>4. i \notin DOMAIN <<>>
  BY SMT
<1> QED
  BY <1>1, <1>2, <1>3, <1>4 DEF Written

\* ...and for one it has the last word on, its last upsert, or its deletion.
LEMMA HostSettled ==
    ASSUME NEW S, NEW batch \in Seq(S), NEW deleted, NEW records,
           NEW replace \in BOOLEAN, NEW i \in Ids(batch),
           i \in deleted => \A n \in DOMAIN batch :
                               batch[n].id = i => batch[n].op = "delete"
    PROVE  LET after == Written(records, Collapse(batch, deleted), replace)
           IN  \E n \in DOMAIN batch :
                  /\ batch[n].id = i
                  /\ batch[n].op = "delete" => i \notin DOMAIN after
                  /\ batch[n].op # "delete" =>
                        i \in DOMAIN after /\ after[i] = batch[n].values
<1> DEFINE c == Collapse(batch, deleted)
           before == IF replace THEN <<>> ELSE records
           ids == Ids(batch) \ (Deletes(batch) \cup deleted)
<1>1. /\ c.upserts = [x \in ids |-> batch[Max(Upserts(batch, x))].values]
      /\ c.deletes = Deletes(batch)
  BY DEF Collapse, Collapsed
<1>2. /\ DOMAIN Merged(before, c) =
            (DOMAIN before \ Deletes(batch)) \cup ids
      /\ i \in ids => Merged(before, c)[i]
                        = batch[Max(Upserts(batch, i))].values
  BY <1>1 DEF Merged
<1>3. Written(records, c, replace) = Merged(before, c)
  BY DEF Written
<1> HIDE DEF c, before
<1>4. CASE i \in Deletes(batch)
  <2>1. PICK n \in DOMAIN batch : batch[n].id = i /\ batch[n].op = "delete"
    BY <1>4 DEF Deletes
  <2>2. i \notin DOMAIN Merged(before, c)
    BY <1>2, <1>4
  <2> QED
    BY <1>3, <2>1, <2>2 DEF c
<1>5. CASE i \notin Deletes(batch)
  <2>1. PICK m \in DOMAIN batch : batch[m].id = i
    BY DEF Ids
  <2>2. batch[m].op # "delete"
    BY <1>5, <2>1 DEF Deletes
  <2>3. i \in ids
    BY <1>5, <2>1, <2>2
  <2>4. Max(Upserts(batch, i)) \in Upserts(batch, i)
    BY <1>5, LastUpsert
  <2>5. PICK n \in DOMAIN batch : /\ n = Max(Upserts(batch, i))
                                  /\ batch[n].id = i /\ batch[n].op # "delete"
    BY <2>4 DEF Upserts
  <2> QED
    BY <1>2, <1>3, <2>3, <2>5 DEF c
<1> QED
  BY <1>4, <1>5

\* Under the mapping as it is, a record of a row as it is makes the row known.
LEMMA RecordTold ==
    ASSUME Shaped, Faithful, NEW w \in Workers, Running(w), job[w].doc = doc,
           NEW n \in DOMAIN job[w].records, Current(job[w].records[n])
    PROVE  LET rec == job[w].records[n]
           IN  /\ rec.row \in Present
               /\ rec.id = Made(rec.row).id /\ rec.values = Made(rec.row).values
               /\ ~ Filtered(rec.row)
               /\ \/ rec.op = "delete" /\ Made(rec.row).op = "delete"
                  \/ rec.op = "upsert" /\ rec.row \in Projects
<1> DEFINE rec == job[w].records[n]
<1>1. /\ rec.row \in RowIds /\ rec.load \in 1 .. loads
      /\ table[rec.row].load = rec.load
      /\ Truthful(doc, rec)
  BY DEF Faithful, Told, Range, Current
<1>2. rec.row \in Present
  BY <1>1 DEF Present, NoRow, Shaped
<1> QED
  BY <1>1, <1>2 DEF Truthful, Made, Filtered, Projects

\* The row a settled identity belongs to, and what the host holds of it.
LEMMA SettledTold ==
    ASSUME Shaped, Faithful, NEW w \in Workers, WriteBatch(w),
           job[w].doc = doc, NEW i \in Settled(w, Batch(w))
    PROVE  \E id \in Present :
              /\ Made(id).id = i
              /\ \/ id \notin Projects /\ i \notin DOMAIN host'
                 \/ /\ id \in Projects
                    /\ i \in DOMAIN host' /\ host'[i] = Made(id).values
<1> DEFINE batch == Batch(w)
<1>1. /\ Running(w) /\ (Full(w) \/ Partial(w))
      /\ host' = Written(host, Collapse(batch, job[w].deleted), Replaces(w))
  BY WriteIs
<1>2. PICK S : batch \in Seq(S)
  BY <1>1, BatchIs
<1>3. /\ i \in Ids(batch)
      /\ \A n \in DOMAIN batch : batch[n].id = i =>
            /\ Current(batch[n])
            /\ i \in job[w].deleted => batch[n].op = "delete"
  BY DEF Settled
<1>4. Replaces(w) \in BOOLEAN
  BY DEF Replaces
<1> HIDE DEF batch
<1>5. PICK n \in DOMAIN batch :
         /\ batch[n].id = i
         /\ batch[n].op = "delete" => i \notin DOMAIN host'
         /\ batch[n].op # "delete" =>
               i \in DOMAIN host' /\ host'[i] = batch[n].values
  BY <1>1, <1>2, <1>3, <1>4, HostSettled
<1>6. PICK m \in DOMAIN job[w].records : batch[n] = job[w].records[m]
  BY <1>1, <1>5, BatchIs DEF batch
<1>7. LET rec == batch[n]
      IN  /\ rec.row \in Present
          /\ rec.id = Made(rec.row).id /\ rec.values = Made(rec.row).values
          /\ \/ rec.op = "delete" /\ Made(rec.row).op = "delete"
             \/ rec.op = "upsert" /\ rec.row \in Projects
  BY <1>1, <1>3, <1>5, <1>6, RecordTold
<1>8. Made(batch[n].row).op = "delete" => batch[n].row \notin Projects
  BY DEF Projects
<1> QED
  BY <1>5, <1>7, <1>8

\* The row to be written by a run in progress is still to be, or is in its
\* batch.
LEMMA OwedAfter ==
    ASSUME Shaped, Faithful, NEW w \in Workers, WriteBatch(w), job[w].doc = doc,
           NEW id, Pending(id)
    PROVE  \/ Pending(id)'
           \/ Made(id).id \in Ids(Batch(w)) /\ ~ Replaces(w)
<1>1. Running(w) /\ (Full(w) \/ Partial(w)) /\ UNCHANGED <<table, owed>>
  BY WriteIs
<1>2. SUFFICES ASSUME NEW v \in Workers, Owes(v, id)
               PROVE  \/ Owes(v, id)'
                      \/ Made(id).id \in Ids(Batch(w)) /\ ~ Replaces(w)
  BY <1>1 DEF Pending
<1>3. /\ Running(v)' /\ Running(v)
      /\ UNCHANGED <<job[v].mode, job[v].loads, job[v].doc, job[v].records,
                     job[v].broken>>
      /\ v # w => UNCHANGED job[v].next
      /\ job'[w].next = UpTo(w) + 1
  BY <1>2, JobsAfter DEF Owes
<1>4. SUFFICES ASSUME NEW n \in Left(v), job[v].records[n].row = id,
                      Current(job[v].records[n]), n \notin Left(v)'
               PROVE  Made(id).id \in Ids(Batch(w)) /\ ~ Replaces(w)
  BY <1>1, <1>2, <1>3 DEF Owes, Current
<1>5. v = w
  BY <1>3, <1>4 DEF Left
<1>6. n \in job[w].next .. UpTo(w) /\ n \in DOMAIN job[w].records
  <2>1. PICK S : job[w].records \in Seq(S)
    BY <1>1, BatchIs
  <2>2. job[w].next \in 1 .. Len(job[w].records) + 1
    BY <1>1 DEF Shaped, Shape
  <2>3. UpTo(w) \in job[w].next .. Len(job[w].records)
    BY <1>1, BatchIs
  <2>4. n \in job[w].next .. Len(job[w].records)
    BY <1>4, <1>5 DEF Left
  <2>5. n \notin UpTo(w) + 1 .. Len(job[w].records)
    BY <1>3, <1>4, <1>5 DEF Left
  <2>6. Len(job[w].records) \in Nat
        /\ DOMAIN job[w].records = 1 .. Len(job[w].records)
    BY <2>1
  <2> QED
    BY <2>2, <2>3, <2>4, <2>5, <2>6
<1>7. job[w].records[n].id = Made(id).id
  BY <1>1, <1>4, <1>5, <1>6, RecordTold
<1>8. Made(id).id \in Ids(Batch(w))
  <2>1. PICK k \in DOMAIN Batch(w) : Batch(w)[k] = job[w].records[n]
    BY <1>1, <1>6, BatchIs
  <2> QED
    BY <1>7, <2>1 DEF Ids
<1>9. ~ Replaces(w)
  BY <1>2, <1>5 DEF Owes, Replaces
<1> QED
  BY <1>8, <1>9

\* With a batch of the mapping as it is, every identity in it is settled or
\* astray, and none outside it is touched.
LEMMA WriteAccounted ==
    ASSUME Shaped, Faithful, Accounted, NEW w \in Workers, WriteBatch(w),
           Reliable'
    PROVE  AllShown' /\ AllBacked'
<1> DEFINE batch == Batch(w)
           settled == Settled(w, batch)
<1>1. /\ Running(w) /\ (Full(w) \/ Partial(w))
      /\ host' = Written(host, Collapse(batch, job[w].deleted), Replaces(w))
      /\ astray' = (IF Replaces(w) THEN Wiped(w) ELSE astray \ settled)
                   \cup (Ids(batch) \ settled)
      /\ UNCHANGED <<resource, doc, table, owed>>
  BY WriteIs
<1>2. job[w].doc = doc /\ behind' = IF Replaces(w) THEN {w} ELSE behind
  BY WriteIs, EditAssumption DEF Reliable
<1>3. Replaces(w) \in BOOLEAN
  BY DEF Replaces
<1>11. /\ Present' = Present /\ Projects' = Projects /\ Muted' = Muted
       /\ \A id : Made(id)' = Made(id)
  BY <1>1, SameTable
<1> USE <1>11
<1>4. ASSUME NEW i \in settled
      PROVE  \E id \in Present :
                /\ Made(id).id = i
                /\ \/ id \notin Projects /\ i \notin DOMAIN host'
                   \/ /\ id \in Projects
                      /\ i \in DOMAIN host' /\ host'[i] = Made(id).values
  BY <1>2, SettledTold
<1>5. ASSUME NEW i, i \notin Ids(batch)
      PROVE  /\ i \in DOMAIN host' => i \in DOMAIN host /\ ~ Replaces(w)
             /\ i \in DOMAIN host /\ ~ Replaces(w) =>
                   i \in DOMAIN host' /\ host'[i] = host[i]
  BY <1>1, <1>3, <1>5, HostElsewhere
<1>6. settled \subseteq Ids(batch)
  BY DEF Settled
<1> HIDE DEF batch, settled
<1>7. ASSUME NEW i \in Ids(batch) \ settled PROVE i \in astray'
  BY <1>1
<1>8. ASSUME NEW id \in Projects, Made(id).id \in settled,
             Made(id).id \notin Muted
      PROVE  /\ Made(id).id \in DOMAIN host'
             /\ host'[Made(id).id] = Made(id).values
  <2>1. PICK x \in Present :
           /\ Made(x).id = Made(id).id
           /\ \/ x \notin Projects /\ Made(id).id \notin DOMAIN host'
              \/ /\ x \in Projects
                 /\ Made(id).id \in DOMAIN host'
                 /\ host'[Made(id).id] = Made(x).values
    BY <1>4, <1>8
  <2>2. x = id
    BY <1>8, <2>1 DEF Muted, Projects
  <2> QED
    BY <1>8, <2>1, <2>2
<1>9. CASE Replaces(w)
  <2>1. ASSUME NEW id \in Projects PROVE Shown(id)'
    <3> DEFINE i == Made(id).id
    <3>1. SUFFICES ASSUME i \notin Muted, i \notin astray', ~ Pending(id)'
                   PROVE  Shown(id)'
      BY DEF Shown
    <3>2. table[id].load \notin owed /\ id \in Present
      BY <1>1, <3>1 DEF Pending, Projects
    <3>3. i \in Ids(job[w].records)
      BY <1>1, <1>9, <3>1, <3>2 DEF Wiped
    <3>4. CASE i \in Ids(batch)
      BY <1>7, <1>8, <3>1, <3>4 DEF Shown
    <3>5. CASE i \notin Ids(batch)
      <4>1. PICK n \in DOMAIN job[w].records : job[w].records[n].id = i
        BY <3>3 DEF Ids
      <4>2. n \in Left(w)'
        <5>1. PICK S : job[w].records \in Seq(S)
          BY <1>1, BatchIs
        <5>2. n \in 1 .. Len(job[w].records) /\ Len(job[w].records) \in Nat
          BY <5>1
        <5>3. job[w].next = 1
          BY <1>9 DEF Replaces
        <5>4. UpTo(w) \in 1 .. Len(job[w].records)
          BY <1>1, <5>3, BatchIs
        <5>5. n \notin job[w].next .. UpTo(w)
          <6>1. \A m \in job[w].next .. UpTo(w) :
                   \E k \in DOMAIN batch : batch[k] = job[w].records[m]
            BY <1>1, BatchIs DEF batch
          <6>2. \A k \in DOMAIN batch : batch[k].id # i
            BY <3>5 DEF Ids
          <6> HIDE DEF batch
          <6> QED
            BY <4>1, <6>1, <6>2
        <5>6. job'[w].next = UpTo(w) + 1 /\ job'[w].records = job[w].records
          BY <1>1, JobsAfter
        <5>7. n \in UpTo(w) + 1 .. Len(job[w].records)
          BY <5>2, <5>3, <5>4, <5>5
        <5> QED
          BY <5>6, <5>7 DEF Left
      <4>3. job'[w].records = job[w].records
        BY <1>1, JobsAfter
      <4>4. Writes(i)'
        BY <1>2, <1>9, <4>1, <4>2, <4>3 DEF Writes
      <4> QED
        BY <4>4 DEF Shown
    <3> QED
      BY <3>4, <3>5
  <2>2. ASSUME NEW i \in DOMAIN host' PROVE Backed(i)'
    <3>1. i \in Ids(batch)
      BY <1>5, <1>9
    <3>2. CASE i \in settled
      BY <1>4, <3>2 DEF Backed
    <3> QED
      BY <1>7, <3>1, <3>2 DEF Backed
  <2> QED
    BY <2>1, <2>2 DEF AllShown, AllBacked
<1>10. CASE ~ Replaces(w)
  <2>1. behind' = behind
    BY <1>2, <1>10
  <2>2. Reliable
    <3> SUFFICES ASSUME NEW v \in Workers \cap behind PROVE UnderWay(v)
      BY <2>1 DEF Reliable
    <3>1. UnderWay(v)'
      BY <2>1 DEF Reliable
    <3>2. CASE v = w
      <4>1. job[w].next \in 1 .. Len(job[w].records) + 1 /\ job[w].mode = "full"
        BY <1>1, <3>1, <3>2, JobsAfter DEF Shaped, Shape, UnderWay, Replaced
      <4> QED
        BY <1>1, <1>2, <1>10, <3>2, <4>1 DEF UnderWay, Replaced, Replaces
    <3>3. CASE v # w
      BY <1>1, <3>1, <3>3, JobsAfter DEF UnderWay, Replaced
    <3> QED
      BY <3>2, <3>3
  <2>3. AllShown /\ AllBacked
    BY <2>2 DEF Accounted
  <2>4. ASSUME NEW i, Writes(i), i \notin Ids(batch) PROVE Writes(i)'
    <3>1. PICK v \in Workers \cap behind :
             \E n \in Left(v) : job[v].records[n].id = i
      BY <2>4 DEF Writes
    <3>6. PICK n \in Left(v) : job[v].records[n].id = i
      BY <3>1
    <3>2. Running(v)
      BY <2>2 DEF Reliable, UnderWay, Replaced
    <3>3. job'[v].records = job[v].records
      BY <3>2, JobsAfter
    <3>4. CASE v # w
      BY <2>1, <3>1, <3>2, <3>3, <3>4, JobsAfter DEF Writes, Left
    <3>5. CASE v = w
      <4>1. n \notin job[w].next .. UpTo(w)
        <5>1. \A m \in job[w].next .. UpTo(w) :
                 \E k \in DOMAIN batch : batch[k] = job[w].records[m]
          BY <1>1, BatchIs DEF batch
        <5>2. \A k \in DOMAIN batch : batch[k].id # i
          BY <2>4 DEF Ids
        <5> HIDE DEF batch
        <5>3. job[w].records[n].id = i
          BY <3>6, <3>5
        <5> QED
          BY <5>1, <5>2, <5>3
      <4>2. PICK S : job[w].records \in Seq(S)
        BY <1>1, BatchIs
      <4>3. /\ job[w].next \in 1 .. Len(job[w].records) + 1
            /\ Len(job[w].records) \in Nat
            /\ UpTo(w) \in job[w].next .. Len(job[w].records)
            /\ n \in job[w].next .. Len(job[w].records)
        BY <1>1, <3>6, <3>5, <4>2, BatchIs DEF Shaped, Shape, Left
      <4>4. n \in UpTo(w) + 1 .. Len(job[w].records)
        BY <4>1, <4>3
      <4>5. job'[w].next = UpTo(w) + 1
        BY <1>1, JobsAfter
      <4> QED
        BY <2>1, <3>6, <3>3, <3>5, <4>4, <4>5 DEF Writes, Left
    <3> QED
      BY <3>4, <3>5
  <2>5. ASSUME NEW i \in astray, i \notin settled PROVE i \in astray'
    BY <1>1, <1>10, <2>5
  <2>6. ASSUME NEW id, Pending(id), Made(id).id \notin Ids(batch)
        PROVE  Pending(id)'
    BY <1>2, <2>6, OwedAfter DEF batch
  <2>7. ASSUME NEW id \in Projects PROVE Shown(id)'
    <3> DEFINE i == Made(id).id
    <3>1. SUFFICES ASSUME i \notin Muted PROVE Shown(id)'
      BY DEF Shown
    <3>2. Shown(id)
      BY <2>3 DEF AllShown
    <3>3. CASE i \in Ids(batch)
      BY <1>7, <1>8, <3>1, <3>3 DEF Shown
    <3>4. CASE i \notin Ids(batch)
      BY <1>5, <1>6, <1>10, <2>4, <2>5, <2>6, <3>1, <3>2, <3>4 DEF Shown
    <3> QED
      BY <3>3, <3>4
  <2>8. ASSUME NEW i \in DOMAIN host' PROVE Backed(i)'
    <3>1. CASE i \in settled
      BY <1>4, <3>1 DEF Backed
    <3>2. CASE i \in Ids(batch) \ settled
      BY <1>7, <3>2 DEF Backed
    <3>3. CASE i \notin Ids(batch)
      <4>1. Backed(i)
        BY <1>5, <2>3, <3>3 DEF AllBacked
      <4> QED
        BY <1>6, <2>5, <2>6, <3>3, <4>1 DEF Backed
    <3> QED
      BY <3>1, <3>2, <3>3
  <2> QED
    BY <2>7, <2>8 DEF AllShown, AllBacked
<1> QED
  BY <1>9, <1>10
-----------------------------------------------------------------------------
(* Reading *)

\* The rows of a resource can be counted, and so they can be read in order.
LEMMA RowsFinite == Shaped => IsFiniteSet(RowIds)
<1> SUFFICES ASSUME Shaped PROVE IsFiniteSet(RowIds)
  OBVIOUS
<1>1. IsFiniteSet(Keys[resource]) /\ IsFiniteSet(Stages)
  BY LandingAssumption DEF Shaped
<1>2. IsFiniteSet({0})
  BY FS_Singleton
<1> QED
  BY <1>1, <1>2, FS_Product DEF RowIds

\* An order of some rows names each of them.
LEMMA OrderedAll ==
    ASSUME NEW rows, IsFiniteSet(rows), NEW order \in Ordered(rows)
    PROVE  /\ Cardinality(rows) \in Nat
           /\ DOMAIN order = 1 .. Cardinality(rows)
           /\ \A n \in DOMAIN order : order[n] \in rows
           /\ \A id \in rows : \E n \in DOMAIN order : order[n] = id
<1> DEFINE c == Cardinality(rows)
<1>1. c \in Nat
  BY FS_CardinalityType
<1>2. /\ order \in [1 .. c -> rows]
      /\ \A i, j \in 1 .. c : i # j => order[i] # order[j]
  BY DEF Ordered, SetToSeqs
<1>3. order \in Injection(1 .. c, rows)
  BY <1>2 DEF Injection, IsInjective
<1>4. Cardinality(1 .. c) = c
  BY <1>1, FS_Interval
<1>5. order \in Surjection(1 .. c, rows)
  BY <1>3, <1>4, FS_Injection
<1>6. \A id \in rows : \E n \in 1 .. c : order[n] = id
  BY <1>5 DEF Surjection
<1> QED
  BY <1>1, <1>2, <1>6

\* A run that has begun has its rows' records, in some order.
LEMMA ReadsIs ==
    ASSUME Shaped, loads > 0, NEW w \in Workers, NEW mode, NEW S, NEW rows,
           NEW broken, rows \subseteq RowIds, Reads(w, mode, S, rows, broken)
    PROVE  /\ DOMAIN job' = Workers
           /\ \A v \in Workers \ {w} : job'[v] = job[v]
           /\ job'[w] # NoJob
           /\ Shape(job'[w])
           /\ job'[w].mode = mode /\ job'[w].loads = S /\ job'[w].doc = doc
           /\ job'[w].broken = broken
           /\ job'[w].next = 1 /\ job'[w].deleted = {}
           /\ job'[w].atOnce =
                 IF job'[w].records = <<>> THEN host
                 ELSE Written(host, Collapse(job'[w].records, {}),
                              mode = "full")
           /\ \A n \in DOMAIN job'[w].records : \E id \in rows :
                 job'[w].records[n] = Entry(id)
           /\ \A id \in rows : \E n \in DOMAIN job'[w].records :
                 job'[w].records[n] = Entry(id)
<1>1. IsFiniteSet(rows)
  BY RowsFinite, FS_Subset
<1>2. PICK order \in Ordered(rows) :
         job' = [job EXCEPT ![w] =
                   Begun(mode, S, [n \in DOMAIN order |-> Entry(order[n])],
                         broken)]
  BY DEF Reads
<1> DEFINE records == [n \in DOMAIN order |-> Entry(order[n])]
<1>3. /\ Cardinality(rows) \in Nat
      /\ DOMAIN order = 1 .. Cardinality(rows)
      /\ \A n \in DOMAIN order : order[n] \in rows
      /\ \A id \in rows : \E n \in DOMAIN order : order[n] = id
  BY <1>1, OrderedAll
<1>4. /\ records \in Seq({Entry(id) : id \in rows})
      /\ Len(records) = Cardinality(rows)
      /\ DOMAIN records = DOMAIN order
  <2> DEFINE E == {Entry(id) : id \in rows}
  <2>1. \A n \in DOMAIN order : Entry(order[n]) \in E
    BY <1>3
  <2>2. records \in [1 .. Cardinality(rows) -> E]
    <3> HIDE DEF E
    <3> QED
      BY <1>3, <2>1
  <2> HIDE DEF E, records
  <2>3. records \in Seq(E) /\ Len(records) = Cardinality(rows)
    BY <1>3, <2>2
  <2> QED
    BY <1>3, <2>2, <2>3 DEF E, records
<1>5. /\ \A n \in DOMAIN records : \E id \in rows : records[n] = Entry(id)
      /\ \A id \in rows : \E n \in DOMAIN records : records[n] = Entry(id)
  BY <1>3
<1> HIDE DEF records
<1>6. job'[w] = Begun(mode, S, records, broken)
  BY <1>2 DEF Shaped, records
<1>7. /\ DOMAIN job' = Workers
      /\ \A v \in Workers \ {w} : job'[v] = job[v]
  BY <1>2 DEF Shaped
<1>8. /\ job'[w].pc = "writing" /\ job'[w].records = records
      /\ job'[w].mode = mode /\ job'[w].loads = S /\ job'[w].doc = doc
      /\ job'[w].broken = broken
      /\ job'[w].next = 1 /\ job'[w].deleted = {}
      /\ job'[w].atOnce = IF records = <<>> THEN host
                          ELSE Written(host, Collapse(records, {}),
                                       mode = "full")
      /\ DOMAIN job'[w] = {"pc", "mode", "loads", "doc", "records", "broken",
                   "next", "deleted", "errors", "atOnce", "alone"}
  BY <1>6 DEF Begun
<1>9. Shape(job'[w])
  BY <1>3, <1>4, <1>8 DEF Shape
<1>10. job'[w] # NoJob
  BY <1>8 DEF NoJob
<1> QED
  BY <1>5, <1>7, <1>8, <1>9, <1>10

\* A run begins with the mapping as it is and, unless a row ends it, with a
\* record of every row that is one.
LEMMA BeginIs ==
    ASSUME Shaped, loads > 0, NEW w \in Workers, NEW mode, NEW S,
           Begin(w, mode, S)
    PROVE  /\ DOMAIN job' = Workers
           /\ \A v \in Workers \ {w} : job'[v] = job[v]
           /\ job'[w] # NoJob
           /\ Shape(job'[w])
           /\ job'[w].mode = mode /\ job'[w].loads = S /\ job'[w].doc = doc
           /\ job'[w].next = 1 /\ job'[w].deleted = {}
           /\ job'[w].atOnce =
                 IF job'[w].records = <<>> THEN host
                 ELSE Written(host, Collapse(job'[w].records, {}),
                              mode = "full")
           /\ \A n \in DOMAIN job'[w].records : \E id \in Present :
                 IsRecord(id) /\ job'[w].records[n] = Entry(id)
           /\ job'[w].broken = "no" =>
                 \A id \in Present : table[id].load \in S =>
                    /\ ~ EndsTheRun(id)
                    /\ IsRecord(id) => \E n \in DOMAIN job'[w].records :
                                          job'[w].records[n] = Entry(id)
<1> DEFINE ids == {id \in Present : table[id].load \in S}
           ends == {id \in ids : EndsTheRun(id)}
           records == {id \in ids : IsRecord(id)}
<1>1. Present \subseteq RowIds
  BY DEF Present
<1>2. CASE ends = {} /\ Reads(w, mode, S, records, "no")
  <2>1. records \subseteq RowIds /\ records \subseteq Present
    BY <1>1
  <2>2. \A id \in Present : table[id].load \in S =>
           ~ EndsTheRun(id) /\ (IsRecord(id) => id \in records)
    BY <1>2
  <2>3. \A id \in records : IsRecord(id)
    OBVIOUS
  <2> HIDE DEF records, ends
  <2> QED
    BY <1>2, <2>1, <2>2, <2>3, ReadsIs
<1>3. ASSUME NEW end \in ends, NEW rows \in Before(end, ends, records),
             Reads(w, mode, S, rows,
                   IF table[end].gone THEN "tombstone" ELSE "row")
      PROVE  /\ DOMAIN job' = Workers
             /\ \A v \in Workers \ {w} : job'[v] = job[v]
             /\ job'[w] # NoJob
             /\ Shape(job'[w])
             /\ job'[w].mode = mode /\ job'[w].loads = S /\ job'[w].doc = doc
             /\ job'[w].next = 1 /\ job'[w].deleted = {}
             /\ job'[w].atOnce =
                   IF job'[w].records = <<>> THEN host
                   ELSE Written(host, Collapse(job'[w].records, {}),
                                mode = "full")
             /\ \A n \in DOMAIN job'[w].records : \E id \in Present :
                   IsRecord(id) /\ job'[w].records[n] = Entry(id)
             /\ job'[w].broken # "no"
  <2>1. rows \subseteq records
    BY DEF Before
  <2>2. /\ rows \subseteq RowIds /\ rows \subseteq Present
        /\ \A id \in rows : IsRecord(id)
    BY <1>1, <2>1
  <2>3. PICK broken : /\ broken # "no"
                      /\ Reads(w, mode, S, rows, broken)
    BY <1>3
  <2> HIDE DEF records, ends
  <2> QED
    BY <2>2, <2>3, ReadsIs
<1> QED
  BY <1>2, <1>3 DEF Begin

\* What a new run answers for it is to write, unless it is no record.
LEMMA BeginOwes ==
    ASSUME Shaped, loads > 0, NEW w \in Workers, NEW S,
           Begin(w, "incremental", S), UNCHANGED <<table, doc, policy>>,
           NEW id \in Present, table[id].load \in S
    PROVE  \/ Owes(w, id)'
           \/ Filtered(id)
           \/ Made(id).op = "invalid"
<1>1. /\ job'[w] # NoJob
      /\ Shape(job'[w])
      /\ job'[w].mode = "incremental" /\ job'[w].loads = S
      /\ job'[w].next = 1
      /\ job'[w].broken = "no" =>
            \A x \in Present : table[x].load \in S =>
               /\ ~ EndsTheRun(x)
               /\ IsRecord(x) => \E n \in DOMAIN job'[w].records :
                                    job'[w].records[n] = Entry(x)
  BY BeginIs
<1>2. CASE job'[w].broken # "no"
  BY <1>1, <1>2 DEF Owes, Running
<1>3. CASE job'[w].broken = "no" /\ IsRecord(id)
  <2>1. PICK n \in DOMAIN job'[w].records : job'[w].records[n] = Entry(id)
    BY <1>1, <1>3
  <2>2. PICK T : job'[w].records \in Seq(T)
    BY <1>1 DEF Shape
  <2>3. n \in 1 .. Len(job'[w].records)
    BY <2>1, <2>2
  <2>4. n \in Left(w)'
    BY <1>1, <2>3 DEF Left
  <2>5. job'[w].records[n].row = id /\ Current(job[w].records[n])'
    BY <2>1 DEF Entry, Current
  <2> QED
    BY <1>1, <2>4, <2>5 DEF Owes, Running
<1>4. CASE job'[w].broken = "no" /\ ~ IsRecord(id)
  <2>1. ~ EndsTheRun(id)
    BY <1>1, <1>4
  <2>2. Made(id).op \in {"broken", "invalid", "delete", "upsert"}
    BY DEF Made, Project, Record, Outcome
  <2> QED
    BY <1>4, <2>1, <2>2 DEF EndsTheRun, IsRecord
<1> QED
  BY <1>2, <1>3, <1>4

\* A new run leaves what the others are to write.
LEMMA OthersOwe ==
    ASSUME NEW w \in Workers, ~ Running(w), UNCHANGED table,
           \A v \in Workers \ {w} : job'[v] = job[v],
           NEW v \in Workers, NEW id, Owes(v, id)
    PROVE  Owes(v, id)'
BY DEF Owes, Running, Left, Current

\* No replay under way is begun, and none ends, while nothing is replaced.
LEMMA QuietReliable ==
    ASSUME NEW w \in Workers, Reliable', UNCHANGED <<doc, behind>>,
           \A v \in Workers \ {w} : job'[v] = job[v],
           ~ UnderWay(w)'
    PROVE  /\ Reliable
           /\ \A i : Writes(i) => Writes(i)'
<1>1. w \notin behind
  BY DEF Reliable
<1>2. \A v \in Workers \cap behind : UnderWay(v)' <=> UnderWay(v)
  BY <1>1 DEF UnderWay, Replaced, Running
<1>3. Reliable
  BY <1>2 DEF Reliable
<1>4. \A i : Writes(i) => Writes(i)'
  BY <1>1 DEF Writes, Left
<1> QED
  BY <1>3, <1>4

\* The load that a queued run answers for is its own to write from now on...
LEMMA RunQueuedAccounted ==
    ASSUME Shaped, Accounted, NEW w \in Workers, RunQueued(w), Reliable'
    PROVE  AllShown' /\ AllBacked'
<1>1. PICK l \in queued : /\ Begin(w, "incremental", {l})
                          /\ owed' = owed \ {l}
  BY DEF RunQueued
<1>2. /\ ~ Running(w)
      /\ UNCHANGED <<resource, policy, doc, table, host, astray, behind>>
  BY DEF RunQueued, configVars, mappingVars
<1>3. loads > 0
  <2>1. l \in 1 .. loads /\ loads \in Nat
    BY DEF Shaped
  <2> QED
    BY <2>1
<1>4. /\ \A v \in Workers \ {w} : job'[v] = job[v]
      /\ job'[w].mode = "incremental"
  BY <1>1, <1>3, BeginIs
<1>5. Reliable /\ \A i : Writes(i) => Writes(i)'
  BY <1>2, <1>4, QuietReliable DEF UnderWay, Replaced
<1>6. ASSUME NEW id \in Present, Pending(id)
      PROVE  Pending(id)' \/ Filtered(id) \/ Made(id).op = "invalid"
  <2>1. CASE table[id].load = l
    BY <1>1, <1>2, <1>3, <2>1, BeginOwes DEF Pending
  <2>2. CASE table[id].load \in owed /\ table[id].load # l
    BY <1>1, <1>2, <2>2 DEF Pending
  <2>3. CASE \E v \in Workers : Owes(v, id)
    BY <1>2, <1>4, <2>3, OthersOwe DEF Pending
  <2> QED
    BY <1>6, <2>1, <2>2, <2>3 DEF Pending
<1> QED
  BY <1>2, <1>5, <1>6, QuietStep DEF Accounted

\* ...and so are the loads that a sweep collects.
LEMMA SweepAccounted ==
    ASSUME Shaped, Accounted, NEW w \in Workers, Sweep(w), Reliable'
    PROVE  AllShown' /\ AllBacked'
<1>1. /\ Begin(w, "incremental", owed \ queued)
      /\ owed' = owed \cap queued
      /\ owed \ queued # {}
      /\ ~ Running(w)
      /\ UNCHANGED <<resource, policy, doc, table, host, astray, behind>>
  BY DEF Sweep, configVars, mappingVars
<1>2. loads > 0
  <2>1. PICK l \in owed : l \in 1 .. loads /\ loads \in Nat
    BY <1>1 DEF Shaped
  <2> QED
    BY <2>1
<1>3. /\ \A v \in Workers \ {w} : job'[v] = job[v]
      /\ job'[w].mode = "incremental"
  BY <1>1, <1>2, BeginIs
<1>4. Reliable /\ \A i : Writes(i) => Writes(i)'
  BY <1>1, <1>3, QuietReliable DEF UnderWay, Replaced
<1>5. ASSUME NEW id \in Present, Pending(id)
      PROVE  Pending(id)' \/ Filtered(id) \/ Made(id).op = "invalid"
  <2>1. CASE table[id].load \in owed \ queued
    BY <1>1, <1>2, <2>1, BeginOwes DEF Pending
  <2>2. CASE table[id].load \in owed \cap queued
    BY <1>1, <2>2 DEF Pending
  <2>3. CASE \E v \in Workers : Owes(v, id)
    BY <1>1, <1>3, <2>3, OthersOwe DEF Pending
  <2> QED
    BY <1>5, <2>1, <2>2, <2>3 DEF Pending
<1> QED
  BY <1>1, <1>4, <1>5, QuietStep DEF Accounted

\* A replay takes over nothing before its first batch.
LEMMA ReplayAccounted ==
    ASSUME Shaped, Accounted, NEW w \in Workers, Replay(w), Reliable'
    PROVE  AllShown' /\ AllBacked'
<1>1. /\ Begin(w, "full", 1 .. MaxLoads)
      /\ loads > 0
      /\ ~ Running(w)
      /\ UNCHANGED <<resource, policy, doc, table, host, astray, behind, owed>>
  BY DEF Replay, configVars, workVars
<1>2. /\ \A v \in Workers \ {w} : job'[v] = job[v]
      /\ job'[w].next = 1
  BY <1>1, BeginIs
<1>3. Reliable /\ \A i : Writes(i) => Writes(i)'
  BY <1>1, <1>2, QuietReliable DEF UnderWay, Replaced
<1>4. ASSUME NEW id \in Present, Pending(id)
      PROVE  Pending(id)'
  BY <1>1, <1>2, <1>4, OthersOwe DEF Pending
<1> QED
  BY <1>1, <1>3, <1>4, QuietStep DEF Accounted

\* A run that fails owes again what it was to write (runner.py leaves no
\* success behind, and dispatch_pending asks for successes).
LEMMA FailAccounted ==
    ASSUME Shaped, Accounted, NEW w \in Workers, Fail(w), Reliable'
    PROVE  AllShown' /\ AllBacked'
<1>1. /\ owed' = owed \cup (IF job[w].mode = "full" THEN {} ELSE job[w].loads)
      /\ \A v \in Workers \ {w} : job'[v] = job[v]
      /\ job'[w] = NoJob
      /\ UNCHANGED <<resource, policy, doc, table, host, astray, behind>>
  BY DEF Fail, configVars, mappingVars, Shaped
<1>2. Reliable /\ \A i : Writes(i) => Writes(i)'
  BY <1>1, QuietReliable DEF UnderWay, Replaced, Running
<1>3. ASSUME NEW id \in Present, Pending(id)
      PROVE  Pending(id)'
  <2>1. CASE table[id].load \in owed
    BY <1>1, <2>1 DEF Pending
  <2>2. ASSUME NEW v \in Workers, Owes(v, id)
        PROVE  Pending(id)'
    <3>1. CASE v = w
      BY <1>1, <2>2, <3>1 DEF Owes, Pending
    <3>2. CASE v # w
      <4>1. UNCHANGED <<table, job[v]>>
        BY <1>1, <3>2
      <4>2. Owes(v, id)'
        BY <2>2, <4>1 DEF Owes, Running, Left, Current
      <4> QED
        BY <4>2 DEF Pending
    <3> QED
      BY <3>1, <3>2
  <2> QED
    BY <1>3, <2>1, <2>2 DEF Pending
<1> QED
  BY <1>1, <1>2, <1>3, QuietStep DEF Accounted

\* A run that succeeds has written all of its records, a replay too.
LEMMA SucceedAccounted ==
    ASSUME Shaped, ReplayedAsIs, Accounted, NEW w \in Workers, Succeed(w),
           Reliable'
    PROVE  AllShown' /\ AllBacked'
<1>1. /\ Running(w) /\ Remaining(w) = 0 /\ job[w].broken = "no"
      /\ behind' = behind \
          (IF job[w].mode = "full" /\ job[w].records # <<>> THEN {w} ELSE {})
      /\ \A v \in Workers \ {w} : job'[v] = job[v]
      /\ job'[w] = NoJob
      /\ UNCHANGED <<resource, policy, doc, table, host, astray, owed>>
  BY DEF Succeed, configVars, workVars, Shaped
<1>2. PICK S : job[w].records \in Seq(S)
  BY <1>1 DEF Shaped, Shape
<1>3. job[w].next = Len(job[w].records) + 1 /\ Len(job[w].records) \in Nat
  BY <1>1, <1>2 DEF Shaped, Shape, Remaining
<1>4. Left(w) = {}
  BY <1>3 DEF Left
<1>5. w \notin behind'
  BY <1>1 DEF Reliable, UnderWay, Replaced, Running
<1>6. \A v \in (Workers \cap behind) \ {w} : v \in behind' /\ UnderWay(v)
  BY <1>1 DEF Reliable, UnderWay, Replaced, Running
<1>7. Reliable
  <2>1. "edit" \notin behind
    BY <1>1, EditAssumption DEF Reliable
  <2>2. CASE w \notin behind
    BY <1>6, <2>1, <2>2 DEF Reliable
  <2>3. CASE w \in behind
    <3>1. job[w].mode = "full" /\ job[w].records # <<>>
      BY <1>1, <1>5, <2>3
    <3>2. Len(job[w].records) > 0
      BY <1>2, <3>1
    <3>3. job[w].doc = doc
      BY <1>1, <1>3, <2>1, <2>3, <3>1, <3>2 DEF ReplayedAsIs, Replaced
    <3> QED
      BY <1>1, <1>3, <1>6, <2>1, <3>1, <3>2, <3>3
         DEF Reliable, UnderWay, Replaced
  <2> QED
    BY <2>2, <2>3
<1>8. ASSUME NEW i, Writes(i) PROVE Writes(i)'
  BY <1>1, <1>4, <1>6, <1>8 DEF Writes, Left
<1>9. ASSUME NEW id \in Present, Pending(id)
      PROVE  Pending(id)'
  <2>1. ASSUME NEW v \in Workers, Owes(v, id)
        PROVE  Owes(v, id)'
    <3>1. v # w
      BY <1>1, <1>4, <2>1 DEF Owes
    <3> QED
      BY <1>1, <2>1, <3>1 DEF Owes, Running, Left, Current
  <2> QED
    BY <1>1, <1>9, <2>1 DEF Pending
<1> QED
  BY <1>1, <1>7, <1>8, <1>9, QuietStep DEF Accounted

\* Only the loads, the mapping's replay and the rows of one run change at once.
LEMMA LandStep ==
    ASSUME Shaped, Accounted, Land, Reliable'
    PROVE  AllShown' /\ AllBacked'
<1>1. UNCHANGED <<doc, job, behind>>
  BY DEF Land
<1>2. Reliable
  BY <1>1 DEF Reliable, UnderWay, Replaced, Running
<1> QED
  BY <1>2, LandAccounted DEF Accounted

\* With the mapping's edit nothing is promised, unless nothing has landed yet.
LEMMA UpdateStep ==
    ASSUME Shaped, UpdateMapping, Reliable'
    PROVE  AllShown' /\ AllBacked'
<1>1. /\ behind' = behind \cup (IF loads > 0 THEN {"edit"} ELSE {})
      /\ UNCHANGED <<resource, table, loads, host>>
  BY DEF UpdateMapping, configVars
<1>2. loads = 0
  BY <1>1 DEF Reliable, Shaped
<1>3. Present' = {} /\ DOMAIN host = {}
  BY <1>1, <1>2 DEF Shaped, Present, RowIds
<1> QED
  BY <1>1, <1>3 DEF AllShown, AllBacked, Projects

\* With the rows as they were, the others say of them what they said.
LEMMA AccountedStep ==
    ASSUME Shaped, Faithful, ReplayedAsIs, Accounted,
           [ProjectingNext]_projectingVars
    PROVE  Accounted'
<1> SUFFICES ASSUME Reliable' PROVE AllShown' /\ AllBacked'
  BY DEF Accounted
<1>1. CASE ActivateProjection \/ UNCHANGED projectingVars
  <2>1. UNCHANGED <<resource, doc, table, host, astray, behind, owed, job>>
    BY <1>1 DEF ActivateProjection, projectingVars, configVars, mappingVars,
                workVars
  <2>2. Reliable /\ \A i : Writes(i) => Writes(i)'
    BY <2>1 DEF Reliable, UnderWay, Replaced, Running, Writes, Left
  <2>3. \A id : Pending(id) => Pending(id)'
    BY <2>1 DEF Pending, Owes, Running, Left, Current
  <2> QED
    BY <2>1, <2>2, <2>3, QuietStep DEF Accounted
<1> QED
  BY <1>1, LandStep, UpdateStep, RunQueuedAccounted, SweepAccounted,
     ReplayAccounted, WriteAccounted, SucceedAccounted, FailAccounted
     DEF ProjectingNext

-----------------------------------------------------------------------------
(* What runs know *)

\* What a mapping makes of a row, and whether its filter lets it through, is
\* the row's alone.
LEMMA SameMade ==
    ASSUME UNCHANGED resource, NEW d, NEW rec, table'[rec.row] = table[rec.row]
    PROVE  /\ Project(d, rec.row, table[rec.row])'
                = Project(d, rec.row, table[rec.row])
           /\ Matches(d, Columns(rec.row, table[rec.row]))'
                <=> Matches(d, Columns(rec.row, table[rec.row]))
<1>1. ASSUME NEW id, table'[id] = table[id]
      PROVE  /\ Project(d, id, table[id])' = Project(d, id, table[id])
             /\ Matches(d, Columns(id, table[id]))'
                  <=> Matches(d, Columns(id, table[id]))
  BY <1>1 DEF Project, Columns, Business
<1> QED
  BY <1>1

\* What is said of a row stays true while the row is as it was, and is nothing
\* any more when it has been replaced.
LEMMA ToldStays ==
    ASSUME UNCHANGED resource, RowIds' = RowIds, loads \in Nat,
           loads' \in {loads, loads + 1}, NEW d, NEW rec, Told(d, rec),
           \/ table'[rec.row] = table[rec.row]
           \/ table'[rec.row].load = 0
           \/ table'[rec.row].load = loads + 1
    PROVE  Told(d, rec)'
<1>1. rec.row \in RowIds /\ rec.load \in 1 .. loads
  BY DEF Told
<1>2. rec.load \in 1 .. loads'
  BY <1>1
<1>3. ASSUME Current(rec)'
      PROVE  Truthful(d, rec)'
  <2>1. table'[rec.row].load = rec.load
    BY <1>3 DEF Current
  <2>2. table'[rec.row] = table[rec.row]
    BY <1>1, <2>1
  <2>3. Truthful(d, rec)
    BY <2>1, <2>2 DEF Told, Current
  <2> QED
    BY <2>2, <2>3, SameMade DEF Truthful
<1> QED
  BY <1>1, <1>2, <1>3 DEF Told

\* A run begins with records of the rows as they are.
LEMMA BeginFaithful ==
    ASSUME Shaped, Faithful, UNCHANGED <<resource, doc, table, loads>>,
           loads > 0, NEW w \in Workers, NEW mode, NEW S, Begin(w, mode, S)
    PROVE  Faithful'
<1> SUFFICES ASSUME NEW v \in Workers, Running(v)',
                    NEW d \in {job'[v].doc}, NEW rec \in Range(job'[v].records)
             PROVE  Told(d, rec)'
  BY DEF Faithful
<1>1. RowIds' = RowIds /\ loads \in Nat
  BY DEF RowIds, Shaped
<1>2. CASE v # w
  <2>1. job'[v] = job[v]
    BY <1>2, BeginIs
  <2>2. Told(d, rec)
    BY <2>1 DEF Faithful, Running
  <2> QED
    BY <1>1, <2>2, ToldStays
<1>3. CASE v = w
  <2>1. PICK id \in Present : IsRecord(id) /\ rec = Entry(id)
    BY <1>3, BeginIs DEF Range
  <2>2. d = doc
    BY <1>3, BeginIs
  <2>3. /\ rec.row = id
        /\ rec.load = table[id].load
        /\ rec.op = Made(id).op
        /\ rec.id = Made(id).id
        /\ rec.values = Made(id).values
    BY <2>1 DEF Entry
  <2>4. id \in RowIds /\ table[id].load \in 1 .. loads
    BY <2>1 DEF Present, Shaped
  <2>5. Truthful(d, rec)
    BY <2>1, <2>2, <2>3 DEF Truthful, Made, Filtered, IsRecord
  <2>6. Told(d, rec)
    BY <2>3, <2>4, <2>5 DEF Told
  <2> QED
    BY <1>1, <2>6, ToldStays
<1> QED
  BY <1>2, <1>3

\* What the runs in progress have read is true of every row that is as it was.
LEMMA FaithfulStep ==
    ASSUME Shaped, Faithful, [ProjectingNext]_projectingVars
    PROVE  Faithful'
<1>1. CASE Land
  <2>1. /\ UNCHANGED <<resource, job>> /\ loads' = loads + 1
        /\ loads \in Nat
    BY <1>1 DEF Land, configVars, Shaped
  <2> SUFFICES ASSUME NEW w \in Workers, Running(w),
                      NEW d \in {job[w].doc}, NEW rec \in Range(job[w].records)
               PROVE  Told(d, rec)'
    BY <2>1 DEF Faithful, Running
  <2>2. Told(d, rec)
    BY DEF Faithful
  <2>3. /\ RowIds' = RowIds
        /\ \/ table'[rec.row] = table[rec.row]
           \/ table'[rec.row].load = 0
           \/ table'[rec.row].load = loads + 1
    BY <1>1, <2>2, LandRows DEF NoRow, Told
  <2> QED
    BY <2>1, <2>2, <2>3, ToldStays
<1>2. ASSUME UNCHANGED <<resource, table, loads>>,
             \A w \in Workers : Running(w)' =>
                /\ Running(w)
                /\ job'[w].records = job[w].records
                /\ job'[w].doc = job[w].doc
      PROVE  Faithful'
  <2>1. RowIds' = RowIds /\ loads \in Nat
    BY <1>2 DEF RowIds, Shaped
  <2>2. SUFFICES ASSUME NEW w \in Workers, Running(w)',
                        NEW d \in {job'[w].doc},
                        NEW rec \in Range(job'[w].records)
                 PROVE  Told(d, rec)'
    BY DEF Faithful
  <2>3. Told(d, rec)
    BY <1>2, <2>2 DEF Faithful
  <2> QED
    BY <1>2, <2>1, <2>3, ToldStays
<1>3. CASE ActivateProjection \/ UpdateMapping \/ UNCHANGED projectingVars
  BY <1>2, <1>3 DEF ActivateProjection, UpdateMapping, projectingVars,
                    configVars, Running
<1>4. ASSUME NEW w \in Workers, RunQueued(w) PROVE Faithful'
  <2>1. PICK l \in queued : Begin(w, "incremental", {l})
    BY <1>4 DEF RunQueued
  <2>2. l \in 1 .. loads /\ loads \in Nat
    BY DEF Shaped
  <2>3. loads > 0
    BY <2>2
  <2> QED
    BY <1>4, <2>1, <2>3, BeginFaithful DEF RunQueued, configVars, mappingVars
<1>5. ASSUME NEW w \in Workers, Sweep(w) PROVE Faithful'
  <2>1. PICK l \in owed : l \in 1 .. loads /\ loads \in Nat
    BY <1>5 DEF Sweep, Shaped
  <2>2. loads > 0
    BY <2>1
  <2> QED
    BY <1>5, <2>2, BeginFaithful DEF Sweep, configVars, mappingVars
<1>6. ASSUME NEW w \in Workers, Replay(w) PROVE Faithful'
  BY <1>6, BeginFaithful DEF Replay, configVars
<1>7. ASSUME NEW w \in Workers, WriteBatch(w) PROVE Faithful'
  <2>1. UNCHANGED <<resource, table, loads>>
    BY <1>7, WriteIs
  <2>2. ASSUME NEW v \in Workers, Running(v)'
        PROVE  /\ Running(v)
               /\ job'[v].records = job[v].records
               /\ job'[v].doc = job[v].doc
    BY <1>7, <2>2, JobsAfter
  <2> QED
    BY <1>2, <2>1, <2>2
<1>8. ASSUME NEW w \in Workers, Succeed(w) PROVE Faithful'
  BY <1>2, <1>8 DEF Succeed, configVars, Running, Shaped
<1>9. ASSUME NEW w \in Workers, Fail(w) PROVE Faithful'
  BY <1>2, <1>9 DEF Fail, configVars, Running, Shaped
<1> QED
  BY <1>1, <1>3, <1>4, <1>5, <1>6, <1>7, <1>8, <1>9 DEF ProjectingNext

-----------------------------------------------------------------------------
(* What the variables look like *)

\* A run begins in the form that a run has.
LEMMA BeginShaped ==
    ASSUME Shaped, loads > 0, NEW w \in Workers, NEW mode, NEW S,
           Begin(w, mode, S), mode # "full" => S \subseteq 1 .. loads,
           UNCHANGED <<resource, size, table, loads, host>>,
           queued' \subseteq queued, owed' \subseteq owed
    PROVE  Shaped'
<1>1. /\ DOMAIN job' = Workers
      /\ \A v \in Workers \ {w} : job'[v] = job[v]
      /\ Shape(job'[w])
      /\ job'[w].mode = mode /\ job'[w].loads = S
  BY BeginIs
<1>2. RowIds' = RowIds
  BY DEF RowIds
<1>3. ASSUME NEW v \in Workers, Running(v)'
      PROVE  /\ Shape(job'[v])
             /\ job'[v].mode # "full" => job'[v].loads \subseteq 1 .. loads
  <2>1. CASE v = w
    BY <1>1, <2>1
  <2>2. CASE v # w
    BY <1>1, <1>3, <2>2 DEF Shaped, Running
  <2> QED
    BY <2>1, <2>2
<1> QED
  BY <1>1, <1>2, <1>3 DEF Shaped, Shape

\* A package numbers its rows as the last load.
LEMMA LandShaped ==
    ASSUME Shaped, Land
    PROVE  Shaped'
<1>1. /\ UNCHANGED <<resource, size, job, host>>
      /\ loads' = loads + 1 /\ loads \in Nat
      /\ queued' \subseteq queued \cup {loads + 1}
      /\ owed' = owed \cup {loads + 1}
  BY DEF Land, configVars, Shaped
<1>2. /\ loads + 1 \in 1 .. loads'
      /\ 1 .. loads \subseteq 1 .. loads'
      /\ loads' > 0
  BY <1>1
<1>3. ASSUME NEW id \in RowIds'
      PROVE  \/ table'[id] = NoRow
             \/ table'[id] # NoRow /\ table'[id].load \in 1 .. loads'
  <2>1. id \in RowIds
    BY LandRows
  <2>2. CASE table'[id] = table[id]
    BY <1>2, <2>1, <2>2 DEF Shaped
  <2> QED
    BY <1>2, <2>1, <2>2, LandRows
<1>4. ASSUME NEW w \in Workers, Running(w)'
      PROVE  /\ Shape(job[w])
             /\ job[w].mode # "full" => job[w].loads \subseteq 1 .. loads'
  <2>1. /\ Shape(job[w])
        /\ job[w].mode # "full" => job[w].loads \subseteq 1 .. loads
    BY <1>1, <1>4 DEF Shaped, Running
  <2> QED
    BY <1>2, <2>1
<1>5. queued' \subseteq 1 .. loads' /\ owed' \subseteq 1 .. loads'
  BY <1>1, <1>2 DEF Shaped
<1>6. loads' \in Nat /\ loads' # 0
  BY <1>1
<1> QED
  BY <1>1, <1>2, <1>3, <1>4, <1>5, <1>6 DEF Shaped, Shape

\* A batch moves a run on within its records.
LEMMA WriteShaped ==
    ASSUME Shaped, NEW w \in Workers, WriteBatch(w)
    PROVE  Shaped'
<1>1. /\ Running(w) /\ (Full(w) \/ Partial(w))
      /\ job' = [v \in Workers |->
                IF v = w
                THEN [job[w] EXCEPT
                        !.next = UpTo(w) + 1,
                        !.deleted = @ \cup Deletes(Batch(w))]
                ELSE IF Running(v) THEN [job[v] EXCEPT !.alone = FALSE]
                ELSE NoJob]
      /\ UNCHANGED <<resource, size, table, loads, queued, owed>>
  BY WriteIs
<1>3. RowIds' = RowIds /\ loads > 0
  BY <1>1 DEF RowIds, Shaped
<1>4. ASSUME NEW v \in Workers, Running(v)'
      PROVE  /\ Shape(job'[v])
             /\ job'[v].mode # "full" => job'[v].loads \subseteq 1 .. loads
  <2>1. Running(v) /\ Shape(job'[v])
    BY <1>4, JobsAfter
  <2>2. job'[v].mode = job[v].mode /\ job'[v].loads = job[v].loads
    BY <2>1, JobsAfter
  <2> QED
    BY <2>1, <2>2 DEF Shaped
<1> QED
  BY <1>1, <1>3, <1>4 DEF Shaped, Shape

\* What the variables look like survives every step.
LEMMA ShapedStep ==
    ASSUME Shaped, [ProjectingNext]_projectingVars
    PROVE  Shaped'
<1>1. ASSUME UNCHANGED <<resource, size, table, loads, host>>,
             queued' \subseteq queued,
             owed' \subseteq 1 .. loads,
             DOMAIN job' = Workers,
             \A w \in Workers : Running(w)' => job'[w] = job[w]
      PROVE  Shaped'
  <2>1. RowIds' = RowIds
    BY <1>1 DEF RowIds
  <2>2. \A w \in Workers : Running(w)' => Running(w)
    BY <1>1 DEF Running
  <2> QED
    BY <1>1, <2>1, <2>2 DEF Shaped, Shape
<1>2. CASE ActivateProjection \/ UpdateMapping \/ UNCHANGED projectingVars
  BY <1>1, <1>2 DEF ActivateProjection, UpdateMapping, projectingVars,
                    configVars, workVars, Shaped
<1>3. ASSUME NEW w \in Workers, RunQueued(w) PROVE Shaped'
  <2>1. PICK l \in queued : /\ Begin(w, "incremental", {l})
                            /\ queued' = queued \ {l}
                            /\ owed' = owed \ {l}
    BY <1>3 DEF RunQueued
  <2>2. l \in 1 .. loads /\ loads \in Nat
    BY DEF Shaped
  <2>3. loads > 0 /\ {l} \subseteq 1 .. loads
    BY <2>2
  <2> QED
    BY <1>3, <2>1, <2>3, BeginShaped DEF RunQueued, configVars
<1>4. ASSUME NEW w \in Workers, Sweep(w) PROVE Shaped'
  <2>1. PICK l \in owed : l \in 1 .. loads /\ loads \in Nat
    BY <1>4 DEF Sweep, Shaped
  <2>2. loads > 0 /\ owed \ queued \subseteq 1 .. loads
    BY <2>1 DEF Shaped
  <2> QED
    BY <1>4, <2>2, BeginShaped DEF Sweep, configVars, mappingVars
<1>5. ASSUME NEW w \in Workers, Replay(w) PROVE Shaped'
  BY <1>5, BeginShaped DEF Replay, configVars, workVars
<1>6. ASSUME NEW w \in Workers, Succeed(w) PROVE Shaped'
  BY <1>1, <1>6 DEF Succeed, configVars, workVars, Running, Shaped
<1>7. ASSUME NEW w \in Workers, Fail(w) PROVE Shaped'
  BY <1>1, <1>7 DEF Fail, configVars, Running, Shaped
<1> QED
  BY <1>2, <1>3, <1>4, <1>5, <1>6, <1>7, LandShaped, WriteShaped
     DEF ProjectingNext

-----------------------------------------------------------------------------
(* What the host shows *)

\* Without an edit that waits for its replay, a replay that has replaced what
\* was there has the mapping as it is.
LEMMA ReplayedStep ==
    ASSUME Shaped, ReplayedAsIs, [ProjectingNext]_projectingVars
    PROVE  ReplayedAsIs'
<1> SUFFICES ASSUME "edit" \notin behind', NEW w \in Workers, w \in behind',
                    Replaced(w)'
             PROVE  job'[w].doc = doc'
  BY DEF ReplayedAsIs
<1>1. ASSUME "edit" \notin behind, w \in behind, Replaced(w),
             UNCHANGED <<doc, job[w].doc>>
      PROVE  job'[w].doc = doc'
  BY <1>1 DEF ReplayedAsIs
<1>2. CASE Land \/ ActivateProjection \/ UNCHANGED projectingVars
  BY <1>1, <1>2 DEF Land, ActivateProjection, projectingVars, mappingVars,
                    Replaced, Running
<1>3. CASE UpdateMapping
  <2>1. loads = 0 /\ job' = job
    BY <1>3 DEF UpdateMapping, Shaped
  <2> QED
    BY <2>1 DEF Replaced, Running, Shaped
<1>4. ASSUME NEW v \in Workers, NEW mode, NEW S, Begin(v, mode, S), loads > 0,
             UNCHANGED <<doc, behind>>
      PROVE  job'[w].doc = doc'
  <2>1. /\ \A u \in Workers \ {v} : job'[u] = job[u]
        /\ job'[v].next = 1
    BY <1>4, BeginIs
  <2> QED
    BY <1>1, <1>4, <2>1 DEF Replaced, Running
<1>5. ASSUME NEW v \in Workers, RunQueued(v) PROVE job'[w].doc = doc'
  <2>1. PICK l \in queued : Begin(v, "incremental", {l})
    BY <1>5 DEF RunQueued
  <2>2. l \in 1 .. loads /\ loads \in Nat
    BY DEF Shaped
  <2> QED
    BY <1>4, <1>5, <2>1, <2>2 DEF RunQueued, mappingVars
<1>6. ASSUME NEW v \in Workers, Sweep(v) PROVE job'[w].doc = doc'
  <2>1. PICK l \in owed : l \in 1 .. loads /\ loads \in Nat
    BY <1>6 DEF Sweep, Shaped
  <2> QED
    BY <1>4, <1>6, <2>1 DEF Sweep, mappingVars
<1>7. ASSUME NEW v \in Workers, Replay(v) PROVE job'[w].doc = doc'
  BY <1>4, <1>7 DEF Replay
<1>8. ASSUME NEW v \in Workers, WriteBatch(v) PROVE job'[w].doc = doc'
  <2>1. /\ behind' = (IF Replaces(v) THEN {v} ELSE behind) \cup
                        (IF job[v].doc # doc THEN {"edit"} ELSE {})
        /\ Running(v) /\ (Full(v) \/ Partial(v)) /\ doc' = doc
    BY <1>8, WriteIs
  <2>2. job[v].doc = doc
    BY <2>1
  <2>3. CASE w = v
    BY <1>8, <2>1, <2>2, <2>3, JobsAfter
  <2>4. CASE w # v
    <3>1. w \in behind /\ "edit" \notin behind
      BY <2>1, <2>4
    <3>2. Running(w)
      BY <1>8, JobsAfter DEF Replaced
    <3>3. Replaced(w) /\ job'[w].doc = job[w].doc
      BY <1>8, <2>4, <3>2, JobsAfter DEF Replaced
    <3> QED
      BY <1>1, <2>1, <3>1, <3>3
  <2> QED
    BY <2>3, <2>4
<1>9. ASSUME NEW v \in Workers, Succeed(v) \/ Fail(v) PROVE job'[w].doc = doc'
  <2>1. /\ job' = [job EXCEPT ![v] = NoJob]
        /\ behind' = behind \/ behind' = behind \ {v}
        /\ doc' = doc
    BY <1>9 DEF Succeed, Fail, mappingVars
  <2>2. w # v
    BY <2>1 DEF Replaced, Running, Shaped
  <2>3. w \in behind /\ "edit" \notin behind
    BY <2>1, EditAssumption
  <2> QED
    BY <1>1, <2>1, <2>2, <2>3 DEF Replaced, Running
<1> QED
  BY <1>2, <1>3, <1>5, <1>6, <1>7, <1>8, <1>9 DEF ProjectingNext

HostInv == Shaped /\ Faithful /\ ReplayedAsIs /\ Accounted

\* Nothing has landed, and the host has nothing.
LEMMA HostInit == ProjectingInit => HostInv
<1> SUFFICES ASSUME ProjectingInit PROVE HostInv
  OBVIOUS
<1>1. Shaped
  <2>1. \A id \in RowIds : table[id] = NoRow
    BY DEF ProjectingInit
  <2>2. size \in Nat \ {0} /\ resource \in Resources
    BY SizesAssumption DEF ProjectingInit
  <2>3. \A w \in Workers : ~ Running(w)
    BY DEF ProjectingInit, Running
  <2> QED
    BY <2>1, <2>2, <2>3 DEF ProjectingInit, Shaped
<1>2. Faithful /\ ReplayedAsIs
  BY DEF ProjectingInit, Faithful, ReplayedAsIs, Running, Replaced
<1>3. Present = {} /\ DOMAIN host = {}
  BY DEF Present, ProjectingInit
<1>4. Accounted
  BY <1>3 DEF Accounted, AllShown, AllBacked, Projects
<1> QED
  BY <1>1, <1>2, <1>4 DEF HostInv

\* The invariant is inductive.
LEMMA HostStep == HostInv /\ [ProjectingNext]_projectingVars => HostInv'
BY ShapedStep, FaithfulStep, ReplayedStep, AccountedStep DEF HostInv

\* Where nothing is owed, runs or waits for a replay, only the host is left to
\* account for a row.
LEMMA HostShows == HostInv => HostShowsLanding
<1> SUFFICES ASSUME HostInv, behind = {}, owed = {},
                    \A w \in Workers : ~ Running(w)
             PROVE  LET shown == {Made(id).id : id \in Projects}
                    IN  /\ \A id \in Projects :
                              LET i == Made(id).id
                              IN  \/ i \in Muted \cup astray
                                  \/ /\ i \in DOMAIN host
                                     /\ host[i] = Made(id).values
                        /\ DOMAIN host \subseteq shown \cup Muted \cup astray
  BY DEF HostShowsLanding
<1>1. AllShown /\ AllBacked
  BY DEF HostInv, Accounted, Reliable
<1>2. \A id : ~ Pending(id)
  BY DEF Pending, Owes
<1>3. \A i : ~ Writes(i)
  BY DEF Writes
<1>4. ASSUME NEW id \in Projects
      PROVE  \/ Made(id).id \in Muted \cup astray
             \/ /\ Made(id).id \in DOMAIN host
                /\ host[Made(id).id] = Made(id).values
  BY <1>1, <1>2, <1>3 DEF AllShown, Shown
<1>5. ASSUME NEW i \in DOMAIN host
      PROVE  i \in {Made(id).id : id \in Projects} \cup Muted \cup astray
  BY <1>1, <1>2 DEF AllBacked, Backed
<1> QED
  BY <1>4, <1>5

\* When no run is left to do, the host shows what has landed under the mapping
\* as it is (runner.py, services/runs.py _after_success, dispatch_pending and
\* replay_projection together), for every number of workers and packages, every
\* batch size, policy, mapping and interleaving.
THEOREM HostIsRight == ProjectingSpec => []HostShowsLanding
<1>1. ProjectingSpec => []HostInv
  BY HostInit, HostStep, PTL DEF ProjectingSpec
<1> QED
  BY <1>1, HostShows, PTL

-----------------------------------------------------------------------------
(* Where a run's batches are cut *)

\* A run that nobody wrote beside has made of the host it began with what one
\* batch of the records it has written would have made of it.
Handed(w) == SubSeq(job[w].records, 1, job[w].next - 1)
InStep(w, start) ==
    /\ job[w].atOnce = IF job[w].records = <<>> THEN start
                       ELSE Written(start, Collapse(job[w].records, {}),
                                    job[w].mode = "full")
    /\ job[w].deleted = Deletes(Handed(w))
    /\ host = IF job[w].next = 1 THEN start
              ELSE Written(start, Collapse(Handed(w), {}),
                           job[w].mode = "full")
AllInStep ==
    \A w \in Workers : Running(w) /\ job[w].alone => \E start : InStep(w, start)

\* A run begins with the host as it is, and has deleted nothing.
LEMMA InStepBegun ==
    ASSUME Shaped, loads > 0, NEW w \in Workers, NEW mode, NEW S,
           Begin(w, mode, S), UNCHANGED host, NEW start, start = host
    PROVE  InStep(w, start)'
<1>1. /\ Shape(job'[w])
      /\ job'[w].mode = mode
      /\ job'[w].next = 1 /\ job'[w].deleted = {}
      /\ job'[w].atOnce = IF job'[w].records = <<>> THEN host
                          ELSE Written(host, Collapse(job'[w].records, {}),
                                       mode = "full")
  BY BeginIs
<1>2. Deletes(Handed(w))' = {}
  <2>1. PICK C : job'[w].records \in Seq(C)
    BY <1>1 DEF Shape
  <2>2. Handed(w)' = SubSeq(job'[w].records, 1, 0)
    BY <1>1 DEF Handed
  <2>3. DOMAIN SubSeq(job'[w].records, 1, 0) = {}
    BY <2>1
  <2> QED
    BY <2>2, <2>3 DEF Deletes
<1> QED
  BY <1>1, <1>2 DEF InStep

\* A batch more, and the host is what one batch as long would have made of it.
LEMMA InStepWritten ==
    ASSUME Shaped, NEW w \in Workers, WriteBatch(w), NEW start, InStep(w, start)
    PROVE  InStep(w, start)'
<1> DEFINE all == job[w].records
           k == job[w].next
           l == UpTo(w)
           before == SubSeq(all, 1, k - 1)
           batch == SubSeq(all, k, l)
           full == job[w].mode = "full"
<1>1. /\ Running(w) /\ (Full(w) \/ Partial(w))
      /\ host' = Written(host, Collapse(batch, job[w].deleted),
                         full /\ k = 1)
  BY WriteIs DEF Batch, Replaces
<1>2. /\ UNCHANGED <<job[w].mode, job[w].records, job[w].atOnce>>
      /\ job'[w].next = l + 1
      /\ job'[w].deleted = job[w].deleted \cup Deletes(batch)
  BY <1>1, JobsAfter DEF Batch
<1>3. PICK C : all \in Seq(C)
  BY <1>1 DEF Shaped, Shape
<1>4. /\ Len(all) \in Nat /\ k \in 1 .. Len(all) + 1 /\ l \in k .. Len(all)
  BY <1>1, <1>3, BatchIs DEF Shaped, Shape
<1>5. /\ job[w].deleted = Deletes(before)
      /\ host = IF k = 1 THEN start
                ELSE Written(start, Collapse(before, {}), full)
      /\ job[w].atOnce = IF all = <<>> THEN start
                         ELSE Written(start, Collapse(all, {}), full)
  BY DEF InStep, Handed
<1> DEFINE read == SubSeq(all, 1, l)
<1>6. Handed(w)' = read
  <2>1. job'[w].records = all
    BY <1>2
  <2>2. job'[w].next - 1 = l
    <3> HIDE DEF l
    <3> QED
      BY <1>2, <1>4
  <2> HIDE DEF all, l
  <2> QED
    BY <2>1, <2>2 DEF Handed
<1> HIDE DEF all, k, l
<1>7. SUFFICES /\ job[w].deleted \cup Deletes(batch) = Deletes(read)
               /\ host' = Written(start, Collapse(read, {}), full)
  BY <1>2, <1>4, <1>5, <1>6 DEF InStep, all, k, l
<1>8. CASE k = 1
  <2>1. batch = read
    BY <1>8
  <2>2. Deletes(before) = {}
    <3>1. DOMAIN before = {}
      BY <1>3, <1>8
    <3> QED
      BY <3>1 DEF Deletes
  <2> HIDE DEF batch, before, read
  <2>3. host' = Written(start, Collapse(read, {}), full)
    BY <1>1, <1>5, <1>8, <2>1, <2>2
  <2> QED
    BY <1>5, <2>1, <2>2, <2>3
<1>9. CASE k # 1
  <2>1. before \in Seq(C) /\ batch \in Seq(C)
    <3>1. k \in Int /\ k - 1 \in Int /\ l \in Int /\ 1 \in Int
      BY <1>4
    <3>2. \A i \in 1 .. Len(all) : all[i] \in C
      BY <1>3
    <3>3. /\ \A i \in 1 .. k - 1 : all[i] \in C
          /\ \A i \in k .. l : all[i] \in C
      BY <1>4, <3>2
    <3>4. before \in Seq(C)
      BY <3>1, <3>3, SubSeqProperties
    <3>5. batch \in Seq(C)
      BY <3>1, <3>3, SubSeqProperties
    <3> QED
      BY <3>4, <3>5
  <2>2. before \o batch = read
    <3>1. /\ 1 \in 1 .. Len(all) + 1 /\ k - 1 \in 1 - 1 .. Len(all)
          /\ l \in k - 1 .. Len(all) /\ k - 1 + 1 = k
      BY <1>4
    <3> QED
      BY <1>3, <3>1, ConcatAdjacentSubSeq
  <2> DEFINE gone == job[w].deleted
             first == IF full THEN <<>> ELSE start
  <2> HIDE DEF batch, before, read, full
  <2>3. /\ gone = Deletes(before)
        /\ host = Merged(first, Collapse(before, {}))
        /\ host' = Merged(host, Collapse(batch, gone))
    BY <1>1, <1>5, <1>9 DEF Written
  <2> HIDE DEF gone, first
  <2>4. gone \cup Collapse(batch, gone).deletes = Deletes(before \o batch)
    BY <2>1, <2>3, OneMoreBatch
  <2>5. Merged(Merged(first, Collapse(before, {})), Collapse(batch, gone))
          = Merged(first, Collapse(before \o batch, {}))
    BY <2>1, <2>3, OneMoreBatch
  <2>6. Collapse(batch, gone).deletes = Deletes(batch)
    BY DEF Collapse, Collapsed
  <2>7. host' = Written(start, Collapse(read, {}), full)
    <3>1. host' = Merged(first, Collapse(read, {}))
      BY <2>2, <2>3, <2>5
    <3> QED
      BY <3>1 DEF Written, first
  <2> QED
    BY <2>2, <2>4, <2>6, <2>7 DEF gone
<1> HIDE DEF batch, before, read, full
<1> QED
  BY <1>8, <1>9

\* Nobody but its own run touches what the host had when the run began, or
\* the run is not alone any more.
LEMMA InStepStep ==
    ASSUME Shaped, AllInStep, [ProjectingNext]_projectingVars
    PROVE  AllInStep'
<1>1. ASSUME UNCHANGED host,
             \A w \in Workers : Running(w)' => Running(w) /\ job'[w] = job[w]
      PROVE  AllInStep'
  BY <1>1 DEF AllInStep, InStep, Handed
<1>2. ASSUME NEW v \in Workers, NEW mode, NEW S, Begin(v, mode, S), loads > 0,
             UNCHANGED host
      PROVE  AllInStep'
  <2> SUFFICES ASSUME NEW w \in Workers, (Running(w) /\ job[w].alone)'
               PROVE  \E start : InStep(w, start)'
    BY DEF AllInStep
  <2>1. CASE w = v
    <3>1. PICK start : start = host
      OBVIOUS
    <3>2. InStep(w, start)'
      BY <1>2, <2>1, <3>1, InStepBegun
    <3> QED
      BY <3>2
  <2>2. CASE w # v
    <3>1. job'[w] = job[w]
      BY <1>2, <2>2, BeginIs
    <3>2. PICK start : InStep(w, start)
      BY <3>1 DEF AllInStep, Running
    <3>3. InStep(w, start)'
      BY <1>2, <3>1, <3>2 DEF InStep, Handed
    <3> QED
      BY <3>3
  <2> QED
    BY <2>1, <2>2
<1>3. CASE Land \/ ActivateProjection \/ UpdateMapping
              \/ UNCHANGED projectingVars
  BY <1>1, <1>3 DEF Land, ActivateProjection, UpdateMapping, projectingVars,
                    Running
<1>4. ASSUME NEW w \in Workers, RunQueued(w) PROVE AllInStep'
  <2>1. PICK l \in queued : Begin(w, "incremental", {l})
    BY <1>4 DEF RunQueued
  <2>2. l \in 1 .. loads /\ loads \in Nat
    BY DEF Shaped
  <2> QED
    BY <1>2, <1>4, <2>1, <2>2 DEF RunQueued
<1>5. ASSUME NEW w \in Workers, Sweep(w) PROVE AllInStep'
  <2>1. PICK l \in owed : l \in 1 .. loads /\ loads \in Nat
    BY <1>5 DEF Sweep, Shaped
  <2> QED
    BY <1>2, <1>5, <2>1 DEF Sweep
<1>6. ASSUME NEW w \in Workers, Replay(w) PROVE AllInStep'
  BY <1>2, <1>6 DEF Replay
<1>7. ASSUME NEW v \in Workers, WriteBatch(v) PROVE AllInStep'
  <2> SUFFICES ASSUME NEW w \in Workers, (Running(w) /\ job[w].alone)'
               PROVE  \E start : InStep(w, start)'
    BY DEF AllInStep
  <2>1. w = v /\ Running(w) /\ job[w].alone
    BY <1>7, JobsAfter
  <2>2. PICK start : InStep(w, start)
    BY <2>1 DEF AllInStep
  <2>3. InStep(w, start)'
    BY <1>7, <2>1, <2>2, InStepWritten
  <2> QED
    BY <2>3
<1>8. ASSUME NEW w \in Workers, Succeed(w) \/ Fail(w) PROVE AllInStep'
  <2>1. job' = [job EXCEPT ![w] = NoJob] /\ UNCHANGED host
    BY <1>8 DEF Succeed, Fail
  <2> QED
    BY <1>1, <2>1 DEF Running, Shaped
<1> QED
  BY <1>3, <1>4, <1>5, <1>6, <1>7, <1>8 DEF ProjectingNext

\* A run that has written all its records has written them at once.
LEMMA EndsAtOnce ==
    ASSUME Shaped, AllInStep, NEW w \in Workers, Succeed(w), job[w].alone
    PROVE  host = job[w].atOnce
<1>1. Running(w) /\ Remaining(w) = 0
  BY DEF Succeed
<1>2. PICK C : job[w].records \in Seq(C)
  BY <1>1 DEF Shaped, Shape
<1>3. Len(job[w].records) \in Nat /\ job[w].next = Len(job[w].records) + 1
  BY <1>1, <1>2 DEF Shaped, Shape, Remaining
<1>4. PICK start : InStep(w, start)
  BY <1>1 DEF AllInStep
<1>5. Handed(w) = job[w].records
  <2>1. job[w].next - 1 = Len(job[w].records)
    BY <1>3
  <2> QED
    BY <1>2, <2>1, SubSeqFull DEF Handed
<1>6. job[w].next = 1 <=> job[w].records = <<>>
  BY <1>2, <1>3
<1> QED
  BY <1>4, <1>5, <1>6 DEF InStep

\* A run that nobody wrote beside leaves the host what one batch of all its
\* records would have left (runner.py _run and _collapse), for every batch size
\* and every mapping.
THEOREM BatchesAreOne == ProjectingSpec => BatchesDoNotMatter
<1>1. ProjectingInit => Shaped /\ AllInStep
  BY HostInit DEF HostInv, ProjectingInit, AllInStep, Running
<1>2. Shaped /\ AllInStep /\ [ProjectingNext]_projectingVars
        => (Shaped /\ AllInStep)'
  BY ShapedStep, InStepStep
<1>3. Shaped /\ AllInStep /\ [ProjectingNext]_projectingVars
        => [\A w \in Workers : Succeed(w) /\ job[w].alone
               => host = job[w].atOnce]_projectingVars
  BY EndsAtOnce
<1> QED
  BY <1>1, <1>2, <1>3, PTL DEF ProjectingSpec, BatchesDoNotMatter

-----------------------------------------------------------------------------
(* Tombstones *)

\* What a leaf makes of a row comes from the column that it names...
LEMMA LeafReads ==
    ASSUME NEW leaf, LeafCompiles(leaf), NEW a, NEW b, DOMAIN a = DOMAIN b,
           \A c \in ColumnOf(leaf) : a[c] = b[c]
    PROVE  EvaluateLeaf(leaf, a) = EvaluateLeaf(leaf, b)
<1>1. CASE Is(leaf, "constant")
  BY <1>1 DEF EvaluateLeaf
<1>2. CASE Is(leaf, "source")
  <2>1. a[leaf.source] = b[leaf.source]
    BY <1>2 DEF ColumnOf
  <2>2. EvaluateSource(leaf, a) = EvaluateSource(leaf, b)
    BY <2>1 DEF EvaluateSource
  <2> QED
    BY <2>2 DEF EvaluateLeaf
<1> QED
  BY <1>1, <1>2 DEF LeafCompiles

\* ...and what a node makes of it, from the columns of its leaves.
LEMMA NodeReads ==
    ASSUME NEW node, NodeCompiles(node), NEW a, NEW b, DOMAIN a = DOMAIN b,
           \A c \in SourceColumns(node) : a[c] = b[c]
    PROVE  Evaluate(node, a) = Evaluate(node, b)
<1>1. ~ (Is(node, "object") /\ Is(node, "function"))
  BY DEF Is
<1>2. CASE Is(node, "object")
  <2>1. ~ LeafCompiles(node)
    BY <1>2 DEF LeafCompiles, Is
  <2>2. \A key \in DOMAIN node.object : LeafCompiles(node.object[key])
    BY <1>1, <1>2, <2>1 DEF NodeCompiles
  <2>3. SourceColumns(node) =
           UNION {ColumnOf(node.object[key]) : key \in DOMAIN node.object}
    BY <1>1, <1>2 DEF SourceColumns
  <2>4. \A key \in DOMAIN node.object :
           EvaluateLeaf(node.object[key], a) = EvaluateLeaf(node.object[key], b)
    BY <2>2, <2>3, LeafReads
  <2>5. {EvaluateLeaf(node.object[key], a) : key \in DOMAIN node.object}
          = {EvaluateLeaf(node.object[key], b) : key \in DOMAIN node.object}
    BY <2>4
  <2>6. \A cols : Evaluate(node, cols) =
           EvaluateObject({EvaluateLeaf(node.object[key], cols) :
                              key \in DOMAIN node.object})
    BY <1>1, <1>2 DEF Evaluate
  <2> QED
    BY <2>5, <2>6
<1>3. CASE Is(node, "function")
  <2>1. ~ LeafCompiles(node)
    BY <1>3 DEF LeafCompiles, Is
  <2>2. \A n \in DOMAIN node.args : LeafCompiles(node.args[n])
    BY <1>1, <1>3, <2>1 DEF NodeCompiles
  <2>3. SourceColumns(node) =
           UNION {ColumnOf(node.args[n]) : n \in DOMAIN node.args}
    BY <1>1, <1>3 DEF SourceColumns
  <2>4. \A n \in DOMAIN node.args :
           EvaluateLeaf(node.args[n], a) = EvaluateLeaf(node.args[n], b)
    BY <2>2, <2>3, LeafReads
  <2>5. [n \in DOMAIN node.args |-> EvaluateLeaf(node.args[n], a)]
          = [n \in DOMAIN node.args |-> EvaluateLeaf(node.args[n], b)]
    BY <2>4
  <2>6. \A cols : Evaluate(node, cols) =
           Apply(node, [n \in DOMAIN node.args |->
                          EvaluateLeaf(node.args[n], cols)])
    BY <1>1, <1>3 DEF Evaluate
  <2> QED
    BY <2>5, <2>6
<1>4. CASE ~ Is(node, "object") /\ ~ Is(node, "function")
  <2>1. LeafCompiles(node)
    BY <1>4 DEF NodeCompiles
  <2>2. SourceColumns(node) = ColumnOf(node)
    BY <1>4 DEF SourceColumns
  <2>3. \A cols : Evaluate(node, cols) = EvaluateLeaf(node, cols)
    BY <1>4 DEF Evaluate
  <2> QED
    BY <2>1, <2>2, <2>3, LeafReads
<1> QED
  BY <1>2, <1>3, <1>4

\* What the validator asks of a mapping keeps a tombstone within the columns it
\* has: where a landed row of a key becomes a record, a tombstone of that key
\* deletes the same one, and does not break the run (validator.py
\* _check_identity_is_obtainable, runner.py _project).
THEOREM TombstoneNamesItsRow ==
    ASSUME NEW d, Errors(d, Target, Landed) = {}, loads > 0,
           resource # "wide",
           "_connector_deleted" \notin IdentityColumns(d, Target),
           NEW id, NEW live, ~ live.gone, NEW tombstone, tombstone.gone,
           Project(d, id, live).op = "upsert"
    PROVE  /\ Project(d, id, tombstone).op = "delete"
           /\ Project(d, id, tombstone).id = Project(d, id, live).id
<1> DEFINE cols == Columns(id, live)
           gone == Columns(id, tombstone)
           all == [f \in DOMAIN d.mapping |->
                     CoerceField(f, Evaluate(d.mapping[f], cols))]
           some == [f \in DOMAIN d.mapping \cap Target.identity |->
                     CoerceField(f, Evaluate(d.mapping[f], gone))]
<1>1. Compiles(d) /\ ~ Unobtainable(d, Target, Landed.key)
  <2>1. "obtainable" \notin Errors(d, Target, Landed)
    OBVIOUS
  <2>2. Compiles(d)
    BY DEF Errors
  <2>3. Landed.known /\ Landed.emits
    BY DEF Landed
  <2> QED
    BY <2>1, <2>2, <2>3 DEF Errors
<1>2. Landed.key = {"id"}
  BY DEF Landed, MergeKey, Business
<1>3. IdentityColumns(d, Target) \subseteq {"id", "_connector_binding_id"}
  BY <1>1, <1>2 DEF Unobtainable, InternalColumns
<1>4. /\ DOMAIN cols = DOMAIN gone
      /\ \A c \in {"id", "_connector_binding_id"} : cols[c] = gone[c]
  BY DEF Columns, Business, InternalColumns
<1> HIDE DEF cols, gone
<1>5. ASSUME NEW f \in DOMAIN d.mapping \cap Target.identity
      PROVE  Evaluate(d.mapping[f], gone) = Evaluate(d.mapping[f], cols)
  <2>1. NodeCompiles(d.mapping[f])
    BY <1>1 DEF Compiles
  <2>2. SourceColumns(d.mapping[f]) \subseteq {"id", "_connector_binding_id"}
    BY <1>3 DEF IdentityColumns, IdentityNodes
  <2> QED
    BY <1>4, <2>1, <2>2, NodeReads
<1>6. \A f \in DOMAIN some : f \in DOMAIN all /\ some[f] = all[f]
  BY <1>5
<1>7. \A f \in Target.identity : f \in DOMAIN some <=> f \in DOMAIN all
  OBVIOUS
<1>8. Project(d, id, live) = Record(FALSE, all)
  BY DEF Project, cols, Record, Outcome
<1>9. Project(d, id, tombstone) = Record(TRUE, some)
  BY DEF Project, gone, Record, Outcome
<1> HIDE DEF all, some
<1>10. Named(some) = Named(all)
  BY <1>6, <1>7 DEF Named
<1>11. /\ \A f \in DOMAIN all : all[f] # NoColumn /\ ~ Failed(all[f])
       /\ ~ Lacks(Named(all), Target.identity)
  BY <1>8 DEF Record, Outcome
<1>12. Outcome(TRUE, some) = "delete"
  BY <1>6, <1>10, <1>11 DEF Outcome
<1>13. /\ Record(TRUE, some).op = "delete"
       /\ Record(TRUE, some).id = Named(some)
       /\ Record(FALSE, all).id = Named(all)
  BY <1>12 DEF Record
<1> HIDE DEF Record, Project
<1> QED
  BY <1>8, <1>9, <1>10, <1>13

\* Mappings that make a record of some row of every key.  What no row of a key
\* can be, its tombstone cannot either.
KeysSpeak ==
    resource # "wide" =>
        \A d \in Docs[resource] : Errors(d, Target, Landed) = {} =>
            /\ "_connector_deleted" \notin IdentityColumns(d, Target)
            /\ \A id \in RowIds : \E n \in 1 .. MaxLoads, c \in Contents :
                  Project(d, id, [load |-> n, gone |-> FALSE, tag |-> c]).op
                      = "upsert"

\* The stages of a case are emptied, and never deleted.
NoneGone == resource = "wide" => \A id \in RowIds : ~ table[id].gone
Tombstones ==
    Shaped /\ doc \in Docs[resource] /\ NoneGone /\ TombstonesProject

\* A run of a mapping that is accepted is not ended by a tombstone.
LEMMA BeginAccepts ==
    ASSUME Tombstones, KeysSpeak, loads > 0, NEW w \in Workers, NEW mode, NEW S,
           Begin(w, mode, S), job'[w].errors = {}
    PROVE  job'[w].broken # "tombstone"
<1>1. ASSUME NEW rows, NEW broken, Reads(w, mode, S, rows, broken)
      PROVE  /\ job'[w].broken = broken
             /\ job'[w].errors = Errors(doc, Target, Landed)
  <2>1. PICK order \in Ordered(rows) :
           job' = [job EXCEPT ![w] =
                     Begun(mode, S, [n \in DOMAIN order |-> Entry(order[n])],
                           broken)]
    BY <1>1 DEF Reads
  <2> DEFINE records == [n \in DOMAIN order |-> Entry(order[n])]
  <2>2. job'[w] = Begun(mode, S, records, broken)
    BY <2>1 DEF Tombstones, Shaped
  <2> HIDE DEF records
  <2> QED
    BY <2>2 DEF Begun
<1>2. SUFFICES ASSUME NEW end \in Present, EndsTheRun(end), table[end].gone,
                      NEW rows, Reads(w, mode, S, rows, "tombstone")
               PROVE  FALSE
  <2>1. ASSUME Reads(w, mode, S,
                     {id \in {id \in Present : table[id].load \in S} :
                        IsRecord(id)}, "no")
        PROVE  job'[w].broken # "tombstone"
    BY <1>1, <2>1
  <2>2. ASSUME NEW end \in Present, EndsTheRun(end), NEW rows,
               Reads(w, mode, S, rows,
                     IF table[end].gone THEN "tombstone" ELSE "row"),
               job'[w].broken = "tombstone"
        PROVE  FALSE
    <3>1. job'[w].broken = IF table[end].gone THEN "tombstone" ELSE "row"
      BY <1>1, <2>2
    <3> QED
      BY <1>2, <2>2, <3>1
  <2> QED
    BY <2>1, <2>2 DEF Begin
<1>3. Errors(doc, Target, Landed) = {}
  BY <1>1, <1>2
<1>4. end \in RowIds /\ doc \in Docs[resource] /\ resource # "wide"
  BY <1>2 DEF Tombstones, NoneGone, Present
<1>5. /\ "_connector_deleted" \notin IdentityColumns(doc, Target)
      /\ \E n \in 1 .. MaxLoads, c \in Contents :
            Project(doc, end, [load |-> n, gone |-> FALSE, tag |-> c]).op
                = "upsert"
  BY <1>3, <1>4 DEF KeysSpeak
<1>6. PICK n \in 1 .. MaxLoads, c \in Contents :
         Project(doc, end, [load |-> n, gone |-> FALSE, tag |-> c]).op
             = "upsert"
  BY <1>5
<1> DEFINE live == [load |-> n, gone |-> FALSE, tag |-> c]
<1>7. ~ live.gone /\ Project(doc, end, live).op = "upsert"
  BY <1>6
<1> HIDE DEF live
<1>8. Project(doc, end, table[end]).op = "delete"
  BY <1>2, <1>3, <1>4, <1>5, <1>7, TombstoneNamesItsRow
<1> QED
  BY <1>2, <1>8 DEF EndsTheRun, Made

\* No step makes a tombstone end a run of a mapping that is accepted.
LEMMA TombstonesStep ==
    ASSUME Tombstones, KeysSpeak, [ProjectingNext]_projectingVars
    PROVE  Tombstones'
<1>1. Shaped'
  BY ShapedStep DEF Tombstones
<1>a. /\ resource' = resource
      /\ doc' = doc \/ doc' \in Docs[resource]
      /\ Land \/ table' = table
  <2>1. CASE Land \/ ActivateProjection \/ UNCHANGED projectingVars
    BY <2>1 DEF Land, ActivateProjection, projectingVars, configVars,
                mappingVars
  <2>2. CASE UpdateMapping
    BY <2>2 DEF UpdateMapping, configVars
  <2>3. ASSUME NEW w \in Workers, RunQueued(w) \/ Sweep(w) \/ Replay(w)
        PROVE  UNCHANGED <<resource, doc, table>>
    BY <2>3 DEF RunQueued, Sweep, Replay, configVars, mappingVars
  <2>4. ASSUME NEW w \in Workers, WriteBatch(w)
        PROVE  UNCHANGED <<resource, doc, table>>
    BY <2>4, WriteIs
  <2>5. ASSUME NEW w \in Workers, Succeed(w) \/ Fail(w)
        PROVE  UNCHANGED <<resource, doc, table>>
    BY <2>5 DEF Succeed, Fail, configVars, mappingVars
  <2> QED
    BY <2>1, <2>2, <2>3, <2>4, <2>5 DEF ProjectingNext
<1>2. doc' \in Docs[resource']
  BY <1>a DEF Tombstones
<1>3. NoneGone'
  <2>1. CASE Land
    <3>1. resource' = resource /\ RowIds' = RowIds
      BY <2>1, LandRows DEF Land, configVars, Tombstones
    <3>2. SUFFICES ASSUME resource = "wide"
                   PROVE  \A id \in RowIds : ~ table'[id].gone
      BY <3>1 DEF NoneGone
    <3>3. PICK S \in SUBSET Keys[resource] : table' \in WideMerge(S)
      BY <2>1, <3>2 DEF Land
    <3>4. PICK filled \in [S -> SUBSET Stages] :
             table' = [id \in RowIds |->
                IF id[1] \notin S THEN table[id]
                ELSE IF id[2] \in StagesOf(filled[id[1]])
                     THEN [load |-> loads + 1, gone |-> FALSE,
                           tag |-> IF id[2] \in filled[id[1]] THEN 1 ELSE 0]
                     ELSE NoRow]
      BY <3>3 DEF WideMerge
    <3> QED
      BY <3>1, <3>2, <3>4 DEF Tombstones, NoneGone, NoRow
  <2>2. CASE ~ Land
    <3>1. UNCHANGED <<resource, table>>
      BY <1>a, <2>2
    <3> QED
      BY <3>1 DEF Tombstones, NoneGone, RowIds
  <2> QED
    BY <2>1, <2>2
<1>4. TombstonesProject'
  <2>1. ASSUME \A v \in Workers : Running(v)' =>
                  /\ Running(v)
                  /\ job'[v].errors = job[v].errors
                  /\ job'[v].broken = job[v].broken
        PROVE  TombstonesProject'
    BY <2>1 DEF Tombstones, TombstonesProject
  <2>2. ASSUME NEW w \in Workers, NEW mode, NEW S, Begin(w, mode, S), loads > 0
        PROVE  TombstonesProject'
    <3>1. job'[w].errors = {} => job'[w].broken # "tombstone"
      BY <2>2, BeginAccepts
    <3>2. \A v \in Workers \ {w} : job'[v] = job[v]
      BY <2>2, BeginIs DEF Tombstones
    <3> QED
      BY <3>1, <3>2 DEF Tombstones, TombstonesProject, Running
  <2>3. CASE \/ Land \/ ActivateProjection \/ UpdateMapping
             \/ UNCHANGED projectingVars
    BY <2>1, <2>3 DEF Land, ActivateProjection, UpdateMapping, projectingVars,
                      Running
  <2>4. ASSUME NEW w \in Workers, RunQueued(w) \/ Sweep(w)
        PROVE  TombstonesProject'
    <3>1. PICK S : Begin(w, "incremental", S)
      BY <2>4 DEF RunQueued, Sweep
    <3>2. PICK l \in owed \cup queued : l \in 1 .. loads /\ loads \in Nat
      BY <2>4 DEF RunQueued, Sweep, Tombstones, Shaped
    <3> QED
      BY <2>2, <3>1, <3>2
  <2>5. ASSUME NEW w \in Workers, Replay(w) PROVE TombstonesProject'
    BY <2>2, <2>5 DEF Replay
  <2>6. ASSUME NEW w \in Workers, WriteBatch(w) PROVE TombstonesProject'
    BY <2>1, <2>6, JobsAfter DEF Tombstones
  <2>7. ASSUME NEW w \in Workers, Succeed(w) \/ Fail(w)
        PROVE  TombstonesProject'
    <3>1. job' = [job EXCEPT ![w] = NoJob]
      BY <2>7 DEF Succeed, Fail
    <3> QED
      BY <2>1, <3>1 DEF Running, Tombstones, Shaped
  <2> QED
    BY <2>3, <2>4, <2>5, <2>6, <2>7 DEF ProjectingNext
<1> QED
  BY <1>1, <1>2, <1>3, <1>4 DEF Tombstones

\* No tombstone ends a run of a mapping that the validator has accepted, for
\* every target and every mapping that makes a record of some row of each key
\* (validator.py _check_identity_is_obtainable, runner.py _project).
THEOREM TombstonesRunOn ==
    ProjectingSpec /\ []KeysSpeak => []TombstonesProject
<1>1. ProjectingInit => Tombstones
  BY HostInit DEF HostInv, ProjectingInit, Tombstones, NoneGone, NoRow,
                  TombstonesProject, Running
<1>2. Tombstones /\ KeysSpeak /\ [ProjectingNext]_projectingVars => Tombstones'
  BY TombstonesStep
<1>3. Tombstones => TombstonesProject
  BY DEF Tombstones
<1> QED
  BY <1>1, <1>2, <1>3, PTL DEF ProjectingSpec

-----------------------------------------------------------------------------
(* When a registration is renewed *)

\* A moment of renewal that has come, or that comes before the expiry.
Early(renew, expires, at) == renew # 0 /\ (renew <= at \/ renew < expires)

\* The moment of renewal has come or comes before the expiry, whatever the
\* lifetime; an expiry that is absent has none.
LEMMA RenewAtBounds ==
    ASSUME NEW at \in Nat \ {0}
    PROVE  /\ RenewAt(0, at) = 0
           /\ \A e \in Nat \ {0} :
                 RenewAt(e, at) \in Nat /\ Early(RenewAt(e, at), e, at)
<1>1. ASSUME NEW e \in Nat \ {0}
      PROVE  RenewAt(e, at) \in Nat /\ Early(RenewAt(e, at), e, at)
  <2>1. CASE e <= at
    BY <2>1 DEF RenewAt, Early
  <2>2. CASE e > at
    <3>1. (e - at) \div 4 \in Int /\ MinLead \in Nat \ {0}
      BY <2>2, SubsAssumption
    <3>2. /\ Greatest((e - at) \div 4, MinLead) \in Int
          /\ Greatest((e - at) \div 4, MinLead) >= 1
      BY <3>1 DEF Greatest
    <3>3. Lead(e - at) \in 1 .. (e - at)
      BY <2>2, <3>1, <3>2 DEF Lead, Least
    <3>4. RenewAt(e, at) = e - Lead(e - at)
      BY <2>2 DEF RenewAt
    <3> HIDE DEF RenewAt
    <3>5. RenewAt(e, at) \in Nat /\ RenewAt(e, at) < e /\ RenewAt(e, at) # 0
      BY <2>2, <3>3, <3>4
    <3> QED
      BY <3>5 DEF Early
  <2> QED
    BY <2>1, <2>2
<1>2. RenewAt(0, at) = 0
  BY DEF RenewAt
<1> QED
  BY <1>1, <1>2

\* A registration that is applied leaves a row that is active, and is due
\* early if the adapter names such a moment or none.
LEMMA AppliedRow ==
    ASSUME NEW loaded \in Rows, NEW granted \in Nat, NEW named \in Nat,
           NEW at \in Nat \ {0}
    PROVE  LET r == Applied(loaded, granted, named, at)
           IN  /\ r \in Rows
               /\ r.expires = IF granted = 0 THEN loaded.expires ELSE granted
               /\ granted # 0 /\ named < granted =>
                     Early(r.renew, granted, at)
<1> DEFINE expires == IF granted = 0 THEN loaded.expires ELSE granted
           moment == IF named # 0 THEN named ELSE RenewAt(expires, at)
<1>1. expires \in Nat
  BY DEF Rows
<1>2. RenewAt(expires, at) \in Nat
  <2>1. CASE expires = 0
    BY <2>1, RenewAtBounds
  <2>2. CASE expires # 0
    BY <1>1, <2>2, RenewAtBounds
  <2> QED
    BY <2>1, <2>2
<1>3. Applied(loaded, granted, named, at) =
          [status |-> "active", expires |-> expires, renew |-> moment]
  BY DEF Applied
<1>4. ASSUME granted # 0, named < granted
      PROVE  Early(moment, granted, at)
  <2>1. CASE named # 0
    BY <1>4, <2>1 DEF Early
  <2>2. CASE named = 0
    BY <1>4, <2>2, RenewAtBounds
  <2> QED
    BY <2>1, <2>2
<1>5. moment \in Nat
  BY <1>2
<1> HIDE DEF expires, moment
<1>6. Applied(loaded, granted, named, at) \in Rows
  BY <1>1, <1>3, <1>5 DEF Rows, Statuses, Live
<1> QED
  BY <1>3, <1>4, <1>6 DEF expires

\* A renewal that failed changes the status to failed or the moment of the
\* next attempt, which is before the expiry of the row that was loaded.
LEMMA FailedRow ==
    ASSUME NEW current \in Rows, NEW loaded \in Rows, NEW at \in Nat \ {0}
    PROVE  LET r == FailedRenewal(current, loaded, at)
           IN  /\ r \in Rows
               /\ r.expires = current.expires
               /\ r.status = "active" =>
                     /\ current.status = "active"
                     /\ loaded.expires # 0 => r.renew \in 1 .. loaded.expires
<1>0. at + MinLead \in Nat \ {0}
  BY SubsAssumption
<1>1. CASE loaded.expires # 0 /\ loaded.expires <= at
  BY <1>1 DEF FailedRenewal, Rows, Statuses
<1>2. CASE loaded.expires = 0
  <2>1. FailedRenewal(current, loaded, at) =
            [current EXCEPT !.renew = at + MinLead]
    BY <1>2 DEF FailedRenewal
  <2> QED
    BY <1>0, <1>2, <2>1 DEF Rows
<1>3. CASE loaded.expires > at
  <2>1. FailedRenewal(current, loaded, at) =
            [current EXCEPT !.renew = Least(at + MinLead, loaded.expires)]
    BY <1>3 DEF FailedRenewal, Rows
  <2>2. Least(at + MinLead, loaded.expires) \in 1 .. loaded.expires
    BY <1>0, <1>3 DEF Least, Rows
  <2> QED
    BY <2>1, <2>2 DEF Rows
<1> QED
  BY <1>1, <1>2, <1>3 DEF Rows
-----------------------------------------------------------------------------
(* Types *)

\* What a call holds at each of its steps.
LEMMA CallHolds ==
    ASSUME NEW k \in Calls
    PROVE  /\ k.step \in {"create", "delete", "deleted", "created"} =>
                 k.sub \in Subs /\ k.enabled \in BOOLEAN
           /\ k.step \in {"renew", "renewed"} =>
                 k.sub \in Subs /\ k.loaded \in Rows /\ k.at \in Nat \ {0}
           /\ k.step \in {"created", "renewed"} =>
                 k.granted \in Nat /\ k.named \in Nat
BY DEF Calls, Idle

\* A call that ends or moves on is a call.
LEMMA CallMoves ==
    ASSUME call \in [Callers -> Calls], NEW c \in Callers, NEW k \in Calls,
           Goes(c, k)
    PROVE  /\ call' \in [Callers -> Calls]
           /\ call'[c] = k
           /\ \A b \in Callers : b # c => call'[b] = call[b]
BY DEF Goes

LEMMA IdleIsCall == Idle \in Calls /\ Idle.step = "idle"
BY DEF Calls, Idle

LEMMA GrantedTyped ==
    ASSUME TypeOK
    PROVE  /\ Granted \in Nat /\ Forever \in Nat
           /\ life = 0 => Granted = 0
           /\ life # 0 => Granted = now + life
           /\ NamedMoments \subseteq Nat
           /\ life # 0 => \A named \in NamedMoments : named < Granted
<1>1. /\ now \in Nat \ {0} /\ life \in Nat /\ Forever \in Nat
      /\ MaxTime \in Nat
  BY SubsAssumption DEF TypeOK, Forever
<1>2. CASE life = 0
  BY <1>1, <1>2 DEF Granted, NamedMoments
<1>3. CASE life # 0
  <2>1. Granted = now + life
    BY <1>3 DEF Granted
  <2>2. NamedMoments = {0} \cup now .. Granted - 1
    BY <1>3 DEF NamedMoments
  <2> QED
    BY <1>1, <1>3, <2>1, <2>2
<1> QED
  BY <1>2, <1>3

LEMMA TypeStep == TypeOK /\ [Next]_vars => TypeOK'
<1> SUFFICES ASSUME TypeOK, [Next]_vars PROVE TypeOK'
  OBVIOUS
<1>0. \A s \in Subs, t \in Statuses :
          /\ [row[s] EXCEPT !.status = t] \in Rows
  BY DEF TypeOK, Rows
<1>1. ASSUME NEW c \in Callers, NEW s \in Subs, UNCHANGED life, Create(c, s)
      PROVE  TypeOK'
  <2>1. [step |-> "create", sub |-> s, enabled |-> enabled] \in Calls
    BY DEF TypeOK, Calls
  <2>2. row' = [row EXCEPT ![s] = [row[s] EXCEPT !.status = "pending"]]
    BY <1>1 DEF Create
  <2>3. row' \in [Subs -> Rows]
    BY <1>0, <2>2 DEF TypeOK, Statuses, Live
  <2> QED
    BY <1>1, <2>1, <2>3, CallMoves DEF TypeOK, Create
<1>2. ASSUME NEW c \in Callers, UNCHANGED life, ProviderCreates(c)
      PROVE  TypeOK'
  <2>1. call[c] \in Calls /\ call[c].step = "create"
    BY <1>2 DEF TypeOK, ProviderCreates
  <2>2. call[c].sub \in Subs /\ call[c].enabled \in BOOLEAN
    BY <2>1, CallHolds
  <2>3. \A named \in NamedMoments :
            [step |-> "created", sub |-> call[c].sub,
             enabled |-> call[c].enabled,
             granted |-> Granted, named |-> named] \in Calls
    BY <2>2, GrantedTyped DEF Calls
  <2>4. remote' \in [Subs -> Nat]
    BY <1>2, GrantedTyped DEF TypeOK, ProviderCreates, Registers
  <2>5. call' \in [Callers -> Calls]
    BY <1>2, <2>3, CallMoves DEF TypeOK, ProviderCreates
  <2> QED
    BY <1>2, <2>4, <2>5 DEF TypeOK, ProviderCreates
<1>3. ASSUME NEW c \in Callers, UNCHANGED life, CreateFails(c)
      PROVE  TypeOK'
  <2>1. call[c].sub \in Subs
    BY <1>3, CallHolds DEF TypeOK, CreateFails
  <2>2. row' \in [Subs -> Rows]
    BY <1>0, <1>3, <2>1 DEF TypeOK, CreateFails, Saved, Statuses
  <2>3. call' \in [Callers -> Calls]
    BY <1>3, CallMoves, IdleIsCall DEF TypeOK, CreateFails, Ends
  <2> QED
    BY <1>3, <2>2, <2>3 DEF TypeOK, CreateFails
<1>4. ASSUME NEW c \in Callers, UNCHANGED life, CreateSaves(c)
      PROVE  TypeOK'
  <2>1. /\ call[c].sub \in Subs /\ call[c].enabled \in BOOLEAN
        /\ call[c].granted \in Nat /\ call[c].named \in Nat
    BY <1>4, CallHolds DEF TypeOK, CreateSaves
  <2>2. [status |-> "pending", expires |-> 0, renew |-> 0] \in Rows
    BY DEF Rows, Statuses, Live
  <2>3. Applied([status |-> "pending", expires |-> 0, renew |-> 0],
                call[c].granted, call[c].named, now) \in Rows
    BY <2>1, <2>2, AppliedRow DEF TypeOK
  <2>4. row' \in [Subs -> Rows]
    BY <1>4, <2>1, <2>3 DEF TypeOK, CreateSaves, Saved
  <2>5. enabled' \in BOOLEAN
    BY <1>4 DEF CreateSaves
  <2>6. call' \in [Callers -> Calls]
    BY <1>4, CallMoves, IdleIsCall DEF TypeOK, CreateSaves, Ends
  <2> QED
    BY <1>4, <2>4, <2>5, <2>6 DEF TypeOK, CreateSaves
<1>5. ASSUME NEW c \in Callers, NEW s \in Subs, UNCHANGED life, Select(c, s)
      PROVE  TypeOK'
  <2>1. [step |-> "renew", sub |-> s, loaded |-> row[s], at |-> now] \in Calls
    BY DEF TypeOK, Calls
  <2>2. call' \in [Callers -> Calls]
    BY <1>5, <2>1, CallMoves DEF TypeOK, Select
  <2> QED
    BY <1>5, <2>2 DEF TypeOK, Select
<1>6. ASSUME NEW c \in Callers, UNCHANGED life, ProviderRenews(c)
      PROVE  TypeOK'
  <2>1. call[c] \in Calls /\ call[c].step = "renew"
    BY <1>6 DEF TypeOK, ProviderRenews
  <2>2. \A named \in NamedMoments : Renewed(c, named) \in Calls
    BY <2>1, CallHolds, GrantedTyped DEF Renewed, Calls
  <2>3. remote' \in [Subs -> Nat]
    BY <1>6, GrantedTyped DEF TypeOK, ProviderRenews, Registers
  <2>4. call' \in [Callers -> Calls]
    BY <1>6, <2>2, CallMoves DEF TypeOK, ProviderRenews
  <2> QED
    BY <1>6, <2>3, <2>4 DEF TypeOK, ProviderRenews
<1>7. ASSUME NEW c \in Callers, UNCHANGED life, RenewalSaves(c)
      PROVE  TypeOK'
  <2>1. /\ call[c].sub \in Subs /\ call[c].loaded \in Rows
        /\ call[c].at \in Nat \ {0} /\ call[c].granted \in Nat
        /\ call[c].named \in Nat
    BY <1>7, CallHolds DEF TypeOK, RenewalSaves
  <2>2. Applied(call[c].loaded, call[c].granted, call[c].named, call[c].at)
            \in Rows
    BY <2>1, AppliedRow
  <2>3. row' \in [Subs -> Rows]
    BY <1>7, <2>1, <2>2 DEF TypeOK, RenewalSaves, Saved
  <2>4. call' \in [Callers -> Calls]
    BY <1>7, CallMoves, IdleIsCall DEF TypeOK, RenewalSaves, Ends
  <2> QED
    BY <1>7, <2>3, <2>4 DEF TypeOK, RenewalSaves
<1>8. ASSUME NEW c \in Callers, UNCHANGED life, RenewalFails(c)
      PROVE  TypeOK'
  <2>1. /\ call[c].sub \in Subs /\ call[c].loaded \in Rows
        /\ call[c].at \in Nat \ {0}
    BY <1>8, CallHolds DEF TypeOK, RenewalFails
  <2>2. FailedRenewal(row[call[c].sub], call[c].loaded, call[c].at) \in Rows
    BY <2>1, FailedRow DEF TypeOK
  <2>3. row' \in [Subs -> Rows]
    BY <1>8, <2>1, <2>2 DEF TypeOK, RenewalFails, Saved
  <2>4. call' \in [Callers -> Calls]
    BY <1>8, CallMoves, IdleIsCall DEF TypeOK, RenewalFails, Ends
  <2>5. /\ retried' \subseteq Subs
        /\ UNCHANGED <<now, remote, enabled, ended, hasty>>
    BY <1>8, <2>1 DEF TypeOK, RenewalFails
  <2> QED
    BY <1>8, <2>3, <2>4, <2>5 DEF TypeOK
<1>9. ASSUME UNCHANGED life, Expire
      PROVE  TypeOK'
  <2>1. row' \in [Subs -> Rows]
    BY <1>0, <1>9 DEF TypeOK, Expire, Statuses
  <2> QED
    BY <1>9, <2>1 DEF TypeOK, Expire
<1>10. ASSUME NEW c \in Callers, NEW s \in Subs, UNCHANGED life, Delete(c, s)
       PROVE  TypeOK'
  <2>1. [step |-> "delete", sub |-> s, enabled |-> enabled] \in Calls
    BY DEF TypeOK, Calls
  <2>2. call' \in [Callers -> Calls]
    BY <1>10, <2>1, CallMoves DEF TypeOK, Delete
  <2>3. remote' \in [Subs -> Nat] /\ ended' \subseteq Subs
    BY <1>10 DEF TypeOK, Delete
  <2> QED
    BY <1>10, <2>2, <2>3 DEF TypeOK, Delete
<1>11. ASSUME NEW c \in Callers, UNCHANGED life, MarkDeleted(c)
       PROVE  TypeOK'
  <2>1. call[c] \in Calls /\ call[c].step = "delete"
    BY <1>11 DEF TypeOK, MarkDeleted
  <2>2. call[c].sub \in Subs /\ [call[c] EXCEPT !.step = "deleted"] \in Calls
    BY <2>1 DEF Calls, Idle
  <2>3. row' \in [Subs -> Rows]
    <3>1. row' = [row EXCEPT ![call[c].sub] =
                     [row[call[c].sub] EXCEPT !.status = "deleted"]]
      BY <1>11 DEF MarkDeleted
    <3> QED
      BY <1>0, <2>2, <3>1 DEF TypeOK, Statuses
  <2>4. call' \in [Callers -> Calls]
    BY <1>11, <2>2, CallMoves DEF TypeOK, MarkDeleted
  <2> QED
    BY <1>11, <2>3, <2>4 DEF TypeOK, MarkDeleted
<1>12. ASSUME NEW c \in Callers, UNCHANGED life, StopListening(c) \/ Crash(c)
       PROVE  TypeOK'
  <2>1. call' \in [Callers -> Calls]
    BY <1>12, CallMoves, IdleIsCall DEF TypeOK, StopListening, Crash, Ends
  <2>2. enabled' \in BOOLEAN
    BY <1>12 DEF TypeOK, StopListening, Crash
  <2> QED
    BY <1>12, <2>1, <2>2 DEF TypeOK, StopListening, Crash
<1>13. ASSUME UNCHANGED life, Tick
       PROVE  TypeOK'
  BY <1>13 DEF TypeOK, Tick
<1>14. CASE UNCHANGED vars
  BY <1>14 DEF TypeOK, vars
<1> QED
  BY <1>1, <1>2, <1>3, <1>4, <1>5, <1>6, <1>7, <1>8, <1>9, <1>10, <1>11,
     <1>12, <1>13, <1>14 DEF Next, Step
-----------------------------------------------------------------------------
(* What a row and a call know of the registration *)

\* Until somebody asks for the deletion, the provider keeps a registration
\* for as long as the row says, and where registrations expire an active row
\* says when.
Kept ==
    /\ \A s \in Subs :
          remote[s] <= IF life = 0 THEN Forever ELSE now + life
    /\ \A s \in Subs \ ended : row[s].expires <= remote[s]
    /\ life # 0 => \A s \in Subs :
                       row[s].status = "active" => row[s].expires # 0

\* The same of the row a call has loaded, and of the answer it has got.
Sound(k) ==
    /\ k.step \in {"renew", "renewed"} =>
          /\ k.sub \notin ended => k.loaded.expires <= remote[k.sub]
          /\ k.at <= now
          /\ life = 0 \/ k.sub \in hasty \/ k.loaded.expires # 0
    /\ k.step \in {"created", "renewed"} =>
          /\ k.sub \notin ended => k.granted <= remote[k.sub]
          /\ life # 0 => k.granted # 0 /\ k.named < k.granted

AllSound == \A c \in Callers : Sound(call[c])

Known == TypeOK /\ Kept /\ AllSound /\ DueBeforeItLapses

\* A registration never shortens another of the same row.
LEMMA RegistersExtends ==
    ASSUME TypeOK, Kept, NEW s \in Subs, Registers(s)
    PROVE  /\ \A t \in Subs : remote'[t] >= remote[t]
           /\ \A t \in Subs :
                 remote'[t] <= IF life = 0 THEN Forever ELSE now + life
           /\ Granted <= remote'[s]
           /\ life # 0 => /\ Granted # 0
                          /\ \A named \in NamedMoments : named < Granted
<1>1. /\ life \in Nat /\ Granted \in Nat /\ Forever \in Nat
      /\ life # 0 => /\ Granted = now + life
                     /\ \A named \in NamedMoments : named < Granted
  BY SubsAssumption, GrantedTyped DEF TypeOK
<1>2. \A t \in Subs :
          remote'[t] = IF t # s THEN remote[t]
                       ELSE IF life = 0 THEN Forever ELSE Granted
  BY DEF TypeOK, Registers
<1>3. /\ now \in Nat \ {0} /\ \A t \in Subs : remote[t] \in Nat
      /\ \A t \in Subs : remote[t] <= IF life = 0 THEN Forever ELSE now + life
      /\ life = 0 => Granted = 0
  BY DEF TypeOK, Kept, Granted
<1>4. CASE life = 0
  <2>1. \A t \in Subs : remote'[t] = IF t # s THEN remote[t] ELSE Forever
    BY <1>2, <1>4
  <2>2. \A t \in Subs : remote[t] <= Forever
    BY <1>3, <1>4
  <2>3. \A t \in Subs : remote'[t] >= remote[t] /\ remote'[t] <= Forever
    BY <1>1, <1>3, <2>1, <2>2
  <2>4. Granted <= remote'[s]
    BY <1>1, <1>3, <1>4, <2>1
  <2>5. \A t \in Subs :
            remote'[t] <= IF life = 0 THEN Forever ELSE now + life
    BY <1>4, <2>3
  <2>6. \A t \in Subs : remote'[t] >= remote[t]
    BY <2>3
  <2> QED
    BY <1>4, <2>4, <2>5, <2>6
<1>5. CASE life # 0
  <2>1. \A t \in Subs : remote'[t] = IF t # s THEN remote[t] ELSE now + life
    BY <1>1, <1>2, <1>5
  <2>2. \A t \in Subs : remote[t] <= now + life
    BY <1>3, <1>5
  <2>3. Granted = now + life /\ \A named \in NamedMoments : named < Granted
    BY <1>1, <1>5
  <2>4. \A t \in Subs : remote'[t] >= remote[t] /\ remote'[t] <= now + life
    BY <1>1, <1>3, <2>1, <2>2
  <2>5. Granted <= remote'[s] /\ Granted # 0
    BY <1>1, <1>3, <2>1, <2>3
  <2> QED
    BY <1>5, <2>3, <2>4, <2>5
<1> QED
  BY <1>4, <1>5

LEMMA Monotone ==
    ASSUME NEW x \in Nat, NEW y \in Nat, NEW z \in Nat, NEW n \in Nat,
           NEW m \in Nat, Early(x, y, n), y <= z, n <= m
    PROVE  Early(x, z, m)
BY DEF Early

\* Time passes, and deletions and hasty renewals are asked for: what a call
\* knew stays sound.
LEMMA StaysSound ==
    ASSUME TypeOK, TypeOK', NEW c \in Callers, Sound(call[c]),
           call'[c] = call[c], life' = life, now' >= now,
           ended \subseteq ended', hasty \subseteq hasty',
           \A s \in Subs \ ended' : remote'[s] >= remote[s]
    PROVE  Sound(call[c])'
<1> DEFINE k == call[c]
<1>1. k \in Calls
  BY DEF TypeOK
<1>2. CASE k.step \in {"renew", "renewed"}
  <2>1. k.sub \in Subs /\ k.loaded.expires \in Nat /\ k.at \in Nat
    BY <1>1, <1>2, CallHolds DEF Rows
  <2>2. k.step = "renewed" => k.granted \in Nat
    BY <1>1, CallHolds
  <2> QED
    BY <1>2, <2>1, <2>2 DEF Sound, TypeOK
<1>3. CASE k.step = "created"
  <2>1. k.sub \in Subs /\ k.granted \in Nat
    BY <1>1, <1>3, CallHolds
  <2> QED
    BY <1>3, <2>1 DEF Sound, TypeOK
<1>4. CASE k.step \notin {"renew", "renewed", "created"}
  BY <1>4 DEF Sound
<1> QED
  BY <1>2, <1>3, <1>4

\* Steps that save nothing of a row but a status that is not active.
LEMMA Unsaved ==
    ASSUME TypeOK, TypeOK', Kept, DueBeforeItLapses, life' = life,
           now' >= now, ended \subseteq ended', hasty \subseteq hasty',
           retried \subseteq retried',
           \A s \in Subs : remote'[s] <= IF life = 0 THEN Forever
                                         ELSE now' + life,
           \A s \in Subs \ ended' : remote'[s] >= remote[s],
           \A s \in Subs : row'[s].expires = row[s].expires,
           \A s \in Subs :
               row'[s].status = "active" =>
                   row[s].status = "active" /\ row'[s].renew = row[s].renew
    PROVE  Kept' /\ DueBeforeItLapses'
<1>1. ASSUME NEW s \in Subs, row'[s].status = "active", life # 0,
             s \notin hasty' \cup ended'
      PROVE  /\ row'[s].renew # 0
             /\ \/ row'[s].renew <= now'
                \/ row'[s].renew < remote'[s]
                \/ s \in retried' /\ row'[s].renew = remote'[s]
  <2>1. /\ row[s].renew # 0
        /\ \/ row[s].renew <= now
           \/ row[s].renew < remote[s]
           \/ s \in retried /\ row[s].renew = remote[s]
    BY <1>1 DEF DueBeforeItLapses
  <2>2. row[s].renew \in Nat /\ remote[s] \in Nat /\ remote'[s] \in Nat
        /\ now \in Nat /\ now' \in Nat
    BY DEF TypeOK, Rows
  <2>3. remote[s] <= remote'[s] /\ row'[s].renew = row[s].renew
    BY <1>1
  <2> QED
    BY <2>1, <2>2, <2>3
<1>2. DueBeforeItLapses'
  BY <1>1 DEF DueBeforeItLapses
<1>3. \A s \in Subs \ ended' : row'[s].expires <= remote'[s]
  BY DEF Kept, TypeOK, Rows
<1>4. Kept'
  BY <1>3 DEF Kept, Forever
<1> QED
  BY <1>2, <1>4

\* The call that saves a row and ends.
LEMMA SavedOne ==
    ASSUME TypeOK, Kept, DueBeforeItLapses, NEW s \in Subs, NEW r \in Rows,
           Saved(s, r), UNCHANGED <<life, now, remote, ended, hasty>>,
           s \notin ended => r.expires <= remote[s],
           r.status = "active" /\ life # 0 => r.expires # 0,
           \A t \in Subs : t # s /\ t \in retried => t \in retried',
           r.status = "active" /\ life # 0 /\ s \notin hasty \cup ended =>
               \/ Early(r.renew, remote[s], now)
               \/ s \in retried' /\ r.renew = remote[s] /\ r.renew # 0
    PROVE  Kept' /\ DueBeforeItLapses'
<1>1. row'[s] = r /\ \A t \in Subs : t # s => row'[t] = row[t]
  BY DEF Saved, TypeOK
<1> QED
  BY <1>1 DEF DueBeforeItLapses, Kept, Forever, Early

LEMMA KnownStep == Known /\ [Next]_vars => Known'
<1> SUFFICES ASSUME TypeOK, Kept, AllSound, DueBeforeItLapses, [Next]_vars
             PROVE  Kept' /\ AllSound' /\ DueBeforeItLapses'
  BY TypeStep DEF Known
<1>0. TypeOK'
  BY TypeStep
<1>a. /\ \A c \in Callers : call[c] \in Calls
      /\ now \in Nat /\ remote \in [Subs -> Nat]
      /\ row \in [Subs -> Rows]
      /\ life \in Nat
  BY SubsAssumption DEF TypeOK
<1>b. /\ \A s \in Subs : remote[s] <= IF life = 0 THEN Forever ELSE now + life
      /\ \A s \in Subs \ ended : row[s].expires <= remote[s]
  BY DEF Kept
<1>1. ASSUME NEW c \in Callers, NEW s \in Subs, UNCHANGED life, Create(c, s)
      PROVE  Kept' /\ AllSound' /\ DueBeforeItLapses'
  <2>1. \A t \in Subs : /\ row'[t].expires = row[t].expires
                        /\ row'[t].renew = row[t].renew
                        /\ row'[t].status \in {row[t].status, "pending"}
    BY <1>1 DEF Create, TypeOK, Rows
  <2>2. /\ call'[c].step = "create"
        /\ \A b \in Callers : b # c => call'[b] = call[b]
    BY <1>1 DEF Create, Goes, TypeOK
  <2>3. UNCHANGED <<now, remote, ended, hasty, retried, life>>
    BY <1>1 DEF Create
  <2>4. Kept' /\ DueBeforeItLapses'
    BY <1>0, <1>a, <1>b, <2>1, <2>3, Unsaved
  <2>5. Sound(call[c])'
    BY <2>2 DEF Sound
  <2>6. AllSound'
    BY <1>0, <1>a, <2>2, <2>3, <2>5, StaysSound DEF AllSound
  <2> QED
    BY <2>4, <2>6
<1>2. ASSUME NEW c \in Callers, UNCHANGED life,
             ProviderCreates(c) \/ ProviderRenews(c)
      PROVE  Kept' /\ AllSound' /\ DueBeforeItLapses'
  <2>1. call[c].sub \in Subs /\ Registers(call[c].sub)
    BY <1>2, <1>a, CallHolds DEF ProviderCreates, ProviderRenews
  <2>2. UNCHANGED <<now, row, ended, hasty, retried, life>>
    BY <1>2 DEF ProviderCreates, ProviderRenews
  <2>3. /\ \A t \in Subs : remote'[t] >= remote[t]
        /\ \A t \in Subs :
              remote'[t] <= IF life = 0 THEN Forever ELSE now + life
        /\ Granted <= remote'[call[c].sub]
        /\ life # 0 => /\ Granted # 0
                       /\ \A named \in NamedMoments : named < Granted
    BY <2>1, RegistersExtends
  <2>4. Kept' /\ DueBeforeItLapses'
    BY <1>0, <1>a, <2>2, <2>3, Unsaved
  <2>5. \A b \in Callers : b # c => call'[b] = call[b]
    BY <1>2 DEF ProviderCreates, ProviderRenews, Goes, TypeOK
  <2>6. Sound(call[c])'
    <3>1. CASE ProviderCreates(c)
      <4>1. PICK named \in NamedMoments :
                call'[c] = [step |-> "created", sub |-> call[c].sub,
                            enabled |-> call[c].enabled,
                            granted |-> Granted, named |-> named]
        BY <3>1 DEF ProviderCreates, Goes, TypeOK
      <4> QED
        BY <2>2, <2>3, <4>1 DEF Sound
    <3>2. CASE ProviderRenews(c)
      <4>1. PICK named \in NamedMoments : call'[c] = Renewed(c, named)
        BY <3>2 DEF ProviderRenews, Goes, TypeOK
      <4>2. call[c].step = "renew" /\ call[c].loaded.expires \in Nat
        BY <1>a, <3>2, CallHolds DEF ProviderRenews, Rows
      <4>3. /\ call[c].sub \notin ended =>
                   call[c].loaded.expires <= remote[call[c].sub]
            /\ call[c].at <= now
            /\ life = 0 \/ call[c].sub \in hasty
                        \/ call[c].loaded.expires # 0
        BY <4>2 DEF AllSound, Sound
      <4>4. call[c].sub \notin ended =>
                call[c].loaded.expires <= remote'[call[c].sub]
        BY <1>0, <1>a, <2>1, <2>3, <4>2, <4>3 DEF TypeOK
      <4> QED
        BY <2>2, <2>3, <4>1, <4>3, <4>4 DEF Sound, Renewed
    <3> QED
      BY <1>2, <3>1, <3>2
  <2>7. AllSound'
    BY <1>0, <1>a, <2>2, <2>3, <2>5, <2>6, StaysSound DEF AllSound
  <2> QED
    BY <2>4, <2>7
<1>3. ASSUME NEW c \in Callers, UNCHANGED life,
             CreateFails(c) \/ CreateSaves(c) \/ RenewalSaves(c)
                 \/ RenewalFails(c)
      PROVE  Kept' /\ AllSound' /\ DueBeforeItLapses'
  <2>1. call[c].sub \in Subs
    BY <1>3, <1>a, CallHolds
       DEF CreateFails, CreateSaves, RenewalSaves, RenewalFails
  <2>2. UNCHANGED <<now, remote, ended, hasty, life>>
    BY <1>3 DEF CreateFails, CreateSaves, RenewalSaves, RenewalFails
  <2>3. call'[c] = Idle /\ \A b \in Callers : b # c => call'[b] = call[b]
    BY <1>3 DEF CreateFails, CreateSaves, RenewalSaves, RenewalFails, Ends,
                Goes, TypeOK
  <2>4. AllSound'
    <3>1. Sound(call[c])'
      BY <2>3, IdleIsCall DEF Sound
    <3> QED
      BY <1>0, <1>a, <2>2, <2>3, <3>1, StaysSound DEF AllSound
  <2>5. CASE CreateFails(c)
    <3>1. \A t \in Subs : /\ row'[t].expires = row[t].expires
                          /\ row'[t].renew = row[t].renew
                          /\ row'[t].status \in {row[t].status, "failed"}
      BY <2>5 DEF CreateFails, Saved, TypeOK, Rows
    <3>2. UNCHANGED retried
      BY <2>5 DEF CreateFails
    <3> QED
      BY <1>0, <1>a, <1>b, <2>2, <2>4, <3>1, <3>2, Unsaved
  <2>6. CASE CreateSaves(c)
    <3> DEFINE blank == [status |-> "pending", expires |-> 0, renew |-> 0]
               r == Applied(blank, call[c].granted, call[c].named, now)
    <3>1. /\ call[c].step = "created"
          /\ call[c].granted \in Nat /\ call[c].named \in Nat
      BY <1>a, <2>6, CallHolds DEF CreateSaves
    <3>2. blank \in Rows
      BY DEF Rows, Statuses, Live
    <3>3. /\ r \in Rows /\ r.expires = call[c].granted
          /\ call[c].granted # 0 /\ call[c].named < call[c].granted =>
                Early(r.renew, call[c].granted, now)
      <4>1. blank.expires = 0 /\ now \in Nat \ {0}
        BY DEF TypeOK
      <4> HIDE DEF blank
      <4>2. /\ r \in Rows
            /\ r.expires = IF call[c].granted = 0 THEN blank.expires
                           ELSE call[c].granted
            /\ call[c].granted # 0 /\ call[c].named < call[c].granted =>
                  Early(r.renew, call[c].granted, now)
        BY <3>1, <3>2, <4>1, AppliedRow
      <4> HIDE DEF r
      <4> QED
        BY <4>1, <4>2
    <3>4. /\ call[c].sub \notin ended =>
                call[c].granted <= remote[call[c].sub]
          /\ \/ life = 0
             \/ call[c].granted # 0 /\ call[c].named < call[c].granted
      BY <3>1 DEF AllSound, Sound
    <3>5. life # 0 /\ call[c].sub \notin ended =>
              Early(r.renew, remote[call[c].sub], now)
      <4> HIDE DEF r
      <4> QED
        BY <1>a, <2>1, <3>1, <3>3, <3>4, Monotone DEF Rows
    <3>6. Saved(call[c].sub, r)
      BY <2>6 DEF CreateSaves
    <3>7. UNCHANGED retried
      BY <2>6 DEF CreateSaves
    <3> HIDE DEF r
    <3> QED
      BY <2>1, <2>2, <2>4, <3>3, <3>4, <3>5, <3>6, <3>7, SavedOne
  <2>7. CASE RenewalSaves(c)
    <3> DEFINE k == call[c]
               r == Applied(k.loaded, k.granted, k.named, k.at)
    <3>1. k.step = "renewed" /\ k \in Calls
      BY <1>a, <2>7 DEF RenewalSaves
    <3>2. /\ k.loaded \in Rows /\ k.at \in Nat \ {0}
          /\ k.granted \in Nat /\ k.named \in Nat
      BY <3>1, CallHolds
    <3>3. /\ r \in Rows
          /\ r.expires = IF k.granted = 0 THEN k.loaded.expires ELSE k.granted
          /\ k.granted # 0 /\ k.named < k.granted =>
                Early(r.renew, k.granted, k.at)
      BY <3>2, AppliedRow
    <3>4. /\ k.sub \notin ended => /\ k.loaded.expires <= remote[k.sub]
                                   /\ k.granted <= remote[k.sub]
          /\ k.at <= now
          /\ life # 0 => k.granted # 0 /\ k.named < k.granted
      BY <3>1 DEF AllSound, Sound
    <3>5. life # 0 /\ k.sub \notin ended =>
              Early(r.renew, remote[k.sub], now)
      <4> HIDE DEF r
      <4> QED
        BY <1>a, <2>1, <3>2, <3>3, <3>4, Monotone DEF Rows
    <3>6. Saved(k.sub, r)
      BY <2>7 DEF RenewalSaves
    <3>7. retried' = retried \ {k.sub}
      BY <2>7 DEF RenewalSaves
    <3> HIDE DEF r
    <3> QED
      BY <2>1, <2>2, <2>4, <3>3, <3>4, <3>5, <3>6, <3>7, SavedOne
  <2>8. CASE RenewalFails(c)
    <3> DEFINE k == call[c]
               r == FailedRenewal(row[k.sub], k.loaded, k.at)
    <3>1. k.step = "renew" /\ k \in Calls
      BY <1>a, <2>8 DEF RenewalFails
    <3>2. k.loaded \in Rows /\ k.at \in Nat \ {0} /\ row[k.sub] \in Rows
      BY <1>a, <2>1, <3>1, CallHolds
    <3>3. /\ r \in Rows
          /\ r.expires = row[k.sub].expires
          /\ r.status = "active" =>
                /\ row[k.sub].status = "active"
                /\ k.loaded.expires # 0 => r.renew \in 1 .. k.loaded.expires
      BY <3>2, FailedRow
    <3>4. /\ k.sub \notin ended => k.loaded.expires <= remote[k.sub]
          /\ life = 0 \/ k.sub \in hasty \/ k.loaded.expires # 0
      BY <3>1 DEF AllSound, Sound
    <3>5. r.status = "active" /\ life # 0 /\ k.sub \notin hasty \cup ended =>
              \/ Early(r.renew, remote[k.sub], now)
              \/ r.renew = remote[k.sub] /\ r.renew # 0
      <4> HIDE DEF r
      <4>1. ASSUME r.status = "active", life # 0,
                   k.sub \notin hasty \cup ended
            PROVE  r.renew # 0 /\ r.renew <= remote[k.sub]
        BY <1>a, <2>1, <3>2, <3>3, <3>4, <4>1 DEF Rows
      <4> QED
        BY <1>a, <2>1, <3>3, <4>1 DEF Early, Rows
    <3>6. Saved(k.sub, r)
      BY <2>8 DEF RenewalFails
    <3>7. /\ k.sub \notin ended => r.expires <= remote[k.sub]
          /\ r.status = "active" /\ life # 0 => r.expires # 0
      BY <2>1, <3>3 DEF Kept
    <3>8. retried' = retried \cup {k.sub}
      BY <2>8 DEF RenewalFails
    <3> HIDE DEF r
    <3> QED
      BY <2>1, <2>2, <2>4, <3>3, <3>5, <3>6, <3>7, <3>8, SavedOne
  <2> QED
    BY <1>3, <2>5, <2>6, <2>7, <2>8
<1>4. ASSUME NEW c \in Callers, NEW s \in Subs, UNCHANGED life, Select(c, s)
      PROVE  Kept' /\ AllSound' /\ DueBeforeItLapses'
  <2>1. /\ UNCHANGED <<now, row, remote, ended, retried, life>>
        /\ hasty \subseteq hasty'
    BY <1>4 DEF Select
  <2>2. /\ call'[c] = [step |-> "renew", sub |-> s, loaded |-> row[s],
                       at |-> now]
        /\ \A b \in Callers : b # c => call'[b] = call[b]
    BY <1>4 DEF Select, Goes, TypeOK
  <2>3. Kept' /\ DueBeforeItLapses'
    BY <1>0, <1>a, <1>b, <2>1, Unsaved
  <2>4. row[s].status = "active" \/ s \in hasty'
    BY <1>4 DEF Select, Due, Live
  <2>5. Sound(call[c])'
    BY <1>a, <2>1, <2>2, <2>4 DEF Sound, Kept
  <2>6. AllSound'
    BY <1>0, <1>a, <2>1, <2>2, <2>5, StaysSound DEF AllSound
  <2> QED
    BY <2>3, <2>6
<1>5. ASSUME NEW c \in Callers, NEW s \in Subs, UNCHANGED life, Delete(c, s)
      PROVE  Kept' /\ AllSound' /\ DueBeforeItLapses'
  <2>1. UNCHANGED <<now, row, hasty, retried, life>> /\ ended' = ended \cup {s}
    BY <1>5 DEF Delete
  <2>2. \A t \in Subs : remote'[t] = remote[t] \/ (t = s /\ remote'[t] = 0)
    BY <1>5 DEF Delete, TypeOK
  <2>3. /\ \A t \in Subs \ ended' : remote'[t] >= remote[t]
        /\ \A t \in Subs :
              remote'[t] <= IF life = 0 THEN Forever ELSE now + life
    BY <1>a, <1>b, <2>1, <2>2, GrantedTyped
  <2>4. call'[c].step = "delete" /\ \A b \in Callers : b # c =>
                                        call'[b] = call[b]
    BY <1>5 DEF Delete, Goes, TypeOK
  <2>5. Kept' /\ DueBeforeItLapses'
    BY <1>0, <1>a, <2>1, <2>3, Unsaved
  <2>6. Sound(call[c])'
    BY <2>4 DEF Sound
  <2>7. AllSound'
    BY <1>0, <1>a, <2>1, <2>3, <2>4, <2>6, StaysSound DEF AllSound
  <2> QED
    BY <2>5, <2>7
<1>6. ASSUME NEW c \in Callers, UNCHANGED life,
             MarkDeleted(c) \/ StopListening(c) \/ Crash(c)
      PROVE  Kept' /\ AllSound' /\ DueBeforeItLapses'
  <2>1. UNCHANGED <<now, remote, ended, hasty, retried, life>>
    BY <1>6 DEF MarkDeleted, StopListening, Crash
  <2>2. \A t \in Subs : /\ row'[t].expires = row[t].expires
                        /\ row'[t].renew = row[t].renew
                        /\ row'[t].status \in {row[t].status, "deleted"}
    BY <1>6 DEF MarkDeleted, StopListening, Crash, TypeOK, Rows
  <2>3. /\ call'[c].step \in {"deleted", "idle"}
        /\ \A b \in Callers : b # c => call'[b] = call[b]
    <3>1. CASE MarkDeleted(c)
      <4>1. call'[c] = [call[c] EXCEPT !.step = "deleted"]
        BY <3>1 DEF MarkDeleted, Goes, TypeOK
      <4>2. [call[c] EXCEPT !.step = "deleted"].step = "deleted"
        BY <1>a, <3>1 DEF MarkDeleted, Calls, Idle
      <4> QED
        BY <3>1, <4>1, <4>2 DEF MarkDeleted, Goes, TypeOK
    <3>2. CASE StopListening(c) \/ Crash(c)
      BY <3>2, IdleIsCall DEF StopListening, Crash, Ends, Goes, TypeOK
    <3> QED
      BY <1>6, <3>1, <3>2
  <2>4. Kept' /\ DueBeforeItLapses'
    BY <1>0, <1>a, <1>b, <2>1, <2>2, Unsaved
  <2>5. Sound(call[c])'
    BY <2>3 DEF Sound
  <2>6. AllSound'
    BY <1>0, <1>a, <2>1, <2>3, <2>5, StaysSound DEF AllSound
  <2> QED
    BY <2>4, <2>6
<1>7. ASSUME UNCHANGED life, Expire
      PROVE  Kept' /\ AllSound' /\ DueBeforeItLapses'
  <2>1. \A t \in Subs : /\ row'[t].expires = row[t].expires
                        /\ row'[t].renew = row[t].renew
                        /\ row'[t].status \in {row[t].status, "expired"}
    BY <1>7 DEF Expire, TypeOK, Rows
  <2>2. UNCHANGED <<now, remote, ended, hasty, retried, life, call>>
    BY <1>7 DEF Expire
  <2>3. Kept' /\ DueBeforeItLapses'
    BY <1>0, <1>a, <1>b, <2>1, <2>2, Unsaved
  <2>4. AllSound'
    BY <1>0, <1>a, <2>2, StaysSound DEF AllSound
  <2> QED
    BY <2>3, <2>4
<1>8. ASSUME UNCHANGED life, Tick
      PROVE  Kept' /\ AllSound' /\ DueBeforeItLapses'
  <2>1. /\ UNCHANGED <<row, remote, ended, hasty, retried, life, call>>
        /\ now' = now + 1
    BY <1>8 DEF Tick
  <2>2. \A t \in Subs : remote'[t] <= IF life = 0 THEN Forever
                                      ELSE now' + life
    BY <1>a, <1>b, <2>1, GrantedTyped
  <2>3. Kept' /\ DueBeforeItLapses'
    BY <1>0, <1>a, <2>1, <2>2, Unsaved
  <2>4. AllSound'
    BY <1>0, <1>a, <2>1, StaysSound DEF AllSound
  <2> QED
    BY <2>3, <2>4
<1>9. CASE UNCHANGED vars
  BY <1>9 DEF vars, Kept, AllSound, Sound, DueBeforeItLapses, Forever
<1> QED
  BY <1>1, <1>2, <1>3, <1>4, <1>5, <1>6, <1>7, <1>8, <1>9 DEF Next, Step
-----------------------------------------------------------------------------
(* Theorems *)

\* What rows and calls know of the registrations is inductive.
THEOREM SubscriptionsKnown == Spec => []Known
<1>1. Init => Known
  <2> SUFFICES ASSUME Init PROVE Known
    OBVIOUS
  <2>1. TypeOK
    <3>1. [status |-> "none", expires |-> 0, renew |-> 0] \in Rows
      BY DEF Rows, Statuses
    <3>2. row \in [Subs -> Rows]
      BY <3>1 DEF Init
    <3>3. call \in [Callers -> Calls] /\ remote \in [Subs -> Nat]
      BY IdleIsCall DEF Init
    <3>4. now \in Nat \ {0}
      BY DEF Init
    <3>5. /\ enabled \in BOOLEAN /\ ended \subseteq Subs
          /\ hasty \subseteq Subs /\ retried \subseteq Subs
      BY DEF Init
    <3> QED
      BY <3>2, <3>3, <3>4, <3>5 DEF Init, TypeOK
  <2>2. Kept /\ DueBeforeItLapses
    BY SubsAssumption DEF Init, Kept, DueBeforeItLapses, Forever
  <2>3. AllSound
    BY IdleIsCall DEF Init, AllSound, Sound
  <2> QED
    BY <2>1, <2>2, <2>3 DEF Known
<1> QED
  BY <1>1, KnownStep, PTL DEF Spec

\* Rows, calls and the provider keep their types.
THEOREM SubscriptionsTyped == Spec => []TypeOK
<1>1. Known => TypeOK
  BY DEF Known
<1> QED
  BY <1>1, SubscriptionsKnown, PTL

\* An active subscription that expires is due already or strictly before its
\* expiry, for every lifetime a provider grants; at the moment of expiry only
\* after a renewal has failed.
THEOREM RenewedInTime == Spec => []DueBeforeItLapses
<1>1. Known => DueBeforeItLapses
  BY DEF Known
<1> QED
  BY <1>1, SubscriptionsKnown, PTL

\* A row that is accepted as live is registered for as long as it says.
THEOREM RowsKeepTheirWord == Spec => []NeverClaimsMore
<1>1. Known => NeverClaimsMore
  BY DEF Known, Kept, NeverClaimsMore
<1> QED
  BY <1>1, SubscriptionsKnown, PTL
=============================================================================
