------------------------- MODULE StorageProofs -------------------------
(***************************************************************************)
(* What the gateway keeps outside its own memory, and reads back: the      *)
(* journal of FileOutbox on disk and the point slot in shared memory.      *)
(*                                                                         *)
(* The first part is about journals of any length over any messages and    *)
(* identifiers: what a record that is appended, a torn last record and a   *)
(* compaction do to the entries and to the next identifier, and the proof  *)
(* that recover() computes what a journal stands for. The last section is  *)
(* about PointSlot's sequence lock, for any number of readers and words.   *)
(***************************************************************************)
EXTENDS JournalRecovery, PointSlot, FiniteSetTheorems, TLAPS

\* What encode_enqueue(), encode_acknowledge() and the checkpoint write
Shaped(r) ==
  /\ r \in Record
  /\ r.op # "acknowledge" => r.ids = {}
  /\ r.op = "enqueue" => r.id \in Ids /\ r.msg \in Messages
  /\ r.op = "checkpoint" => r.id \in 1 .. MaxId

\* A journal that recovery accepts: only its last record may be torn, and no
\* identifier is enqueued twice.
Sound(j) ==
  /\ j \in Seq(Record)
  /\ \A i \in 1 .. Len(j) : Shaped(j[i])
  /\ \A i \in 1 .. Len(j) - 1 : j[i].op # "torn"
  /\ \A i, k \in 1 .. Len(j) : j[i].op = "enqueue" /\ j[k].op = "enqueue" /\ j[i].id = j[k].id
                                 => i = k

Whole(j) == \A i \in 1 .. Len(j) : j[i].op # "torn"
---------------------------------------------------------------------------
(* Two sequences, one after the other *)
LEMMA Concatenated ==
    ASSUME NEW S, NEW s \in Seq(S), NEW t \in Seq(S)
    PROVE  /\ s \o t \in Seq(S) /\ Len(s \o t) = Len(s) + Len(t)
           /\ \A i \in 1 .. Len(s) + Len(t) :
                (s \o t)[i] = IF i <= Len(s) THEN s[i] ELSE t[i - Len(s)]
  OBVIOUS

(* One more record, in a journal of any records. *)
LEMMA Appended ==
    ASSUME NEW j \in Seq(Record), NEW r \in Record
    PROVE  /\ Append(j, r) \in Seq(Record) /\ Len(Append(j, r)) = Len(j) + 1
           /\ \A i \in 1 .. Len(j) : Append(j, r)[i] = j[i]
           /\ Append(j, r)[Len(j) + 1] = r
           /\ 1 .. Len(j) + 1 = (1 .. Len(j)) \cup {Len(j) + 1}
           /\ Len(j) \in Nat
  OBVIOUS

(* What a record does to the entries: it removes those it names and adds the *)
(* one it enqueues.                                                          *)
LEMMA LiveAppended ==
    ASSUME NEW j \in Seq(Record), NEW r \in Record
    PROVE  \A e : e \in LiveEntries(Append(j, r)) <=>
                    \/ e \in LiveEntries(j) /\ e.id \notin r.ids
                    \/ r.op = "enqueue" /\ e = [id |-> r.id, msg |-> r.msg]
<1>. DEFINE a == Append(j, r)
            n == Len(j)
<1>1. /\ n \in Nat /\ Len(a) = n + 1 /\ a[n + 1] = r
      /\ \A i \in 1 .. n : a[i] = j[i]
      /\ 1 .. n + 1 = (1 .. n) \cup {n + 1}
  BY Appended
<1>2. \A i \in 1 .. n : i + 1 .. n + 1 = (i + 1 .. n) \cup {n + 1}
  BY <1>1
<1>. HIDE DEF a, n
<1>3. \A i \in 1 .. n : Survives(a, i) <=> Survives(j, i) /\ j[i].id \notin r.ids
  <2>1. \A i \in 1 .. n : \A k \in i + 1 .. n : k \in 1 .. n
    BY <1>1
  <2>. QED
    BY <1>1, <1>2, <2>1, Zenon DEF Survives, n
<1>4. Survives(a, n + 1) <=> r.op = "enqueue"
  <2>1. n + 1 + 1 .. n + 1 = {}
    BY <1>1
  <2>. QED
    BY <1>1, <2>1 DEF Survives
<1>5. ASSUME NEW e
      PROVE  e \in LiveEntries(a) <=>
               \/ \E i \in 1 .. n : Survives(a, i) /\ e = [id |-> a[i].id, msg |-> a[i].msg]
               \/ Survives(a, n + 1) /\ e = [id |-> r.id, msg |-> r.msg]
  BY <1>1 DEF LiveEntries
<1>6. ASSUME NEW e
      PROVE  e \in LiveEntries(j) <=>
               \E i \in 1 .. n : Survives(j, i) /\ e = [id |-> j[i].id, msg |-> j[i].msg]
  BY DEF LiveEntries, n
<1>7. ASSUME NEW e
      PROVE  (\E i \in 1 .. n : Survives(a, i) /\ e = [id |-> a[i].id, msg |-> a[i].msg])
               <=> e \in LiveEntries(j) /\ e.id \notin r.ids
  BY <1>1, <1>3, <1>6
<1>. QED
  BY <1>4, <1>5, <1>7, Zenon DEF a

(* ... and to the bounds of the next identifier. *)
LEMMA BoundsAppended ==
    ASSUME NEW j \in Seq(Record), NEW r \in Record
    PROVE  \A m : m \in NextIdBounds(Append(j, r)) <=>
                    \/ m \in NextIdBounds(j)
                    \/ r.op = "enqueue" /\ m = r.id + 1
                    \/ r.op = "checkpoint" /\ m = r.id
<1>. DEFINE a == Append(j, r)
            n == Len(j)
<1>1. /\ n \in Nat /\ Len(a) = n + 1 /\ a[n + 1] = r
      /\ \A i \in 1 .. n : a[i] = j[i]
      /\ 1 .. n + 1 = (1 .. n) \cup {n + 1}
  BY Appended
<1>. HIDE DEF a, n
<1>2. ASSUME NEW m
      PROVE  m \in NextIdBounds(a) <=>
               \/ m = 1
               \/ \E i \in 1 .. n + 1 : a[i].op = "enqueue" /\ m = a[i].id + 1
               \/ \E i \in 1 .. n + 1 : a[i].op = "checkpoint" /\ m = a[i].id
  BY <1>1 DEF NextIdBounds
<1>3. ASSUME NEW m
      PROVE  m \in NextIdBounds(j) <=>
               \/ m = 1
               \/ \E i \in 1 .. n : j[i].op = "enqueue" /\ m = j[i].id + 1
               \/ \E i \in 1 .. n : j[i].op = "checkpoint" /\ m = j[i].id
  BY DEF NextIdBounds, n
<1>. QED
  BY <1>1, <1>2, <1>3 DEF a

(* The next identifier is the only one. *)
LEMMA NextIdUnique ==
    ASSUME NEW j, NEW n \in Nat, IsNextId(n, j), \A m \in NextIdBounds(j) : m \in Nat
    PROVE  NextIdOf(j) = n
<1>1. \A m : IsNextId(m, j) => m = n
  BY DEF IsNextId
<1>. QED
  BY <1>1 DEF NextIdOf, IsNextId

(* The bounds of a sound journal are identifiers or the last one plus one. *)
LEMMA BoundsTypes ==
    ASSUME NEW j, Sound(j)
    PROVE  \A m \in NextIdBounds(j) : m \in 1 .. MaxId
<1>1. \A i \in 1 .. Len(j) : /\ j[i].op = "enqueue" => j[i].id + 1 \in 1 .. MaxId
                             /\ j[i].op = "checkpoint" => j[i].id \in 1 .. MaxId
  BY MaxIdAssumption DEF Sound, Shaped, Ids
<1>. QED
  BY <1>1, MaxIdAssumption DEF NextIdBounds

(* A sound journal has a next identifier: its bounds are a finite, non-empty *)
(* set of numbers.                                                            *)
LEMMA NextIdExists ==
    ASSUME NEW j, Sound(j)
    PROVE  IsNextId(NextIdOf(j), j)
<1>. DEFINE B == NextIdBounds(j)
            Upper(m) == m \in Nat /\ \A b \in B : b <= m
<1>1. 1 \in B /\ \A b \in B : b \in Nat /\ b <= MaxId
  <2>1. 1 \in B
    BY DEF NextIdBounds
  <2>2. \A b \in B : b \in 1 .. MaxId
    BY BoundsTypes, Zenon
  <2>. HIDE DEF B
  <2>. QED
    BY <2>1, <2>2, MaxIdAssumption
<1>2. PICK m \in {k \in 0 .. MaxId : Upper(k)} : \A k \in {l \in 0 .. MaxId : Upper(l)} : m <= k
  <2>. DEFINE U == {k \in 0 .. MaxId : Upper(k)}
  <2>1. U \in SUBSET Nat /\ U # {}
    BY <1>1, MaxIdAssumption
  <2>2. PICK x \in U : \A y \in U : ~(<<y, x>> \in OpToRel(<, Nat))
    <3>. HIDE DEF U
    <3>. QED
      BY <2>1, NatLessThanWellFounded, WFMin, Zenon
  <2>3. \A u, v \in Nat : <<v, u>> \in OpToRel(<, Nat) <=> v < u
    BY DEF OpToRel
  <2>4. x \in Nat /\ \A y \in U : y \in Nat
    BY <2>1
  <2>5. \A y \in U : ~(y < x)
    <3>. HIDE DEF U
    <3>. QED
      BY <2>2, <2>3, <2>4, Zenon
  <2>. QED
    BY <2>4, <2>5
<1>3. m \in B
  <2>1. SUFFICES ASSUME m \notin B PROVE FALSE
    OBVIOUS
  <2>2. m - 1 \in 0 .. MaxId /\ Upper(m - 1)
    BY <1>1, <1>2, <2>1, MaxIdAssumption
  <2>. QED
    BY <1>2, <2>2
<1>. QED
  BY <1>2, <1>3, Zenon DEF NextIdOf, IsNextId

(* Recovery accepts a sound journal. *)
LEMMA SoundAccepted ==
    ASSUME NEW j, Sound(j)
    PROVE  ~Refuses(j)
<1>1. \A i \in 1 .. Len(j) - 1 : j[i].op # "torn"
  BY DEF Sound
<1>2. ASSUME NEW k \in 1 .. Len(j), j[k].op = "enqueue", NEW i \in 1 .. k - 1,
             Survives(SubSeq(j, 1, k - 1), i), j[i].id = j[k].id
      PROVE  FALSE
  <2>1. j \in Seq(Record) /\ k - 1 \in 0 .. Len(j) /\ i \in 1 .. Len(j) /\ i # k
    BY <1>2 DEF Sound
  <2>2. SubSeq(j, 1, k - 1)[i] = j[i]
    BY <2>1, <1>2
  <2>3. j[i].op = "enqueue"
    BY <1>2, <2>2 DEF Survives
  <2>. QED
    BY <1>2, <2>1, <2>3 DEF Sound
<1>. QED
  BY <1>1, <1>2 DEF Refuses

(* The first n records of a journal *)
LEMMA PrefixOf ==
    ASSUME NEW j \in Seq(Record), NEW n \in 0 .. Len(j)
    PROVE  /\ SubSeq(j, 1, n) \in Seq(Record) /\ Len(SubSeq(j, 1, n)) = n
           /\ \A i \in 1 .. n : SubSeq(j, 1, n)[i] = j[i]
<1>1. Len(SubSeq(j, 1, n)) = n /\ \A i \in 1 .. n : SubSeq(j, 1, n)[i] = j[i]
  OBVIOUS
<1>2. SubSeq(j, 1, n) \in Seq(Record)
  OBVIOUS
<1>. QED
  BY <1>1, <1>2

(* Dropping a torn last record changes nothing that counts. *)
LEMMA TrimmedFacts ==
    ASSUME NEW j, Sound(j)
    PROVE  /\ Sound(Trimmed(j)) /\ Whole(Trimmed(j))
           /\ LiveEntries(Trimmed(j)) = LiveEntries(j)
           /\ NextIdBounds(Trimmed(j)) = NextIdBounds(j)
           /\ Whole(j) => Trimmed(j) = j
<1>1. CASE j # <<>> /\ j[Len(j)].op = "torn"
  <2>. DEFINE t == SubSeq(j, 1, Len(j) - 1)
  <2>1. j \in Seq(Record) /\ Len(j) \in Nat /\ Len(j) > 0
    BY <1>1 DEF Sound
  <2>2. /\ t \in Seq(Record) /\ Len(t) = Len(j) - 1 /\ \A i \in 1 .. Len(t) : t[i] = j[i]
    <3>1. Len(j) - 1 \in 0 .. Len(j)
      BY <2>1
    <3>. QED
      BY <2>1, <3>1, PrefixOf, Zenon
  <2>3. Len(j) \in 1 .. Len(j) /\ j[Len(j)] \in Record /\ j[Len(j)].ids = {}
    BY <1>1, <2>1 DEF Sound, Shaped
  <2>4. Append(t, j[Len(j)]) = j
    BY <2>1
  <2>5. Trimmed(j) = t
    BY <1>1 DEF Trimmed
  <2>. HIDE DEF t
  <2>6. Sound(t) /\ Whole(t)
    BY <2>1, <2>2 DEF Sound, Whole
  <2>7. LiveEntries(t) = LiveEntries(j)
    <3>1. \A e : e \in LiveEntries(j) <=> e \in LiveEntries(t)
      BY <1>1, <2>2, <2>3, <2>4, LiveAppended, Zenon
    <3>. QED
      BY <3>1
  <2>8. NextIdBounds(t) = NextIdBounds(j)
    <3>1. \A m : m \in NextIdBounds(j) <=> m \in NextIdBounds(t)
      BY <1>1, <2>2, <2>3, <2>4, BoundsAppended, Zenon
    <3>. QED
      BY <3>1
  <2>9. ~Whole(j)
    BY <1>1, <2>3 DEF Whole
  <2>. QED
    BY <2>5, <2>6, <2>7, <2>8, <2>9
<1>2. CASE ~(j # <<>> /\ j[Len(j)].op = "torn")
  <2>1. Trimmed(j) = j
    BY <1>2 DEF Trimmed
  <2>2. Whole(j)
    <3>1. ASSUME NEW i \in 1 .. Len(j) PROVE j[i].op # "torn"
      <4>1. j \in Seq(Record) /\ (i \in 1 .. Len(j) - 1 \/ i = Len(j))
        BY DEF Sound
      <4>. QED
        BY <1>2, <4>1 DEF Sound
    <3>. QED
      BY <3>1 DEF Whole
  <2>. QED
    BY <2>1, <2>2
<1>. QED
  BY <1>1, <1>2

(* The entries of a sound journal: finitely many, each identifier once. *)
LEMMA LiveFacts ==
    ASSUME NEW j, Sound(j)
    PROVE  /\ LiveEntries(j) \in SUBSET Entry /\ IsFiniteSet(LiveEntries(j))
           /\ \A d, e \in LiveEntries(j) : d.id = e.id => d = e
           /\ \A e \in LiveEntries(j) : \E m \in NextIdBounds(j) : e.id < m
<1>. DEFINE I == {i \in 1 .. Len(j) : Survives(j, i)}
            Of(i) == [id |-> j[i].id, msg |-> j[i].msg]
<1>1. Len(j) \in Nat /\ LiveEntries(j) = {Of(i) : i \in I}
  BY DEF Sound, LiveEntries
<1>2. \A i \in I : /\ i \in 1 .. Len(j) /\ j[i].op = "enqueue"
                   /\ j[i].id \in Ids /\ j[i].msg \in Messages
                   /\ Of(i).id = j[i].id /\ Of(i) \in Entry
  BY DEF Survives, Sound, Shaped, Entry
<1>3. IsFiniteSet(LiveEntries(j))
  <2>1. IsFiniteSet(1 .. Len(j)) /\ I \in SUBSET (1 .. Len(j))
    BY <1>1, FS_Interval
  <2>2. IsFiniteSet(I)
    BY <2>1, FS_Subset
  <2>. DEFINE f == [i \in I |-> Of(i)]
  <2>3. f \in Surjection(I, LiveEntries(j))
    BY <1>1 DEF Surjection
  <2>. QED
    BY <2>2, <2>3, FS_Surjection
<1>4. ASSUME NEW d \in LiveEntries(j), NEW e \in LiveEntries(j), d.id = e.id
      PROVE  d = e
  <2>1. PICK i \in I, k \in I : d = Of(i) /\ e = Of(k)
    BY <1>1
  <2>2. i = k
    BY <1>2, <1>4, <2>1 DEF Sound
  <2>. QED
    BY <2>1, <2>2
<1>5. ASSUME NEW e \in LiveEntries(j)
      PROVE  \E m \in NextIdBounds(j) : e.id < m
  <2>1. PICK i \in I : e = Of(i)
    BY <1>1
  <2>2. i \in 1 .. Len(j) /\ j[i].op = "enqueue" /\ j[i].id \in Ids
    BY <1>2, Zenon
  <2>3. j[i].id + 1 \in NextIdBounds(j)
    BY <2>2 DEF NextIdBounds
  <2>4. j[i].id < j[i].id + 1
    BY <2>2, MaxIdAssumption DEF Ids
  <2>. QED
    BY <1>2, <2>1, <2>3, <2>4
<1>6. LiveEntries(j) \in SUBSET Entry
  BY <1>1, <1>2
<1>. QED
  BY <1>3, <1>4, <1>5, <1>6

(* Entries with different identifiers have different ranks, so the sequence *)
(* that compact() writes lists every entry once.                            *)
LEMMA OrderedFacts ==
    ASSUME NEW S \in SUBSET Entry, IsFiniteSet(S), \A d, e \in S : d.id = e.id => d = e
    PROVE  /\ \A n \in 1 .. Cardinality(S) : Ordered(S)[n] \in S
           /\ \A e \in S : \E n \in 1 .. Cardinality(S) : Ordered(S)[n] = e
           /\ \A m, n \in 1 .. Cardinality(S) : Ordered(S)[m] = Ordered(S)[n] => m = n
<1>. DEFINE Below(e) == {d \in S : d.id < e.id}
            Rank(e) == Cardinality(Below(e))
            N == Cardinality(S)
            rank == [e \in S |-> Rank(e)]
<1>1. N \in Nat /\ \A e \in S : e.id \in Nat
  BY FS_CardinalityType DEF Entry, Ids
<1>2. ASSUME NEW e \in S
      PROVE  IsFiniteSet(Below(e)) /\ Rank(e) \in 0 .. N - 1
  <2>1. Below(e) \in SUBSET S /\ e \notin Below(e)
    BY <1>1
  <2>. HIDE DEF Below
  <2>2. IsFiniteSet(Below(e)) /\ Rank(e) <= N /\ Rank(e) # N
    BY <2>1, FS_Subset
  <2>3. Rank(e) \in Nat
    BY <2>2, FS_CardinalityType
  <2>. HIDE DEF N, Rank
  <2>. QED
    BY <1>1, <2>2, <2>3
<1>3. ASSUME NEW d \in S, NEW e \in S, d.id < e.id
      PROVE  Rank(d) < Rank(e)
  <2>1. Below(d) \in SUBSET Below(e) /\ d \in Below(e) /\ d \notin Below(d)
    BY <1>1, <1>3
  <2>. HIDE DEF Below, N
  <2>2. IsFiniteSet(Below(e)) /\ Rank(d) \in Nat /\ Rank(e) \in Nat
    <3>. HIDE DEF Rank
    <3>. QED
      BY <1>1, <1>2
  <2>3. Rank(d) <= Rank(e) /\ Rank(d) # Rank(e)
    BY <2>1, <2>2, FS_Subset
  <2>. HIDE DEF Rank
  <2>. QED
    BY <2>2, <2>3
<1>4. \A n \in 1 .. N : Ordered(S)[n] = CHOOSE e \in S : Rank(e) = n - 1
  BY Zenon DEF Ordered
<1>. HIDE DEF Below, Rank, N
<1>5. \A d, e \in S : Rank(d) = Rank(e) => d = e
  <2>. SUFFICES ASSUME NEW d \in S, NEW e \in S, Rank(d) = Rank(e)
                PROVE  d = e
    OBVIOUS
  <2>1. Rank(d) \in Nat
    BY <1>1, <1>2
  <2>2. d.id = e.id
    BY <1>1, <1>3, <2>1
  <2>. QED
    BY <2>2
<1>6. rank \in Injection(S, 0 .. N - 1)
  BY <1>2, <1>5 DEF Injection, IsInjective
<1>7. IsFiniteSet(0 .. N - 1) /\ Cardinality(0 .. N - 1) = N
  BY <1>1, FS_Interval
<1>8. rank \in Surjection(S, 0 .. N - 1)
  BY <1>6, <1>7, FS_Injection DEF N
<1>9. ASSUME NEW n \in 1 .. N
      PROVE  Ordered(S)[n] \in S /\ Rank(Ordered(S)[n]) = n - 1
  <2>1. n - 1 \in 0 .. N - 1
    BY <1>1
  <2>2. \E e \in S : Rank(e) = n - 1
    BY <1>8, <2>1, Zenon DEF Surjection
  <2>. QED
    BY <1>4, <2>2, Zenon
<1>10. ASSUME NEW e \in S
       PROVE  \E n \in 1 .. N : Ordered(S)[n] = e
  <2>1. Rank(e) + 1 \in 1 .. N /\ (Rank(e) + 1) - 1 = Rank(e)
    BY <1>1, <1>2
  <2>. QED
    BY <1>5, <1>9, <2>1
<1>11. ASSUME NEW m \in 1 .. N, NEW n \in 1 .. N, Ordered(S)[m] = Ordered(S)[n]
       PROVE  m = n
  <2>1. m - 1 = n - 1
    BY <1>9, <1>11
  <2>2. m \in Nat /\ n \in Nat
    BY <1>1
  <2>. QED
    BY <2>1, <2>2
<1>. QED
  BY <1>9, <1>10, <1>11 DEF N

(* What the worker encodes is well formed. *)
LEMMA EncodedFacts ==
    /\ \A e \in Entry : /\ Shaped(EncodeEnqueue(e)) /\ EncodeEnqueue(e).op = "enqueue"
                        /\ EncodeEnqueue(e).id = e.id /\ EncodeEnqueue(e).msg = e.msg
                        /\ EncodeEnqueue(e).ids = {}
                        /\ e = [id |-> e.id, msg |-> e.msg]
    /\ \A S \in SUBSET Ids : /\ Shaped(EncodeAcknowledge(S)) /\ EncodeAcknowledge(S).ids = S
                             /\ EncodeAcknowledge(S).op = "acknowledge"
    /\ \A n \in 1 .. MaxId : /\ Shaped(EncodeCheckpoint(n)) /\ EncodeCheckpoint(n).id = n
                             /\ EncodeCheckpoint(n).op = "checkpoint"
                             /\ EncodeCheckpoint(n).ids = {}
    /\ Shaped(Torn) /\ Torn.op = "torn" /\ Torn.ids = {}
<1>1. 0 \in 0 .. MaxId /\ \A n \in 1 .. MaxId : n \in 0 .. MaxId
  BY MaxIdAssumption
<1>2. \A e \in Entry : e.id \in Ids /\ e.id \in 0 .. MaxId /\ e.msg \in Messages
                         /\ e = [id |-> e.id, msg |-> e.msg]
  BY MaxIdAssumption DEF Entry, Ids
<1>. QED
  BY <1>1, <1>2
  DEF Shaped, Record, EncodeEnqueue, EncodeAcknowledge, EncodeCheckpoint, Torn

(* compact() writes a journal that stands for the same. *)
LEMMA CompactedFacts ==
    ASSUME NEW j, Sound(j), NEW n, IsNextId(n, j)
    PROVE  LET c == Compacted(LiveEntries(j), n)
           IN  /\ Sound(c) /\ Whole(c) /\ LiveEntries(c) = LiveEntries(j) /\ IsNextId(n, c)
<1>. DEFINE S == LiveEntries(j)
            N == Cardinality(S)
            o == Ordered(S)
            c == Compacted(S, n)
<1>1. /\ S \in SUBSET Entry /\ IsFiniteSet(S) /\ \A d, e \in S : d.id = e.id => d = e
      /\ \A e \in S : \E m \in NextIdBounds(j) : e.id < m
  BY LiveFacts
<1>2. n \in 1 .. MaxId /\ \A e \in S : e.id + 1 <= n /\ e.id \in Nat
  <2>1. n \in 1 .. MaxId /\ \A m \in NextIdBounds(j) : m <= n /\ m \in Nat
    BY BoundsTypes, MaxIdAssumption DEF IsNextId
  <2>2. \A e \in S : e.id \in Nat
    BY <1>1 DEF Entry, Ids
  <2>. HIDE DEF S
  <2>. QED
    BY <1>1, <2>1, <2>2
<1>3. N \in Nat
  BY <1>1, FS_CardinalityType
<1>4. /\ \A i \in 1 .. N : o[i] \in S
      /\ \A e \in S : \E i \in 1 .. N : o[i] = e
      /\ \A i, k \in 1 .. N : o[i] = o[k] => i = k
  BY <1>1, OrderedFacts
<1>. HIDE DEF S, N, o
<1>5. /\ c \in Seq(Record) /\ Len(c) = N + 1 /\ c[1] = EncodeCheckpoint(n)
      /\ \A i \in 1 .. N : c[i + 1] = EncodeEnqueue(o[i])
  <2>. DEFINE t == [i \in 1 .. N |-> EncodeEnqueue(o[i])]
              h == <<EncodeCheckpoint(n)>>
  <2>1. \A i \in 1 .. N : EncodeEnqueue(o[i]) \in Record
    BY <1>1, <1>4, EncodedFacts DEF Shaped
  <2>2. t \in Seq(Record) /\ Len(t) = N
    BY <1>3, <2>1
  <2>3. EncodeCheckpoint(n) \in Record
    BY <1>2, EncodedFacts DEF Shaped
  <2>4. h \in Seq(Record) /\ Len(h) = 1 /\ h[1] = EncodeCheckpoint(n)
    BY <2>3
  <2>5. c = h \o t
    BY DEF Compacted, N, o
  <2>6. \A i \in 1 .. N : t[i] = EncodeEnqueue(o[i])
    OBVIOUS
  <2>. HIDE DEF h, t, c
  <2>10. /\ c \in Seq(Record) /\ Len(c) = Len(h) + Len(t)
         /\ \A i \in 1 .. Len(h) + Len(t) : c[i] = IF i <= Len(h) THEN h[i] ELSE t[i - Len(h)]
    BY <2>2, <2>4, <2>5, Concatenated, Zenon
  <2>7. c \in Seq(Record) /\ Len(c) = N + 1
    BY <1>3, <2>2, <2>4, <2>10
  <2>8. \A i \in 1 .. N + 1 : c[i] = IF i <= 1 THEN h[i] ELSE t[i - 1]
    BY <1>3, <2>2, <2>4, <2>10
  <2>9. c[1] = h[1] /\ \A i \in 1 .. N : c[i + 1] = t[i]
    BY <1>3, <2>8
  <2>. QED
    BY <2>4, <2>6, <2>7, <2>9
<1>. HIDE DEF c
<1>6. 1 .. N + 1 = {1} \cup {i + 1 : i \in 1 .. N}
  <2>1. \A k \in 1 .. N + 1 : k = 1 \/ (k - 1 \in 1 .. N /\ k = (k - 1) + 1)
    BY <1>3
  <2>2. \A i \in 1 .. N : i + 1 \in 1 .. N + 1
    BY <1>3
  <2>. QED
    BY <1>3, <2>1, <2>2
<1>7. \A i \in 1 .. N : /\ Shaped(c[i + 1]) /\ c[i + 1].op = "enqueue" /\ c[i + 1].ids = {}
                        /\ c[i + 1].id = o[i].id
                        /\ [id |-> c[i + 1].id, msg |-> c[i + 1].msg] = o[i]
  BY <1>1, <1>4, <1>5, EncodedFacts
<1>8. Shaped(c[1]) /\ c[1].op = "checkpoint" /\ c[1].ids = {} /\ c[1].id = n
  BY <1>2, <1>5, EncodedFacts
<1>9. \A k \in 1 .. N + 1 : Shaped(c[k]) /\ c[k].op # "torn" /\ c[k].ids = {}
                              /\ (c[k].op = "enqueue" <=> k # 1)
  <2>. SUFFICES ASSUME NEW k \in 1 .. N + 1
                PROVE  /\ Shaped(c[k]) /\ c[k].op # "torn" /\ c[k].ids = {}
                       /\ c[k].op = "enqueue" <=> k # 1
    OBVIOUS
  <2>1. CASE k = 1
    BY <1>8, <2>1
  <2>2. CASE k # 1
    <3>1. PICK i \in 1 .. N : k = i + 1
      BY <1>6, <2>2
    <3>. QED
      BY <1>7, <2>2, <3>1, Zenon
  <2>. QED
    BY <2>1, <2>2
<1>10. Whole(c)
  BY <1>5, <1>9 DEF Whole
<1>11. Sound(c)
  <2>1. ASSUME NEW i \in 1 .. N, NEW k \in 1 .. N, c[i + 1].id = c[k + 1].id
        PROVE  i + 1 = k + 1
    <3>1. o[i] = o[k]
      <4>1. o[i] \in S /\ o[k] \in S /\ o[i].id = o[k].id
        BY <1>4, <1>7, <2>1, Zenon
      <4>. QED
        BY <1>1, <4>1
    <3>. QED
      BY <1>4, <3>1
  <2>2. ASSUME NEW i \in 1 .. N + 1, NEW k \in 1 .. N + 1, c[i].op = "enqueue",
               c[k].op = "enqueue", c[i].id = c[k].id
        PROVE  i = k
    <3>1. i # 1 /\ k # 1
      BY <1>9, <2>2
    <3>. QED
      BY <1>6, <2>1, <2>2, <3>1
  <2>3. \A i \in 1 .. Len(c) - 1 : i \in 1 .. N + 1
    BY <1>3, <1>5
  <2>. QED
    BY <1>5, <1>9, <2>2, <2>3 DEF Sound
<1>12. \A e : e \in LiveEntries(c) <=> e \in S
  <2>1. \A k \in 1 .. N + 1 : Survives(c, k) <=> k # 1
    <3>1. \A k \in 1 .. N + 1 : \A l \in k + 1 .. N + 1 : l \in 1 .. N + 1
      BY <1>3
    <3>. QED
      BY <1>5, <1>9, <3>1 DEF Survives
  <2>2. ASSUME NEW e
        PROVE  e \in LiveEntries(c) <=>
                 \E k \in 1 .. N + 1 : k # 1 /\ e = [id |-> c[k].id, msg |-> c[k].msg]
    BY <1>5, <2>1 DEF LiveEntries
  <2>3. \A i \in 1 .. N : i + 1 # 1
    BY <1>3
  <2>4. ASSUME NEW e
        PROVE  e \in LiveEntries(c) <=>
                 \E i \in 1 .. N : e = [id |-> c[i + 1].id, msg |-> c[i + 1].msg]
    BY <1>6, <2>2, <2>3
  <2>5. ASSUME NEW e PROVE e \in LiveEntries(c) <=> \E i \in 1 .. N : e = o[i]
    <3>. DEFINE At(i) == [id |-> c[i + 1].id, msg |-> c[i + 1].msg]
    <3>1. \A i \in 1 .. N : At(i) = o[i]
      BY <1>7
    <3>2. e \in LiveEntries(c) <=> \E i \in 1 .. N : e = At(i)
      BY <2>4
    <3>. HIDE DEF At
    <3>. QED
      BY <3>1, <3>2
  <2>. QED
    BY <1>4, <2>5
<1>13. IsNextId(n, c)
  <2>1. n \in NextIdBounds(c)
    <3>1. 1 \in 1 .. Len(c)
      BY <1>3, <1>5
    <3>. QED
      BY <1>8, <3>1 DEF NextIdBounds
  <2>2. ASSUME NEW m \in NextIdBounds(c)
        PROVE  m <= n
    <3>1. \/ m = 1
          \/ \E k \in 1 .. N + 1 : c[k].op = "enqueue" /\ m = c[k].id + 1
          \/ \E k \in 1 .. N + 1 : c[k].op = "checkpoint" /\ m = c[k].id
      BY <1>5 DEF NextIdBounds
    <3>2. \A k \in 1 .. N + 1 : c[k].op = "checkpoint" => c[k].id = n
      BY <1>8, <1>9
    <3>3. \A i \in 1 .. N : c[i + 1].id + 1 <= n
      BY <1>2, <1>4, <1>7, Zenon
    <3>4. \A k \in 1 .. N + 1 : c[k].op = "enqueue" => c[k].id + 1 <= n
      BY <1>6, <1>8, <3>3
    <3>. QED
      BY <1>2, <3>1, <3>2, <3>4
  <2>. QED
    BY <2>1, <2>2 DEF IsNextId
<1>. QED
  BY <1>10, <1>11, <1>12, <1>13 DEF c, S

---------------------------------------------------------------------------
(* recover() *)

\* The records replayed so far
Prefix == SubSeq(file, 1, offset)

\* Record i of the first o enqueues an entry that none of them acknowledges
LiveAt(o, i) == /\ file[i].op = "enqueue"
                /\ \A k \in i + 1 .. o : file[i].id \notin file[k].ids

EntryAt(i) == [id |-> file[i].id, msg |-> file[i].msg]

\* What a record of the journal looks like
FileInv == /\ file \in Seq(Record)
           /\ \A i \in 1 .. Len(file) :
                /\ file[i].op # "acknowledge" => file[i].ids = {}
                /\ file[i].op = "enqueue" => file[i].id \in Ids /\ file[i].msg \in Messages
                /\ file[i].op = "checkpoint" => file[i].id \in 1 .. MaxId

\* Nothing the loop has passed is a reason to refuse the journal
PassedInv == \A k \in 1 .. offset :
               /\ file[k].op # "torn"
               /\ file[k].op = "enqueue" => \A i \in 1 .. k - 1 : LiveAt(k - 1, i) => file[i].id # file[k].id

\* recovered.entries is what the prefix holds
EntriesInv == \A e : e \in recoveryEntries <=> \E i \in 1 .. offset : LiveAt(offset, i) /\ e = EntryAt(i)

\* recovered.next_id is the largest bound of the prefix
NextIdInv == /\ \/ recoveryNextId = 1
                \/ \E i \in 1 .. offset : file[i].op = "enqueue" /\ recoveryNextId = file[i].id + 1
                \/ \E i \in 1 .. offset : file[i].op = "checkpoint" /\ recoveryNextId = file[i].id
             /\ \A i \in 1 .. offset : /\ file[i].op = "enqueue" => file[i].id + 1 <= recoveryNextId
                                       /\ file[i].op = "checkpoint" => file[i].id <= recoveryNextId

\* How the loop ended
OutcomeInv == /\ outcome = "ok" => \/ offset = Len(file)
                                   \/ offset + 1 = Len(file) /\ file[offset + 1].op = "torn"
              /\ outcome = "corrupt" =>
                   /\ offset < Len(file)
                   /\ \/ offset + 1 < Len(file) /\ file[offset + 1].op = "torn"
                      \/ /\ file[offset + 1].op = "enqueue"
                         /\ \E i \in 1 .. offset : LiveAt(offset, i) /\ file[i].id = file[offset + 1].id

LoopInv == /\ offset \in 0 .. Len(file)
           /\ recoveryNextId \in 1 .. MaxId
           /\ outcome \in {"running", "ok", "corrupt"}
           /\ FileInv
           /\ PassedInv
           /\ EntriesInv
           /\ NextIdInv
           /\ OutcomeInv

---------------------------------------------------------------------------
(* The first o records of the journal as a sequence of their own *)
LEMMA PrefixFacts ==
    ASSUME FileInv, NEW o \in 0 .. Len(file)
    PROVE  /\ Len(SubSeq(file, 1, o)) = o
           /\ \A i \in 1 .. o : SubSeq(file, 1, o)[i] = file[i]
  BY DEF FileInv

(* A record survives in a prefix when the later records of it do not name it *)
LEMMA SurvivesFacts ==
    ASSUME FileInv, NEW o \in 0 .. Len(file), NEW i \in 1 .. o
    PROVE  Survives(SubSeq(file, 1, o), i) <=> LiveAt(o, i)
  BY PrefixFacts DEF Survives, LiveAt

(* One more record: an earlier one is live if it was and is not named, and *)
(* an enqueue that is the last record is live                              *)
LEMMA LiveStep ==
    ASSUME NEW o \in Nat
    PROVE  /\ \A i \in 1 .. o : LiveAt(o + 1, i) <=> LiveAt(o, i) /\ file[i].id \notin file[o + 1].ids
           /\ LiveAt(o + 1, o + 1) <=> file[o + 1].op = "enqueue"
<1>1. \A i \in 1 .. o : i + 1 .. o + 1 = (i + 1 .. o) \cup {o + 1}
  OBVIOUS
<1>2. o + 1 + 1 .. o + 1 = {}
  OBVIOUS
<1>. QED
  BY <1>1, <1>2 DEF LiveAt

(* Types of the records and of what the loop recovers *)
LEMMA LoopTypes == ASSUME LoopInv PROVE RecoveryTypeOK
<1>1. recoveryEntries \in SUBSET Entry
  <2>1. ASSUME NEW e \in recoveryEntries PROVE e \in Entry
    <3>1. PICK i \in 1 .. offset : LiveAt(offset, i) /\ e = EntryAt(i)
      BY <2>1 DEF LoopInv, EntriesInv
    <3>2. i \in 1 .. Len(file)
      BY <3>1 DEF LoopInv, FileInv
    <3>. QED
      BY <3>1, <3>2 DEF LoopInv, FileInv, LiveAt, EntryAt, Entry
  <2>. QED
    BY <2>1
<1>. QED
  BY <1>1 DEF LoopInv, RecoveryTypeOK, FileInv

(* Every record the worker encodes is a record. *)
LEMMA RecordFacts == /\ \A e \in Entry : EncodeEnqueue(e) \in Record
                     /\ \A S \in SUBSET Ids : EncodeAcknowledge(S) \in Record
                     /\ \A n \in 1 .. MaxId : EncodeCheckpoint(n) \in Record
                     /\ Torn \in Record
  BY EncodedFacts DEF Shaped

(* recover() starts with the empty prefix. *)
LEMMA InitLoop == RecoveryInit => LoopInv
<1>. SUFFICES ASSUME RecoveryInit PROVE LoopInv
  OBVIOUS
<1>1. PICK n \in 0 .. MaxLen : file \in [1 .. n -> Written]
  BY DEF RecoveryInit
<1>2. Written \subseteq Record
  BY RecordFacts DEF Written
<1>3. n \in Nat
  BY <1>1, MaxLenAssumption
<1>4. file \in Seq(Record) /\ Len(file) = n
  BY <1>1, <1>2, <1>3
<1>5. FileInv
  BY <1>1, <1>4, MaxIdAssumption DEF FileInv, Written, EncodeEnqueue, EncodeAcknowledge, EncodeCheckpoint, Torn, Entry
<1>6. offset = 0 /\ recoveryNextId = 1 /\ recoveryEntries = {} /\ outcome = "running"
  BY DEF RecoveryInit
<1>. QED
  BY <1>4, <1>5, <1>6, MaxIdAssumption DEF LoopInv, PassedInv, EntriesInv, NextIdInv, OutcomeInv

(* What the loop knows of the prefix only depends on what it has recovered. *)
LEMMA PrefixKept ==
    ASSUME LoopInv, UNCHANGED <<file, offset, recoveryNextId, recoveryEntries>>
    PROVE  FileInv' /\ PassedInv' /\ EntriesInv' /\ NextIdInv'
<1>1. FileInv'
  BY DEF LoopInv, FileInv
<1>2. PassedInv'
  BY DEF LoopInv, PassedInv, LiveAt
<1>3. EntriesInv'
  BY DEF LoopInv, EntriesInv, LiveAt, EntryAt
<1>4. NextIdInv'
  BY DEF LoopInv, NextIdInv
<1>. QED
  BY <1>1, <1>2, <1>3, <1>4

(* One more record that is neither torn nor enqueues a live identifier. *)
LEMMA PassedStep ==
    ASSUME LoopInv, offset < Len(file), UNCHANGED file, offset' = offset + 1,
           file[offset + 1].op # "torn",
           file[offset + 1].op = "enqueue"
             => \A i \in 1 .. offset : LiveAt(offset, i) => file[i].id # file[offset + 1].id
    PROVE  PassedInv'
<1>. DEFINE Passed(k) == /\ file[k].op # "torn"
                         /\ file[k].op = "enqueue" => \A i \in 1 .. k - 1 : LiveAt(k - 1, i) => file[i].id # file[k].id
<1>1. \A k \in 1 .. offset : Passed(k)
  BY DEF LoopInv, PassedInv
<1>2. offset \in Nat /\ (offset + 1) - 1 = offset /\ 1 .. offset + 1 = (1 .. offset) \cup {offset + 1}
  BY DEF LoopInv, FileInv
<1>3. Passed(offset + 1)
  BY <1>2
<1>4. \A k \in 1 .. offset + 1 : Passed(k)
  <2>. HIDE DEF Passed
  <2>. QED
    BY <1>1, <1>2, <1>3
<1>. QED
  BY <1>4 DEF PassedInv, LiveAt

(* One more record with a bound on the next identifier. *)
LEMMA NextIdStep ==
    ASSUME LoopInv, offset < Len(file), UNCHANGED file, offset' = offset + 1, NEW b \in Nat,
           \/ file[offset + 1].op = "enqueue" /\ b = file[offset + 1].id + 1
           \/ file[offset + 1].op = "checkpoint" /\ b = file[offset + 1].id,
           recoveryNextId' = RecoveryLarger(recoveryNextId, b)
    PROVE  NextIdInv'
<1>. DEFINE Bounds(i, n) == /\ file[i].op = "enqueue" => file[i].id + 1 <= n
                            /\ file[i].op = "checkpoint" => file[i].id <= n
<1>1. /\ offset \in Nat /\ offset + 1 \in 1 .. offset + 1
      /\ 1 .. offset + 1 = (1 .. offset) \cup {offset + 1}
  BY DEF LoopInv, FileInv
<1>2. /\ recoveryNextId \in Nat /\ recoveryNextId' \in Nat /\ recoveryNextId <= recoveryNextId' /\ b <= recoveryNextId'
      /\ recoveryNextId' = recoveryNextId \/ recoveryNextId' = b
  BY MaxIdAssumption DEF LoopInv, RecoveryLarger
<1>3. ASSUME NEW i \in 1 .. offset PROVE Bounds(i, recoveryNextId')
  <2>1. i \in 1 .. Len(file) /\ Bounds(i, recoveryNextId)
    BY <1>3 DEF LoopInv, FileInv, NextIdInv
  <2>2. file[i].op \in {"enqueue", "checkpoint"} => file[i].id \in Nat
    BY <2>1 DEF LoopInv, FileInv, Ids
  <2>. QED
    BY <1>2, <2>1, <2>2
<1>4. Bounds(offset + 1, recoveryNextId')
  BY <1>2
<1>5. \A i \in 1 .. offset + 1 : Bounds(i, recoveryNextId')
  <2>. HIDE DEF Bounds
  <2>. QED
    BY <1>1, <1>3, <1>4
<1>6. \/ recoveryNextId' = 1
      \/ \E i \in 1 .. offset + 1 : file[i].op = "enqueue" /\ recoveryNextId' = file[i].id + 1
      \/ \E i \in 1 .. offset + 1 : file[i].op = "checkpoint" /\ recoveryNextId' = file[i].id
  <2>1. CASE recoveryNextId' = recoveryNextId
    BY <1>1, <2>1 DEF LoopInv, NextIdInv
  <2>2. CASE recoveryNextId' = b
    BY <1>1, <2>2
  <2>. QED
    BY <1>2, <2>1, <2>2
<1>. QED
  BY <1>5, <1>6 DEF NextIdInv

(* An enqueue record: the identifier is not live, and its entry is added. *)
LEMMA EnqueueStep ==
    ASSUME LoopInv, outcome = "running", offset < Len(file), UNCHANGED file,
           ApplyEnqueue(file[offset + 1])
    PROVE  LoopInv'
<1>. DEFINE r == file[offset + 1]
<1>1. /\ offset \in Nat /\ Len(file) \in Nat /\ offset + 1 \in 1 .. Len(file) /\ recoveryNextId \in 1 .. MaxId
      /\ r.op = "enqueue" /\ r.id \in Ids /\ r.ids = {} /\ MaxId \in Nat
  BY MaxIdAssumption DEF LoopInv, FileInv, ApplyEnqueue
<1>2. (\E e \in recoveryEntries : e.id = r.id) <=> \E i \in 1 .. offset : LiveAt(offset, i) /\ file[i].id = r.id
  <2>1. ASSUME NEW e \in recoveryEntries, e.id = r.id
        PROVE  \E i \in 1 .. offset : LiveAt(offset, i) /\ file[i].id = r.id
    <3>1. PICK i \in 1 .. offset : LiveAt(offset, i) /\ e = EntryAt(i)
      BY <2>1 DEF LoopInv, EntriesInv
    <3>. QED
      BY <2>1, <3>1 DEF EntryAt
  <2>2. ASSUME NEW i \in 1 .. offset, LiveAt(offset, i), file[i].id = r.id
        PROVE  \E e \in recoveryEntries : e.id = r.id
    <3>1. EntryAt(i) \in recoveryEntries
      BY <2>2 DEF LoopInv, EntriesInv
    <3>. QED
      BY <2>2, <3>1 DEF EntryAt
  <2>. QED
    BY <2>1, <2>2
<1>3. FileInv' /\ \A o, i : LiveAt(o, i)' <=> LiveAt(o, i)
  BY DEF LoopInv, FileInv, LiveAt
<1>4. CASE \E e \in recoveryEntries : e.id = r.id
  <2>1. outcome' = "corrupt" /\ UNCHANGED <<offset, recoveryNextId, recoveryEntries>>
    BY <1>4 DEF ApplyEnqueue
  <2>2. OutcomeInv'
    BY <1>1, <1>2, <1>3, <1>4, <2>1 DEF OutcomeInv
  <2>3. PassedInv' /\ EntriesInv' /\ NextIdInv'
    BY <2>1, PrefixKept
  <2>. QED
    BY <1>3, <2>1, <2>2, <2>3 DEF LoopInv
<1>5. CASE ~\E e \in recoveryEntries : e.id = r.id
  <2>1. /\ recoveryNextId' = RecoveryLarger(recoveryNextId, r.id + 1) /\ offset' = offset + 1 /\ outcome' = outcome
        /\ recoveryEntries' = recoveryEntries \cup {EntryAt(offset + 1)}
    BY <1>5 DEF ApplyEnqueue, EntryAt
  <2>2. offset' \in 0 .. Len(file)' /\ recoveryNextId' \in 1 .. MaxId /\ OutcomeInv'
    BY <1>1, <2>1 DEF RecoveryLarger, Ids, OutcomeInv
  <2>3. PassedInv'
    BY <1>1, <1>2, <1>5, <2>1, PassedStep
  <2>4. EntriesInv'
    <3>1. \A i \in 1 .. offset + 1 : LiveAt(offset + 1, i) <=> i = offset + 1 \/ (i \in 1 .. offset /\ LiveAt(offset, i))
      <4>1. \A i \in 1 .. offset : LiveAt(offset + 1, i) <=> LiveAt(offset, i)
        BY <1>1, LiveStep, Zenon
      <4>2. LiveAt(offset + 1, offset + 1)
        BY <1>1, LiveStep, Zenon
      <4>. QED
        BY <1>1, <4>1, <4>2
    <3>2. \A e : e \in recoveryEntries' <=> \E i \in 1 .. offset + 1 : LiveAt(offset + 1, i) /\ e = EntryAt(i)
      BY <1>1, <2>1, <3>1 DEF LoopInv, EntriesInv
    <3>. QED
      BY <1>3, <2>1, <3>2 DEF EntriesInv, EntryAt
  <2>5. NextIdInv'
    <3>1. r.id + 1 \in Nat
      BY <1>1 DEF Ids
    <3>. QED
      BY <1>1, <2>1, <3>1, NextIdStep
  <2>. QED
    BY <1>3, <2>1, <2>2, <2>3, <2>4, <2>5 DEF LoopInv
<1>. QED
  BY <1>4, <1>5

(* An acknowledgement record removes the live entries it names. *)
LEMMA AcknowledgeStep ==
    ASSUME LoopInv, outcome = "running", offset < Len(file), UNCHANGED file,
           ApplyAcknowledge(file[offset + 1])
    PROVE  LoopInv'
<1>. DEFINE r == file[offset + 1]
<1>1. /\ offset \in Nat /\ Len(file) \in Nat /\ offset + 1 \in 1 .. Len(file) /\ r.op = "acknowledge"
      /\ offset' = offset + 1 /\ recoveryNextId' = recoveryNextId /\ outcome' = outcome
      /\ recoveryEntries' = {e \in recoveryEntries : e.id \notin r.ids}
  BY DEF LoopInv, FileInv, ApplyAcknowledge
<1>2. FileInv' /\ \A o, i : LiveAt(o, i)' <=> LiveAt(o, i)
  BY DEF LoopInv, FileInv, LiveAt
<1>3. PassedInv'
  BY <1>1, PassedStep
<1>4. EntriesInv'
  <2>1. \A i \in 1 .. offset + 1 : LiveAt(offset + 1, i) <=>
                                     i \in 1 .. offset /\ LiveAt(offset, i) /\ file[i].id \notin r.ids
    <3>1. /\ \A i \in 1 .. offset : LiveAt(offset + 1, i) <=> LiveAt(offset, i) /\ file[i].id \notin r.ids
          /\ ~LiveAt(offset + 1, offset + 1)
      BY <1>1, LiveStep, Zenon
    <3>. QED
      BY <1>1, <3>1
  <2>2. \A e : e \in recoveryEntries' <=> \E i \in 1 .. offset + 1 : LiveAt(offset + 1, i) /\ e = EntryAt(i)
    BY <1>1, <2>1 DEF LoopInv, EntriesInv, EntryAt
  <2>. QED
    BY <1>1, <1>2, <2>2 DEF EntriesInv, EntryAt
<1>5. NextIdInv'
  BY <1>1 DEF LoopInv, NextIdInv
<1>. QED
  BY <1>1, <1>2, <1>3, <1>4, <1>5 DEF LoopInv, OutcomeInv

(* A checkpoint record raises the next identifier and leaves the entries. *)
LEMMA CheckpointStep ==
    ASSUME LoopInv, outcome = "running", offset < Len(file), UNCHANGED file,
           ApplyCheckpoint(file[offset + 1])
    PROVE  LoopInv'
<1>. DEFINE r == file[offset + 1]
<1>1. /\ offset \in Nat /\ Len(file) \in Nat /\ offset + 1 \in 1 .. Len(file) /\ r.op = "checkpoint"
      /\ offset' = offset + 1 /\ recoveryNextId' = RecoveryLarger(recoveryNextId, r.id) /\ outcome' = outcome
      /\ recoveryEntries' = recoveryEntries /\ r.ids = {} /\ r.id \in 1 .. MaxId /\ recoveryNextId \in 1 .. MaxId /\ MaxId \in Nat
  <2>1. /\ r.op = "checkpoint" /\ offset' = offset + 1 /\ recoveryNextId' = RecoveryLarger(recoveryNextId, r.id)
        /\ outcome' = outcome /\ recoveryEntries' = recoveryEntries
    BY DEF ApplyCheckpoint
  <2>2. offset \in Nat /\ Len(file) \in Nat /\ offset + 1 \in 1 .. Len(file)
    BY DEF LoopInv, FileInv
  <2>3. r.ids = {} /\ r.id \in 1 .. MaxId
    BY <2>1, <2>2 DEF LoopInv, FileInv
  <2>. QED
    BY <2>1, <2>2, <2>3, MaxIdAssumption DEF LoopInv
<1>2. FileInv' /\ \A o, i : LiveAt(o, i)' <=> LiveAt(o, i)
  BY DEF LoopInv, FileInv, LiveAt
<1>3. PassedInv'
  BY <1>1, PassedStep
<1>4. EntriesInv'
  <2>1. \A i \in 1 .. offset + 1 : LiveAt(offset + 1, i) <=> i \in 1 .. offset /\ LiveAt(offset, i)
    <3>1. /\ \A i \in 1 .. offset : LiveAt(offset + 1, i) <=> LiveAt(offset, i)
          /\ ~LiveAt(offset + 1, offset + 1)
      BY <1>1, LiveStep, Zenon
    <3>. QED
      BY <1>1, <3>1
  <2>2. \A e : e \in recoveryEntries' <=> \E i \in 1 .. offset + 1 : LiveAt(offset + 1, i) /\ e = EntryAt(i)
    BY <1>1, <2>1 DEF LoopInv, EntriesInv
  <2>. QED
    BY <1>1, <1>2, <2>2 DEF EntriesInv, EntryAt
<1>5. NextIdInv'
  <2>1. r.id \in Nat
    BY <1>1
  <2>. QED
    BY <1>1, <2>1, NextIdStep
<1>. QED
  BY <1>1, <1>2, <1>3, <1>4, <1>5 DEF LoopInv, OutcomeInv, RecoveryLarger

(* Every turn of the loop, and its end, keep the invariant. *)
LEMMA NextLoop == LoopInv /\ [RecoveryNext]_recoveryVars => LoopInv'
<1>. SUFFICES ASSUME LoopInv, [RecoveryNext]_recoveryVars PROVE LoopInv'
  OBVIOUS
<1>1. CASE Replay
  <2>1. outcome = "running" /\ offset < Len(file) /\ UNCHANGED file
    BY <1>1 DEF Replay
  <2>2. CASE ApplyEnqueue(file[offset + 1])
    BY <2>1, <2>2, EnqueueStep
  <2>3. CASE ApplyAcknowledge(file[offset + 1])
    BY <2>1, <2>3, AcknowledgeStep
  <2>4. CASE ApplyCheckpoint(file[offset + 1])
    BY <2>1, <2>4, CheckpointStep
  <2>5. CASE ReadTorn(file[offset + 1])
    <3>1. OutcomeInv'
      BY <2>1, <2>5 DEF LoopInv, FileInv, OutcomeInv, ReadTorn
    <3>2. FileInv' /\ PassedInv' /\ EntriesInv' /\ NextIdInv'
      BY <2>1, <2>5, PrefixKept DEF ReadTorn
    <3>. QED
      BY <2>1, <2>5, <3>1, <3>2 DEF LoopInv, ReadTorn
  <2>. QED
    BY <1>1, <2>2, <2>3, <2>4, <2>5 DEF Replay
<1>2. CASE Finish
  <2>1. OutcomeInv'
    BY <1>2 DEF OutcomeInv, Finish
  <2>2. FileInv' /\ PassedInv' /\ EntriesInv' /\ NextIdInv'
    BY <1>2, PrefixKept DEF Finish
  <2>. QED
    BY <1>2, <2>1, <2>2 DEF LoopInv, Finish
<1>3. CASE UNCHANGED recoveryVars
  <2>1. OutcomeInv'
    BY <1>3 DEF LoopInv, OutcomeInv, LiveAt, recoveryVars
  <2>2. FileInv' /\ PassedInv' /\ EntriesInv' /\ NextIdInv'
    BY <1>3, PrefixKept DEF recoveryVars
  <2>. QED
    BY <1>3, <2>1, <2>2 DEF LoopInv, recoveryVars
<1>. QED
  BY <1>1, <1>2, <1>3 DEF RecoveryNext

(* What the loop knows of a prefix is what the prefix stands for as a     *)
(* journal of its own.                                                     *)
LEMMA PrefixRecovered ==
    ASSUME LoopInv
    PROVE  recoveryEntries = LiveEntries(Prefix) /\ IsNextId(recoveryNextId, Prefix)
<1>1. Len(Prefix) = offset /\ \A i \in 1 .. offset : Prefix[i] = file[i] /\ (Survives(Prefix, i) <=> LiveAt(offset, i))
  BY PrefixFacts, SurvivesFacts DEF LoopInv, Prefix
<1>2. \A e : e \in recoveryEntries <=> e \in LiveEntries(Prefix)
  BY <1>1 DEF LoopInv, EntriesInv, EntryAt, LiveEntries
<1>3. recoveryNextId \in NextIdBounds(Prefix)
  BY <1>1 DEF LoopInv, NextIdInv, NextIdBounds
<1>4. \A m \in NextIdBounds(Prefix) : m <= recoveryNextId
  BY <1>1 DEF LoopInv, NextIdInv, NextIdBounds
<1>. QED
  BY <1>2, <1>3, <1>4 DEF IsNextId

(* A journal is refused for a torn record before its last, or for an       *)
(* enqueue of an identifier that is live.                                  *)
LEMMA RefusesFacts ==
    ASSUME FileInv
    PROVE  Refuses(file) <=> \/ \E k \in 1 .. Len(file) - 1 : file[k].op = "torn"
                             \/ \E k \in 1 .. Len(file) : /\ file[k].op = "enqueue"
                                                          /\ \E i \in 1 .. k - 1 : LiveAt(k - 1, i) /\ file[i].id = file[k].id
<1>1. \A k \in 1 .. Len(file) : \A i \in 1 .. k - 1 : Survives(SubSeq(file, 1, k - 1), i) <=> LiveAt(k - 1, i)
  <2>1. \A k \in 1 .. Len(file) : k - 1 \in 0 .. Len(file)
    BY DEF FileInv
  <2>. QED
    BY <2>1, SurvivesFacts
<1>. QED
  BY <1>1, Zenon DEF Refuses

(* The loop invariant gives the result of recover(). *)
LEMMA LoopResult == LoopInv => ReplayIsRecovery
<1>. SUFFICES ASSUME LoopInv PROVE ReplayIsRecovery
  OBVIOUS
<1>1. FileInv /\ Len(file) \in Nat /\ offset \in 0 .. Len(file)
  BY DEF LoopInv, FileInv
<1>2. ASSUME outcome = "corrupt" PROVE Refuses(file)
  <2>1. CASE offset + 1 < Len(file) /\ file[offset + 1].op = "torn"
    BY <1>1, <2>1, RefusesFacts
  <2>2. CASE /\ offset < Len(file) /\ file[offset + 1].op = "enqueue"
             /\ \E i \in 1 .. offset : LiveAt(offset, i) /\ file[i].id = file[offset + 1].id
    <3>1. offset + 1 \in 1 .. Len(file) /\ (offset + 1) - 1 = offset
      BY <1>1, <2>2
    <3>. QED
      BY <1>1, <2>2, <3>1, RefusesFacts
  <2>. QED
    BY <1>2, <2>1, <2>2 DEF LoopInv, OutcomeInv
<1>3. ASSUME outcome = "ok" PROVE ~Refuses(file) /\ Trimmed(file) = Prefix
  <2>1. CASE offset = Len(file)
    <3>1. Trimmed(file) = file
      BY <1>1, <2>1 DEF LoopInv, PassedInv, Trimmed
    <3>2. Prefix = file
      BY <1>1, <2>1 DEF Prefix, FileInv
    <3>3. ~Refuses(file)
      BY <1>1, <2>1, RefusesFacts DEF LoopInv, PassedInv
    <3>. QED
      BY <3>1, <3>2, <3>3
  <2>2. CASE offset + 1 = Len(file) /\ file[offset + 1].op = "torn"
    <3>1. Trimmed(file) = Prefix
      BY <1>1, <2>2 DEF Prefix, Trimmed, FileInv
    <3>2. Len(file) - 1 = offset /\ 1 .. Len(file) = (1 .. offset) \cup {offset + 1}
      BY <1>1, <2>2
    <3>3. ~Refuses(file)
      BY <1>1, <2>2, <3>2, RefusesFacts DEF LoopInv, PassedInv
    <3>. QED
      BY <3>1, <3>3
  <2>. QED
    BY <1>3, <2>1, <2>2 DEF LoopInv, OutcomeInv
<1>. QED
  BY <1>2, <1>3, PrefixRecovered DEF ReplayIsRecovery

---------------------------------------------------------------------------
(* The loop of recover() stays within its types: the next identifier never *)
(* leaves the range of u64.                                                *)
THEOREM RecoveryTypes == RecoverySpec => []RecoveryTypeOK
  BY InitLoop, NextLoop, LoopTypes, PTL DEF RecoverySpec

(* recover() brings back exactly the entries that were enqueued and never  *)
(* acknowledged, with the next identifier above all that were assigned,    *)
(* and refuses exactly the damaged journals (file_outbox.rs, recover).     *)
THEOREM RecoveryCorrect == RecoverySpec => []ReplayIsRecovery
  BY InitLoop, NextLoop, LoopResult, PTL DEF RecoverySpec

---------------------------------------------------------------------------
(* The point slot *)

Busy == \E w \in SlotWriters : setting[w] # 0

BusyBit == IF Busy THEN 1 ELSE 0

\* seq is odd exactly while a set() runs
SeqParity == seq % 2 = BusyBit

\* Between calls every word is of the last call; during a call the words it
\* has yet to store are of the one before
WordsOfCall == /\ ~Busy => \A f \in Words : word[f] = begun
               /\ \A w \in SlotWriters : setting[w] # 0 =>
                    /\ setting[w] = begun
                    /\ \A f \in Words : word[f] = IF f \in unstored[w] THEN begun - 1 ELSE begun

\* How far seq has moved since r loaded it, as long as it has not gone round
SeqSteps(r) == 2 * (begun - start[r]) - BusyBit

Loading(r) == phase[r] \in {"words", "seq2"}

Moved(s, d) == IF s + d < SlotSeqMod THEN s + d ELSE s + d - SlotSeqMod

SeqMoved(r) == 2 * (begun - start[r]) < SlotSeqMod => seq = Moved(seq1[r], SeqSteps(r))

ReadOfStart(r) == begun = start[r] => /\ ~Busy
                                      /\ \A f \in Words : f \notin unread[r] => got[r][f] = start[r]

SlotReaderInv(r) == /\ Loading(r) => start[r] <= begun /\ SeqMoved(r) /\ ReadOfStart(r)
                    /\ phase[r] = "seq2" => unread[r] = {}

\* The inductive invariant
SlotInv == /\ SlotTypeOK
           /\ SeqParity
           /\ WordsOfCall
           /\ \A r \in SlotReaders : SlotReaderInv(r)
           /\ ConsistentRead

---------------------------------------------------------------------------
(* Bump takes a counter of the right range to its successor of the other   *)
(* parity.                                                                 *)
LEMMA BumpFacts ==
    ASSUME NEW s \in 0 .. SlotSeqMod - 1
    PROVE  /\ Bump(s) \in 0 .. SlotSeqMod - 1
           /\ Bump(s) % 2 = 1 - (s % 2)
BY SeqModAssumption DEF Bump

(* Less than one round of the counter away, Bump moves one step further. *)
LEMMA BumpMoves ==
    ASSUME NEW s \in 0 .. SlotSeqMod - 1, NEW d \in Nat, d + 1 < SlotSeqMod
    PROVE  Bump(Moved(s, d)) = Moved(s, d + 1)
BY SeqModAssumption DEF Bump, Moved

(* The initial slot of PointSlot::new() satisfies the inductive invariant. *)
LEMMA InitSlotInv == SlotInit => SlotInv
BY SeqModAssumption
   DEF SlotInit, SlotInv, SlotTypeOK, SeqParity, BusyBit, Busy, WordsOfCall, SlotReaderInv, Loading,
       ConsistentRead, Phases, Words

(* seq.fetch_add at the start of set(), by the only writer. *)
LEMMA BeginSetIInv ==
    ASSUME SingleWriter, SlotInv, NEW w \in SlotWriters, BeginSet(w)
    PROVE  SlotInv'
<1>1. ~Busy
  BY DEF SingleWriter, BeginSet, Busy
<1>2. Busy'
  BY DEF BeginSet, Busy, SlotInv, SlotTypeOK
<1>3. SlotTypeOK'
  BY BumpFacts DEF BeginSet, SlotInv, SlotTypeOK, slotReaderVars
<1>4. SeqParity'
  <2>1. seq' % 2 = 1 - (seq % 2) /\ seq % 2 = BusyBit
    BY BumpFacts, Zenon DEF BeginSet, SlotInv, SlotTypeOK, SeqParity
  <2> QED BY <1>1, <1>2, <2>1 DEF SeqParity, BusyBit
<1>5. WordsOfCall'
  BY <1>1, <1>2 DEF SingleWriter, WordsOfCall, BeginSet, SlotInv, SlotTypeOK
<1>6. ASSUME NEW r \in SlotReaders PROVE SlotReaderInv(r)'
  <2>1. UNCHANGED <<phase[r], seq1[r], got[r], unread[r], start[r]>>
    BY DEF BeginSet, slotReaderVars
  <2>2. ASSUME Loading(r) PROVE start[r] <= begun' /\ begun' # start[r] /\ SeqMoved(r)'
    <3>1. start[r] <= begun /\ SeqMoved(r)
      BY <2>2 DEF SlotInv, SlotReaderInv
    <3>2. seq1[r] \in 0 .. SlotSeqMod - 1 /\ seq \in 0 .. SlotSeqMod - 1 /\ start[r] \in Nat /\ begun \in Nat
      BY DEF SlotInv, SlotTypeOK
    <3>3. seq' = Bump(seq) /\ begun' = begun + 1
      BY DEF BeginSet
    <3>4. begun' # start[r] /\ SeqSteps(r) \in Nat /\ SeqSteps(r)' = SeqSteps(r) + 1
      <4>1. BusyBit = 0 /\ BusyBit' = 1
        BY <1>1, <1>2, Zenon DEF BusyBit
      <4>. QED
        BY <2>1, <3>1, <3>2, <3>3, <4>1 DEF SeqSteps
    <3>5. 2 * (begun' - start[r]) < SlotSeqMod => SeqSteps(r) + 1 < SlotSeqMod /\ 2 * (begun - start[r]) < SlotSeqMod
      BY <1>1, <3>1, <3>2, <3>3, SeqModAssumption DEF SeqSteps, BusyBit
    <3>6. SeqSteps(r) + 1 < SlotSeqMod => Bump(Moved(seq1[r], SeqSteps(r))) = Moved(seq1[r], SeqSteps(r) + 1)
      BY <3>2, <3>4, BumpMoves
    <3>7. SeqMoved(r)'
      BY <2>1, <3>1, <3>3, <3>4, <3>5, <3>6, Zenon DEF SeqMoved, Moved
    <3>8. start[r] <= begun'
      BY <3>1, <3>2, <3>3
    <3> QED BY <3>4, <3>7, <3>8, Zenon
  <2> QED BY <2>1, <2>2 DEF SlotInv, SlotReaderInv, Loading, ReadOfStart
<1>7. ConsistentRead'
  BY DEF ConsistentRead, SlotInv, BeginSet, slotReaderVars
<1> QED BY <1>3, <1>4, <1>5, <1>6, <1>7 DEF SlotInv

(* One relaxed store of set(). *)
LEMMA StoreWordIInv ==
    ASSUME SingleWriter, SlotInv, NEW w \in SlotWriters, StoreWord(w)
    PROVE  SlotInv'
<1>1. Busy /\ Busy'
  BY DEF StoreWord, Busy
<1>2. SlotTypeOK'
  BY DEF StoreWord, SlotInv, SlotTypeOK, slotReaderVars
<1>3. SeqParity'
  BY <1>1 DEF SeqParity, BusyBit, StoreWord, SlotInv
<1>4. WordsOfCall'
  BY <1>1 DEF SingleWriter, WordsOfCall, StoreWord, SlotInv, SlotTypeOK
<1>5. ASSUME NEW r \in SlotReaders PROVE SlotReaderInv(r)'
  BY <1>1 DEF StoreWord, SlotInv, SlotReaderInv, Loading, SeqMoved, Moved, SeqSteps, BusyBit, ReadOfStart, slotReaderVars
<1>6. ConsistentRead'
  BY DEF ConsistentRead, SlotInv, StoreWord, slotReaderVars
<1> QED BY <1>2, <1>3, <1>4, <1>5, <1>6 DEF SlotInv

(* The second seq.fetch_add of set(). *)
LEMMA EndSetIInv ==
    ASSUME SingleWriter, SlotInv, NEW w \in SlotWriters, EndSet(w)
    PROVE  SlotInv'
<1>1. Busy /\ ~Busy'
  BY DEF SingleWriter, EndSet, Busy, SlotInv, SlotTypeOK
<1>2. SlotTypeOK'
  BY BumpFacts DEF EndSet, SlotInv, SlotTypeOK, slotReaderVars
<1>3. SeqParity'
  <2>1. seq' % 2 = 1 - (seq % 2) /\ seq % 2 = BusyBit
    BY BumpFacts, Zenon DEF EndSet, SlotInv, SlotTypeOK, SeqParity
  <2> QED BY <1>1, <2>1 DEF SeqParity, BusyBit
<1>4. WordsOfCall'
  BY <1>1 DEF WordsOfCall, EndSet, SlotInv, SlotTypeOK, Busy
<1>5. ASSUME NEW r \in SlotReaders PROVE SlotReaderInv(r)'
  <2>1. UNCHANGED <<phase[r], seq1[r], got[r], unread[r], start[r]>>
    BY DEF EndSet, slotReaderVars
  <2>2. ASSUME Loading(r) PROVE start[r] <= begun' /\ begun' # start[r] /\ SeqMoved(r)'
    <3>1. start[r] <= begun /\ SeqMoved(r) /\ begun # start[r]
      BY <1>1, <2>2 DEF SlotInv, SlotReaderInv, ReadOfStart
    <3>2. seq1[r] \in 0 .. SlotSeqMod - 1 /\ seq \in 0 .. SlotSeqMod - 1 /\ start[r] \in Nat /\ begun \in Nat
      BY DEF SlotInv, SlotTypeOK
    <3>3. seq' = Bump(seq) /\ begun' = begun
      BY DEF EndSet
    <3>4. SeqSteps(r) \in Nat /\ SeqSteps(r)' = SeqSteps(r) + 1
      BY <1>1, <2>1, <3>1, <3>2, <3>3 DEF SeqSteps, BusyBit
    <3>5. 2 * (begun' - start[r]) < SlotSeqMod => SeqSteps(r) + 1 < SlotSeqMod
      BY <1>1, <3>1, <3>2, <3>3, SeqModAssumption DEF SeqSteps, BusyBit
    <3> QED BY <2>1, <3>1, <3>2, <3>3, <3>4, <3>5, BumpMoves DEF SeqMoved
  <2> QED BY <2>1, <2>2 DEF SlotInv, SlotReaderInv, Loading, ReadOfStart
<1>6. ConsistentRead'
  BY DEF ConsistentRead, SlotInv, EndSet, slotReaderVars
<1> QED BY <1>2, <1>3, <1>4, <1>5, <1>6 DEF SlotInv

(* A load leaves the slot and its writer alone. *)
LEMMA LoadKeepsWriter ==
    ASSUME SlotInv, NEW r \in SlotReaders, Load(r)
    PROVE  /\ UNCHANGED <<slotVars, slotWriterVars>>
           /\ SeqParity' /\ WordsOfCall'
           /\ Busy' = Busy
<1>1. UNCHANGED <<slotVars, slotWriterVars>>
  BY DEF Load, LoadSeq1, LoadWord, LoadSeq2
<1> QED BY <1>1 DEF SlotInv, SeqParity, WordsOfCall, BusyBit, Busy, slotVars, slotWriterVars

\* What ConsistentRead says of one reader
ReadIsOfStart(r) == phase[r] = "some" /\ 2 * (finish[r] - start[r]) < SlotSeqMod
                      => \A f \in Words : got[r][f] = start[r]

(* A step of one reader changes what another returned in no way. *)
LEMMA ReadsStayConsistent ==
    ASSUME ConsistentRead, NEW r \in SlotReaders, ReadIsOfStart(r)',
           \A q \in SlotReaders \ {r} : /\ phase'[q] = phase[q] /\ got'[q] = got[q]
                                       /\ start'[q] = start[q] /\ finish'[q] = finish[q]
    PROVE  ConsistentRead'
<1>1. \A q \in SlotReaders : ReadIsOfStart(q)
  BY DEF ConsistentRead, ReadIsOfStart
<1>2. ASSUME NEW q \in SlotReaders PROVE ReadIsOfStart(q)'
  BY <1>1, Zenon DEF ReadIsOfStart
<1> QED
  BY <1>2, Zenon DEF ConsistentRead, ReadIsOfStart

(* The three loads of try_load_consistent(). *)
LEMMA LoadIInv ==
    ASSUME SlotInv, NEW r \in SlotReaders, Load(r)
    PROVE  SlotInv'
<1>1. UNCHANGED <<slotVars, slotWriterVars>> /\ SeqParity' /\ WordsOfCall' /\ Busy' = Busy
  BY LoadKeepsWriter
<1>2. SlotTypeOK'
  <2>1. CASE LoadSeq1(r)
    BY <2>1 DEF LoadSeq1, SlotInv, SlotTypeOK, Phases, slotVars, slotWriterVars
  <2>2. CASE LoadWord(r)
    BY <2>2 DEF LoadWord, SlotInv, SlotTypeOK, Phases, slotVars, slotWriterVars
  <2>3. CASE LoadSeq2(r)
    BY <2>3 DEF LoadSeq2, SlotInv, SlotTypeOK, Phases, slotVars, slotWriterVars
  <2> QED BY <2>1, <2>2, <2>3 DEF Load
<1>3. \A q \in SlotReaders \ {r} : /\ phase'[q] = phase[q] /\ seq1'[q] = seq1[q] /\ got'[q] = got[q]
                                     /\ unread'[q] = unread[q] /\ start'[q] = start[q]
                                     /\ finish'[q] = finish[q]
  BY DEF Load, LoadSeq1, LoadWord, LoadSeq2, SlotInv, SlotTypeOK
<1>9. ASSUME NEW q \in SlotReaders \ {r} PROVE SlotReaderInv(q)'
  <2>1. begun' = begun /\ seq' = seq /\ BusyBit' = BusyBit
    BY <1>1 DEF slotVars, slotWriterVars, BusyBit
  <2>2. SlotReaderInv(q) /\ phase'[q] = phase[q] /\ seq1'[q] = seq1[q] /\ got'[q] = got[q]
        /\ unread'[q] = unread[q] /\ start'[q] = start[q]
    BY <1>3 DEF SlotInv
  <2> QED
    BY <1>1, <2>1, <2>2 DEF SlotReaderInv, Loading, SeqMoved, Moved, SeqSteps, ReadOfStart
<1>10. ReadIsOfStart(r)' => ConsistentRead'
  BY <1>3, ReadsStayConsistent, Zenon DEF SlotInv
<1>4. CASE LoadSeq1(r)
  <2>1. phase'[r] \in {"words", "none"} /\ start'[r] = begun /\ seq1'[r] = seq /\ unread'[r] = Words
    BY <1>4 DEF LoadSeq1, SlotInv, SlotTypeOK
  <2>2. phase'[r] = "words" => ~Busy
    BY <1>4 DEF LoadSeq1, SlotInv, SlotTypeOK, SeqParity, BusyBit
  <2>3. ASSUME phase'[r] = "words" PROVE SeqMoved(r)'
    <3>1. BusyBit' = 0 /\ begun' = start'[r] /\ begun \in Nat /\ begun' = begun
      BY <1>1, <2>1, <2>2, <2>3 DEF BusyBit, slotWriterVars, SlotInv, SlotTypeOK
    <3>2. SeqSteps(r)' = 0
      BY <3>1 DEF SeqSteps
    <3>3. seq' = seq1'[r] /\ seq' \in 0 .. SlotSeqMod - 1
      BY <1>1, <2>1 DEF slotVars, SlotInv, SlotTypeOK
    <3> QED BY <3>2, <3>3, SeqModAssumption DEF SeqMoved, Moved
  <2>4. ReadOfStart(r)' \/ phase'[r] = "none"
    BY <1>1, <2>1, <2>2 DEF ReadOfStart
  <2>5. SlotReaderInv(r)'
    <3>1. start'[r] <= begun'
      BY <1>1, <2>1 DEF slotWriterVars, SlotInv, SlotTypeOK
    <3> QED
      BY <2>1, <2>3, <2>4, <3>1, Zenon DEF SlotReaderInv, Loading
  <2>6. ConsistentRead'
    BY <1>10, <2>1, Zenon DEF ReadIsOfStart
  <2> QED BY <1>1, <1>2, <1>9, <2>5, <2>6, Zenon DEF SlotInv
<1>5. CASE LoadWord(r)
  <2>1. PICK f \in unread[r] : /\ got' = [got EXCEPT ![r] = [@ EXCEPT ![f] = word[f]]]
                               /\ unread' = [unread EXCEPT ![r] = @ \ {f}]
                               /\ phase' = [phase EXCEPT ![r] = IF unread[r] = {f} THEN "seq2" ELSE @]
    BY <1>5, Zenon DEF LoadWord
  <2>2. /\ phase[r] = "words" /\ phase'[r] \in {"words", "seq2"}
        /\ phase'[r] = "seq2" => unread'[r] = {}
        /\ UNCHANGED <<start[r], seq1[r]>>
        /\ unread'[r] = unread[r] \ {f}
        /\ got'[r] = [got[r] EXCEPT ![f] = word[f]]
    BY <1>5, <2>1, Zenon DEF LoadWord, SlotInv, SlotTypeOK
  <2>3. ReadOfStart(r)'
    <3>1. begun' = begun /\ got[r] \in [Words -> Nat]
      BY <1>1 DEF SlotInv, SlotTypeOK, slotWriterVars
    <3>2. ReadOfStart(r) /\ (~Busy => \A g \in Words : word[g] = begun)
      BY <2>2 DEF SlotInv, SlotReaderInv, Loading, WordsOfCall
    <3> QED
      BY <1>1, <2>2, <3>1, <3>2 DEF ReadOfStart
  <2>4. SlotReaderInv(r)'
    BY <1>1, <2>2, <2>3, Zenon
       DEF SlotInv, SlotReaderInv, Loading, SeqMoved, Moved, SeqSteps, BusyBit, slotVars, slotWriterVars
  <2>5. ConsistentRead'
    BY <1>10, <2>2, Zenon DEF ReadIsOfStart
  <2> QED BY <1>1, <1>2, <1>9, <2>4, <2>5, Zenon DEF SlotInv
<1>6. CASE LoadSeq2(r)
  <2>1. /\ phase[r] = "seq2" /\ phase'[r] \in {"some", "none"}
        /\ phase'[r] = "some" => seq = seq1[r]
        /\ finish'[r] = begun
        /\ UNCHANGED <<start[r], got[r]>>
    BY <1>6 DEF LoadSeq2, SlotInv, SlotTypeOK
  <2>2. SlotReaderInv(r)'
    BY <2>1 DEF SlotReaderInv, Loading
  <2>3. ASSUME seq = seq1[r], 2 * (begun - start[r]) < SlotSeqMod PROVE begun = start[r]
    <3>1. start[r] <= begun /\ SeqMoved(r)
      BY <2>1 DEF SlotInv, SlotReaderInv, Loading
    <3>2. seq \in 0 .. SlotSeqMod - 1 /\ start[r] \in Nat /\ begun \in Nat
      BY DEF SlotInv, SlotTypeOK
    <3>3. seq1[r] = Moved(seq1[r], SeqSteps(r)) /\ seq1[r] \in 0 .. SlotSeqMod - 1
      BY <2>3, <3>1, <3>2 DEF SeqMoved
    <3>4. BusyBit \in {0, 1} /\ SeqSteps(r) = 2 * (begun - start[r]) - BusyBit
      BY DEF BusyBit, SeqSteps
    <3>5. SeqSteps(r) = 0
      BY <2>3, <3>1, <3>2, <3>3, <3>4, SeqModAssumption DEF Moved
    <3>6. \A b, t \in Nat, bit \in {0, 1} : 2 * (b - t) - bit = 0 => b = t
      OBVIOUS
    <3> QED BY <3>2, <3>4, <3>5, <3>6, Zenon
  <2>4. ASSUME phase'[r] = "some", 2 * (finish'[r] - start'[r]) < SlotSeqMod
        PROVE  \A f \in Words : got'[r][f] = start'[r]
    BY <2>1, <2>3, <2>4 DEF SlotInv, SlotReaderInv, Loading, ReadOfStart
  <2>5. ConsistentRead'
    BY <1>10, <2>4, Zenon DEF ReadIsOfStart
  <2> QED BY <1>1, <1>2, <1>9, <2>2, <2>5, Zenon DEF SlotInv
<1> QED BY <1>4, <1>5, <1>6 DEF Load

(* The invariant is inductive when one thread writes the slot. *)
LEMMA NextSlotInv == SingleWriter /\ SlotInv /\ [SlotNext]_seqlockVars => SlotInv'
<1> SUFFICES ASSUME SingleWriter, SlotInv, [SlotNext]_seqlockVars PROVE SlotInv'
  OBVIOUS
<1>1. CASE \E w \in SlotWriters : Set(w)
  BY <1>1, BeginSetIInv, StoreWordIInv, EndSetIInv DEF Set
<1>2. CASE \E r \in SlotReaders : Load(r)
  BY <1>2, LoadIInv
<1>3. CASE UNCHANGED seqlockVars
  BY <1>3 DEF seqlockVars, SlotInv, SlotTypeOK, SeqParity, BusyBit, Busy, WordsOfCall, SlotReaderInv, Loading,
              SeqMoved, Moved, SeqSteps, ReadOfStart, ConsistentRead
<1> QED BY <1>1, <1>2, <1>3 DEF SlotNext

(***************************************************************************)
(* For every width of the counter and any number of readers: as long as    *)
(* one thread calls set(), a successful try_load_consistent() returns the  *)
(* three words of the last set() completed before it began, unless half    *)
(* the counter's range of set() calls ran meanwhile.                       *)
(***************************************************************************)
THEOREM SeqlockConsistent == ASSUME SingleWriter PROVE SlotSpec => []ConsistentRead
<1>1. SlotInv /\ [SlotNext]_seqlockVars => SlotInv'
  BY NextSlotInv
<1>2. SlotInv => ConsistentRead
  BY DEF SlotInv
<1> QED BY <1>1, <1>2, InitSlotInv, PTL DEF SlotSpec

(* The type invariant of the slot, for any width and number of readers. *)
THEOREM SeqlockTypeOK == ASSUME SingleWriter PROVE SlotSpec => []SlotTypeOK
<1>1. SlotInv /\ [SlotNext]_seqlockVars => SlotInv'
  BY NextSlotInv
<1>2. SlotInv => SlotTypeOK
  BY DEF SlotInv
<1> QED BY <1>1, <1>2, InitSlotInv, PTL DEF SlotSpec
=============================================================================
