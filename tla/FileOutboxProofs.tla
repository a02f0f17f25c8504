-------------------------- MODULE FileOutboxProofs --------------------------
(***************************************************************************)
(* Proof that FileOutbox keeps what it accepted and drops what was         *)
(* acknowledged across crashes, failed writes and compactions, and that    *)
(* its journal implements the DurableOutbox port, for any clients,         *)
(* messages, capacities and numbers of faults.                             *)
(***************************************************************************)
EXTENDS FileOutbox, StorageProofs

\* A record that may follow journal j after a crash: what an append wrote
MayFollow(j, r) ==
  /\ Shaped(r)
  /\ r.op # "checkpoint" /\ Whole(j)
  /\ r.ids \subseteq tried
  /\ r.op = "enqueue" => IsNextId(r.id, j) /\ Cardinality(LiveEntries(j)) < Capacity

Requests == {r \in Request : r.op = "enqueue" => r.msg \in Messages}

\* The worker's memory is what the journal says.
MemoryInv ==
  /\ entries = LiveEntries(journal) /\ IsNextId(nextId, journal) /\ Whole(journal)
  /\ outboxPc # "ready" => queue # <<>>
  /\ outboxPc = "written" =>
       /\ NewRecord \in tail
       /\ Head(queue).op \in {"enqueue", "acknowledge"}

\* Nothing that was used comes again, nothing accepted is lost.
Kept(j) ==
  /\ \A e \in accepted : /\ e.id \in tried \/ e \in LiveEntries(j)
                         /\ \E m \in NextIdBounds(j) : e.id < m
  /\ \A i \in dropped : /\ \A e \in LiveEntries(j) : e.id # i
                        /\ \E m \in NextIdBounds(j) : i < m

StoredInv ==
  /\ outboxPc \in {"down", "ready", "written", "compacted", "renamed", "reopened"}
  /\ queue \in Seq(Requests)
  /\ Sound(journal)
  /\ \A r \in tail \ {NoRecord} : MayFollow(journal, r)
  /\ outboxPc # "down" => MemoryInv
  /\ Kept(journal)
  /\ accepted \in SUBSET Entry /\ dropped \in SUBSET Ids
---------------------------------------------------------------------------
(* A record that an append wrote leaves a sound journal. *)
LEMMA FollowedFacts ==
    ASSUME NEW j, Sound(j), NEW r, MayFollow(j, r)
    PROVE  /\ Sound(Append(j, r)) /\ (r.op # "torn" => Whole(Append(j, r)))
           /\ r.op = "enqueue" => IsNextId(r.id + 1, Append(j, r))
           /\ r.op # "enqueue" => NextIdBounds(Append(j, r)) = NextIdBounds(j)
<1>1. j \in Seq(Record) /\ r \in Record /\ Shaped(r) /\ r.op # "checkpoint" /\ Whole(j)
  BY DEF Sound, MayFollow, Shaped
<1>. DEFINE a == Append(j, r)
            n == Len(j)
<1>2. /\ n \in Nat /\ a \in Seq(Record) /\ Len(a) = n + 1 /\ a[n + 1] = r
      /\ \A i \in 1 .. n : a[i] = j[i]
      /\ 1 .. n + 1 = (1 .. n) \cup {n + 1}
  BY <1>1, Appended
<1>3. ASSUME r.op = "enqueue"
      PROVE  /\ r.id \in Nat /\ \A m \in NextIdBounds(j) : m <= r.id /\ m \in Nat
             /\ \A i \in 1 .. n : j[i].op = "enqueue" => j[i].id # r.id
  <2>1. r.id \in Nat /\ \A m \in NextIdBounds(j) : m <= r.id /\ m \in Nat
    BY <1>3, <1>1, BoundsTypes, MaxIdAssumption DEF MayFollow, IsNextId, Shaped, Ids
  <2>2. ASSUME NEW i \in 1 .. n, j[i].op = "enqueue"
        PROVE  j[i].id # r.id
    <3>1. j[i].id + 1 \in NextIdBounds(j) /\ j[i].id \in Nat
      BY <2>2 DEF NextIdBounds, Sound, Shaped, Ids
    <3>2. j[i].id + 1 <= r.id
      BY <2>1, <3>1
    <3>. QED
      BY <2>1, <3>1, <3>2
  <2>. QED
    BY <2>1, <2>2
<1>4. Sound(a)
  <2>1. \A i \in 1 .. n + 1 : Shaped(a[i])
    BY <1>1, <1>2 DEF Sound
  <2>2. \A i \in 1 .. Len(a) - 1 : a[i].op # "torn"
    BY <1>1, <1>2 DEF Whole
  <2>3. ASSUME NEW i \in 1 .. n + 1, NEW k \in 1 .. n + 1, a[i].op = "enqueue",
               a[k].op = "enqueue", a[i].id = a[k].id
        PROVE  i = k
    <3>1. CASE i \in 1 .. n /\ k \in 1 .. n
      BY <1>2, <2>3, <3>1 DEF Sound
    <3>2. CASE i = n + 1 \/ k = n + 1
      BY <1>2, <1>3, <2>3, <3>2
    <3>. QED
      BY <1>2, <3>1, <3>2
  <2>. HIDE DEF a, n
  <2>. QED
    BY <1>2, <2>1, <2>2, <2>3 DEF Sound
<1>5. r.op # "torn" => Whole(a)
  BY <1>1, <1>2 DEF Whole
<1>6. ASSUME r.op = "enqueue" PROVE IsNextId(r.id + 1, a)
  BY <1>1, <1>3, <1>6, BoundsAppended DEF IsNextId
<1>7. ASSUME r.op # "enqueue" PROVE NextIdBounds(a) = NextIdBounds(j)
  <2>1. \A m : m \in NextIdBounds(a) <=> m \in NextIdBounds(j)
    BY <1>1, <1>7, BoundsAppended
  <2>. QED
    BY <2>1
<1>. QED
  BY <1>4, <1>5, <1>6, <1>7

(* ... that keeps what was accepted and not what was dropped. *)
LEMMA FollowedKeeps ==
    ASSUME NEW j, Sound(j), Kept(j), NEW r, MayFollow(j, r)
    PROVE  Kept(Append(j, r))
<1>1. j \in Seq(Record) /\ r \in Record /\ Shaped(r) /\ r.ids \subseteq tried
  BY DEF Sound, MayFollow, Shaped
<1>2. /\ \A e : e \in LiveEntries(Append(j, r)) <=>
                  \/ e \in LiveEntries(j) /\ e.id \notin r.ids
                  \/ r.op = "enqueue" /\ e = [id |-> r.id, msg |-> r.msg]
      /\ \A m : m \in NextIdBounds(j) => m \in NextIdBounds(Append(j, r))
  BY <1>1, LiveAppended, BoundsAppended
<1>3. \A e \in accepted : /\ e.id \in tried \/ e \in LiveEntries(Append(j, r))
                          /\ \E m \in NextIdBounds(Append(j, r)) : e.id < m
  BY <1>1, <1>2 DEF Kept
<1>4. ASSUME NEW i \in dropped, NEW e \in LiveEntries(Append(j, r)), e.id = i
      PROVE  FALSE
  <2>1. r.op = "enqueue" /\ i = r.id
    BY <1>2, <1>4 DEF Kept
  <2>2. PICK m \in NextIdBounds(j) : i < m
    BY DEF Kept
  <2>3. m <= r.id /\ m \in Nat /\ r.id \in Nat
    BY <1>1, <2>1, BoundsTypes, MaxIdAssumption DEF MayFollow, IsNextId, Shaped, Ids
  <2>. QED
    BY <2>1, <2>2, <2>3
<1>. QED
  BY <1>2, <1>3, <1>4 DEF Kept
---------------------------------------------------------------------------
(* The outbox starts with an empty journal. *)
LEMMA StoredInit == OutboxInit => StoredInv
<1>. SUFFICES ASSUME OutboxInit PROVE StoredInv
  OBVIOUS
<1>1. /\ journal = <<>> /\ tail = {NoRecord} /\ outboxPc = "down" /\ queue = <<>>
      /\ accepted = {} /\ dropped = {}
  BY DEF OutboxInit
<1>2. Sound(journal) /\ Kept(journal)
  BY <1>1 DEF Sound, Kept
<1>. QED
  BY <1>1, <1>2 DEF StoredInv

(* Steps that leave the journal and the worker's memory alone, and at most *)
(* forget what was written after the journal.                              *)
LEMMA QuietInv ==
    ASSUME StoredInv, UNCHANGED <<journal, accepted, tried, dropped>>,
           tail' \ {NoRecord} \subseteq tail,
           outboxPc' \in {"down", "ready", "written", "compacted", "renamed", "reopened"},
           queue' \in Seq(Requests),
           outboxPc' # "down" =>
             /\ outboxPc # "down" /\ UNCHANGED <<entries, nextId>>
             /\ outboxPc' # "ready" => queue' # <<>>
             /\ outboxPc' = "written" =>
                  outboxPc = "written" /\ tail' = tail /\ Head(queue') = Head(queue)
    PROVE  StoredInv'
<1>1. Sound(journal)' /\ Kept(journal)' /\ accepted' \in SUBSET Entry /\ dropped' \in SUBSET Ids
  BY DEF StoredInv, Kept
<1>2. \A r \in tail' \ {NoRecord} : MayFollow(journal, r)'
  BY DEF StoredInv, MayFollow
<1>3. ASSUME outboxPc' # "down" PROVE MemoryInv'
  <2>1. entries' = LiveEntries(journal') /\ IsNextId(nextId, journal)' /\ Whole(journal)'
    BY <1>3 DEF StoredInv, MemoryInv
  <2>2. outboxPc' = "written" => NewRecord' = NewRecord
    BY <1>3, Zenon DEF NewRecord, Existing
  <2>. QED
    BY <1>3, <2>1, <2>2 DEF StoredInv, MemoryInv
<1>. QED
  BY <1>1, <1>2, <1>3 DEF StoredInv

(* The queue after a reply *)
LEMMA ReplyFacts ==
    ASSUME StoredInv, queue # <<>>
    PROVE  Tail(queue) \in Seq(Requests) /\ Head(queue) \in Requests
  BY DEF StoredInv

(* Submit, Call: a request goes to the end of the queue or is refused. *)
LEMMA CallQuiet ==
    ASSUME StoredInv, NEW c \in Clients, Call(c)
    PROVE  StoredInv'
<1>1. PICK r : Submit(r) /\ r \in Requests
  <2>1. \A m \in Messages : EnqueueRequest(c, m) \in Requests
    BY OutboxAssumption DEF EnqueueRequest, Requests, Request
  <2>2. \A n \in 1 .. Capacity : PeekRequest(c, n) \in Requests
    BY OutboxAssumption DEF PeekRequest, Requests, Request
  <2>3. \A S \in SUBSET Ids : AckRequest(c, S) \in Requests
    BY OutboxAssumption DEF AckRequest, Requests, Request
  <2>4. CompactRequest(c) \in Requests
    BY OutboxAssumption DEF CompactRequest, Requests, Request
  <2>. QED
    BY <2>1, <2>2, <2>3, <2>4, Zenon DEF Call
<1>2. /\ UNCHANGED <<journal, tail, outboxPc, entries, nextId, accepted, tried, dropped>>
      /\ outboxPc # "down"
      /\ queue' = Append(queue, r) \/ queue' = queue
  BY <1>1, Zenon DEF Submit, diskVars, memVars, ghostVars
<1>3. /\ queue \in Seq(Requests) /\ (outboxPc # "ready" => queue # <<>>)
      /\ outboxPc \in {"down", "ready", "written", "compacted", "renamed", "reopened"}
  BY <1>2 DEF StoredInv, MemoryInv
<1>4. /\ queue' \in Seq(Requests) /\ (queue # <<>> => queue' # <<>> /\ Head(queue') = Head(queue))
  BY <1>1, <1>2, <1>3
<1>. QED
  BY <1>2, <1>3, <1>4, QuietInv

(* Requests that touch no file, and failures *)
LEMMA WorkQuiet ==
    ASSUME StoredInv,
           \/ Peek \/ Refuse \/ AcknowledgeNothing \/ CompactWrite \/ CompactReopen
           \/ SyncDirectory \/ WorkFails \/ Shutdown
    PROVE  StoredInv'
<1>1. UNCHANGED <<journal, accepted, tried, dropped>>
  BY Zenon DEF Peek, Refuse, AcknowledgeNothing, CompactWrite, CompactReopen, SyncDirectory,
     WorkFails, AppendFails, CompactFails, ReopenFails, SyncDirectoryFails, Shutdown,
     diskVars, ghostVars
<1>2. tail' \ {NoRecord} \subseteq tail
  BY DEF Peek, Refuse, AcknowledgeNothing, CompactWrite, CompactReopen, SyncDirectory,
     WorkFails, AppendFails, CompactFails, ReopenFails, SyncDirectoryFails, Shutdown,
     diskVars
<1>3. CASE Shutdown
  <2>1. outboxPc' = "down" /\ queue' = <<>>
    BY <1>3, Zenon DEF Shutdown, Stopped
  <2>. QED
    BY <1>1, <1>2, <2>1, QuietInv
<1>4. CASE CompactWrite \/ CompactReopen
  <2>1. /\ outboxPc \in {"ready", "renamed"} /\ outboxPc' \in {"compacted", "reopened"}
        /\ UNCHANGED <<entries, nextId, queue>> /\ (outboxPc = "ready" => queue # <<>>)
    BY <1>4 DEF CompactWrite, CompactReopen, Serving, memVars
  <2>2. queue # <<>> /\ queue \in Seq(Requests)
    BY <2>1 DEF StoredInv, MemoryInv
  <2>. QED
    BY <1>1, <1>2, <2>1, <2>2, QuietInv
<1>5. CASE Peek \/ Refuse \/ AcknowledgeNothing \/ SyncDirectory \/ WorkFails
  <2>1. /\ outboxPc' = "ready" /\ UNCHANGED <<entries, nextId>> /\ queue' = Tail(queue)
        /\ outboxPc # "down" /\ (outboxPc = "ready" => queue # <<>>)
    BY <1>5 DEF Peek, Refuse, AcknowledgeNothing, SyncDirectory, WorkFails, AppendFails,
       CompactFails, ReopenFails, SyncDirectoryFails, Serving, Reply, memVars
  <2>2. queue # <<>>
    BY <2>1 DEF StoredInv, MemoryInv
  <2>. QED
    BY <1>1, <1>2, <2>1, <2>2, ReplyFacts, QuietInv
<1>. QED
  BY <1>3, <1>4, <1>5

---------------------------------------------------------------------------
(* The record of the request being served: what it holds, and that it may *)
(* follow the journal once the append has been tried.                     *)
LEMMA RequestRecord ==
    ASSUME StoredInv, outboxPc # "down", queue # <<>>,
           Head(queue).op \in {"enqueue", "acknowledge"},
           Head(queue).op = "enqueue" => Cardinality(entries) < Capacity /\ nextId < MaxId
    PROVE  /\ Shaped(NewRecord) /\ NewRecord.op = Head(queue).op
           /\ NewRecord.op = "enqueue" =>
                /\ NewRecord.id = nextId /\ NewRecord.msg = Head(queue).msg /\ NewRecord.ids = {}
                /\ IsNextId(nextId, journal) /\ Cardinality(LiveEntries(journal)) < Capacity
           /\ NewRecord.op = "acknowledge" => NewRecord.ids = Existing(Head(queue).ids)
<1>1. Head(queue) \in Requests /\ MemoryInv /\ Sound(journal)
  BY ReplyFacts DEF StoredInv
<1>2. CASE Head(queue).op = "enqueue"
  <2>1. nextId \in 1 .. MaxId
    BY <1>1, BoundsTypes DEF MemoryInv, IsNextId
  <2>2. nextId \in Ids /\ Head(queue).msg \in Messages
    BY <1>1, <1>2, <2>1, MaxIdAssumption DEF Requests, Ids
  <2>3. [id |-> nextId, msg |-> Head(queue).msg] \in Entry
    BY <2>2 DEF Entry
  <2>4. NewRecord = EncodeEnqueue([id |-> nextId, msg |-> Head(queue).msg])
    BY <1>2 DEF NewRecord
  <2>. QED
    BY <1>1, <1>2, <2>3, <2>4, EncodedFacts DEF MemoryInv
<1>3. CASE Head(queue).op = "acknowledge"
  <2>1. Head(queue).ids \in SUBSET Ids
    BY <1>1 DEF Requests, Request
  <2>2. Existing(Head(queue).ids) \in SUBSET Ids
    BY <2>1 DEF Existing
  <2>3. NewRecord = EncodeAcknowledge(Existing(Head(queue).ids))
    BY <1>3 DEF NewRecord
  <2>. QED
    BY <1>3, <2>2, <2>3, EncodedFacts
<1>. QED
  BY <1>2, <1>3

(* append_record(), the write: nothing is durable yet. *)
LEMMA WriteRecordInv ==
    ASSUME StoredInv, WriteRecord
    PROVE  StoredInv'
<1>1. /\ UNCHANGED <<journal, queue, entries, nextId, accepted, dropped>>
      /\ tail' = tail \cup {Torn, NewRecord} /\ tried' = tried \cup NewRecord.ids
      /\ outboxPc' = "written" /\ Appending
  BY Zenon DEF WriteRecord, memVars
<1>2. /\ outboxPc = "ready" /\ queue # <<>> /\ Head(queue).op \in {"enqueue", "acknowledge"}
      /\ Head(queue).op = "enqueue" => Cardinality(entries) < Capacity /\ nextId < MaxId
  BY <1>1 DEF Appending, Serving
<1>3. /\ Shaped(NewRecord) /\ NewRecord.op = Head(queue).op
      /\ NewRecord.op = "enqueue" =>
           /\ NewRecord.id = nextId /\ IsNextId(nextId, journal)
           /\ Cardinality(LiveEntries(journal)) < Capacity
  BY <1>2, RequestRecord
<1>4. NewRecord' = NewRecord
  BY <1>1 DEF NewRecord, Existing
<1>5. MemoryInv /\ Whole(journal) /\ Sound(journal) /\ Kept(journal)
  BY <1>2 DEF StoredInv, MemoryInv
<1>6. Kept(journal)'
  BY <1>1, <1>5 DEF Kept
<1>7. ASSUME NEW r \in tail' \ {NoRecord} PROVE MayFollow(journal, r)'
  <2>1. CASE r \in tail
    BY <1>1, <2>1 DEF StoredInv, MayFollow
  <2>2. CASE r = Torn
    BY <1>1, <1>5, <2>2, EncodedFacts DEF MayFollow
  <2>3. CASE r = NewRecord
    BY <1>1, <1>2, <1>3, <1>5, <2>3 DEF MayFollow
  <2>. QED
    BY <1>1, <2>1, <2>2, <2>3
<1>8. MemoryInv'
  BY <1>1, <1>2, <1>4, <1>5 DEF MemoryInv
<1>. QED
  BY <1>1, <1>5, <1>6, <1>7, <1>8 DEF StoredInv

(* ... and the synchronisation: the record joins the journal, the memory and *)
(* the answer.                                                               *)
LEMMA SyncRecordInv ==
    ASSUME StoredInv, SyncRecord
    PROVE  StoredInv'
<1>. DEFINE a == Append(journal, NewRecord)
            x == [id |-> nextId, msg |-> Head(queue).msg]
            S == Existing(Head(queue).ids)
<1>1. /\ outboxPc = "written" /\ outboxPc' = "ready" /\ journal' = a /\ tail' = {NoRecord}
      /\ UNCHANGED tried /\ queue' = Tail(queue)
  BY DEF SyncRecord, Reply
<1>2. /\ MemoryInv /\ NewRecord \in tail /\ queue # <<>> /\ Sound(journal) /\ Kept(journal)
      /\ Head(queue).op \in {"enqueue", "acknowledge"}
  BY <1>1 DEF StoredInv, MemoryInv
<1>3. MayFollow(journal, NewRecord) /\ NewRecord.op = Head(queue).op
  <2>1. NewRecord.op = Head(queue).op
    BY <1>2, Zenon DEF NewRecord, EncodeEnqueue, EncodeAcknowledge
  <2>. QED
    BY <1>2, <2>1 DEF StoredInv, NoRecord
<1>4. /\ Sound(a) /\ Whole(a) /\ Kept(a)
      /\ NewRecord.op = "enqueue" => IsNextId(NewRecord.id + 1, a)
      /\ NewRecord.op # "enqueue" => NextIdBounds(a) = NextIdBounds(journal)
  BY <1>2, <1>3, FollowedFacts, FollowedKeeps
<1>5. \A e : e \in LiveEntries(a) <=>
               \/ e \in LiveEntries(journal) /\ e.id \notin NewRecord.ids
               \/ NewRecord.op = "enqueue" /\ e = [id |-> NewRecord.id, msg |-> NewRecord.msg]
  BY <1>2, <1>3, LiveAppended DEF Sound, MayFollow, Shaped
<1>6. queue' \in Seq(Requests) /\ Head(queue) \in Requests
  BY <1>1, <1>2, ReplyFacts
<1>. HIDE DEF a, S, x
<1>7. CASE Head(queue).op = "enqueue"
  <2>1. /\ entries' = entries \cup {x} /\ nextId' = nextId + 1
        /\ accepted' = accepted \cup {x} /\ dropped' = dropped
    BY <1>7, Zenon DEF SyncRecord, x
  <2>2. NewRecord.id = nextId /\ NewRecord.msg = Head(queue).msg /\ NewRecord.ids = {}
    BY <1>7, Zenon DEF NewRecord, EncodeEnqueue
  <2>3. entries' = LiveEntries(a) /\ IsNextId(nextId', a)
    <3>1. entries = LiveEntries(journal)
      BY <1>2 DEF MemoryInv
    <3>. QED
      BY <1>3, <1>4, <1>5, <1>7, <2>1, <2>2, <3>1 DEF x
  <2>4. x \in Entry /\ x.id = nextId /\ nextId \in Nat
    BY <1>3, <1>6, <1>7, <2>2 DEF x, Entry, MayFollow, Shaped, Requests, Ids
  <2>5. Kept(journal)'
    <3>1. x \in LiveEntries(a) /\ x.id < nextId' /\ nextId' \in NextIdBounds(a)
      BY <2>1, <2>3, <2>4 DEF IsNextId
    <3>. QED
      BY <1>1, <1>4, <2>1, <3>1 DEF Kept
  <2>. QED
    BY <1>1, <1>4, <1>6, <2>1, <2>3, <2>4, <2>5 DEF StoredInv, MemoryInv
<1>8. CASE Head(queue).op = "acknowledge"
  <2>1. /\ entries' = {e \in entries : e.id \notin S} /\ nextId' = nextId
        /\ accepted' = accepted /\ dropped' = dropped \cup S
    BY <1>8, Zenon DEF SyncRecord, S
  <2>2. NewRecord.ids = S
    BY <1>8, Zenon DEF NewRecord, EncodeAcknowledge, S
  <2>3. entries' = LiveEntries(a) /\ IsNextId(nextId', a)
    BY <1>2, <1>3, <1>4, <1>5, <1>8, <2>1, <2>2 DEF MemoryInv, IsNextId
  <2>4. S \subseteq Ids
    BY <1>3, <2>2 DEF MayFollow, Shaped, Record
  <2>5. \A i \in S : /\ \A e \in LiveEntries(a) : e.id # i
                     /\ \E m \in NextIdBounds(a) : i < m
    <3>1. \A i \in S : \E e \in LiveEntries(journal) : e.id = i
      BY <1>2 DEF S, Existing, MemoryInv
    <3>2. \A e \in LiveEntries(journal) : \E m \in NextIdBounds(journal) : e.id < m
      BY <1>2, LiveFacts
    <3>. QED
      BY <1>3, <1>4, <1>5, <1>8, <2>2, <3>1, <3>2
  <2>6. Kept(journal)'
    BY <1>1, <1>4, <2>1, <2>5 DEF Kept
  <2>. QED
    BY <1>1, <1>4, <1>6, <2>1, <2>3, <2>4, <2>6 DEF StoredInv, MemoryInv
<1>. QED
  BY <1>2, <1>7, <1>8

---------------------------------------------------------------------------
(* What a journal keeps depends on its entries and its next identifier. *)
LEMMA KeptBy ==
    ASSUME NEW i, NEW j, NEW n, Sound(i), Sound(j), Kept(i), LiveEntries(j) = LiveEntries(i),
           IsNextId(n, i), n \in NextIdBounds(j), accepted \in SUBSET Entry, dropped \in SUBSET Ids
    PROVE  Kept(j)
<1>1. /\ \A m \in NextIdBounds(i) : m \in Nat /\ m <= n
      /\ n \in Nat /\ \A e \in accepted : e.id \in Nat /\ \A d \in dropped : d \in Nat
  BY BoundsTypes DEF IsNextId, Entry, Ids
<1>2. \A e \in accepted : e.id < n
  BY <1>1 DEF Kept, Entry, Ids
<1>3. \A d \in dropped : d < n
  BY <1>1 DEF Kept, Ids
<1>. QED
  BY <1>2, <1>3 DEF Kept

(* compact(): the new journal says the same, in fewer records. *)
LEMMA CompactRenameInv ==
    ASSUME StoredInv, CompactRename
    PROVE  StoredInv'
<1>1. /\ outboxPc = "compacted" /\ outboxPc' = "renamed"
      /\ journal' = Compacted(entries, nextId) /\ tail' = {NoRecord}
      /\ UNCHANGED <<queue, entries, nextId, accepted, tried, dropped>>
  BY Zenon DEF CompactRename, memVars, ghostVars
<1>2. /\ entries = LiveEntries(journal) /\ IsNextId(nextId, journal) /\ queue # <<>>
      /\ Sound(journal) /\ Kept(journal)
  BY <1>1 DEF StoredInv, MemoryInv
<1>3. /\ Sound(journal') /\ Whole(journal') /\ LiveEntries(journal') = LiveEntries(journal)
      /\ IsNextId(nextId, journal')
  BY <1>1, <1>2, CompactedFacts
<1>4. Kept(journal')
  <2>1. nextId \in NextIdBounds(journal') /\ accepted \in SUBSET Entry /\ dropped \in SUBSET Ids
    BY <1>3 DEF StoredInv, IsNextId
  <2>. QED
    BY <1>2, <1>3, <2>1, KeptBy
<1>5. Kept(journal)'
  BY <1>1, <1>4 DEF Kept
<1>. QED
  BY <1>1, <1>2, <1>3, <1>5 DEF StoredInv, MemoryInv

(* Journal::open(): a torn record goes, memory is rebuilt from the rest. *)
LEMMA OpenInv ==
    ASSUME StoredInv, Open
    PROVE  StoredInv'
<1>1. /\ outboxPc' = "ready" /\ journal' = Trimmed(journal)
      /\ entries' = LiveEntries(Trimmed(journal)) /\ nextId' = NextIdOf(Trimmed(journal))
      /\ UNCHANGED <<tail, queue, accepted, tried, dropped>>
  BY Zenon DEF Open, ghostVars
<1>2. /\ Sound(journal') /\ Whole(journal') /\ LiveEntries(journal') = LiveEntries(journal)
      /\ NextIdBounds(journal') = NextIdBounds(journal)
      /\ Whole(journal) => journal' = journal
  BY <1>1, TrimmedFacts DEF StoredInv
<1>3. IsNextId(nextId', journal')
  BY <1>1, <1>2, NextIdExists
<1>4. Kept(journal)'
  BY <1>1, <1>2 DEF StoredInv, Kept
<1>5. \A r \in tail' \ {NoRecord} : MayFollow(journal, r)'
  BY <1>1, <1>2 DEF StoredInv, MayFollow
<1>. QED
  BY <1>1, <1>2, <1>3, <1>4, <1>5 DEF StoredInv, MemoryInv

(* A crash keeps the journal, or the journal and a record of the last append. *)
LEMMA OnDiskFacts ==
    ASSUME StoredInv, NEW j \in OnDisk
    PROVE  Sound(j) /\ Kept(j)
<1>1. CASE j = journal
  BY <1>1 DEF StoredInv
<1>2. CASE j # journal
  <2>1. PICK r \in tail \ {NoRecord} : j = Append(journal, r)
    BY <1>2 DEF OnDisk
  <2>. QED
    BY <2>1, FollowedFacts, FollowedKeeps DEF StoredInv
<1>. QED
  BY <1>1, <1>2

(* ... and forgets the memory and the queue. *)
LEMMA OutboxCrashInv ==
    ASSUME StoredInv, OutboxCrash
    PROVE  StoredInv'
<1>1. /\ journal' \in OnDisk /\ tail' = {NoRecord} /\ outboxPc' = "down" /\ queue' = <<>>
      /\ UNCHANGED <<accepted, tried, dropped>>
  BY Zenon DEF OutboxCrash, Stopped, ghostVars
<1>2. Sound(journal') /\ Kept(journal')
  BY <1>1, OnDiskFacts
<1>3. Kept(journal)'
  BY <1>1, <1>2 DEF Kept
<1>. QED
  BY <1>1, <1>2, <1>3 DEF StoredInv

---------------------------------------------------------------------------
(* Every step keeps the invariant. *)
LEMMA StoredStep == StoredInv /\ [OutboxNext]_outboxVars => StoredInv'
<1>. SUFFICES ASSUME StoredInv, [OutboxNext]_outboxVars PROVE StoredInv'
  OBVIOUS
<1>1. CASE UNCHANGED outboxVars
  <2>1. UNCHANGED <<journal, tail, outboxPc, queue, entries, nextId, accepted, tried, dropped>>
    BY <1>1, Zenon DEF outboxVars, diskVars, memVars, ghostVars
  <2>2. /\ queue \in Seq(Requests)
        /\ outboxPc \in {"down", "ready", "written", "compacted", "renamed", "reopened"}
        /\ outboxPc \notin {"down", "ready"} => queue # <<>>
    BY DEF StoredInv, MemoryInv
  <2>. QED
    BY <2>1, <2>2, QuietInv
<1>2. CASE OutboxNext
  <2>1. \/ Open \/ OutboxCrash \/ WriteRecord \/ SyncRecord \/ CompactRename
        \/ (\/ Peek \/ Refuse \/ AcknowledgeNothing \/ CompactWrite \/ CompactReopen
            \/ SyncDirectory \/ WorkFails \/ Shutdown)
        \/ \E c \in Clients : Call(c)
    BY <1>2, Zenon DEF OutboxNext, Work
  <2>. QED
    BY <2>1, OpenInv, OutboxCrashInv, WriteRecordInv, SyncRecordInv, CompactRenameInv,
       WorkQuiet, CallQuiet, Zenon
<1>. QED
  BY <1>1, <1>2

(* Opening a sound journal brings its live entries back. *)
LEMMA RecoveredFacts ==
    ASSUME NEW j, Sound(j)
    PROVE  Recovered(j) = LiveEntries(j)
  BY SoundAccepted, TrimmedFacts DEF Recovered

(* The invariant says what the outbox promises, of every journal a crash may *)
(* leave.                                                                    *)
LEMMA StoredIsDurable == StoredInv => OutboxIsDurable
<1>. SUFFICES ASSUME StoredInv PROVE OutboxIsDurable
  OBVIOUS
<1>1. \A j \in OnDisk : Recovered(j) = LiveEntries(j) /\ Kept(j)
  BY OnDiskFacts, RecoveredFacts
<1>2. AcceptedSurvive
  BY <1>1 DEF AcceptedSurvive, Kept
<1>3. AcknowledgedStayGone
  BY <1>1 DEF AcknowledgedStayGone, Kept
<1>4. MemoryMatchesJournal
  BY SoundAccepted DEF MemoryMatchesJournal, StoredInv, MemoryInv
<1>. QED
  BY <1>2, <1>3, <1>4 DEF OutboxIsDurable

(***************************************************************************)
(* Whatever crashes, failed writes, failed compactions and restarts happen, *)
(* in whatever order with the requests of any number of clients: every      *)
(* entry whose enqueue was answered with success is brought back by the     *)
(* next open unless it was acknowledged, no acknowledged entry comes back,  *)
(* and the worker's memory is what the journal says.                        *)
(***************************************************************************)
THEOREM OutboxKeeps == OutboxSpec => []OutboxIsDurable
<1>1. OutboxInit => StoredInv
  BY StoredInit
<1>2. StoredInv /\ [OutboxNext]_outboxVars => StoredInv'
  BY StoredStep
<1>3. StoredInv => OutboxIsDurable
  BY StoredIsDurable
<1>. QED
  BY <1>1, <1>2, <1>3, PTL DEF OutboxSpec

---------------------------------------------------------------------------
(* The port's state that a sound journal stands for *)
LEMMA PortState ==
    ASSUME NEW j, Sound(j), NEW n, IsNextId(n, j)
    PROVE  Recovered(j) = LiveEntries(j) /\ NextIdOf(Trimmed(j)) = n /\ n \in 1 .. MaxId
<1>1. n \in 1 .. MaxId
  BY BoundsTypes DEF IsNextId
<1>2. Sound(Trimmed(j)) /\ IsNextId(n, Trimmed(j))
  BY TrimmedFacts DEF IsNextId
<1>3. \A m \in NextIdBounds(Trimmed(j)) : m \in Nat
  BY <1>2, BoundsTypes
<1>. QED
  BY <1>1, <1>2, <1>3, NextIdUnique, RecoveredFacts

(* A journal that gains a record of an append takes one step of the port: a *)
(* whole enqueue, a whole acknowledgement, or nothing.                      *)
LEMMA AppendIsAStep ==
    ASSUME Sound(journal), NEW r, MayFollow(journal, r), journal' = Append(journal, r)
    PROVE  Port!Next
<1>. DEFINE n == NextIdOf(journal)
<1>1. /\ Sound(journal') /\ IsNextId(n, journal)
      /\ r.op = "enqueue" => IsNextId(r.id + 1, journal') /\ IsNextId(r.id, journal)
      /\ r.op # "enqueue" => IsNextId(n, journal')
  BY FollowedFacts, NextIdExists DEF MayFollow, IsNextId
<1>2. \A e : e \in LiveEntries(journal') <=>
               \/ e \in LiveEntries(journal) /\ e.id \notin r.ids
               \/ r.op = "enqueue" /\ e = [id |-> r.id, msg |-> r.msg]
  BY LiveAppended DEF Sound, MayFollow, Shaped
<1>3. CASE r.op = "enqueue"
  <2>1. /\ r.ids = {} /\ r.id \in Ids /\ r.msg \in Messages
        /\ Cardinality(LiveEntries(journal)) < Capacity
    BY <1>3 DEF MayFollow, Shaped
  <2>2. /\ Recovered(journal) = LiveEntries(journal) /\ NextIdOf(Trimmed(journal)) = r.id
        /\ Recovered(journal') = LiveEntries(journal')
        /\ NextIdOf(Trimmed(journal')) = r.id + 1
    BY <1>1, <1>3, PortState
  <2>3. LiveEntries(journal') = LiveEntries(journal) \cup {[id |-> r.id, msg |-> r.msg]}
    BY <1>2, <1>3, <2>1
  <2>4. r.id < MaxId
    BY <2>1, MaxIdAssumption DEF Ids
  <2>5. Port!Cardinality(Recovered(journal)) < Capacity
    <3>1. Port!Cardinality(LiveEntries(journal)) = Cardinality(LiveEntries(journal))
      BY Zenon DEF Port!Cardinality, Cardinality
    <3>. QED
      BY <2>1, <2>2, <3>1
  <2>6. Port!Enqueue
    BY <2>1, <2>2, <2>3, <2>4, <2>5 DEF Port!Enqueue
  <2>. QED
    BY <2>6 DEF Port!Next
<1>4. CASE r.op # "enqueue"
  <2>1. /\ Recovered(journal) = LiveEntries(journal) /\ NextIdOf(Trimmed(journal)) = n
        /\ Recovered(journal') = LiveEntries(journal') /\ NextIdOf(Trimmed(journal')) = n
    BY <1>1, <1>4, PortState
  <2>2. Port!Acknowledge
    <3>. HIDE DEF n
    <3>. QED
      BY <1>2, <1>4, <2>1 DEF Port!Acknowledge
  <2>. QED
    BY <2>2 DEF Port!Next
<1>. QED
  BY <1>3, <1>4

(* A journal with the same entries and the same next identifier: the port *)
(* does not move.                                                         *)
LEMMA SameIsNoStep ==
    ASSUME Sound(journal), Sound(journal'), LiveEntries(journal') = LiveEntries(journal),
           NEW n, IsNextId(n, journal), IsNextId(n, journal')
    PROVE  UNCHANGED Port!promised
<1>1. /\ Recovered(journal) = LiveEntries(journal) /\ NextIdOf(Trimmed(journal)) = n
      /\ Recovered(journal') = LiveEntries(journal') /\ NextIdOf(Trimmed(journal')) = n
  BY PortState
<1>. QED
  BY <1>1 DEF Port!promised

(* Every step of the outbox is a step of the port, or leaves it alone. *)
LEMMA PortStep ==
    ASSUME StoredInv, StoredInv', [OutboxNext]_outboxVars
    PROVE  [Port!Next]_(Port!promised)
<1>1. Sound(journal) /\ Sound(journal')
  BY DEF StoredInv
<1>2. CASE UNCHANGED journal
  BY <1>2 DEF Port!promised
<1>3. CASE Open
  <2>1. journal' = Trimmed(journal)
    BY <1>3, Zenon DEF Open
  <2>2. LiveEntries(journal') = LiveEntries(journal) /\ NextIdBounds(journal') = NextIdBounds(journal)
    BY <1>1, <2>1, TrimmedFacts
  <2>3. IsNextId(NextIdOf(journal), journal) /\ IsNextId(NextIdOf(journal), journal')
    BY <1>1, <2>2, NextIdExists DEF IsNextId
  <2>. QED
    BY <1>1, <2>2, <2>3, SameIsNoStep
<1>4. CASE CompactRename
  <2>1. /\ outboxPc = "compacted" /\ journal' = Compacted(entries, nextId)
    BY <1>4, Zenon DEF CompactRename
  <2>2. entries = LiveEntries(journal) /\ IsNextId(nextId, journal)
    BY <2>1 DEF StoredInv, MemoryInv
  <2>3. LiveEntries(journal') = LiveEntries(journal) /\ IsNextId(nextId, journal')
    BY <1>1, <2>1, <2>2, CompactedFacts
  <2>. QED
    BY <1>1, <2>2, <2>3, SameIsNoStep
<1>5. CASE SyncRecord
  <2>1. outboxPc = "written" /\ journal' = Append(journal, NewRecord)
    BY <1>5, Zenon DEF SyncRecord
  <2>2. NewRecord \in tail /\ NewRecord # NoRecord
    <3>1. NewRecord \in tail /\ Head(queue).op \in {"enqueue", "acknowledge"}
      BY <2>1 DEF StoredInv, MemoryInv
    <3>2. NewRecord.op = Head(queue).op
      BY <3>1, Zenon DEF NewRecord, EncodeEnqueue, EncodeAcknowledge
    <3>. QED
      BY <3>1, <3>2 DEF NoRecord
  <2>3. MayFollow(journal, NewRecord)
    BY <2>2 DEF StoredInv
  <2>. QED
    BY <1>1, <2>1, <2>3, AppendIsAStep
<1>6. CASE OutboxCrash
  <2>1. journal' \in OnDisk
    BY <1>6, Zenon DEF OutboxCrash
  <2>2. CASE journal' = journal
    BY <1>2, <2>2
  <2>3. CASE journal' # journal
    <3>1. PICK r \in tail \ {NoRecord} : journal' = Append(journal, r)
      BY <2>1, <2>3 DEF OnDisk
    <3>2. MayFollow(journal, r)
      BY <3>1 DEF StoredInv
    <3>. QED
      BY <1>1, <3>1, <3>2, AppendIsAStep
  <2>. QED
    BY <2>2, <2>3
<1>7. UNCHANGED journal \/ Open \/ CompactRename \/ SyncRecord \/ OutboxCrash
  BY Zenon DEF OutboxNext, outboxVars, diskVars, Work, WorkFails, Peek, Refuse,
     AcknowledgeNothing, WriteRecord, CompactWrite, CompactReopen, SyncDirectory, AppendFails,
     CompactFails, ReopenFails, SyncDirectoryFails, Shutdown, Call, Submit
<1>. QED
  BY <1>2, <1>3, <1>4, <1>5, <1>6, <1>7

(* An empty journal is an empty outbox. *)
LEMMA PortInit == OutboxInit => Port!Init
<1>. SUFFICES ASSUME OutboxInit PROVE Port!Init
  OBVIOUS
<1>1. journal = <<>> /\ Sound(journal)
  BY StoredInit DEF OutboxInit, StoredInv
<1>2. LiveEntries(<<>>) = {} /\ IsNextId(1, <<>>)
  BY DEF LiveEntries, IsNextId, NextIdBounds
<1>. QED
  BY <1>1, <1>2, PortState DEF Port!Init

(***************************************************************************)
(* The journal implements the DurableOutbox port: what the next open would *)
(* give changes by whole enqueues, each under an identifier never used     *)
(* before and within the capacity, and by removals of stored entries;      *)
(* compaction, crashes, torn records and restarts do not change it.        *)
(***************************************************************************)
THEOREM OutboxImplementsPort == OutboxSpec => ImplementsPort
<1>1. OutboxInit => StoredInv /\ Port!Init
  BY StoredInit, PortInit
<1>2. StoredInv /\ [OutboxNext]_outboxVars => StoredInv'
  BY StoredStep
<1>3. StoredInv /\ StoredInv' /\ [OutboxNext]_outboxVars => [Port!Next]_(Port!promised)
  BY PortStep
<1>. QED
  BY <1>1, <1>2, <1>3, PTL DEF OutboxSpec, ImplementsPort, Port!Spec

(***************************************************************************)
(* No identifier is used twice: a successful enqueue takes one above those *)
(* of all earlier ones, whatever was compacted away or lost with a crash   *)
(* in between.                                                             *)
(***************************************************************************)
THEOREM OutboxIdsIncrease == OutboxSpec => IdsIncrease
<1>1. OutboxInit => StoredInv
  BY StoredInit
<1>2. StoredInv /\ [OutboxNext]_outboxVars => StoredInv'
  BY StoredStep
<1>3. ASSUME StoredInv, outboxPc = "written"
      PROVE  \A d \in accepted : d.id < nextId
  <2>1. /\ IsNextId(nextId, journal) /\ Sound(journal)
        /\ \A d \in accepted : \E m \in NextIdBounds(journal) : d.id < m
    BY <1>3 DEF StoredInv, MemoryInv, Kept
  <2>2. /\ nextId \in Nat /\ \A m \in NextIdBounds(journal) : m \in Nat /\ m <= nextId
        /\ \A d \in accepted : d.id \in Nat
    BY <1>3, <2>1, BoundsTypes DEF IsNextId, StoredInv, Entry, Ids
  <2>. QED
    BY <2>1, <2>2
<1>4. StoredInv /\ [OutboxNext]_outboxVars =>
        [IdStep]_outboxVars
  BY <1>3, Zenon DEF IdStep
<1>. QED
  BY <1>1, <1>2, <1>4, PTL DEF OutboxSpec, IdsIncrease
=============================================================================
