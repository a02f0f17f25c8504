------------------------ MODULE StoreAndForwardProofs ------------------------
(***************************************************************************)
(* Proof that the uplink's store-and-forward path loses no accepted        *)
(* message and lets none pass an older one, and that its tasks are clients *)
(* of FileOutbox, for any producers, messages, capacities and faults.      *)
(***************************************************************************)
EXTENDS StoreAndForward, FileOutboxProofs

\* Every entry somebody has seen under its identifier
Known == accepted \cup published \cup batch \cup LiveEntries(journal)
           \cup UNION {answer[c].batch : c \in Clients}

Published(i) == \E e \in published : e.id = i

\* A drain that publishes S in order passes no accepted entry
Complete(S) == \A e \in S : \A a \in accepted : a.id < e.id => a \in S \/ a \in published

\* An identifier names one entry, below the next identifier.
NamesAreUnique ==
  /\ \A e \in Known : e \in Entry /\ \E m \in NextIdBounds(journal) : e.id < m
  /\ \A d, e \in Known : d.id = e.id => d = e

\* Only published entries are acknowledged.
AcksFollowPublication ==
  /\ \A i \in tried : Published(i)
  /\ \A n \in 1 .. Len(queue) : queue[n].op = "acknowledge" => \A i \in queue[n].ids : Published(i)

\* What the forwarder holds and is handed starts with the oldest entries.
DrainsAreComplete ==
  /\ Complete(batch)
  /\ \A c \in Clients : Complete(answer[c].batch)
  /\ step \in {"publishing", "published", "acking"} <=> batch # {}
  /\ step \in {"published", "acking"} => Current \in published

ForwardInv == /\ StoredInv
              /\ DOMAIN answer = Clients
              /\ step \in {"idle", "peeking", "publishing", "published", "acking"}
              /\ NamesAreUnique /\ AcksFollowPublication /\ DrainsAreComplete /\ NoOvertaking
---------------------------------------------------------------------------
(* The entry whose turn it is is the oldest of the batch. *)
LEMMA CurrentFacts ==
    ASSUME batch \in SUBSET Entry, batch # {}
    PROVE  Current \in batch /\ \A d \in batch : Current.id <= d.id
<1>. DEFINE I == {e.id : e \in batch}
<1>1. I \in SUBSET Nat /\ I # {} /\ \A e \in batch : e.id \in Nat
  BY DEF Entry, Ids
<1>2. PICK i \in I : \A k \in I : ~(<<k, i>> \in OpToRel(<, Nat))
  <2>. HIDE DEF I
  <2>. QED
    BY <1>1, NatLessThanWellFounded, WFMin, Zenon
<1>3. \A k \in I : i <= k
  <2>1. \A u, v \in Nat : <<v, u>> \in OpToRel(<, Nat) <=> v < u
    BY DEF OpToRel
  <2>2. i \in Nat /\ \A k \in I : k \in Nat
    BY <1>1
  <2>3. \A k \in I : ~(k < i)
    <3>. HIDE DEF I
    <3>. QED
      BY <1>2, <2>1, <2>2, Zenon
  <2>. HIDE DEF I
  <2>. QED
    BY <2>2, <2>3
<1>4. \E e \in batch : \A d \in batch : e.id <= d.id
  BY <1>3
<1>. QED
  BY <1>4, Zenon DEF Current

(* The journal gains at most one entry, above all identifiers it has had, and *)
(* an entry is accepted only as the journal gains it.                         *)
LEMMA AppendGains ==
    ASSUME Sound(journal), NEW r, MayFollow(journal, r), journal' = Append(journal, r)
    PROVE  /\ \A e \in LiveEntries(journal') :
                \/ e \in LiveEntries(journal)
                \/ /\ \A m \in NextIdBounds(journal) : m <= e.id
                   /\ r.op = "enqueue" /\ e = [id |-> r.id, msg |-> r.msg]
           /\ \A m \in NextIdBounds(journal) : m \in NextIdBounds(journal')
<1>1. \A e : e \in LiveEntries(journal') <=>
               \/ e \in LiveEntries(journal) /\ e.id \notin r.ids
               \/ r.op = "enqueue" /\ e = [id |-> r.id, msg |-> r.msg]
  BY LiveAppended DEF Sound, MayFollow, Shaped
<1>2. \A m : m \in NextIdBounds(journal) => m \in NextIdBounds(journal')
  BY BoundsAppended DEF Sound, MayFollow, Shaped
<1>3. r.op = "enqueue" => \A m \in NextIdBounds(journal) : m <= r.id
  BY DEF MayFollow, IsNextId
<1>. QED
  BY <1>1, <1>2, <1>3

Fresh(e) == e \in LiveEntries(journal)' /\ \A m \in NextIdBounds(journal) : m <= e.id

LEMMA JournalGains ==
    ASSUME StoredInv, StoredInv', [OutboxNext]_outboxVars
    PROVE  /\ \A e \in LiveEntries(journal') : e \in LiveEntries(journal) \/ Fresh(e)
           /\ \A e \in accepted' : e \in accepted \/ Fresh(e)
           /\ \A m \in NextIdBounds(journal) : \E n \in NextIdBounds(journal') : m <= n
<1>1. Sound(journal) /\ \A m \in NextIdBounds(journal) : m \in Nat /\ m <= m
  <2>1. Sound(journal)
    BY DEF StoredInv
  <2>. QED
    BY <2>1, BoundsTypes
<1>2. CASE UNCHANGED <<journal, accepted>>
  BY <1>1, <1>2
<1>3. CASE Open
  <2>1. journal' = Trimmed(journal) /\ accepted' = accepted
    BY <1>3, Zenon DEF Open, ghostVars
  <2>. QED
    BY <1>1, <2>1, TrimmedFacts
<1>4. CASE CompactRename
  <2>1. outboxPc = "compacted" /\ journal' = Compacted(entries, nextId) /\ accepted' = accepted
    BY <1>4, Zenon DEF CompactRename, ghostVars
  <2>2. entries = LiveEntries(journal) /\ IsNextId(nextId, journal)
    BY <2>1 DEF StoredInv, MemoryInv
  <2>3. LiveEntries(journal') = LiveEntries(journal) /\ IsNextId(nextId, journal')
    BY <1>1, <2>1, <2>2, CompactedFacts
  <2>. QED
    BY <2>1, <2>2, <2>3 DEF IsNextId
<1>5. CASE SyncRecord
  <2>1. outboxPc = "written" /\ journal' = Append(journal, NewRecord)
    BY <1>5, Zenon DEF SyncRecord
  <2>2. NewRecord \in tail /\ Head(queue).op \in {"enqueue", "acknowledge"} /\ MemoryInv
    BY <2>1 DEF StoredInv, MemoryInv
  <2>3. NewRecord.op = Head(queue).op
    BY <2>2, Zenon DEF NewRecord, EncodeEnqueue, EncodeAcknowledge
  <2>4. MayFollow(journal, NewRecord)
    BY <2>2, <2>3 DEF StoredInv, NoRecord
  <2>5. /\ \A e \in LiveEntries(journal') : e \in LiveEntries(journal) \/ Fresh(e)
        /\ \A m \in NextIdBounds(journal) : \E n \in NextIdBounds(journal') : m <= n
    BY <1>1, <2>1, <2>4, AppendGains DEF Fresh
  <2>6. ASSUME NEW e \in accepted', e \notin accepted PROVE Fresh(e)
    <3>1. Head(queue).op = "enqueue" /\ e = [id |-> nextId, msg |-> Head(queue).msg]
          /\ e \in entries'
      BY <1>5, <2>6, Zenon DEF SyncRecord
    <3>2. outboxPc' = "ready" /\ entries' = LiveEntries(journal)'
      BY <1>5 DEF SyncRecord, StoredInv, MemoryInv
    <3>3. e.id = nextId /\ \A m \in NextIdBounds(journal) : m <= nextId
      BY <2>2, <3>1 DEF MemoryInv, IsNextId
    <3>. QED
      BY <3>1, <3>2, <3>3 DEF Fresh
  <2>. QED
    BY <2>5, <2>6
<1>6. CASE OutboxCrash
  <2>1. journal' \in OnDisk /\ accepted' = accepted
    BY <1>6, Zenon DEF OutboxCrash, ghostVars
  <2>2. CASE journal' # journal
    <3>1. PICK r \in tail \ {NoRecord} : journal' = Append(journal, r)
      BY <2>1, <2>2 DEF OnDisk
    <3>2. MayFollow(journal, r)
      BY <3>1 DEF StoredInv
    <3>. QED
      BY <1>1, <2>1, <3>1, <3>2, AppendGains DEF Fresh
  <2>. QED
    BY <1>2, <2>1, <2>2
<1>7. UNCHANGED <<journal, accepted>> \/ Open \/ CompactRename \/ SyncRecord \/ OutboxCrash
  BY Zenon DEF OutboxNext, outboxVars, diskVars, ghostVars, Work, WorkFails, Peek, Refuse,
     AcknowledgeNothing, WriteRecord, CompactWrite, CompactReopen, SyncDirectory, AppendFails,
     CompactFails, ReopenFails, SyncDirectoryFails, Shutdown, Call, Submit
<1>. QED
  BY <1>2, <1>3, <1>4, <1>5, <1>6, <1>7

---------------------------------------------------------------------------
(* A peek takes the oldest entries: an older accepted one that is not among *)
(* them has been published, since it left the journal.                      *)
LEMMA OldestComplete ==
    ASSUME ForwardInv, outboxPc # "down", NEW n \in Nat
    PROVE  Oldest(n) \subseteq LiveEntries(journal) /\ Complete(Oldest(n))
<1>. DEFINE Below(e) == {d \in entries : d.id < e.id}
<1>1. entries = LiveEntries(journal) /\ IsFiniteSet(entries) /\ entries \in SUBSET Entry
  BY LiveFacts DEF ForwardInv, StoredInv, MemoryInv
<1>2. ASSUME NEW e \in Oldest(n), NEW a \in accepted, a.id < e.id
      PROVE  a \in Oldest(n) \/ a \in published
  <2>1. CASE a.id \in tried
    BY <2>1 DEF ForwardInv, AcksFollowPublication, Published, NamesAreUnique, Known
  <2>2. CASE a.id \notin tried
    <3>1. a \in entries /\ e \in entries /\ Cardinality(Below(e)) < n
      BY <1>1, <2>2 DEF ForwardInv, StoredInv, Kept, Oldest
    <3>2. a.id \in Nat /\ e.id \in Nat /\ \A d \in entries : d.id \in Nat
      BY <1>1, <3>1 DEF Entry, Ids
    <3>3. Below(a) \subseteq Below(e)
      BY <1>2, <3>2
    <3>4. IsFiniteSet(Below(e))
      BY <1>1, FS_Subset
    <3>5. /\ Cardinality(Below(a)) <= Cardinality(Below(e))
          /\ Cardinality(Below(a)) \in Nat /\ Cardinality(Below(e)) \in Nat
      BY <3>3, <3>4, FS_Subset, FS_CardinalityType
    <3>. QED
      BY <3>1, <3>5 DEF Oldest
  <2>. QED
    BY <2>1, <2>2
<1>. QED
  BY <1>1, <1>2 DEF Complete, Oldest

(* An answer is empty, stays, or is what a peek found. *)
LEMMA AnswersMove ==
    ASSUME ForwardInv, [OutboxNext]_outboxVars
    PROVE  /\ DOMAIN answer' = Clients
           /\ \A c \in Clients : \/ answer'[c].batch \in {{}, answer[c].batch}
                                \/ /\ outboxPc # "down"
                                   /\ \E n \in Nat : answer'[c].batch = Oldest(n)
<1>1. DOMAIN answer = Clients
  BY DEF ForwardInv
<1>2. CASE UNCHANGED answer
  BY <1>1, <1>2
<1>3. CASE answer' = [c \in Clients |-> NoAnswer]
  BY <1>3 DEF NoAnswer
<1>4. ASSUME NEW x, NEW a, answer' = [answer EXCEPT ![x] = a], a.batch = {}
      PROVE  DOMAIN answer' = Clients /\ \A c \in Clients : answer'[c].batch \in {{}, answer[c].batch}
  BY <1>1, <1>4
<1>5. CASE Peek
  <2>1. /\ outboxPc = "ready" /\ queue # <<>>
        /\ answer' = [answer EXCEPT ![Head(queue).from] = Batch(Oldest(Head(queue).limit))]
    BY <1>5, Zenon DEF Peek, Serving, Reply
  <2>2. Head(queue).limit \in Nat
    BY <2>1, ReplyFacts, OutboxAssumption DEF ForwardInv, Requests, Request
  <2>. QED
    BY <1>1, <2>1, <2>2 DEF Batch
<1>6. \/ UNCHANGED answer \/ Peek \/ answer' = [c \in Clients |-> NoAnswer]
      \/ \E x : \/ answer' = [answer EXCEPT ![x] = Failed]
               \/ answer' = [answer EXCEPT ![x] = Waiting]
               \/ \E n : answer' = [answer EXCEPT ![x] = Count(n)]
  <2>1. CASE SyncRecord
    BY <2>1, Zenon DEF SyncRecord, Reply
  <2>2. CASE ~SyncRecord
    BY <2>2, Zenon DEF OutboxNext, outboxVars, Work, WorkFails, Refuse, Open, OutboxCrash, Stopped,
       AcknowledgeNothing, WriteRecord, CompactWrite, CompactRename, CompactReopen, SyncDirectory,
       AppendFails, CompactFails, ReopenFails, SyncDirectoryFails, Shutdown, Call, Submit, Reply
  <2>. QED
    BY <2>1, <2>2
<1>7. Failed.batch = {} /\ Waiting.batch = {} /\ \A n : Count(n).batch = {}
  BY DEF Failed, Waiting, Count
<1>. QED
  BY <1>2, <1>3, <1>4, <1>5, <1>6, <1>7, Zenon

---------------------------------------------------------------------------
(* A request that acknowledges only published entries joins the queue ... *)
LEMMA SubmitAcks ==
    ASSUME ForwardInv, UNCHANGED published, NEW r \in Requests, Submit(r),
           r.op = "acknowledge" => \A i \in r.ids : Published(i)
    PROVE  AcksFollowPublication'
<1>1. UNCHANGED tried /\ (queue' = Append(queue, r) \/ queue' = queue) /\ queue \in Seq(Requests)
  <2>1. UNCHANGED tried /\ (queue' = Append(queue, r) \/ queue' = queue)
    BY Zenon DEF Submit, ghostVars
  <2>. QED
    BY <2>1 DEF ForwardInv, StoredInv
<1>2. \A i : Published(i)' <=> Published(i)
  BY DEF Published
<1>3. \A n \in 1 .. Len(queue') : queue'[n] = r \/ (n \in 1 .. Len(queue) /\ queue'[n] = queue[n])
  <2>1. CASE queue' = queue
    BY <2>1
  <2>2. CASE queue' = Append(queue, r)
    <3>1. /\ Len(queue') = Len(queue) + 1 /\ Len(queue) \in Nat /\ queue'[Len(queue) + 1] = r
          /\ \A n \in 1 .. Len(queue) : queue'[n] = queue[n]
      BY <1>1, <2>2
    <3>. QED
      BY <3>1
  <2>. QED
    BY <1>1, <2>1, <2>2
<1>. QED
  BY <1>1, <1>2, <1>3 DEF ForwardInv, AcksFollowPublication

(* ... and a step of the worker, a start or a stop adds none. *)
LEMMA WorkAcks ==
    ASSUME ForwardInv, UNCHANGED published, Open \/ Shutdown \/ OutboxCrash \/ Work \/ WorkFails
    PROVE  AcksFollowPublication'
<1>1. queue \in Seq(Requests) /\ AcksFollowPublication /\ StoredInv
  BY DEF ForwardInv, StoredInv
<1>2. \A i : Published(i)' <=> Published(i)
  BY DEF Published
<1>3. ASSUME queue' = queue \/ queue' = <<>> \/ (queue # <<>> /\ queue' = Tail(queue))
      PROVE  \A n \in 1 .. Len(queue') : \E k \in 1 .. Len(queue) : queue'[n] = queue[k]
  <2>1. CASE queue' = queue
    BY <2>1
  <2>2. CASE queue' = <<>>
    BY <2>2
  <2>3. CASE queue # <<>> /\ queue' = Tail(queue)
    <3>1. \A n \in 1 .. Len(queue') : n + 1 \in 1 .. Len(queue) /\ queue'[n] = queue[n + 1]
      BY <1>1, <2>3
    <3>. QED
      BY <3>1
  <2>. QED
    BY <1>3, <2>1, <2>2, <2>3
<1>4. queue' = queue \/ queue' = <<>> \/ (queue # <<>> /\ queue' = Tail(queue))
  <2>1. outboxPc \notin {"down", "ready"} => queue # <<>>
    BY <1>1 DEF StoredInv, MemoryInv
  <2>2. CASE SyncRecord \/ SyncDirectory \/ WorkFails
    BY <2>1, <2>2 DEF SyncRecord, SyncDirectory, WorkFails, AppendFails, CompactFails,
       ReopenFails, SyncDirectoryFails, Reply
  <2>3. CASE Peek \/ Refuse \/ AcknowledgeNothing
    BY <2>3, Zenon DEF Peek, Refuse, AcknowledgeNothing, Serving, Reply
  <2>4. CASE \/ Open \/ Shutdown \/ OutboxCrash \/ WriteRecord \/ CompactWrite
             \/ CompactRename \/ CompactReopen
    BY <2>4, Zenon DEF Open, Shutdown, OutboxCrash, Stopped, WriteRecord, CompactWrite,
       CompactRename, CompactReopen
  <2>. QED
    BY <2>2, <2>3, <2>4, Zenon DEF Work
<1>5. \A i \in tried' : i \in tried \/ \E k \in 1 .. Len(queue) :
                                      queue[k].op = "acknowledge" /\ i \in queue[k].ids
  <2>1. CASE WriteRecord
    <3>1. tried' = tried \cup NewRecord.ids /\ queue # <<>> /\ Head(queue).op \in {"enqueue", "acknowledge"}
      BY <2>1 DEF WriteRecord, Appending, Serving
    <3>2. Head(queue).op = "enqueue" => NewRecord.ids = {}
      BY DEF NewRecord, EncodeEnqueue
    <3>3. Head(queue).op = "acknowledge" => NewRecord.ids \subseteq Head(queue).ids
      BY DEF NewRecord, EncodeAcknowledge, Existing
    <3>4. 1 \in 1 .. Len(queue) /\ Head(queue) = queue[1]
      BY <1>1, <3>1
    <3>. QED
      BY <3>1, <3>2, <3>3, <3>4
  <2>2. CASE ~WriteRecord
    <3>1. UNCHANGED tried
      BY <2>2, Zenon DEF Work, WorkFails, Peek, Refuse, Open, OutboxCrash, SyncRecord,
         AcknowledgeNothing, CompactWrite, CompactRename, CompactReopen, SyncDirectory,
         AppendFails, CompactFails, ReopenFails, SyncDirectoryFails, Shutdown, ghostVars
    <3>. QED
      BY <3>1
  <2>. QED
    BY <2>1, <2>2
<1>. QED
  BY <1>1, <1>2, <1>3, <1>4, <1>5, Zenon DEF AcksFollowPublication

---------------------------------------------------------------------------
DrainSteps == {"publishing", "published", "acking"}

(* What the outbox does while the forwarder waits, or stops *)
LEMMA OutboxMoves ==
    ASSUME ForwardInv, StoredInv', [OutboxNext]_outboxVars, UNCHANGED published,
           batch' \in {batch, {}}, AcksFollowPublication',
           step' \in {"idle", "peeking"} \cup DrainSteps,
           step' \in DrainSteps <=> batch' # {},
           step' \in {"published", "acking"} => Current' \in published
    PROVE  ForwardInv'
<1>1. /\ StoredInv /\ NamesAreUnique /\ DrainsAreComplete /\ NoOvertaking
      /\ Sound(journal) /\ Sound(journal')
  BY DEF ForwardInv, StoredInv
<1>2. /\ \A e \in LiveEntries(journal') : e \in LiveEntries(journal) \/ Fresh(e)
      /\ \A e \in accepted' : e \in accepted \/ Fresh(e)
      /\ \A m \in NextIdBounds(journal) : \E n \in NextIdBounds(journal') : m <= n
  BY <1>1, JournalGains
<1>3. /\ DOMAIN answer' = Clients
      /\ \A c \in Clients : \/ answer'[c].batch \in {{}, answer[c].batch}
                           \/ /\ outboxPc # "down"
                              /\ \E n \in Nat : answer'[c].batch = Oldest(n)
  BY AnswersMove
<1>4. \A c \in Clients : answer'[c].batch \subseteq Known /\ Complete(answer'[c].batch)
  <2>1. \A c \in Clients : answer[c].batch \subseteq Known /\ Complete(answer[c].batch)
    BY <1>1 DEF Known, DrainsAreComplete
  <2>2. ASSUME outboxPc # "down", NEW n \in Nat
        PROVE  Oldest(n) \subseteq Known /\ Complete(Oldest(n))
    BY <2>2, OldestComplete DEF Known
  <2>3. Complete({})
    BY DEF Complete
  <2>. QED
    BY <1>3, <2>1, <2>2, <2>3, Zenon
<1>5. batch' \subseteq Known /\ Complete(batch')
  BY <1>1 DEF Known, DrainsAreComplete, Complete
<1>6. \A e \in Known' : e \in Known \/ Fresh(e)
  BY <1>2, <1>4, <1>5 DEF Known
<1>7. /\ \A m \in NextIdBounds(journal) : m \in Nat
      /\ \A m \in NextIdBounds(journal') : m \in Nat
      /\ \A e \in Known : e.id \in Nat
      /\ \A e : Fresh(e) => e.id \in Nat
  <2>1. LiveEntries(journal') \in SUBSET Entry
    BY <1>1, LiveFacts
  <2>. QED
    BY <1>1, <2>1, BoundsTypes DEF NamesAreUnique, Entry, Ids, Fresh
<1>8. \A d, e : d \in Known /\ Fresh(e) => d.id < e.id
  <2>. SUFFICES ASSUME NEW d \in Known, NEW e, Fresh(e) PROVE d.id < e.id
    OBVIOUS
  <2>1. PICK m \in NextIdBounds(journal) : d.id < m
    BY <1>1 DEF NamesAreUnique
  <2>2. m <= e.id
    BY DEF Fresh
  <2>. QED
    BY <1>7, <2>1, <2>2
<1>9. NamesAreUnique'
  <2>1. /\ LiveEntries(journal') \in SUBSET Entry
        /\ \A d, e \in LiveEntries(journal') : d.id = e.id => d = e
        /\ \A e \in LiveEntries(journal') : \E m \in NextIdBounds(journal') : e.id < m
    BY <1>1, LiveFacts
  <2>2. ASSUME NEW e \in Known' PROVE e \in Entry /\ \E m \in NextIdBounds(journal') : e.id < m
    <3>1. CASE e \in Known
      <4>1. PICK m \in NextIdBounds(journal) : e.id < m
        BY <1>1, <3>1 DEF NamesAreUnique
      <4>2. PICK n \in NextIdBounds(journal') : m <= n
        BY <1>2
      <4>3. e.id < n
        BY <1>7, <3>1, <4>1, <4>2
      <4>. QED
        BY <1>1, <3>1, <4>3 DEF NamesAreUnique
    <3>2. CASE Fresh(e)
      BY <2>1, <3>2 DEF Fresh
    <3>. QED
      BY <1>6, <3>1, <3>2
  <2>3. ASSUME NEW d \in Known', NEW e \in Known', d.id = e.id PROVE d = e
    <3>1. CASE d \in Known /\ e \in Known
      BY <1>1, <2>3, <3>1 DEF NamesAreUnique
    <3>2. CASE Fresh(d) /\ Fresh(e)
      BY <2>1, <2>3, <3>2 DEF Fresh
    <3>3. CASE (d \in Known /\ Fresh(e)) \/ (Fresh(d) /\ e \in Known)
      <4>1. d.id \in Nat /\ e.id \in Nat /\ (d.id < e.id \/ e.id < d.id)
        BY <1>7, <1>8, <3>3
      <4>. QED
        BY <2>3, <4>1
    <3>. QED
      BY <1>6, <3>1, <3>2, <3>3
  <2>. QED
    BY <2>2, <2>3 DEF NamesAreUnique
<1>10. ASSUME NEW e \in Known, NEW a \in accepted', a.id < e.id PROVE a \in accepted
  <2>1. ASSUME Fresh(a) PROVE FALSE
    <3>1. e.id < a.id /\ a.id \in Nat /\ e.id \in Nat
      BY <1>7, <1>8, <2>1
    <3>. QED
      BY <1>10, <3>1
  <2>. QED
    BY <1>2, <2>1
<1>11. DrainsAreComplete'
  <2>1. \A S \in SUBSET Known : Complete(S) =>
           \A e \in S : \A a \in accepted' : a.id < e.id => a \in S \/ a \in published
    BY <1>10 DEF Complete
  <2>2. \A e \in batch' : \A a \in accepted' : a.id < e.id => a \in batch' \/ a \in published'
    BY <1>5, <2>1
  <2>3. \A c \in Clients : \A e \in answer'[c].batch : \A a \in accepted' :
           a.id < e.id => a \in answer'[c].batch \/ a \in published'
    BY <1>4, <2>1
  <2>. QED
    BY <2>2, <2>3 DEF DrainsAreComplete, Complete, DrainSteps
<1>12. NoOvertaking'
  BY <1>1, <1>10 DEF NoOvertaking, Known
<1>. QED
  BY <1>3, <1>9, <1>11, <1>12 DEF ForwardInv, DrainSteps

(* What the forwarder does while the outbox rests *)
LEMMA DrainMoves ==
    ASSUME ForwardInv, UNCHANGED outboxVars, batch' \subseteq Known, Complete(batch'),
           published' \subseteq published \cup batch, published \subseteq published',
           step' \in {"idle", "peeking"} \cup DrainSteps,
           step' \in DrainSteps <=> batch' # {},
           step' \in {"published", "acking"} => Current' \in published',
           \A e \in published' : \A a \in accepted : a.id < e.id => a \in published'
    PROVE  ForwardInv'
<1>1. UNCHANGED <<journal, tail, outboxPc, queue, entries, nextId, answer, accepted, tried, dropped>>
  BY Zenon DEF outboxVars, diskVars, memVars, ghostVars
<1>2. StoredInv'
  BY StoredStep DEF ForwardInv
<1>3. NamesAreUnique'
  <2>1. Known' \subseteq Known
    BY <1>1 DEF Known
  <2>. QED
    BY <1>1, <2>1 DEF ForwardInv, NamesAreUnique
<1>4. AcksFollowPublication'
  <2>1. \A i : Published(i) => Published(i)'
    BY DEF Published
  <2>. QED
    BY <1>1, <2>1 DEF ForwardInv, AcksFollowPublication
<1>5. DrainsAreComplete'
  BY <1>1 DEF ForwardInv, DrainsAreComplete, Complete, DrainSteps
<1>6. NoOvertaking'
  BY <1>1 DEF NoOvertaking
<1>. QED
  BY <1>1, <1>2, <1>3, <1>4, <1>5, <1>6 DEF ForwardInv, DrainSteps

---------------------------------------------------------------------------
(* The calls of the tasks are calls a client may make. *)
LEMMA TaskCalls ==
    ASSUME ForwardInv,
           NEW r, Submit(r),
           \/ r = PeekRequest(forwarder, DrainLimit)
           \/ r = CompactRequest(maintenance)
           \/ \E p \in Producers, m \in Messages : r = EnqueueRequest(p, m)
           \/ step = "published" /\ r = AckRequest(forwarder, {Current.id})
    PROVE  /\ OutboxNext /\ r \in Requests
           /\ r.op = "acknowledge" => \A i \in r.ids : Published(i)
<1>1. forwarder \in Clients /\ maintenance \in Clients /\ Producers \subseteq Clients
  BY ClientsAssumption
<1>2. CASE r = PeekRequest(forwarder, DrainLimit)
  <2>1. \E c \in Clients : Call(c)
    BY <1>1, <1>2, ClientsAssumption, Zenon DEF Call
  <2>2. r \in Requests /\ r.op # "acknowledge"
    BY <1>1, <1>2, ClientsAssumption, OutboxAssumption DEF PeekRequest, Requests, Request
  <2>. QED
    BY <2>1, <2>2 DEF OutboxNext
<1>3. CASE r = CompactRequest(maintenance)
  <2>1. \E c \in Clients : Call(c)
    BY <1>1, <1>3, Zenon DEF Call
  <2>2. r \in Requests /\ r.op # "acknowledge"
    BY <1>1, <1>3, OutboxAssumption DEF CompactRequest, Requests, Request
  <2>. QED
    BY <2>1, <2>2 DEF OutboxNext
<1>4. ASSUME NEW p \in Producers, NEW m \in Messages, r = EnqueueRequest(p, m)
      PROVE  OutboxNext /\ r \in Requests /\ r.op # "acknowledge"
  <2>1. \E c \in Clients : Call(c)
    BY <1>1, <1>4, Zenon DEF Call
  <2>2. r \in Requests /\ r.op # "acknowledge"
    BY <1>1, <1>4, OutboxAssumption DEF EnqueueRequest, Requests, Request
  <2>. QED
    BY <2>1, <2>2 DEF OutboxNext
<1>5. CASE step = "published" /\ r = AckRequest(forwarder, {Current.id})
  <2>1. Current \in published /\ Current.id \in Ids /\ {Current.id} \in SUBSET Ids
    BY <1>5 DEF ForwardInv, DrainsAreComplete, NamesAreUnique, Known, Entry
  <2>2. \E c \in Clients : Call(c)
    BY <1>1, <1>5, <2>1, Zenon DEF Call
  <2>3. r \in Requests /\ r.ids = {Current.id}
    BY <1>1, <1>5, <2>1, OutboxAssumption DEF AckRequest, Requests, Request
  <2>. QED
    BY <2>1, <2>2, <2>3 DEF OutboxNext, Published
<1>. QED
  BY <1>2, <1>3, <1>4, <1>5

(* Every step of the service is a step of the outbox or leaves it alone, and *)
(* keeps the invariant.                                                      *)
LEMMA ForwardStep ==
    ASSUME ForwardInv, [ForwardNext]_allVars
    PROVE  ForwardInv' /\ [OutboxNext]_outboxVars
<1>1. /\ StoredInv /\ batch \in SUBSET Entry /\ batch \subseteq Known
      /\ DrainsAreComplete /\ NoOvertaking
      /\ step \in {"idle", "peeking"} \cup DrainSteps
      /\ step \in DrainSteps <=> batch # {}
      /\ step \in {"published", "acking"} => Current \in published
  BY DEF ForwardInv, DrainsAreComplete, DrainSteps, NamesAreUnique, Known
<1>2. batch' = batch => Current' = Current
  BY Zenon DEF Current
<1>3. batch # {} => Current \in batch /\ \A d \in batch : Current.id <= d.id
  BY <1>1, CurrentFacts
<1>4. ASSUME NEW r, Submit(r), UNCHANGED <<batch, published>>,
             \/ r = PeekRequest(forwarder, DrainLimit)
             \/ r = CompactRequest(maintenance)
             \/ \E p \in Producers, m \in Messages : r = EnqueueRequest(p, m)
             \/ step = "published" /\ r = AckRequest(forwarder, {Current.id}),
             \/ step' = step
             \/ step = "idle" /\ step' = "peeking"
             \/ step = "published" /\ step' = "acking"
      PROVE  ForwardInv' /\ OutboxNext
  <2>1. OutboxNext /\ r \in Requests /\ (r.op = "acknowledge" => \A i \in r.ids : Published(i))
    BY <1>4, TaskCalls
  <2>2. StoredInv' /\ AcksFollowPublication'
    BY <1>1, <1>4, <2>1, StoredStep, SubmitAcks
  <2>3. /\ step' \in {"idle", "peeking"} \cup DrainSteps
        /\ step' \in DrainSteps <=> batch' # {}
        /\ step' \in {"published", "acking"} => Current' \in published
    BY <1>1, <1>2, <1>4 DEF DrainSteps
  <2>. QED
    BY <1>4, <2>1, <2>2, <2>3, OutboxMoves
<1>5. CASE UNCHANGED allVars
  <2>1. UNCHANGED outboxVars /\ UNCHANGED <<step, batch, published>>
    BY <1>5, Zenon DEF allVars, forwardVars
  <2>2. Complete(batch') /\ \A e \in published' : \A a \in accepted : a.id < e.id => a \in published'
    BY <1>1, <2>1 DEF DrainsAreComplete, NoOvertaking
  <2>. QED
    BY <1>1, <1>2, <2>1, <2>2, DrainMoves
<1>6. CASE Peeks \/ Acknowledges \/ ((Produce \/ Maintain) /\ UNCHANGED forwardVars)
  BY <1>4, <1>6, Zenon DEF Peeks, Acknowledges, Produce, Maintain, forwardVars
<1>7. CASE PeekAnswered
  <2>1. /\ UNCHANGED outboxVars /\ published' = published /\ batch' = answer[forwarder].batch
        /\ step' = IF batch' = {} THEN "idle" ELSE "publishing"
    BY <1>7, Zenon DEF PeekAnswered
  <2>2. forwarder \in Clients
    BY ClientsAssumption
  <2>3. batch' \subseteq Known /\ Complete(batch')
    BY <1>1, <2>1, <2>2 DEF Known, DrainsAreComplete
  <2>4. \A e \in published' : \A a \in accepted : a.id < e.id => a \in published'
    BY <1>1, <2>1 DEF NoOvertaking
  <2>. QED
    BY <2>1, <2>3, <2>4, DrainMoves DEF DrainSteps
<1>8. CASE ForwardPublish
  <2>1. /\ UNCHANGED outboxVars /\ published' = published \cup {Current} /\ batch' = batch
        /\ step = "publishing" /\ step' = "published"
    BY <1>8, Zenon DEF ForwardPublish
  <2>2. Current \in batch /\ Complete(batch) /\ \A d \in batch : Current.id <= d.id /\ d.id \in Nat
    BY <1>1, <1>3, <2>1 DEF DrainSteps, DrainsAreComplete, Entry, Ids
  <2>3. \A e \in published' : \A a \in accepted : a.id < e.id => a \in published'
    <3>1. ASSUME NEW a \in accepted, a.id < Current.id PROVE a \in published
      <4>1. a \notin batch
        BY <2>2, <3>1
      <4>. QED
        BY <2>2, <3>1, <4>1 DEF Complete
    <3>. QED
      BY <1>1, <2>1, <3>1 DEF NoOvertaking
  <2>4. Complete(batch')
    BY <2>1, <2>2
  <2>. QED
    BY <1>1, <1>2, <2>1, <2>2, <2>3, <2>4, DrainMoves DEF DrainSteps
<1>9. CASE PublishFails
  <2>1. UNCHANGED outboxVars /\ published' = published /\ batch' = {} /\ step' = "idle"
    BY <1>9, Zenon DEF PublishFails
  <2>2. Complete(batch') /\ \A e \in published' : \A a \in accepted : a.id < e.id => a \in published'
    BY <1>1, <2>1 DEF Complete, NoOvertaking
  <2>. QED
    BY <2>1, <2>2, DrainMoves DEF DrainSteps
<1>10. CASE AckAnswered
  <2>1. /\ UNCHANGED outboxVars /\ published' = published /\ step = "acking"
        /\ batch' = batch \ {Current} \/ batch' = {}
        /\ step' = IF batch' = {} THEN "idle" ELSE "publishing"
    BY <1>10, Zenon DEF AckAnswered
  <2>2. Complete(batch') /\ \A e \in published' : \A a \in accepted : a.id < e.id => a \in published'
    BY <1>1, <2>1 DEF Complete, NoOvertaking, DrainsAreComplete
  <2>. QED
    BY <1>1, <2>1, <2>2, DrainMoves DEF DrainSteps
<1>11. ASSUME Open \/ Shutdown \/ OutboxCrash \/ Work \/ WorkFails, UNCHANGED published,
              UNCHANGED <<step, batch>> \/ (step' = "idle" /\ batch' = {})
       PROVE  ForwardInv' /\ OutboxNext
  <2>1. OutboxNext
    BY <1>11, Zenon DEF OutboxNext
  <2>2. StoredInv' /\ AcksFollowPublication'
    BY <1>1, <1>11, <2>1, StoredStep, WorkAcks
  <2>3. /\ step' \in {"idle", "peeking"} \cup DrainSteps
        /\ step' \in DrainSteps <=> batch' # {}
        /\ step' \in {"published", "acking"} => Current' \in published
    BY <1>1, <1>2, <1>11 DEF DrainSteps
  <2>. QED
    BY <1>11, <2>1, <2>2, <2>3, OutboxMoves
<1>12. CASE Stops
  BY <1>11, <1>12, Zenon DEF Stops
<1>13. CASE /\ Open \/ Work \/ AppendFails \/ CompactFails \/ SyncDirectoryFails \/ ReopenFails
            /\ UNCHANGED forwardVars
  BY <1>11, <1>13, Zenon DEF WorkFails, forwardVars
<1>. QED
  BY <1>5, <1>6, <1>7, <1>8, <1>9, <1>10, <1>12, <1>13, Zenon DEF ForwardNext, NextHealthy, Drain

(* The service starts with nothing stored, held or published. *)
LEMMA ForwardInitInv == ForwardInit => ForwardInv
<1>. SUFFICES ASSUME ForwardInit PROVE ForwardInv
  OBVIOUS
<1>1. /\ StoredInv /\ journal = <<>> /\ queue = <<>> /\ accepted = {} /\ tried = {}
      /\ answer = [c \in Clients |-> NoAnswer] /\ step = "idle" /\ batch = {} /\ published = {}
  BY StoredInit DEF ForwardInit, OutboxInit
<1>2. Known = {}
  BY <1>1 DEF Known, LiveEntries, NoAnswer
<1>3. NamesAreUnique
  BY <1>2 DEF NamesAreUnique
<1>4. AcksFollowPublication
  BY <1>1 DEF AcksFollowPublication
<1>. QED
  BY <1>1, <1>3, <1>4 DEF ForwardInv, DrainsAreComplete, Complete, NoOvertaking

(***************************************************************************)
(* Whatever fails, crashes or is restarted between any two steps of the    *)
(* producers, the forwarder, the compaction and the worker: an accepted    *)
(* message has been published or the next open brings it back, and no      *)
(* message is published before an older accepted one.  For any number of   *)
(* producers, messages, capacities, drain limits and faults.               *)
(***************************************************************************)
THEOREM ForwardingInOrder == ForwardSpec => []MessagesArriveInOrder
<1>1. ForwardInit => ForwardInv
  BY ForwardInitInv
<1>2. ForwardInv /\ [ForwardNext]_allVars => ForwardInv'
  BY ForwardStep
<1>3. ForwardInv => MessagesArriveInOrder
  <2>. SUFFICES ASSUME ForwardInv PROVE MessagesArriveInOrder
    OBVIOUS
  <2>1. AcceptedSurvive /\ NoOvertaking
    BY StoredIsDurable DEF ForwardInv, OutboxIsDurable
  <2>2. AtLeastOnce
    BY <2>1 DEF AcceptedSurvive, AtLeastOnce, ForwardInv, AcksFollowPublication, Published,
       NamesAreUnique, Known
  <2>. QED
    BY <2>1, <2>2 DEF MessagesArriveInOrder
<1>. QED
  BY <1>1, <1>2, <1>3, PTL DEF ForwardSpec

(***************************************************************************)
(* The uplink's tasks use the outbox only as its clients may, so that      *)
(* whatever is proved of FileOutbox holds of it in this service.           *)
(***************************************************************************)
THEOREM ForwardingUsesTheOutbox == ForwardSpec => OutboxSpec
<1>1. ForwardInit => ForwardInv /\ OutboxInit
  BY ForwardInitInv DEF ForwardInit
<1>2. ForwardInv /\ [ForwardNext]_allVars => ForwardInv' /\ [OutboxNext]_outboxVars
  BY ForwardStep
<1>. QED
  BY <1>1, <1>2, PTL DEF ForwardSpec, OutboxSpec
=============================================================================
