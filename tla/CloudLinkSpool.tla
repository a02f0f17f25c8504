---------------------------- MODULE CloudLinkSpool ----------------------------
(***************************************************************************)
(* One durable CloudLink stream: the file-backed spool                     *)
(* (extensions/store-local/src/file_cloudlink_spool.rs over the state of   *)
(* cloudlink_spool.rs), the publisher that offers its records in a session *)
(* (crates/aether-cloudlink/src/integration_publisher.rs) and the cloud's  *)
(* durable consumer. Every mutation of the spool is one journal entry,     *)
(* appended and synchronized before memory changes; the journal is         *)
(* rewritten after CompactAfter mutations and replayed when the process    *)
(* opens it. Enqueueing (the synchronizer's task) interleaves with the     *)
(* publisher's loop, which holds no lock between two records.              *)
(***************************************************************************)
EXTENDS Naturals, Sequences, FiniteSets
LOCAL INSTANCE SequencesExt
LOCAL INSTANCE FiniteSetsExt

CONSTANTS SpoolInputs,     \* <<batch id, business content>> pairs offered to enqueue
          SpoolCapacities, \* capacities the process may be configured with
          CompactAfter,    \* COMPACT_AFTER_MUTATIONS
          MaxPosition,     \* bound: positions allocated in the first stream epoch, two
                           \* fewer in each later one
          MaxStreamEpoch,  \* bound: rotations of the stream epoch
          MaxSessions,     \* bound: CloudLink sessions and replay requests together
          MaxAppendFaults, \* bound: appends that fail without stopping the process
          NoSpool          \* absent: a closed spool, no ack, no loss, no entry

VARIABLES spool,      \* CloudLinkSpoolState in memory, NoSpool while the process is down
          spoolJournal,    \* the entries of the journal file; "torn" is an incomplete one
          publisher,  \* session the publisher serves and the window it is offering
          uplink,     \* messages handed to the transport and not yet received
          cloud,      \* what the cloud stored, the acks it sent, its replay requests
          spoolGhost  \* records enqueue returned, positions evicted, failed appends

spoolVars == <<spool, spoolJournal, publisher, uplink, cloud, spoolGhost>>

Position == 1 .. MaxPosition

\* CloudLinkRecord: its input, the session it was last offered in (0: queued) and
\* whether the broker confirmed that offer.
SpoolRecord(input, offered, published) ==
  [input |-> input, offered |-> offered, published |-> published]

\* CloudLinkDurableAck: the digest stands for the content it binds.
SpoolAck(session, epoch, position, input) ==
  [session |-> session, epoch |-> epoch, position |-> position, input |-> input]

\* CloudLinkDataLossEvidence
SpoolLoss(first, last, earliest) ==
  [first |-> first, last |-> last, earliest |-> earliest]

SpoolState(epoch, next, capacity, records, ack, acked, loss) ==
  [epoch |-> epoch, next |-> next, capacity |-> capacity, records |-> records,
   ack |-> ack, acked |-> acked, loss |-> loss]

EmptySpool(capacity) == SpoolState(1, 1, capacity, <<>>, NoSpool, 0, NoSpool)

Retained(s) == DOMAIN s.records
Earliest(s) == IF Retained(s) = {} THEN s.next ELSE Min(Retained(s))
Without(s, gone) == [p \in Retained(s) \ gone |-> s.records[p]]
With(records, p, r) == [q \in DOMAIN records \cup {p} |-> IF q = p THEN r ELSE records[q]]

-----------------------------------------------------------------------------
(* The operations on the state. Each is an enabling condition, the error    *)
(* returns of the code, and the state it leaves.                            *)

SameBatch(s, input) == {p \in Retained(s) : s.records[p].input[1] = input[1]}

\* Equal identity and content is a replay, equal identity alone a conflict.
MayEnqueue(s, input) ==
  /\ \A p \in SameBatch(s, input) : s.records[p].input = input
  /\ SameBatch(s, input) = {} => s.next + 2 * (s.epoch - 1) <= MaxPosition

Evicted(s, input) ==
  IF SameBatch(s, input) = {} /\ Cardinality(Retained(s)) = s.capacity
    THEN {Earliest(s)} ELSE {}

LossAfter(s, lost, earliest) ==
  IF s.loss # NoSpool /\ s.loss.last + 1 = lost
    THEN SpoolLoss(s.loss.first, lost, earliest)
    ELSE SpoolLoss(lost, lost, earliest)

Enqueued(s, input) ==
  IF SameBatch(s, input) # {} THEN s ELSE
  LET gone == Evicted(s, input)
      next == [s EXCEPT !.records = With(Without(s, gone), s.next,
                                         SpoolRecord(input, 0, FALSE)),
                        !.next = @ + 1]
  IN IF gone = {} THEN next
     ELSE [next EXCEPT !.loss = LossAfter(s, Earliest(s), Earliest(next))]

\* mark_offered and mark_transport_published look up identity in the active epoch.
MayOffer(s, epoch, p) == epoch = s.epoch /\ p \in Retained(s)
Offered(s, p, session) ==
  [s EXCEPT !.records[p] = SpoolRecord(@.input, session, FALSE)]

MayPublish(s, epoch, p, session) ==
  MayOffer(s, epoch, p) /\ s.records[p].offered = session
TransportPublished(s, p) == [s EXCEPT !.records[p].published = TRUE]

MayAcknowledge(s, ack) ==
  \/ s.ack = ack
  \/ /\ ack.epoch = s.epoch
     /\ ack.position > s.acked
     /\ ack.position \in Retained(s)
     /\ s.records[ack.position].offered = ack.session
     /\ s.records[ack.position].input = ack.input
\* Mutant: the record after the acknowledged one goes with it.
AcknowledgedNext(s, ack) ==
  [s EXCEPT !.records = Without(s, 1 .. ack.position + 1),
            !.acked = ack.position, !.ack = ack]

Acknowledged(s, ack) ==
  IF s.ack = ack THEN s
  ELSE [s EXCEPT !.records = Without(s, 1 .. ack.position),
                 !.acked = ack.position, !.ack = ack]

MayRotate(s) == Retained(s) = {}
Rotated(s) == [s EXCEPT !.epoch = @ + 1, !.next = 1, !.ack = NoSpool,
                        !.acked = 0, !.loss = NoSpool]

\* replay_from: the positions returned, or no answer for a cursor below what is
\* retained (with or without evidence) or beyond the next position.
ReplayFrom(s, cursor) == {p \in Retained(s) : p >= cursor}
Replayable(s, cursor) == cursor >= Earliest(s) /\ cursor <= s.next

-----------------------------------------------------------------------------
(* The journal: entries, their replay and its rewriting.                    *)

Checkpoint(s) == [kind |-> "checkpoint", state |-> [s EXCEPT !.records = <<>>]]
RecordEntry(s, p) == [kind |-> "record", position |-> p, record |-> s.records[p]]
EnqueuedEntry(s) ==
  [kind |-> "enqueued", position |-> s.next - 1, record |-> s.records[s.next - 1],
   loss |-> s.loss]
OfferedEntry(p, session) == [kind |-> "offered", position |-> p, session |-> session]
PublishedEntry(p, session) == [kind |-> "published", position |-> p, session |-> session]
AckEntry(ack) == [kind |-> "acknowledged", ack |-> ack]
RotatedEntry(s) == [kind |-> "rotated", epoch |-> s.epoch]
CapacityEntry(capacity) == [kind |-> "capacity", capacity |-> capacity]
TornEntry == [kind |-> "torn"]

Mutations(j) == Len(SelectSeq(j, LAMBDA e : e.kind \notin {"checkpoint", "record"}))

SpoolCompacted(s) ==
  <<Checkpoint(s)>> \o [i \in 1 .. Cardinality(Retained(s)) |->
                          RecordEntry(s, SetToSortSeq(Retained(s), <)[i])]

ApplyEnqueued(s, e) ==
  IF e.position # s.next THEN NoSpool
  ELSE LET gone == IF Cardinality(Retained(s)) = s.capacity THEN {Earliest(s)} ELSE {}
       IN [s EXCEPT !.records = With(Without(s, gone), e.position, e.record),
                    !.next = @ + 1, !.loss = e.loss]

\* apply_entry; NoSpool is a corrupt journal.
ApplyEntry(s, e) ==
  CASE e.kind = "checkpoint" -> IF s = NoSpool THEN e.state ELSE NoSpool
    [] s = NoSpool -> NoSpool
    [] e.kind = "record" ->
         IF e.position >= s.next \/ e.position \in Retained(s) THEN NoSpool
         ELSE [s EXCEPT !.records = With(@, e.position, e.record)]
    [] e.kind = "enqueued" -> ApplyEnqueued(s, e)
    [] e.kind = "offered" ->
         IF MayOffer(s, s.epoch, e.position) THEN Offered(s, e.position, e.session)
         ELSE NoSpool
    [] e.kind = "published" ->
         IF MayPublish(s, s.epoch, e.position, e.session)
           THEN TransportPublished(s, e.position) ELSE NoSpool
    [] e.kind = "acknowledged" ->
         IF MayAcknowledge(s, e.ack) THEN Acknowledged(s, e.ack) ELSE NoSpool
    [] e.kind = "rotated" ->
         IF MayRotate(s) /\ s.epoch + 1 = e.epoch THEN Rotated(s) ELSE NoSpool
    [] e.kind = "capacity" ->
         IF Cardinality(Retained(s)) > e.capacity THEN NoSpool
         ELSE [s EXCEPT !.capacity = e.capacity]

Sound(s) ==
  /\ s.acked < s.next
  /\ (s.ack = NoSpool) <=> (s.acked = 0)
  /\ \A p \in Retained(s) : p > s.acked /\ p < s.next
  /\ s.loss # NoSpool => s.loss.first <= s.loss.last /\ s.loss.earliest > s.loss.last

\* The entries before the first incomplete one. At the tail it is cut off. With
\* entries behind it, it is cut off with them (its length field reaches past the end
\* of the file) or its checksum fails and the journal is refused; this is the first.
Readable(j) ==
  LET torn == {i \in DOMAIN j : j[i].kind = "torn"}
  IN IF torn = {} THEN j ELSE SubSeq(j, 1, Min(torn) - 1)
SpoolRecovered(j) ==
  LET s == FoldLeft(ApplyEntry, NoSpool, Readable(j))
  IN IF s # NoSpool /\ Sound(s) THEN s ELSE NoSpool

-----------------------------------------------------------------------------
SpoolInit ==
  /\ spool \in {EmptySpool(c) : c \in SpoolCapacities}
  /\ spoolJournal = SpoolCompacted(spool)
  /\ publisher = [session |-> 0, pc |-> "closed", cursor |-> 0, limit |-> 0,
                  window |-> <<>>, first |-> FALSE]
  /\ uplink = <<>>
  /\ cloud = [got |-> {}, acks |-> {}, sessions |-> 0, replays |-> 0]
  /\ spoolGhost = [kept |-> {}, lost |-> {}, faults |-> 0]

Ready == IF Mutations(spoolJournal) >= CompactAfter THEN SpoolCompacted(spool) ELSE spoolJournal

\* FileCloudLinkSpool::mutate on success: compact when due, append, synchronize,
\* replace the state. A mutation that changes nothing appends nothing.
Mutated(s, e) ==
  /\ spool # NoSpool
  /\ spool' = s
  /\ spoolJournal' = IF s = spool THEN Ready ELSE Append(Ready, e)

\* The process dies while it appends: what reached the file is nothing, a part of
\* the entry, or all of it.
DiedAppending(e) ==
  /\ spool' = NoSpool
  /\ spoolJournal' \in {Ready, Append(Ready, TornEntry), Append(Ready, e)}
  /\ publisher' = [publisher EXCEPT !.session = 0, !.pc = "closed", !.window = <<>>]
  /\ uplink' = <<>>

\* The write or the synchronization of the entry fails and the process goes on:
\* the state is unchanged, nothing takes the bytes back from the file.
SpoolAppendFails(s, e) ==
  /\ s # spool
  /\ spoolGhost.faults < MaxAppendFaults
  /\ spoolGhost' = [spoolGhost EXCEPT !.faults = @ + 1]
  /\ spoolJournal' \in {Append(Ready, TornEntry), Append(Ready, e)}
  /\ UNCHANGED <<spool, cloud>>

EnqueueRecord(input) ==
  /\ spool # NoSpool
  /\ MayEnqueue(spool, input)
  /\ LET s == Enqueued(spool, input)
         e == EnqueuedEntry(s)
     IN \/ /\ Mutated(s, e)
           /\ spoolGhost' = [spoolGhost EXCEPT
                !.kept = @ \cup {<<s.epoch, p, s.records[p].input>> : p \in SameBatch(s, input)},
                !.lost = @ \cup {<<s.epoch, p>> : p \in Evicted(spool, input)}]
           /\ UNCHANGED <<publisher, uplink, cloud>>
        \/ s # spool /\ DiedAppending(e) /\ UNCHANGED cloud
           /\ spoolGhost' = [spoolGhost EXCEPT !.lost =
                IF SpoolRecovered(spoolJournal') # NoSpool /\ SpoolRecovered(spoolJournal').next = s.next
                  THEN @ \cup {<<s.epoch, p>> : p \in Evicted(spool, input)} ELSE @]
        \/ SpoolAppendFails(s, e) /\ UNCHANGED <<publisher, uplink>>

RotateStream ==
  /\ spool # NoSpool
  /\ MayRotate(spool)
  /\ spool.epoch < MaxStreamEpoch
  /\ publisher.pc # "offering"
  /\ LET s == Rotated(spool) IN Mutated(s, RotatedEntry(s))
  /\ UNCHANGED <<publisher, uplink, cloud, spoolGhost>>

SpoolCrash ==
  /\ spool # NoSpool
  /\ spool' = NoSpool
  /\ publisher' = [publisher EXCEPT !.session = 0, !.pc = "closed", !.window = <<>>]
  /\ uplink' = <<>>
  /\ UNCHANGED <<spoolJournal, cloud, spoolGhost>>

\* FileCloudLinkSpool::open with the capacity of the configuration.
OpenSpool(capacity) ==
  /\ spool = NoSpool
  /\ SpoolRecovered(spoolJournal) # NoSpool
  /\ LET s == SpoolRecovered(spoolJournal)
         j == Readable(spoolJournal)
     IN /\ Cardinality(Retained(s)) <= capacity
        /\ spool' = [s EXCEPT !.capacity = capacity]
        /\ LET k == IF s.capacity = capacity THEN j ELSE Append(j, CapacityEntry(capacity))
           IN spoolJournal' = IF Mutations(k) >= CompactAfter THEN SpoolCompacted(spool') ELSE k
  /\ UNCHANGED <<publisher, uplink, cloud, spoolGhost>>

-----------------------------------------------------------------------------
(* The publisher, one task: it is either offering or waiting for an event.  *)

\* A new session is bound and process_event(Connected) starts with offer_all.
SessionBound ==
  /\ spool # NoSpool
  /\ publisher.pc = "closed"
  /\ cloud.sessions + cloud.replays < MaxSessions
  /\ cloud' = [cloud EXCEPT !.sessions = @ + 1]
  /\ publisher' = [session |-> cloud.sessions + 1, pc |-> "offering",
                   cursor |-> Earliest(spool), limit |-> spool.next,
                   window |-> <<>>, first |-> TRUE]
  /\ UNCHANGED <<spool, spoolJournal, uplink, spoolGhost>>

\* The loop head of offer_from: read a window, or stop.
ReadWindow ==
  /\ publisher.pc = "offering"
  /\ publisher.window = <<>>
  /\ LET window == SetToSortSeq(ReplayFrom(spool, publisher.cursor), <)
     IN publisher' =
          IF publisher.cursor >= publisher.limit THEN [publisher EXCEPT !.pc = "serving"]
          ELSE IF ~Replayable(spool, publisher.cursor)
            \* an error: the first replay abandons the session, a later one is logged
            THEN [publisher EXCEPT !.pc = IF publisher.first THEN "closed" ELSE "serving",
                                   !.session = IF publisher.first THEN 0 ELSE @]
          ELSE IF window = <<>> THEN [publisher EXCEPT !.pc = "serving"]
          ELSE [publisher EXCEPT !.window = window]
  /\ UNCHANGED <<spool, spoolJournal, uplink, cloud, spoolGhost>>

\* offer_record: mark the record offered, then hand it to the transport.
OfferRecord ==
  /\ publisher.pc = "offering"
  /\ publisher.window # <<>>
  /\ LET p == Head(publisher.window)
         s == Offered(spool, p, publisher.session)
         e == OfferedEntry(p, publisher.session)
         failed == [publisher EXCEPT !.window = <<>>,
                      !.pc = IF publisher.first THEN "closed" ELSE "serving",
                      !.session = IF publisher.first THEN 0 ELSE @]
     IN \/ /\ MayOffer(spool, spool.epoch, p)
           /\ Mutated(s, e)
           /\ uplink' = Append(uplink, SpoolAck(publisher.session, spool.epoch, p,
                                                spool.records[p].input))
           /\ publisher' = [publisher EXCEPT !.window = Tail(@), !.cursor = p + 1]
           /\ UNCHANGED <<cloud, spoolGhost>>
        \/ /\ ~MayOffer(spool, spool.epoch, p)
           /\ publisher' = failed
           /\ UNCHANGED <<spool, spoolJournal, uplink, cloud, spoolGhost>>
        \/ /\ MayOffer(spool, spool.epoch, p)
           /\ s # spool
           /\ DiedAppending(e)
           /\ UNCHANGED <<cloud, spoolGhost>>
        \/ /\ MayOffer(spool, spool.epoch, p)
           /\ SpoolAppendFails(s, e)
           /\ publisher' = failed
           /\ UNCHANGED uplink

\* The broker's PUBACK, in whatever session the publisher serves by then.
TransportConfirms ==
  /\ publisher.pc = "serving"
  /\ \E m \in {uplink[i] : i \in DOMAIN uplink} \cup cloud.acks :
       /\ MayPublish(spool, m.epoch, m.position, publisher.session)
       /\ Mutated(TransportPublished(spool, m.position),
                  PublishedEntry(m.position, publisher.session))
  /\ UNCHANGED <<publisher, uplink, cloud, spoolGhost>>

\* AckDown: to_spool_ack checks the session, acknowledge everything else.
ReceiveAck ==
  /\ publisher.pc = "serving"
  /\ \E ack \in cloud.acks :
       /\ ack.session = publisher.session
       /\ MayAcknowledge(spool, ack)
       /\ LET s == Acknowledged(spool, ack)
              e == AckEntry(ack)
          IN \/ Mutated(s, e) /\ UNCHANGED <<publisher, uplink, spoolGhost>>
             \/ s # spool /\ DiedAppending(e) /\ UNCHANGED spoolGhost
  /\ UNCHANGED cloud

\* ReplayDown: the cloud asks for everything from the position after what it holds.
Held == {p \in Position : \E i \in SpoolInputs : <<spool.epoch, p, i>> \in cloud.got}
ReceiveReplayRequest ==
  /\ publisher.pc = "serving"
  /\ cloud.sessions + cloud.replays < MaxSessions
  /\ cloud' = [cloud EXCEPT !.replays = @ + 1]
  /\ LET from == Min({p \in 1 .. MaxPosition + 1 : p \notin Held})
     IN publisher' = [publisher EXCEPT !.pc = "offering", !.cursor = from,
                                       !.limit = spool.next, !.first = FALSE]
  /\ UNCHANGED <<spool, spoolJournal, uplink, spoolGhost>>

\* The connection ends: what is on the way is lost, the runtime waits for the next.
LinkDrops ==
  /\ publisher.pc \in {"serving", "offering"}
  /\ publisher' = [publisher EXCEPT !.pc = "closed", !.session = 0, !.window = <<>>]
  /\ uplink' = <<>>
  /\ UNCHANGED <<spool, spoolJournal, cloud, spoolGhost>>

\* The cloud stores the next message of the connection and acknowledges it; the
\* ack may arrive, arrive twice, arrive in a later session, or never.
CloudStores ==
  /\ uplink # <<>>
  /\ LET m == Head(uplink)
     IN cloud' = [cloud EXCEPT !.got = @ \cup {<<m.epoch, m.position, m.input>>},
                               !.acks = @ \cup {m}]
  /\ uplink' = Tail(uplink)
  /\ UNCHANGED <<spool, spoolJournal, publisher, spoolGhost>>

SpoolNext ==
  \/ \E input \in SpoolInputs : EnqueueRecord(input)
  \/ \E capacity \in SpoolCapacities : OpenSpool(capacity)
  \/ RotateStream \/ SpoolCrash
  \/ SessionBound \/ ReadWindow \/ OfferRecord \/ TransportConfirms
  \/ ReceiveAck \/ ReceiveReplayRequest \/ LinkDrops \/ CloudStores

SpoolSpec == SpoolInit /\ [][SpoolNext]_spoolVars

-----------------------------------------------------------------------------
\* The state, in memory or as the next start would read it.
Durable == IF spool = NoSpool THEN SpoolRecovered(spoolJournal) ELSE spool

\* Types of the spool, its journal and the publisher.
SpoolTypeOK ==
  /\ spool # NoSpool => /\ spool.epoch \in 1 .. MaxStreamEpoch
                        /\ spool.next \in 1 .. MaxPosition + 1
                        /\ Retained(spool) \subseteq Position
                        /\ Cardinality(Retained(spool)) <= spool.capacity
  /\ Mutations(spoolJournal) <= CompactAfter + MaxAppendFaults
  /\ publisher.session \in 0 .. MaxSessions
  /\ publisher.pc \in {"closed", "offering", "serving"}
  /\ cloud.sessions \in 0 .. MaxSessions

\* What enqueue returned stays until the cloud has it: in memory and on disk, through
\* crashes, compactions, reopened capacities and acks of earlier sessions, a record
\* is retained, or below the acknowledged position and stored by the cloud, or evicted
\* for capacity. The journal can always be reopened.
RetainedUntilAcknowledged ==
  /\ Durable # NoSpool
  /\ \A <<epoch, p, i>> \in spoolGhost.kept :
       epoch = Durable.epoch =>
         \/ p \in Retained(Durable) /\ Durable.records[p].input = i
         \/ p <= Durable.acked /\ <<epoch, p, i>> \in cloud.got
         \/ <<epoch, p>> \in spoolGhost.lost

\* Every record evicted above the acknowledged position lies in the evidence the
\* spool persists, and nothing retained does.
LossIsEvidenced ==
  Durable # NoSpool =>
    LET lost == {p \in Position : <<Durable.epoch, p>> \in spoolGhost.lost /\ p > Durable.acked}
    IN lost # {} => /\ Durable.loss # NoSpool
                    /\ lost \subseteq Durable.loss.first .. Durable.loss.last
                    /\ Retained(Durable) \cap (Durable.loss.first .. Durable.loss.last) = {}

\* An acknowledged position never passes a position the spool lost: the cloud has
\* every record up to it.
GapsAreNotAcknowledged ==
  [][spool # NoSpool /\ spool' # NoSpool /\ spool.epoch = spool'.epoch =>
       \A p \in spool.acked + 1 .. spool'.acked : <<spool.epoch, p>> \notin spoolGhost.lost]_spoolVars

\* The journal on disk replays to the state in memory.
JournalIsState ==
  spool # NoSpool /\ spoolGhost.faults = 0 => SpoolRecovered(spoolJournal) = spool

=============================================================================
