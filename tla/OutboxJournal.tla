---------------------------- MODULE OutboxJournal ----------------------------
(***************************************************************************)
(* The append-only journal of FileOutbox                                   *)
(* (extensions/store-local/src/file_outbox.rs): its records, and what a    *)
(* sequence of them stands for.  A record is whole (its checksum matches)  *)
(* or torn; magic, length and checksum bytes are abstracted to that.       *)
(***************************************************************************)
EXTENDS Naturals, Sequences, FiniteSets

CONSTANTS Messages,   \* what producers enqueue
          MaxId       \* u64::MAX: the identifier that is never assigned

ASSUME MaxIdAssumption == MaxId \in Nat \ {0}

NoMessage == "none"
Ids == 1 .. MaxId - 1
Entry == [id : Ids, msg : Messages]

Record == [op : {"enqueue", "acknowledge", "checkpoint", "torn"},
           id : 0 .. MaxId,
           msg : Messages \cup {NoMessage},
           ids : SUBSET Ids]

EncodeEnqueue(e) == [op |-> "enqueue", id |-> e.id, msg |-> e.msg, ids |-> {}]
EncodeAcknowledge(S) == [op |-> "acknowledge", id |-> 0, msg |-> NoMessage, ids |-> S]
EncodeCheckpoint(n) == [op |-> "checkpoint", id |-> n, msg |-> NoMessage, ids |-> {}]
Torn == [op |-> "torn", id |-> 0, msg |-> NoMessage, ids |-> {}]

\* Record i of journal j enqueues an entry that no later record acknowledges
Survives(j, i) == /\ j[i].op = "enqueue"
                  /\ \A k \in i + 1 .. Len(j) : j[i].id \notin j[k].ids

\* The entries a journal holds
LiveEntries(j) == {[id |-> j[i].id, msg |-> j[i].msg] : i \in {i \in 1 .. Len(j) : Survives(j, i)}}

\* The bounds the records of a journal put on the next identifier
NextIdBounds(j) == {1} \cup {j[i].id + 1 : i \in {i \in 1 .. Len(j) : j[i].op = "enqueue"}}
                       \cup {j[i].id : i \in {i \in 1 .. Len(j) : j[i].op = "checkpoint"}}

IsNextId(n, j) == n \in NextIdBounds(j) /\ \A m \in NextIdBounds(j) : m <= n

\* The next identifier a journal implies
NextIdOf(j) == CHOOSE n \in NextIdBounds(j) : IsNextId(n, j)

\* A torn last record is dropped
Trimmed(j) == IF j # <<>> /\ j[Len(j)].op = "torn" THEN SubSeq(j, 1, Len(j) - 1) ELSE j

\* Recovery refuses a torn record before the last one, and an enqueue of an
\* identifier that is live
Refuses(j) == \/ \E i \in 1 .. Len(j) - 1 : j[i].op = "torn"
              \/ \E k \in 1 .. Len(j) : /\ j[k].op = "enqueue"
                                        /\ \E i \in 1 .. k - 1 : /\ Survives(SubSeq(j, 1, k - 1), i)
                                                                 /\ j[i].id = j[k].id

\* Entries in identifier order, as BTreeMap iterates
Ordered(S) == [n \in 1 .. Cardinality(S) |->
                 CHOOSE e \in S : Cardinality({d \in S : d.id < e.id}) = n - 1]

\* The journal compact() writes for entries S and next identifier n
Compacted(S, n) == <<EncodeCheckpoint(n)>> \o [i \in 1 .. Cardinality(S) |-> EncodeEnqueue(Ordered(S)[i])]
=============================================================================
