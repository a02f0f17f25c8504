----------------------------- MODULE FileOutbox -----------------------------
(***************************************************************************)
(* FileOutbox (extensions/store-local/src/file_outbox.rs): a bounded queue *)
(* that survives crashes.  Callers put requests into a bounded channel and *)
(* wait; one worker thread serves them in order, and answers an enqueue or *)
(* an acknowledgement after its record is on stable storage.  The process  *)
(* may die, and every write, sync, rename and open may fail.               *)
(*                                                                         *)
(* `journal' holds the records that are on stable storage, `tail' what may *)
(* follow them after a crash: while a record is written and not yet        *)
(* synchronised it may be there, be torn or be missing.                    *)
(***************************************************************************)
EXTENDS OutboxJournal

CONSTANTS Clients,          \* tasks that hold a handle
          Capacity,         \* live entries the outbox stores at most
          QueueCapacity,    \* REQUEST_QUEUE_CAPACITY
          MaxFaults         \* bound on stops, crashes and I/O errors

ASSUME OutboxAssumption == /\ Capacity \in Nat \ {0}
                           /\ QueueCapacity \in Nat
                           /\ MaxFaults \in Nat

VARIABLES journal,    \* the records on stable storage
          tail,       \* records one of which may follow them, or NoRecord
          shadow,     \* the journal the synchronised directory names, if it is another one
          outboxPc,         \* where the worker is
          queue,      \* the request channel
          entries,    \* Journal::entries
          nextId,     \* Journal::next_id
          poisoned,   \* Journal::poisoned
          answer,     \* answer[c]: the reply c waits for or has got
          accepted,   \* entries whose enqueue was answered with Ok (ghost)
          tried,      \* identifiers an acknowledgement was written for (ghost)
          dropped,    \* identifiers whose acknowledgement was answered with Ok (ghost)
          faults      \* stops, crashes and I/O errors so far

diskVars == <<journal, tail, shadow>>
memVars == <<entries, nextId, poisoned>>
ghostVars == <<accepted, tried, dropped>>
outboxVars == <<diskVars, outboxPc, queue, memVars, answer, ghostVars, faults>>

NoRecord == [op |-> "none", id |-> 0, msg |-> NoMessage, ids |-> {}]

EnqueueRequest(c, m) == [from |-> c, op |-> "enqueue", msg |-> m, ids |-> {}, limit |-> 0]
PeekRequest(c, n) == [from |-> c, op |-> "peek", msg |-> NoMessage, ids |-> {}, limit |-> n]
AckRequest(c, S) == [from |-> c, op |-> "acknowledge", msg |-> NoMessage, ids |-> S, limit |-> 0]
CompactRequest(c) == [from |-> c, op |-> "compact", msg |-> NoMessage, ids |-> {}, limit |-> 0]

Request == [from : Clients, op : {"enqueue", "peek", "acknowledge", "compact"},
            msg : Messages \cup {NoMessage}, ids : SUBSET Ids, limit : 0 .. Capacity]

\* A reply: the entries a peek returned, the number of entries an
\* acknowledgement removed, or an error
NoAnswer == [kind |-> "none", batch |-> {}, count |-> 0]
Failed == [kind |-> "error", batch |-> {}, count |-> 0]
Batch(S) == [kind |-> "ok", batch |-> S, count |-> 0]
Count(n) == [kind |-> "ok", batch |-> {}, count |-> n]
Waiting == [kind |-> "waiting", batch |-> {}, count |-> 0]

OutboxTypeOK == /\ journal \in Seq(Record)
          /\ tail \in SUBSET (Record \cup {NoRecord})
          /\ shadow \in SUBSET Seq(Record)
          /\ outboxPc \in {"down", "ready", "written", "compacted", "renamed", "reopened"}
          /\ queue \in Seq(Request) /\ Len(queue) <= QueueCapacity
          /\ entries \in SUBSET Entry /\ Cardinality(entries) <= Capacity
          /\ nextId \in 1 .. MaxId
          /\ poisoned \in BOOLEAN
          /\ answer \in [Clients -> [kind : {"none", "waiting", "ok", "error"},
                                     batch : SUBSET Entry, count : 0 .. Capacity]]
          /\ accepted \in SUBSET Entry
          /\ tried \in SUBSET Ids
          /\ dropped \in SUBSET Ids
          /\ faults \in 0 .. MaxFaults

OutboxInit == /\ journal = <<>>
        /\ tail = {NoRecord}
        /\ shadow = {<<>>}
        /\ outboxPc = "down"
        /\ queue = <<>>
        /\ entries = {}
        /\ nextId = 1
        /\ poisoned = FALSE
        /\ answer = [c \in Clients |-> NoAnswer]
        /\ accepted = {}
        /\ tried = {}
        /\ dropped = {}
        /\ faults = 0

\* The contents a crash may leave in the journal file
OnDisk == {journal} \cup {Append(journal, r) : r \in tail \ {NoRecord}}

Fault == faults < MaxFaults /\ faults' = faults + 1

---------------------------------------------------------------------------
(* Callers *)

\* submit(): try_send() fails at once when the channel is full
Submit(r) == /\ outboxPc # "down"
             /\ answer[r.from].kind # "waiting"
             /\ IF Len(queue) < QueueCapacity
                THEN /\ queue' = Append(queue, r)
                     /\ answer' = [answer EXCEPT ![r.from] = Waiting]
                ELSE /\ answer' = [answer EXCEPT ![r.from] = Failed]
                     /\ UNCHANGED queue
             /\ UNCHANGED <<diskVars, outboxPc, memVars, ghostVars, faults>>

---------------------------------------------------------------------------
(* The worker *)

Serving(op) == outboxPc = "ready" /\ queue # <<>> /\ Head(queue).op = op

Reply(a) == /\ answer' = [answer EXCEPT ![Head(queue).from] = a]
            /\ queue' = Tail(queue)

\* The entries an acknowledgement of S removes
Existing(S) == {e.id : e \in entries} \cap S

\* The record the request at the head of the queue appends
NewRecord == IF Head(queue).op = "enqueue"
             THEN EncodeEnqueue([id |-> nextId, msg |-> Head(queue).msg])
             ELSE EncodeAcknowledge(Existing(Head(queue).ids))

\* The oldest entries, at most n
Oldest(n) == {e \in entries : Cardinality({d \in entries : d.id < e.id}) < n}

Peek == /\ Serving("peek")
        /\ ~poisoned
        /\ Reply(Batch(Oldest(Head(queue).limit)))
        /\ UNCHANGED <<diskVars, outboxPc, memVars, ghostVars, faults>>

\* Requests that end without touching the file
Refuse == /\ \/ poisoned /\ \E op \in {"enqueue", "peek", "acknowledge", "compact"} : Serving(op)
             \/ Serving("enqueue") /\ (Cardinality(entries) >= Capacity \/ nextId = MaxId)
          /\ Reply(Failed)
          /\ UNCHANGED <<diskVars, outboxPc, memVars, ghostVars, faults>>

AcknowledgeNothing == /\ Serving("acknowledge")
                      /\ ~poisoned
                      /\ Existing(Head(queue).ids) = {}
                      /\ Reply(Count(0))
                      /\ UNCHANGED <<diskVars, outboxPc, memVars, ghostVars, faults>>

Appending == /\ ~poisoned
             /\ \/ Serving("enqueue") /\ Cardinality(entries) < Capacity /\ nextId < MaxId
                \/ Serving("acknowledge") /\ Existing(Head(queue).ids) # {}

\* append_record(): write_record() ...
WriteRecord == /\ Appending
               /\ tail' = tail \cup {Torn, NewRecord}
               /\ tried' = tried \cup NewRecord.ids
               /\ outboxPc' = "written"
               /\ UNCHANGED <<journal, shadow, queue, memVars, answer, accepted, dropped, faults>>

\* Mutant of SyncRecord: success is reported without waiting for the disk
SyncRecordUnsynced == /\ outboxPc = "written"
                      /\ Head(queue).op = "enqueue"
                      /\ LET e == [id |-> nextId, msg |-> Head(queue).msg]
                         IN  entries' = entries \cup {e} /\ accepted' = accepted \cup {e}
                      /\ nextId' = nextId + 1
                      /\ outboxPc' = "ready"
                      /\ Reply(Count(0))
                      /\ UNCHANGED <<diskVars, poisoned, tried, dropped, faults>>

\* ... sync_data(), then entries and next_id follow and the caller is answered
SyncRecord == /\ outboxPc = "written"
              /\ journal' = Append(journal, NewRecord)
              /\ tail' = {NoRecord}
              /\ outboxPc' = "ready"
              /\ IF Head(queue).op = "enqueue"
                 THEN LET e == [id |-> nextId, msg |-> Head(queue).msg]
                      IN  /\ entries' = entries \cup {e}
                          /\ nextId' = nextId + 1
                          /\ accepted' = accepted \cup {e}
                          /\ Reply(Count(0))
                          /\ UNCHANGED dropped
                 ELSE LET S == Existing(Head(queue).ids)
                      IN  /\ entries' = {e \in entries : e.id \notin S}
                          /\ dropped' = dropped \cup S
                          /\ Reply(Count(Cardinality(S)))
                          /\ UNCHANGED <<nextId, accepted>>
              /\ UNCHANGED <<shadow, poisoned, tried, faults>>

\* ... or one of them fails and set_len() takes the record off the file again;
\* what may be on the disk is certain only when the second sync_data() works
AppendFails == /\ outboxPc = "written"
               /\ Fault
               /\ tail' \in {{NoRecord}, tail}
               /\ outboxPc' = "ready"
               /\ Reply(Failed)
               /\ UNCHANGED <<journal, shadow, memVars, ghostVars>>

---------------------------------------------------------------------------
(* Compaction *)

\* The temporary file is written and synchronised, or given up
CompactWrite == /\ Serving("compact")
                /\ ~poisoned
                /\ outboxPc' = "compacted"
                /\ UNCHANGED <<diskVars, queue, memVars, answer, ghostVars, faults>>

\* Mutant of CompactFails: the error path forgets the caller
CompactFailsSilent == /\ outboxPc = "compacted"
                      /\ Fault
                      /\ outboxPc' = "ready"
                      /\ queue' = Tail(queue)
                      /\ UNCHANGED <<diskVars, memVars, answer, ghostVars>>

CompactFails == /\ outboxPc = "compacted"
                /\ Fault
                /\ outboxPc' = "ready"
                /\ Reply(Failed)
                /\ UNCHANGED <<diskVars, memVars, ghostVars>>

\* Mutant of CompactRename: no checkpoint of the next identifier
CompactRenameNoCheckpoint == /\ outboxPc = "compacted"
                             /\ journal' = Tail(Compacted(entries, nextId))
                             /\ tail' = {NoRecord}
                             /\ shadow' = IF shadow = {} THEN OnDisk ELSE shadow
                             /\ outboxPc' = "renamed"
                             /\ UNCHANGED <<queue, memVars, answer, ghostVars, faults>>

\* Mutant of CompactRename: the checkpoint skips an identifier
CompactRenameSkips == /\ outboxPc = "compacted"
                      /\ journal' = Compacted(entries, nextId + 1)
                      /\ tail' = {NoRecord}
                      /\ shadow' = IF shadow = {} THEN OnDisk ELSE shadow
                      /\ outboxPc' = "renamed"
                      /\ UNCHANGED <<queue, memVars, answer, ghostVars, faults>>

\* rename() replaces the journal; until the directory is synchronised a power
\* failure may bring the old one back
CompactRename == /\ outboxPc = "compacted"
                 /\ journal' = Compacted(entries, nextId)
                 /\ tail' = {NoRecord}
                 /\ shadow' = IF shadow = {} THEN OnDisk ELSE shadow
                 /\ outboxPc' = "renamed"
                 /\ UNCHANGED <<queue, memVars, answer, ghostVars, faults>>

CompactReopen == /\ outboxPc = "renamed"
                 /\ outboxPc' = "reopened"
                 /\ UNCHANGED <<diskVars, queue, memVars, answer, ghostVars, faults>>

\* The worker still holds the replaced file: no request is served any more
ReopenFails == /\ outboxPc = "renamed"
               /\ Fault
               /\ poisoned' = TRUE
               /\ outboxPc' = "ready"
               /\ Reply(Failed)
               /\ UNCHANGED <<diskVars, entries, nextId, ghostVars>>

SyncDirectory == /\ outboxPc = "reopened"
                 /\ shadow' = {}
                 /\ outboxPc' = "ready"
                 /\ Reply(Count(0))
                 /\ UNCHANGED <<journal, tail, memVars, ghostVars, faults>>

SyncDirectoryFails == /\ outboxPc = "reopened"
                      /\ Fault
                      /\ outboxPc' = "ready"
                      /\ Reply(Failed)
                      /\ UNCHANGED <<diskVars, memVars, ghostVars>>

---------------------------------------------------------------------------
(* Start, stop and crash *)

\* Journal::open(): a refused journal keeps the outbox down
Open == /\ outboxPc = "down"
        /\ ~Refuses(journal)
        /\ journal' = Trimmed(journal)
        /\ entries' = LiveEntries(Trimmed(journal))
        /\ nextId' = NextIdOf(Trimmed(journal))
        /\ poisoned' = FALSE
        /\ outboxPc' = "ready"
        /\ UNCHANGED <<tail, shadow, queue, answer, ghostVars, faults>>

Stopped == /\ outboxPc' = "down"
           /\ queue' = <<>>
           /\ entries' = {}
           /\ nextId' = 1
           /\ answer' = [c \in Clients |-> NoAnswer]

\* Worker::drop(): the last handle goes once the queue is drained
Shutdown == /\ outboxPc = "ready"
            /\ queue = <<>>
            /\ Fault
            /\ Stopped
            /\ UNCHANGED <<diskVars, poisoned, ghostVars>>

OutboxCrash == /\ outboxPc # "down"
         /\ Fault
         /\ journal' \in OnDisk
         /\ tail' = {NoRecord}
         /\ Stopped
         /\ UNCHANGED <<shadow, poisoned, ghostVars>>

\* A power failure forgets a directory entry that was never synchronised
PowerFailure == /\ outboxPc # "down"
                /\ Fault
                /\ journal' \in shadow
                /\ tail' = {NoRecord}
                /\ Stopped
                /\ UNCHANGED <<shadow, poisoned, ghostVars>>

---------------------------------------------------------------------------
Call(c) == \/ \E m \in Messages : Submit(EnqueueRequest(c, m))
           \/ \E n \in 1 .. Capacity : Submit(PeekRequest(c, n))
           \/ \E S \in SUBSET Ids : Submit(AckRequest(c, S))
           \/ Submit(CompactRequest(c))

Work == \/ Peek \/ Refuse \/ AcknowledgeNothing \/ WriteRecord \/ SyncRecord
        \/ CompactWrite \/ CompactRename \/ CompactReopen \/ SyncDirectory

WorkFails == AppendFails \/ CompactFails \/ ReopenFails \/ SyncDirectoryFails

OutboxNext == Open \/ Shutdown \/ OutboxCrash \/ Work \/ WorkFails \/ \E c \in Clients : Call(c)

OutboxSpec == OutboxInit /\ [][OutboxNext]_outboxVars

SpecPowerFailure == OutboxInit /\ [][OutboxNext \/ PowerFailure]_outboxVars

---------------------------------------------------------------------------
\* What opening journal j brings back
Recovered(j) == IF Refuses(j) THEN {} ELSE LiveEntries(Trimmed(j))

(***************************************************************************)
(* "An enqueue or acknowledgement is reported as successful only after its *)
(* journal record has been synchronized to disk": whatever a crash leaves  *)
(* in the file, opening it brings back every entry whose enqueue succeeded *)
(* and that nobody acknowledged.                                           *)
(***************************************************************************)
AcceptedSurvive ==
    \A j \in OnDisk : \A e \in accepted : e.id \in tried \/ e \in Recovered(j)

(***************************************************************************)
(* An entry whose acknowledgement succeeded never comes back, neither      *)
(* through a crash nor through compaction.                                 *)
(***************************************************************************)
AcknowledgedStayGone ==
    \A j \in OnDisk : \A e \in Recovered(j) : e.id \notin dropped

(***************************************************************************)
(* "durable IDs must never be reused" (tests/file_outbox.rs): a successful *)
(* enqueue takes an identifier above those of all earlier ones, across     *)
(* crashes and compactions that drop every record of an acknowledged       *)
(* entry.                                                                  *)
(***************************************************************************)
IdStep == /\ outboxPc = "written" /\ Head(queue).op = "enqueue"
          /\ answer'[Head(queue).from].kind = "ok"
          => \A d \in accepted : d.id < nextId

IdsIncrease == [][IdStep]_outboxVars

(***************************************************************************)
(* Memory and file agree between requests: the worker's entries and next   *)
(* identifier are what opening the journal would give.                     *)
(***************************************************************************)
MemoryMatchesJournal ==
    outboxPc = "ready" => /\ ~Refuses(journal)
                    /\ entries = LiveEntries(journal)
                    /\ IsNextId(nextId, journal)

(***************************************************************************)
(* Every accepted request is answered, or the process dies: no request is  *)
(* lost in the channel or by an error path of the worker.                  *)
(***************************************************************************)
Responsive ==
    \A c \in Clients : answer[c].kind = "waiting" ~> answer[c].kind # "waiting"

(***************************************************************************)
(* The journal implements the port: what opening the file would give       *)
(* changes by one whole enqueue or one whole acknowledgement at a time;    *)
(* compaction, crashes, torn records and failed appends do not change it,  *)
(* except that an append which was answered with an error may take effect. *)
(***************************************************************************)
Port == INSTANCE DurableOutbox WITH pending <- Recovered(journal), next <- NextIdOf(Trimmed(journal))

ImplementsPort == Port!Spec

(***************************************************************************)
(* The outbox keeps its promises: accepted entries survive every failure   *)
(* and restart, acknowledged ones stay gone, and memory agrees with the    *)
(* journal.                                                                *)
(***************************************************************************)
OutboxIsDurable == AcceptedSurvive /\ AcknowledgedStayGone /\ MemoryMatchesJournal
=============================================================================
