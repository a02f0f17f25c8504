--------------------------- MODULE JournalRecovery ---------------------------
(***************************************************************************)
(* recover() of extensions/store-local/src/file_outbox.rs: FileOutbox      *)
(* replays its journal record by record when it is opened.                 *)
(***************************************************************************)
EXTENDS OutboxJournal

CONSTANT MaxLen      \* bound on the length of the journal

ASSUME MaxLenAssumption == MaxLen \in Nat

VARIABLES file,      \* the records of the journal
          offset,    \* records replayed so far
          recoveryNextId,    \* recovered.next_id
          recoveryEntries,   \* recovered.entries
          outcome    \* "running", "ok" or "corrupt"

recoveryVars == <<file, offset, recoveryNextId, recoveryEntries, outcome>>

RecoveryTypeOK == /\ file \in Seq(Record)
          /\ offset \in 0 .. Len(file)
          /\ recoveryNextId \in 1 .. MaxId
          /\ recoveryEntries \in SUBSET Entry
          /\ outcome \in {"running", "ok", "corrupt"}

\* What append_record() and compact() can have left: whole records with
\* identifiers in range, or a torn one
Written == {EncodeEnqueue(e) : e \in Entry} \cup {EncodeAcknowledge(S) : S \in SUBSET Ids}
              \cup {EncodeCheckpoint(n) : n \in 1 .. MaxId} \cup {Torn}

RecoveryInit == /\ file \in UNION {[1 .. n -> Written] : n \in 0 .. MaxLen}
        /\ offset = 0
        /\ recoveryNextId = 1
        /\ recoveryEntries = {}
        /\ outcome = "running"

RecoveryLarger(m, n) == IF m >= n THEN m ELSE n

\* apply_record(), OP_ENQUEUE
ApplyEnqueue(r) == /\ r.op = "enqueue"
                   /\ IF \E e \in recoveryEntries : e.id = r.id
                      THEN outcome' = "corrupt" /\ UNCHANGED <<offset, recoveryNextId, recoveryEntries>>
                      ELSE /\ recoveryNextId' = RecoveryLarger(recoveryNextId, r.id + 1)
                           /\ recoveryEntries' = recoveryEntries \cup {[id |-> r.id, msg |-> r.msg]}
                           /\ offset' = offset + 1
                           /\ UNCHANGED outcome

\* Mutant of ApplyAcknowledge: an acknowledgement removes its first identifier only
ApplyAcknowledgeFirst(r) == /\ r.op = "acknowledge"
                            /\ recoveryEntries' = {e \in recoveryEntries : ~(e.id \in r.ids /\ \A i \in r.ids : e.id <= i)}
                            /\ offset' = offset + 1
                            /\ UNCHANGED <<recoveryNextId, outcome>>

\* apply_record(), OP_ACKNOWLEDGE
ApplyAcknowledge(r) == /\ r.op = "acknowledge"
                       /\ recoveryEntries' = {e \in recoveryEntries : e.id \notin r.ids}
                       /\ offset' = offset + 1
                       /\ UNCHANGED <<recoveryNextId, outcome>>

\* Mutant of ApplyCheckpoint: the checkpoint is read as the last identifier used
ApplyCheckpointAsLast(r) == /\ r.op = "checkpoint"
                            /\ recoveryNextId' = RecoveryLarger(recoveryNextId, r.id + 1)
                            /\ offset' = offset + 1
                            /\ UNCHANGED <<recoveryEntries, outcome>>

\* apply_record(), OP_CHECKPOINT
ApplyCheckpoint(r) == /\ r.op = "checkpoint"
                      /\ recoveryNextId' = RecoveryLarger(recoveryNextId, r.id)
                      /\ offset' = offset + 1
                      /\ UNCHANGED <<recoveryEntries, outcome>>

\* A record that is cut short or fails its checksum: truncate_tail() when it is
\* the last one, corruption otherwise
ReadTorn(r) == /\ r.op = "torn"
               /\ outcome' = IF offset + 1 = Len(file) THEN "ok" ELSE "corrupt"
               /\ UNCHANGED <<offset, recoveryNextId, recoveryEntries>>

\* One turn of the loop
Replay == /\ outcome = "running"
          /\ offset < Len(file)
          /\ LET r == file[offset + 1]
             IN  ApplyEnqueue(r) \/ ApplyAcknowledge(r) \/ ApplyCheckpoint(r) \/ ReadTorn(r)
          /\ UNCHANGED file

Finish == /\ outcome = "running"
          /\ offset = Len(file)
          /\ outcome' = "ok"
          /\ UNCHANGED <<file, offset, recoveryNextId, recoveryEntries>>

RecoveryNext == Replay \/ Finish

RecoverySpec == RecoveryInit /\ [][RecoveryNext]_recoveryVars

---------------------------------------------------------------------------
(***************************************************************************)
(* Replaying one record after the other ends with exactly the entries that *)
(* were enqueued and never acknowledged later, the next identifier above   *)
(* all of them, and refuses exactly the journals that are damaged before   *)
(* their last record or enqueue a live identifier twice.                   *)
(***************************************************************************)
ReplayIsRecovery ==
    /\ outcome = "ok" => /\ ~Refuses(file)
                         /\ recoveryEntries = LiveEntries(Trimmed(file))
                         /\ IsNextId(recoveryNextId, Trimmed(file))
    /\ outcome = "corrupt" => Refuses(file)
=============================================================================
