--------------------------- MODULE IntegrationControl ---------------------------
(***************************************************************************)
(* Remote power commands over CloudLink: the processor of signed offers    *)
(* (crates/aether-integration-control/src/processor.rs), its file ledger   *)
(* (extensions/store-local/src/integration_control_ledger.rs) and the      *)
(* receipts sent back (services/io/src/home_assistant_control.rs). One task *)
(* processes one offer at a time; between two of its steps the process may *)
(* die, an audit record may fail, and a ledger write may fail before or    *)
(* after the new file is in place. The ledger in memory changes only after *)
(* its file did.                                                           *)
(***************************************************************************)
EXTENDS Naturals, FiniteSets

CONSTANTS Jobs,         \* job identities the cloud uses
          Digests,      \* digests of intents; a job may be reused with another one
          MaxOffers,    \* bound: offers the cloud sends
          MaxTrouble,   \* bound: crashes, failed audits, failed writes
          NoJob         \* absent: no entry, no offer, no ledger while the process is down

VARIABLES control,   \* the ledger in memory, NoJob while the process is down
          controlFile, \* the ledger on disk
          work,      \* the offer being processed and how far it is
          controlTrail,     \* the audit file: its <<job, event>> lines, and whether its tail is torn
          provider,  \* Home Assistant: calls per job and the outcome it gave
          receipts,  \* receipts on their way, stored by the cloud, and its acks
          trouble, offers

controlVars == <<control, controlFile, work, controlTrail, provider, receipts, trouble, offers>>

\* ActionReceiptPayload: terminal stage and whether its audit is complete.
Receipt(stage, audited) == [stage |-> stage, audited |-> audited]

\* LedgerEntry: in progress (no receipt) or complete.
InProgress(digest) == [digest |-> digest, receipt |-> NoJob]
ControlComplete(digest, receipt) == [digest |-> digest, receipt |-> receipt]

ReceiptValues == [stage : {"accepted", "rejected", "unknown", "edge_rejected"}, audited : BOOLEAN]
ControlEntries == [digest : Digests, receipt : ReceiptValues \cup {NoJob}]
ControlLedgers ==
  [jobs : [Jobs -> ControlEntries \cup {NoJob}], place : [Jobs -> Nat], pending : SUBSET Nat,
   next : Nat, acked : Nat]

\* Absent is none of the values that may be absent.
ASSUME ControlAssumption ==
  NoJob \notin ReceiptValues \cup ControlEntries \cup ControlLedgers \cup Jobs

EmptyControl ==
  [jobs |-> [j \in Jobs |-> NoJob], place |-> [j \in Jobs |-> 0], pending |-> {},
   next |-> 1, acked |-> 0]

Quiescent == [pc |-> "idle", job |-> NoJob, digest |-> NoJob, failed |-> FALSE,
              result |-> NoJob, receipt |-> NoJob]

ControlInit ==
  /\ control = EmptyControl
  /\ controlFile = EmptyControl
  /\ work = Quiescent
  /\ controlTrail = [lines |-> {}, torn |-> FALSE]
  /\ provider = [calls |-> [j \in Jobs |-> 0], did |-> [j \in Jobs |-> {}]]
  /\ receipts = [way |-> {}, stored |-> {}]
  /\ trouble = 0
  /\ offers = 0

-----------------------------------------------------------------------------
(* The ledger's operations on its state.                                    *)

Claimed(l, j, digest) == [l EXCEPT !.jobs[j] = InProgress(digest)]

\* complete: a new receipt takes the next position and is pending.
ControlCompleted(l, j, digest, receipt) ==
  [l EXCEPT !.jobs[j] = ControlComplete(digest, receipt),
            !.place[j] = l.next, !.pending = @ \cup {l.next}, !.next = @ + 1]

\* requeue: a receipt already acknowledged is given a new position.
Requeued(l, j) ==
  IF l.place[j] > l.acked THEN [l EXCEPT !.pending = @ \cup {l.place[j]}]
  ELSE [l EXCEPT !.place[j] = l.next, !.pending = @ \cup {l.next}, !.next = @ + 1]

\* acknowledge: the position must be the pending one of a delivery.
MayAck(l, position) ==
  /\ position \in l.pending
  /\ position > l.acked
  /\ \E j \in Jobs : l.place[j] = position

Acked(l, position) ==
  [l EXCEPT !.pending = {p \in @ : p > position}, !.acked = position]

\* load: what a start accepts.
Loads(l) ==
  LET places == {l.place[j] : j \in {k \in Jobs : l.place[k] > 0}}
  IN /\ \A j, k \in Jobs : j # k /\ l.place[j] > 0 => l.place[j] # l.place[k]
     /\ \A p \in places : p < l.next
     /\ \A j \in Jobs : l.jobs[j] # NoJob =>
          (l.jobs[j].receipt # NoJob => l.place[j] > 0)
     /\ l.pending \subseteq places
     /\ \A p \in places : (p > l.acked) <=> (p \in l.pending)

-----------------------------------------------------------------------------
(* Steps of the processor. A ledger write goes through, fails before the    *)
(* rename, or fails after it: then the file is new and memory is not.       *)

Trouble == trouble < MaxTrouble /\ trouble' = trouble + 1
NoTrouble == UNCHANGED trouble

Persist(next, then) ==
  \/ /\ control' = next /\ controlFile' = next /\ work' = then /\ NoTrouble
  \/ /\ next # control
     /\ controlFile' \in {controlFile, next}
     /\ work' = Quiescent /\ UNCHANGED control /\ Trouble

\* A line appended to a torn one is no line of its own.
Recorded(event) ==
  IF controlTrail.torn THEN controlTrail ELSE [controlTrail EXCEPT !.lines = @ \cup {event}]

\* audit.record: the event is written, or the record fails, perhaps with part of the
\* line in the file; a later line is then appended to that part and still reported as
\* written.
Audit(event, then, otherwise) ==
  \/ controlTrail' = Recorded(<<work.job, event>>) /\ work' = then /\ NoTrouble
  \/ /\ controlTrail' \in {controlTrail, [controlTrail EXCEPT !.torn = TRUE]}
     /\ work' = otherwise /\ Trouble

\* Mutant: an offer repeated for a job in progress runs it again.
ReplayedAgain(j, digest) ==
  IF control.jobs[j].receipt # NoJob
    THEN Persist(Requeued(control, j), [Quiescent EXCEPT !.pc = "flush"])
    ELSE /\ work' = [Quiescent EXCEPT !.pc = "authorize", !.job = j, !.digest = digest]
         /\ UNCHANGED <<control, controlFile, trouble>>

\* replay_existing: the stored receipt is sent again; another digest under the same job,
\* or a job still in progress, is an error.
Replayed(j, digest) ==
  IF control.jobs[j].digest = digest /\ control.jobs[j].receipt # NoJob
    THEN Persist(Requeued(control, j), [Quiescent EXCEPT !.pc = "flush"])
    ELSE UNCHANGED <<control, controlFile, work, trouble>>

\* process: an offer of the current session with a valid signature. A job the ledger
\* knows is replayed or refused; an expired offer is refused; what the projection or
\* the local policy does not admit is rejected with a receipt.
ReceiveOffer(j, digest) ==
  /\ control # NoJob
  /\ work.pc = "idle"
  /\ offers < MaxOffers
  /\ offers' = offers + 1
  /\ LET entry == control.jobs[j]
         begin(pc) == [Quiescent EXCEPT !.pc = pc, !.job = j, !.digest = digest]
     IN \/ entry # NoJob /\ Replayed(j, digest)
        \/ /\ entry = NoJob
           /\ \/ work' = work                 \* issued in the future or expired
              \/ work' = begin("reject")      \* target, commissioning, delegation, policy
              \/ work' = begin("authorize")
           /\ UNCHANGED <<control, controlFile, trouble>>
  /\ UNCHANGED <<controlTrail, provider, receipts>>

\* persist_local_rejection: its audit may be incomplete, the receipt says so.
AuditRejection ==
  /\ work.pc = "reject"
  /\ Audit("edge_rejected",
           [work EXCEPT !.pc = "claim", !.receipt = Receipt("edge_rejected", ~work.failed)],
           [work EXCEPT !.pc = "claim", !.receipt = Receipt("edge_rejected", FALSE)])
  /\ UNCHANGED <<control, controlFile, provider, receipts, offers>>

\* dispatch: no execution without an audit record of its authorization.
AuditAuthorization ==
  /\ work.pc = "authorize"
  /\ Audit("authorized", [work EXCEPT !.pc = "claim"],
           [work EXCEPT !.pc = "reject", !.failed = TRUE])
  /\ UNCHANGED <<control, controlFile, provider, receipts, offers>>

\* The claim; no other task can have claimed the job since it was looked up.
Claim ==
  /\ work.pc = "claim"
  /\ Persist(Claimed(control, work.job, work.digest),
             [work EXCEPT !.pc = IF work.receipt = NoJob THEN "execute" ELSE "complete"])
  /\ UNCHANGED <<controlTrail, provider, receipts, offers>>

\* The provider call, bounded by a timeout: an unknown outcome, from the provider or
\* from the timeout, leaves open whether the device switched.
Execute ==
  /\ work.pc = "execute"
  /\ \E result \in {"accepted", "rejected", "unknown"}, switched \in BOOLEAN :
       /\ result # "unknown" => switched = (result = "accepted")
       /\ provider' = [calls |-> [provider.calls EXCEPT ![work.job] = @ + 1],
                       did |-> [provider.did EXCEPT ![work.job] =
                                  @ \cup {IF switched THEN "accepted" ELSE "rejected"}]]
       /\ work' = [work EXCEPT !.pc = "outcome", !.result = result]
  /\ UNCHANGED <<control, controlFile, controlTrail, receipts, trouble, offers>>

\* The outcome's audit; without it the receipt says nothing about the outcome.
AuditOutcome ==
  /\ work.pc = "outcome"
  /\ Audit(work.result, [work EXCEPT !.pc = "complete", !.receipt = Receipt(work.result, TRUE)],
           [work EXCEPT !.pc = "complete", !.receipt = Receipt("unknown", FALSE)])
  /\ UNCHANGED <<control, controlFile, provider, receipts, offers>>

CompleteJob ==
  /\ work.pc = "complete"
  /\ Persist(ControlCompleted(control, work.job, work.digest, work.receipt),
             [Quiescent EXCEPT !.pc = "flush"])
  /\ UNCHANGED <<controlTrail, provider, receipts, offers>>

\* flush_receipts: every pending receipt is sent (again).
Flush ==
  /\ work.pc = "flush"
  /\ receipts' = [receipts EXCEPT !.way = @ \cup
       {<<control.place[j], j, control.jobs[j].receipt>> :
          j \in {k \in Jobs : control.place[k] \in control.pending}}]
  /\ work' = Quiescent
  /\ UNCHANGED <<control, controlFile, controlTrail, provider, trouble, offers>>

\* A durable ack of the receipts stream, from this or an earlier connection; what is
\* still pending is sent again.
ReceiptAcked ==
  /\ control # NoJob
  /\ work.pc = "idle"
  /\ \E m \in receipts.stored :
       /\ \A p \in 1 .. m[1] : \E n \in receipts.stored : n[1] = p  \* acks are contiguous
       /\ MayAck(control, m[1])
       /\ Persist(Acked(control, m[1]), [Quiescent EXCEPT !.pc = "flush"])
  /\ UNCHANGED <<controlTrail, provider, receipts, offers>>

CloudStoresReceipt ==
  /\ \E m \in receipts.way : receipts' = [way |-> receipts.way \ {m}, stored |-> receipts.stored \cup {m}]
  /\ UNCHANGED <<control, controlFile, work, controlTrail, provider, trouble, offers>>

ReceiptLost ==
  /\ \E m \in receipts.way : receipts' = [receipts EXCEPT !.way = @ \ {m}]
  /\ UNCHANGED <<control, controlFile, work, controlTrail, provider, trouble, offers>>

ControlCrash ==
  /\ control # NoJob
  /\ Trouble
  /\ control' = NoJob
  /\ work' = Quiescent
  /\ controlTrail' \in {controlTrail} \cup IF work.pc \in {"reject", "authorize", "outcome"}
                            THEN {[controlTrail EXCEPT !.torn = TRUE]} ELSE {}
  /\ UNCHANGED <<controlFile, provider, receipts, offers>>

\* Start, session bound, recover_once: every claim without a receipt is completed as
\* unknown, then control is activated and receipts are flushed. A failed audit of the
\* recovery leaves the receipt's audit incomplete.
Interrupted(l) == {j \in Jobs : l.jobs[j] # NoJob /\ l.jobs[j].receipt = NoJob}

ControlRestart ==
  /\ control = NoJob
  /\ Loads(controlFile)
  /\ ~controlTrail.torn             \* a torn audit file refuses the start
  /\ control' = controlFile
  /\ work' = [Quiescent EXCEPT !.pc = "recover"]
  /\ UNCHANGED <<controlFile, controlTrail, provider, receipts, trouble, offers>>

RecoverInterrupted ==
  /\ work.pc = "recover"
  /\ IF Interrupted(control) = {}
       THEN /\ work' = [Quiescent EXCEPT !.pc = "flush"]
            /\ UNCHANGED <<control, controlFile, controlTrail, trouble>>
       ELSE \E j \in Interrupted(control), audited \in BOOLEAN :
              /\ controlTrail' = IF audited THEN Recorded(<<j, "interrupted">>) ELSE controlTrail
              /\ LET next == ControlCompleted(control, j, control.jobs[j].digest, Receipt("unknown", audited))
                 IN \/ control' = next /\ controlFile' = next /\ UNCHANGED <<work, trouble>>
                    \/ /\ controlFile' \in {controlFile, next}
                       /\ control' = control
                       /\ work' = work       \* control stays off until the next session
                       /\ Trouble
  /\ UNCHANGED <<provider, receipts, offers>>

ControlNext ==
  \/ \E j \in Jobs, digest \in Digests : ReceiveOffer(j, digest)
  \/ AuditRejection \/ AuditAuthorization \/ Claim \/ Execute \/ AuditOutcome \/ CompleteJob
  \/ Flush \/ ReceiptAcked \/ CloudStoresReceipt \/ ReceiptLost
  \/ ControlCrash \/ ControlRestart \/ RecoverInterrupted

ControlSpec == ControlInit /\ [][ControlNext]_controlVars

-----------------------------------------------------------------------------
\* Types of the processor's state.
ControlTypeOK ==
  /\ work.pc \in {"idle", "reject", "authorize", "claim", "execute", "outcome", "complete",
                  "flush", "recover"}
  /\ control # NoJob => control.pending \subseteq 1 .. control.next - 1
  /\ \A j \in Jobs : provider.did[j] \subseteq {"accepted", "rejected"}

\* The provider is called at most once for a job: not for a repeated offer, an offer of
\* a later session, or after a crash at any step, and never for another intent under
\* the same job.
ProviderCalledOnce == \A j \in Jobs : provider.calls[j] <= 1

\* A receipt on disk tells the truth: accepted and rejected are what the provider did,
\* an edge rejection means it was never called, and, unless a record failed half
\* written, a receipt that claims a complete audit is backed by the record.
ReceiptsAreTrue ==
  \A j \in Jobs : controlFile.jobs[j] # NoJob /\ controlFile.jobs[j].receipt # NoJob =>
    LET r == controlFile.jobs[j].receipt
    IN /\ r.stage \in {"accepted", "rejected"} => provider.did[j] = {r.stage}
       /\ r.stage = "edge_rejected" => provider.calls[j] = 0
       /\ r.audited => controlTrail.torn \/ {<<j, r.stage>>, <<j, "interrupted">>} \cap controlTrail.lines # {}
       /\ provider.calls[j] > 0 => controlTrail.torn \/ <<j, "authorized">> \in controlTrail.lines

\* The cloud never sees two different receipts of one job, and the file a crash leaves
\* is always one the next start accepts.
ReceiptsAreFinal ==
  /\ \A m, n \in receipts.way \cup receipts.stored : m[2] = n[2] => m[3] = n[3]
  /\ Loads(controlFile)

\* An acknowledged receipt is one the cloud stored; everything else stays pending.
AckedWereStored ==
  \A j \in Jobs : controlFile.place[j] \in 1 .. controlFile.acked =>
    \E m \in receipts.stored : m[2] = j

\* An integration command runs at most once, its receipts tell what happened and
\* do not change, and nothing is acknowledged before it is stored.
IntegrationCommandsRunOnce == ProviderCalledOnce /\ ReceiptsAreTrue /\ ReceiptsAreFinal /\ AckedWereStored
=============================================================================
