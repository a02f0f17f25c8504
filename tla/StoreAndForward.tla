--------------------------- MODULE StoreAndForward ---------------------------
(***************************************************************************)
(* The uplink's store-and-forward path: producers enqueue messages, one    *)
(* OutboxForwarder drains them (crates/aether-application/src/             *)
(* outbox_forwarder.rs) into the MQTT client, and a maintenance task       *)
(* compacts the journal (services/uplink/src/uplink.rs), all through       *)
(* FileOutbox.  A message counts as published when the client's queue      *)
(* accepts it, which is the delivery boundary ADR 0002 names.              *)
(***************************************************************************)
EXTENDS FileOutbox

CONSTANTS Producers,     \* tasks that enqueue
          forwarder,     \* run_outbox_forwarder()
          maintenance,   \* run_outbox_maintenance()
          DrainLimit     \* entries drain_once() takes at most

ASSUME ClientsAssumption == /\ Clients = Producers \cup {forwarder, maintenance}
                            /\ DrainLimit \in 1 .. Capacity

VARIABLES step,        \* where drain_once() is
          batch,       \* the entries it still has to deliver
          published    \* entries the uplink accepted (ghost)

forwardVars == <<step, batch, published>>
allVars == <<outboxVars, forwardVars>>

ForwardTypeOK == /\ OutboxTypeOK
                 /\ step \in {"idle", "peeking", "publishing", "published", "acking"}
                 /\ batch \in SUBSET Entry
                 /\ published \in SUBSET Entry
                 /\ step \in {"idle", "peeking"} <=> batch = {}

ForwardInit == OutboxInit /\ step = "idle" /\ batch = {} /\ published = {}

---------------------------------------------------------------------------
(* drain_once() *)

Peeks == /\ step = "idle"
         /\ Submit(PeekRequest(forwarder, DrainLimit))
         /\ step' = "peeking"
         /\ UNCHANGED <<batch, published>>

PeekAnswered == /\ step = "peeking"
                /\ answer[forwarder].kind \in {"ok", "error"}
                /\ batch' = answer[forwarder].batch
                /\ step' = IF batch' = {} THEN "idle" ELSE "publishing"
                /\ UNCHANGED <<outboxVars, published>>

\* The entry of the batch whose turn it is
Current == CHOOSE e \in batch : \A d \in batch : e.id <= d.id

ForwardPublish == /\ step = "publishing"
           /\ published' = published \cup {Current}
           /\ step' = "published"
           /\ UNCHANGED <<outboxVars, batch>>

\* The uplink is down: the drain ends, the rest of the batch stays stored
PublishFails == /\ step = "publishing"
                /\ step' = "idle"
                /\ batch' = {}
                /\ UNCHANGED <<outboxVars, published>>

\* Mutant of Acknowledges: an entry is acknowledged while it is published
AcknowledgesEarly == /\ step \in {"publishing", "published"}
                     /\ Submit(AckRequest(forwarder, {Current.id}))
                     /\ step' = "acking"
                     /\ UNCHANGED <<batch, published>>

Acknowledges == /\ step = "published"
                /\ Submit(AckRequest(forwarder, {Current.id}))
                /\ step' = "acking"
                /\ UNCHANGED <<batch, published>>

\* ensure_acknowledged(): anything but one removed entry ends the drain
AckAnswered == /\ step = "acking"
               /\ answer[forwarder].kind \in {"ok", "error"}
               /\ batch' = IF answer[forwarder] = Count(1) THEN batch \ {Current} ELSE {}
               /\ step' = IF batch' = {} THEN "idle" ELSE "publishing"
               /\ UNCHANGED <<outboxVars, published>>

---------------------------------------------------------------------------
Produce == \E p \in Producers, m \in Messages : Submit(EnqueueRequest(p, m))

Maintain == Submit(CompactRequest(maintenance))

\* The tasks of a process that stops are gone
Stops == /\ OutboxCrash \/ (step = "idle" /\ Shutdown)
         /\ step' = "idle"
         /\ batch' = {}
         /\ UNCHANGED published

Drain == Peeks \/ PeekAnswered \/ ForwardPublish \/ Acknowledges \/ AckAnswered

\* Everything but the failure that poisons the journal until a restart
NextHealthy == \/ Drain \/ PublishFails \/ Stops
               \/ /\ \/ Produce \/ Maintain \/ Open \/ Work
                     \/ AppendFails \/ CompactFails \/ SyncDirectoryFails
                  /\ UNCHANGED forwardVars

ForwardNext == NextHealthy \/ (ReopenFails /\ UNCHANGED forwardVars)

ForwardSpec == ForwardInit /\ [][ForwardNext]_allVars

\* Worker and forwarder run on, the service is restarted, and the uplink
\* accepts a message in the end if it is offered again and again
ForwardFairness == /\ WF_allVars(Open /\ UNCHANGED forwardVars)
                   /\ WF_allVars(Work /\ UNCHANGED forwardVars)
                   /\ WF_allVars(Peeks \/ PeekAnswered \/ Acknowledges \/ AckAnswered)
                   /\ SF_allVars(ForwardPublish)

HealthySpec == ForwardInit /\ [][NextHealthy]_allVars /\ ForwardFairness

---------------------------------------------------------------------------
(***************************************************************************)
(* At-least-once: a message whose enqueue succeeded was published, or      *)
(* opening the journal after a crash at this very moment brings it back    *)
(* ("removes loss during ordinary disconnection and restart", ADR 0002).   *)
(***************************************************************************)
AtLeastOnce ==
    \A j \in OnDisk : \A e \in accepted : e \in published \/ e \in Recovered(j)

(***************************************************************************)
(* drain_once() delivers "in FIFO order": across failed drains, redelivery *)
(* and restarts no message is published before an older accepted one.      *)
(***************************************************************************)
NoOvertaking ==
    \A e \in published : \A a \in accepted : a.id < e.id => a \in published

(***************************************************************************)
(* Every message whose enqueue succeeded is published in the end.          *)
(***************************************************************************)
Delivered ==
    \A e \in Entry : e \in accepted ~> e \in published

(***************************************************************************)
(* Every accepted message is kept until it is published, and none passes   *)
(* an older one.                                                           *)
(***************************************************************************)
MessagesArriveInOrder == AtLeastOnce /\ NoOvertaking
=============================================================================
