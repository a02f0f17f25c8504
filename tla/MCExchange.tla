----------------------------- MODULE MCExchange -----------------------------
\* What processes exchange: the shared-memory plane (one slot, the
\* publication of a topology, a service that reads values) and the
\* northbound side (store-and-forward, the CloudLink transport and session,
\* integration commands, the Home Assistant synchroniser). One component
\* moves in a behaviour, the others rest in their initial state.
EXTENDS PointSlot, TopologyPublication, LiveReaders, StoreAndForward, CloudLink,
        IntegrationControl, HomeAssistantSync

CONSTANTS a, b, h, r1, w1, m1, p1

VARIABLE part   \* the component that moves in this behaviour

MCLayouts == {a, b, h}
MCTopologies == {[point |-> x, health |-> h] : x \in {a, b}}
OneReader == {r1}
OneWriter == {w1}
MCMessages == {m1}
MCProducers == {p1}
MCClients == {p1, forwarder, maintenance}

Parts == {"slot", "topology", "readers", "forward", "transport", "session", "control", "sync"}

ModelInit ==
  /\ part \in Parts
  /\ SlotInit
  /\ part # "topology" => desired = [point |-> a, health |-> h]
  /\ Init
  /\ part # "readers" => reader = "api" /\ liveShm = [open |-> FALSE, epoch |-> 0]
  /\ ReadersInit
  /\ ForwardInit
  /\ TransportInit
  /\ SessionInit
  /\ ControlInit
  /\ SyncInit

SlotMoves ==
  /\ part = "slot"
  /\ SlotNext
  /\ UNCHANGED <<vars, liveReaderVars, allVars, transportVars, sessionVars, controlVars,
                 syncVars>>

TopologyMoves ==
  /\ part = "topology"
  /\ Next
  /\ UNCHANGED <<seqlockVars, liveReaderVars, allVars, transportVars, sessionVars, controlVars,
                 syncVars>>

ReadersMoves ==
  /\ part = "readers"
  /\ ReadersNext
  /\ UNCHANGED <<seqlockVars, vars, allVars, transportVars, sessionVars, controlVars, syncVars>>

ForwardMoves ==
  /\ part = "forward"
  /\ ForwardNext
  /\ UNCHANGED <<seqlockVars, vars, liveReaderVars, transportVars, sessionVars, controlVars,
                 syncVars>>

TransportMoves ==
  /\ part = "transport"
  /\ TransportNext
  /\ UNCHANGED <<seqlockVars, vars, liveReaderVars, allVars, sessionVars, controlVars, syncVars>>

SessionMoves ==
  /\ part = "session"
  /\ SessionNext
  /\ UNCHANGED <<seqlockVars, vars, liveReaderVars, allVars, transportVars, controlVars,
                 syncVars>>

ControlMoves ==
  /\ part = "control"
  /\ ControlNext
  /\ UNCHANGED <<seqlockVars, vars, liveReaderVars, allVars, transportVars, sessionVars,
                 syncVars>>

SyncMoves ==
  /\ part = "sync"
  /\ SyncNext
  /\ UNCHANGED <<seqlockVars, vars, liveReaderVars, allVars, transportVars, sessionVars,
                 controlVars>>

\* These models end where their bounds are used up.
Bounded == {"readers", "transport", "session", "control", "sync"}

BoundsUsedUp ==
  /\ part \in Bounded
  /\ UNCHANGED <<seqlockVars, vars, liveReaderVars, allVars, transportVars, sessionVars,
                 controlVars, syncVars>>

ModelNext == UNCHANGED part /\ (SlotMoves \/ TopologyMoves \/ ReadersMoves \/ ForwardMoves \/
                                TransportMoves \/ SessionMoves \/ ControlMoves \/ SyncMoves \/
                                BoundsUsedUp)

modelVars == <<part, seqlockVars, vars, liveReaderVars, allVars, transportVars, sessionVars,
               controlVars, syncVars>>

ModelSpec == ModelInit /\ [][ModelNext]_modelVars

\* A reader of values shows its source: a live read comes from the slot of the
\* layout in force, a settled projection of Home Assistant is its state, and a
\* generation of the projection stands for one content.
ReadersShowTheirSource == ReadsTheRightSlot /\ SettledIsCurrent /\ GenerationsIdentify

\* Epochs of publications, identifiers of messages and revisions of the
\* projection only grow, across crashes and restarts.
NothingGoesBack == [][EpochStep /\ IdStep /\ ProjectionStep]_modelVars

\* The words of the slot, the files and handles of the publication, and the
\* queues, ledgers, jobs and sessions of the northbound side stay in their types.
ExchangeTypeOK ==
  /\ SlotTypeOK /\ TypeOK /\ ReadersTypeOK
  /\ ForwardTypeOK /\ TransportTypeOK /\ SessionTypeOK /\ ControlTypeOK /\ SyncTypeOK
==============================================================================
