---------------------------- MODULE MCConvergence ----------------------------
\* What must eventually happen to what is shared and stored: the
\* publication of a topology, a service that reads it, and the messages of
\* the outbox on their way to the broker. One component moves in a
\* behaviour, under its own fairness, and the others rest in their initial
\* state.
EXTENDS TopologyPublication, LiveReaders, StoreAndForward

CONSTANTS a, b, h, r1, m1, p1

VARIABLE part   \* the component that moves in this behaviour

MCLayouts == {a, b, h}
MCTopologies == {[point |-> x, health |-> h] : x \in {a, b}}
OneReader == {r1}
MCMessages == {m1}
MCProducers == {p1}
MCClients == {p1, forwarder, maintenance}

Parts == {"topology", "readers", "forward"}

ModelInit ==
  /\ part \in Parts
  /\ part # "topology" => desired = [point |-> a, health |-> h]
  /\ Init
  /\ part # "readers" => reader = "api" /\ liveShm = [open |-> FALSE, epoch |-> 0]
  /\ ReadersInit
  /\ ForwardInit

TopologyMoves ==
  /\ part = "topology"
  /\ NextReopens
  /\ UNCHANGED <<liveReaderVars, allVars>>

ReadersMoves ==
  /\ part = "readers"
  /\ ReadersNext
  /\ UNCHANGED <<vars, allVars>>

ForwardMoves ==
  /\ part = "forward"
  /\ NextHealthy
  /\ UNCHANGED <<vars, liveReaderVars>>

ModelNext == UNCHANGED part /\ (TopologyMoves \/ ReadersMoves \/ ForwardMoves)

modelVars == <<part, vars, liveReaderVars, allVars>>

ModelSpec == ModelInit /\ [][ModelNext]_modelVars

moving == CASE part = "topology" -> vars
            [] part = "readers" -> liveReaderVars
            [] part = "forward" -> allVars

\* Each component's own fairness, for the behaviours in which it moves. One
\* component moves in a behaviour, so a disjunction over components is fair
\* exactly when each component's own disjunct is; there is one reader.
ModelFairness ==
  /\ SF_moving(UNCHANGED part /\ (\/ part = "topology" /\ Begin
                                  \/ part = "forward" /\ ForwardPublish))
  /\ SF_moving(UNCHANGED part /\ part = "topology" /\ Stage)
  /\ SF_moving(UNCHANGED part /\ part = "topology" /\ OpenCandidate(r1))
  /\ SF_moving(UNCHANGED part /\ part = "topology" /\ (BeginPublish(r1) \/ DropCandidate(r1)))
  /\ WF_moving(UNCHANGED part /\ (\/ part = "topology" /\ Start
                                  \/ part = "readers" /\ Refreshes
                                  \/ part = "forward" /\ Open /\ UNCHANGED forwardVars))
  /\ WF_moving(UNCHANGED part /\ (\/ part = "topology" /\ Project
                                  \/ part = "readers" /\ PublicationEnds
                                  \/ part = "forward" /\ Work /\ UNCHANGED forwardVars))
  /\ WF_moving(UNCHANGED part /\ (\/ part = "topology" /\ (Fence \/ Rename \/ Reopen \/ CommitWitness \/ Refused)
                                  \/ part = "forward" /\ (Peeks \/ PeekAnswered \/ Acknowledges \/ AckAnswered)))
  /\ WF_moving(UNCHANGED part /\ part = "topology" /\ LoadTopology(r1))
  /\ WF_moving(UNCHANGED part /\ part = "topology" /\ EndPublish(r1))

FairModel == ModelSpec /\ ModelFairness

\* Once disruptions end, the published topology is the desired one, every reader
\* has its view, and a reading service has the layout SQLite and shared memory
\* agree on.
TopologyConverges ==
  /\ part = "topology" => Converges
  /\ part = "readers" => ReadersCatchUp

\* Every message the outbox accepted is published to the broker, and every call
\* on the outbox is answered, whatever its file does.
MessagesAreDelivered == part = "forward" => Delivered /\ Responsive
==============================================================================
