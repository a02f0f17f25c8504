------------------------- MODULE CommandPathProofs -------------------------
(***************************************************************************)
(* Proofs about the command path, for any number of senders, points,       *)
(* commands, connections, generations and restarts: no command is executed *)
(* late, none whose send was refused is executed, the mirrored generation  *)
(* is the canonical one and the stream carries whole frames.               *)
(***************************************************************************)
EXTENDS CommandPath, TLAPS

USE CommandAssumption

SendPhases == {"idle", "pinned"} \cup Leased
SendState == [pc : SendPhases, command : Command \cup Frame \cup {Nothing},
              generation : 0..MaxGenerations, attempt : 0..(SendRetries - 1)]
\* What a call of send holds in each phase
SenderTyped(s) ==
  /\ send[s].pc \in {"pinned", "mirrored", "locked"} => send[s].command \in Command
  /\ send[s].pc \in {"framed", "written"} => send[s].command \in Frame

SinkTypes ==
  /\ clock \in 0..MaxTime
  /\ canonical \in 1..MaxGenerations /\ swapping \in BOOLEAN /\ ioUp \in BOOLEAN
  /\ swapping => canonical < MaxGenerations
  /\ current \in 0..MaxGenerations
  /\ send \in [Senders -> SendState] /\ \A s \in Senders : SenderTyped(s)
  /\ commandAnswer \in [Commands -> Outcomes] /\ issued \in 0..MaxCommands
  /\ producer \in 1..MaxProducers /\ nextSequence \in 1..(SeqMod - 1)

\* A call in flight owns its identifier: it is issued, unanswered and no other's.
Owned(s) ==
  send[s].pc # "idle" =>
    /\ send[s].command.id \in 1..issued
    /\ commandAnswer[send[s].command.id] = "none"
    /\ \A t \in Senders \ {s} : send[t].pc # "idle" => send[t].command.id # send[s].command.id

Owners ==
  /\ \A s \in Senders : Owned(s)
  /\ \A i \in Commands : i > issued => commandAnswer[i] = "none"
---------------------------------------------------------------------------
\* A step of one call: the others are as they were.
Alone(s) == \A t \in Senders \ {s} : send'[t] = send[t]

(* Answering ends the call and leaves the other calls and answers alone. *)
LEMMA AnswerShape ==
    ASSUME SinkTypes, Owners, NEW s \in Senders, NEW outcome \in Outcomes,
           send[s].pc # "idle", Answer(s, outcome)
    PROVE  /\ send' \in [Senders -> SendState] /\ send'[s] = Idle /\ Alone(s)
           /\ send[s].command.id \in Commands
           /\ commandAnswer' \in [Commands -> Outcomes]
           /\ commandAnswer'[send[s].command.id] = outcome
           /\ \A i \in Commands \ {send[s].command.id} : commandAnswer'[i] = commandAnswer[i]
<1>1. Idle \in SendState
  BY DEF Idle, SendState, SendPhases, None
<1>2. send[s].command.id \in Commands
  BY DEF Owners, Owned, SinkTypes, Commands
<1>. QED
  BY <1>1, <1>2 DEF Answer, SinkTypes, Alone

(* An answered call keeps the types and the ownership of the others. *)
LEMMA AnswerKeeps ==
    ASSUME SinkTypes, Owners, NEW s \in Senders, NEW outcome \in Outcomes,
           send[s].pc # "idle", Answer(s, outcome), UNCHANGED issued
    PROVE  /\ send' \in [Senders -> SendState] /\ commandAnswer' \in [Commands -> Outcomes]
           /\ \A t \in Senders : SenderTyped(t)'
           /\ Owners'
<1>1. /\ send' \in [Senders -> SendState] /\ send'[s] = Idle /\ Alone(s)
      /\ send[s].command.id \in Commands
      /\ commandAnswer' \in [Commands -> Outcomes]
      /\ \A i \in Commands \ {send[s].command.id} : commandAnswer'[i] = commandAnswer[i]
  BY AnswerShape
<1>2. send'[s].pc = "idle"
  BY <1>1 DEF Idle
<1>3. ASSUME NEW t \in Senders PROVE SenderTyped(t)'
  BY <1>1, <1>2 DEF SinkTypes, SenderTyped, Alone
<1>4. ASSUME NEW t \in Senders PROVE Owned(t)'
  <2>. SUFFICES ASSUME send'[t].pc # "idle" PROVE Owned(t)'
    BY DEF Owned
  <2>1. t # s /\ send'[t] = send[t]
    BY <1>1, <1>2 DEF Alone
  <2>2. send[t].command.id \in 1..issued /\ send[t].command.id # send[s].command.id
    BY <2>1 DEF Owners, Owned
  <2>3. commandAnswer'[send[t].command.id] = "none"
    BY <1>1, <2>1, <2>2 DEF Owners, Owned, SinkTypes, Commands
  <2>4. \A u \in Senders \ {t} : send'[u].pc # "idle" => send'[u].command.id # send'[t].command.id
    BY <1>1, <1>2, <2>1 DEF Owners, Owned, Alone
  <2>. QED
    BY <2>1, <2>2, <2>3, <2>4 DEF Owned
<1>5. \A i \in Commands : i > issued' => commandAnswer'[i] = "none"
  BY <1>1 DEF Owners, Owned, SinkTypes, Commands
<1>. QED
  BY <1>1, <1>3, <1>4, <1>5 DEF Owners

(* A call that moves on keeps what it holds. *)
LEMMA GotoKeeps ==
    ASSUME SinkTypes, Owners, NEW s \in Senders, NEW pc \in SendPhases,
           <<send[s].pc, pc>> \in {<<"pinned", "mirrored">>, <<"mirrored", "locked">>,
                                   <<"framed", "written">>},
           Goto(s, pc), UNCHANGED <<issued, commandAnswer>>
    PROVE  /\ send' \in [Senders -> SendState] /\ Alone(s)
           /\ send'[s].pc = pc /\ send'[s].command = send[s].command
           /\ send'[s].generation = send[s].generation
           /\ \A t \in Senders : SenderTyped(t)'
           /\ Owners'
<1>1. /\ send' \in [Senders -> SendState] /\ Alone(s)
      /\ send'[s].pc = pc /\ send'[s].command = send[s].command
      /\ send'[s].generation = send[s].generation
  BY DEF Goto, SinkTypes, SendState, Alone
<1>3. ASSUME NEW t \in Senders PROVE SenderTyped(t)'
  BY <1>1 DEF SinkTypes, SenderTyped, Alone
<1>4. ASSUME NEW t \in Senders PROVE Owned(t)'
  BY <1>1 DEF Owners, Owned, Alone
<1>. QED
  BY <1>1, <1>3, <1>4 DEF Owners

---------------------------------------------------------------------------
(* An authority that was lost changes at most the pinned generation. *)
LEMMA UnauthoritativeKeeps ==
    ASSUME SinkTypes, NEW s \in Senders, NEW outcome, Unauthoritative(s, outcome)
    PROVE  current' \in 0..MaxGenerations /\ Answer(s, outcome) /\ UNCHANGED issued
BY DEF Unauthoritative, SinkTypes, None

(* The sequence after any is one a frame may carry. *)
LEMMA NextSequenceTyped == \A n \in 1..(SeqMod - 1) : NextSequence(n) \in 1..(SeqMod - 1)
<1>. SUFFICES ASSUME NEW n \in 1..(SeqMod - 1) PROVE NextSequence(n) \in 1..(SeqMod - 1)
  OBVIOUS
<1>1. (n + 1) % SeqMod \in 0..(SeqMod - 1)
  OBVIOUS
<1>. QED
  BY <1>1 DEF NextSequence

(* A new call takes the next identifier. *)
LEMMA SendSink ==
    ASSUME SinkTypes, Owners, NEW s \in Senders, NEW p \in Points, Send(s, p)
    PROVE  SinkTypes' /\ Owners'
<1>0. issued < MaxCommands /\ issued' = issued + 1
  BY Zenon DEF Send
<1>1. issued' \in 0..MaxCommands /\ issued' = issued + 1 /\ issued + 1 \in Commands
  BY <1>0 DEF SinkTypes, Commands
<1>2. UNCHANGED <<clock, commandIoVars, current, notifierVars>> /\ send[s] = Idle
  BY Zenon DEF Send
<1>3. CASE current = None
  <2>1. commandAnswer' = [commandAnswer EXCEPT ![issued + 1] = "refused"] /\ UNCHANGED send
    BY <1>3 DEF Send
  <2>2. commandAnswer' \in [Commands -> Outcomes]
    BY <1>1, <2>1 DEF SinkTypes, Outcomes
  <2>3. \A i \in Commands \ {issued + 1} : commandAnswer'[i] = commandAnswer[i]
    BY <1>1, <2>1 DEF SinkTypes
  <2>4. SinkTypes'
    BY <1>1, <1>2, <2>1, <2>2 DEF SinkTypes, commandIoVars, notifierVars, SenderTyped
  <2>5. Owners'
    BY <1>1, <2>1, <2>3 DEF Owners, Owned, SinkTypes, Commands
  <2>. QED
    BY <2>4, <2>5
<1>4. CASE current # None
  <2>. DEFINE k == [id |-> issued + 1, point |-> p, expires |-> clock + TTL]
              q == [pc |-> "pinned", generation |-> current, attempt |-> 0, command |-> k]
  <2>1. k \in Command /\ k.id = issued + 1
    BY <1>1 DEF SinkTypes, Command
  <2>2. send' = [send EXCEPT ![s] = q] /\ UNCHANGED commandAnswer
    BY <1>4, Zenon DEF Send
  <2>3. q \in SendState /\ q.pc = "pinned" /\ q.command = k
    <3>. HIDE DEF k
    <3>. QED
      BY <2>1 DEF SinkTypes, SendState, SendPhases
  <2>. HIDE DEF k, q
  <2>4. send' \in [Senders -> SendState] /\ Alone(s) /\ send'[s] = q
    BY <2>2, <2>3 DEF SinkTypes, Alone
  <2>5. SinkTypes'
    BY <1>1, <1>2, <2>1, <2>2, <2>3, <2>4
    DEF SinkTypes, commandIoVars, notifierVars, SenderTyped, Alone
  <2>6. commandAnswer[issued + 1] = "none"
    BY <1>1 DEF Owners, SinkTypes
  <2>7. ASSUME NEW t \in Senders PROVE Owned(t)'
    BY <1>1, <2>1, <2>2, <2>3, <2>4, <2>6 DEF Owners, Owned, SinkTypes, Alone
  <2>8. \A i \in Commands : i > issued' => commandAnswer'[i] = "none"
    BY <1>1, <2>2 DEF Owners, SinkTypes, Commands
  <2>. QED
    BY <2>5, <2>7, <2>8 DEF Owners
<1>. QED
  BY <1>3, <1>4

(* The frame carries the command with the producer and its next sequence. *)
LEMMA FramesSink ==
    ASSUME SinkTypes, Owners, NEW s \in Senders, Frames(s)
    PROVE  SinkTypes' /\ Owners'
<1>1. CASE Answer(s, "refused") /\ UNCHANGED nextSequence
  BY <1>1, AnswerKeeps DEF Frames, SinkTypes, commandIoVars, Outcomes
<1>2. CASE /\ send' = [send EXCEPT ![s].pc = "framed",
                ![s].command = [id |-> @.id, point |-> @.point, expires |-> @.expires,
                                producer |-> producer, sequence |-> nextSequence]]
           /\ UNCHANGED commandAnswer /\ nextSequence' = NextSequence(nextSequence)
  <2>. DEFINE k == send[s].command
              f == [id |-> k.id, point |-> k.point, expires |-> k.expires,
                    producer |-> producer, sequence |-> nextSequence]
  <2>1. f \in Frame /\ f.id = k.id
    BY DEF Frames, SinkTypes, SenderTyped, Command, Frame
  <2>2. send[s] \in SendState /\ send[s].pc = "locked"
    BY DEF Frames, SinkTypes
  <2>3. /\ send' \in [Senders -> SendState] /\ Alone(s)
        /\ send'[s].pc = "framed" /\ send'[s].command = f
    BY <1>2, <2>1, <2>2 DEF SinkTypes, SendState, SendPhases, Leased, Transporting, Alone
  <2>4. SinkTypes'
    BY <1>2, <2>1, <2>3, NextSequenceTyped DEF Frames, SinkTypes, commandIoVars, SenderTyped, Alone
  <2>5. UNCHANGED issued /\ send'[s].command.id = send[s].command.id
    BY <2>1, <2>3, Zenon DEF Frames
  <2>. HIDE DEF k, f
  <2>6. ASSUME NEW t \in Senders PROVE Owned(t)'
    BY <1>2, <2>2, <2>3, <2>5 DEF Owners, Owned, Alone
  <2>. QED
    BY <1>2, <2>4, <2>5, <2>6 DEF Owners
<1>. QED
  BY <1>1, <1>2 DEF Frames

(* Every step of a call keeps the sink's types and the ownership. *)
LEMMA SenderSink ==
    ASSUME SinkTypes, Owners, NEW s \in Senders, Sender(s)
    PROVE  SinkTypes' /\ Owners'
<1>. DEFINE Kept == /\ send' \in [Senders -> SendState] /\ \A t \in Senders : SenderTyped(t)'
                    /\ commandAnswer' \in [Commands -> Outcomes] /\ Owners'
<1>1. ASSUME NEW outcome \in Outcomes, send[s].pc # "idle", Answer(s, outcome), UNCHANGED issued
      PROVE  Kept
  BY <1>1, AnswerKeeps
<1>2. "refused" \in Outcomes /\ "receipt" \in Outcomes /\ "unconfirmed" \in Outcomes
  BY DEF Outcomes
<1>3. "mirrored" \in SendPhases /\ "locked" \in SendPhases /\ "written" \in SendPhases
  BY DEF SendPhases, Leased, Transporting
<1>4. ASSUME NEW p \in Points, Send(s, p) PROVE SinkTypes' /\ Owners'
  BY <1>4, SendSink
<1>5. CASE LeaseFails(s)
  BY <1>1, <1>2, <1>5 DEF LeaseFails, SinkTypes, commandIoVars, notifierVars
<1>6. CASE Mirror(s)
  BY <1>1, <1>2, <1>3, <1>6, GotoKeeps, UnauthoritativeKeeps DEF Mirror, SinkTypes, commandIoVars, notifierVars
<1>7. CASE LockNotifier(s)
  BY <1>1, <1>2, <1>3, <1>7, GotoKeeps, UnauthoritativeKeeps DEF LockNotifier, SinkTypes, commandIoVars, notifierVars
<1>8. CASE LockFails(s)
  BY <1>1, <1>2, <1>8 DEF LockFails, SinkTypes, commandIoVars, notifierVars
<1>9. CASE Confirm(s)
  BY <1>1, <1>2, <1>9, UnauthoritativeKeeps DEF Confirm, SinkTypes, commandIoVars, notifierVars
<1>10. CASE Frames(s)
  BY <1>10, FramesSink
<1>11. CASE AttemptExpires(s)
  BY <1>1, <1>2, <1>11 DEF AttemptExpires, SinkTypes, commandIoVars, notifierVars
<1>12. CASE Connect(s)
  BY <1>12 DEF Connect, SinkTypes, commandIoVars, sinkVars, Owners, Owned, SenderTyped
<1>13. CASE ConnectFails(s)
  BY <1>1, <1>2, <1>13 DEF ConnectFails, SinkTypes, commandIoVars, notifierVars
<1>14. CASE CommandWrite(s)
  BY <1>3, <1>14, GotoKeeps DEF CommandWrite, SinkTypes, commandIoVars, notifierVars
<1>15. CASE WriteFails(s)
  <2>1. CASE send' = [send EXCEPT ![s].attempt = @ + 1] /\ send[s].attempt + 1 < SendRetries
               /\ UNCHANGED commandAnswer
    <3>1. send' \in [Senders -> SendState]
      BY <2>1 DEF SinkTypes, SendState
    <3>2. \A t \in Senders : send'[t].pc = send[t].pc /\ send'[t].command = send[t].command
      BY <2>1 DEF SinkTypes, SendState
    <3>. QED
      BY <1>15, <2>1, <3>1, <3>2 DEF WriteFails, SinkTypes, commandIoVars, Owners, Owned, SenderTyped
  <2>2. CASE Answer(s, "refused")
    BY <1>1, <1>2, <1>15, <2>2 DEF WriteFails, SinkTypes, commandIoVars
  <2>. QED
    BY <1>15, <2>1, <2>2 DEF WriteFails
<1>16. CASE Cancel(s)
  BY <1>1, <1>2, <1>16 DEF Cancel, SinkTypes, commandIoVars
<1>. QED
  BY <1>4, <1>5, <1>6, <1>7, <1>8, <1>9, <1>10, <1>11, <1>12, <1>13, <1>14, <1>15, <1>16 DEF Sender

(* Every step keeps the sink's types and the ownership of identifiers. *)
LEMMA SinkStep ==
    ASSUME SinkTypes, Owners, CommandNext
    PROVE  SinkTypes' /\ Owners'
<1>1. ASSUME UNCHANGED <<canonical, swapping, ioUp, sinkVars, notifierVars>>, clock' \in 0..MaxTime
      PROVE  SinkTypes' /\ Owners'
  BY <1>1 DEF SinkTypes, Owners, Owned, SenderTyped, sinkVars, notifierVars
<1>2. ASSUME NEW s \in Senders, Sender(s) PROVE SinkTypes' /\ Owners'
  BY <1>2, SenderSink
<1>3. ASSUME NEW c \in DOMAIN conns, Connection(c) PROVE SinkTypes' /\ Owners'
  BY <1>1, <1>3, Zenon DEF Connection, Receive, ReadEof, Enqueue, CommandDiscard, commandIoVars, SinkTypes
<1>4. CASE Dispatch
  BY <1>1, <1>4, Zenon DEF Dispatch, commandIoVars, SinkTypes
<1>5. CASE Tick
  BY <1>1, <1>5 DEF Tick, commandIoVars, SinkTypes
<1>6. CASE BeginSwap
  BY <1>6 DEF BeginSwap, SinkTypes, Owners, Owned, SenderTyped, sinkVars, notifierVars
<1>9. CASE EndSwap
  <2>1. /\ swapping' = FALSE /\ ioUp' = TRUE /\ canonical' = canonical + 1 /\ swapping
        /\ UNCHANGED <<clock, sinkVars, notifierVars>>
    BY <1>9, Zenon DEF EndSwap
  <2>2. canonical' \in 1..MaxGenerations
    BY <2>1 DEF SinkTypes
  <2>3. \A s \in Senders : SenderTyped(s)' /\ Owned(s)'
    BY <2>1 DEF SinkTypes, Owners, Owned, SenderTyped, sinkVars
  <2>. QED
    BY <2>1, <2>2, <2>3 DEF SinkTypes, Owners, sinkVars, notifierVars
<1>10. CASE IoStops
  <2>1. ioUp' = FALSE /\ UNCHANGED <<clock, canonical, swapping, sinkVars, notifierVars>>
    BY <1>10, Zenon DEF IoStops
  <2>. QED
    BY <2>1 DEF SinkTypes, Owners, Owned, SenderTyped, sinkVars, notifierVars
<1>7. CASE Invalidate \/ Rebuild
  BY <1>7 DEF Invalidate, Rebuild, SinkTypes, Owners, Owned, SenderTyped, notifierVars, commandIoVars, None
<1>8. CASE AutomationRestarts
  <2>1. Idle \in SendState /\ Idle.pc = "idle"
    BY DEF Idle, SendState, SendPhases, None
  <2>2. send' \in [Senders -> SendState] /\ \A s \in Senders : send'[s].pc = "idle"
    BY <1>8, <2>1 DEF AutomationRestarts
  <2>. QED
    BY <1>8, <2>2 DEF AutomationRestarts, SinkTypes, Owners, Owned, SenderTyped, commandIoVars, None
<1>. QED
  BY <1>2, <1>3, <1>4, <1>5, <1>6, <1>7, <1>8, <1>9, <1>10 DEF CommandNext

(* A call enters the leased phases with the canonical generation and keeps it. *)
LEMMA SenderLeases ==
    ASSUME SinkTypes, Owners, NEW s \in Senders, Sender(s)
    PROVE  /\ UNCHANGED <<canonical, swapping>> /\ Alone(s)
           /\ send'[s].pc \in Leased =>
                /\ send'[s].generation = send[s].generation
                /\ send[s].pc \in Leased \/ (send[s].generation = canonical /\ ~swapping)
<1>. DEFINE Kept == /\ Alone(s)
                    /\ send'[s].pc \in Leased =>
                         /\ send'[s].generation = send[s].generation
                         /\ send[s].pc \in Leased \/ (send[s].generation = canonical /\ ~swapping)
<1>0. "pinned" \notin Leased /\ "idle" \notin Leased /\ Idle.pc = "idle" /\ Transporting \subseteq Leased
  BY DEF Leased, Transporting, Idle
<1>1. UNCHANGED <<canonical, swapping>>
  BY Zenon DEF Sender, Send, LeaseFails, Mirror, LockNotifier, LockFails, Confirm, Frames,
     AttemptExpires, Connect, ConnectFails, CommandWrite, WriteFails, Cancel, commandIoVars
<1>. SUFFICES Kept
  BY <1>1
<1>2. ASSUME NEW outcome, Answer(s, outcome) PROVE Alone(s) /\ send'[s].pc \notin Leased
  BY <1>0, <1>2 DEF Answer, SinkTypes, Alone
<1>3. ASSUME NEW pc, Goto(s, pc)
      PROVE  Alone(s) /\ send'[s].pc = pc /\ send'[s].generation = send[s].generation
  BY <1>3 DEF Goto, SinkTypes, SendState, Alone
<1>4. ASSUME NEW p \in Points, Send(s, p) PROVE Alone(s) /\ send'[s].pc \notin Leased
  <2>1. CASE UNCHANGED send
    BY <1>0, <1>4, <2>1 DEF Send, Alone
  <2>2. CASE send' = [send EXCEPT ![s] =
               [pc |-> "pinned", generation |-> current, attempt |-> 0,
                command |-> [id |-> issued + 1, point |-> p, expires |-> clock + TTL]]]
    BY <1>0, <2>2 DEF SinkTypes, Alone
  <2>. QED
    BY <1>4, <2>1, <2>2, Zenon DEF Send
<1>5. CASE LeaseFails(s) \/ LockFails(s) \/ Confirm(s) \/ AttemptExpires(s) \/ ConnectFails(s) \/ Cancel(s)
  BY <1>2, <1>5, Zenon DEF LeaseFails, LockFails, Confirm, Unauthoritative, AttemptExpires, ConnectFails, Cancel
<1>6. CASE Mirror(s)
  <2>1. CASE Authoritative(s) /\ Goto(s, "mirrored")
    BY <1>3, <1>6, <2>1 DEF Mirror, Authoritative
  <2>2. CASE \E outcome : Answer(s, outcome)
    BY <1>2, <2>2
  <2>. QED
    BY <1>6, <2>1, <2>2, Zenon DEF Mirror, Unauthoritative
<1>7. CASE LockNotifier(s)
  <2>1. CASE Goto(s, "locked") /\ send[s].pc \in Leased
    BY <1>3, <2>1
  <2>2. CASE \E outcome : Answer(s, outcome)
    BY <1>2, <2>2
  <2>. QED
    BY <1>7, <2>1, <2>2, Zenon DEF LockNotifier, Unauthoritative, Leased
<1>8. CASE Frames(s)
  <2>1. send[s].pc \in Leased
    BY <1>8 DEF Frames, Leased, Transporting
  <2>2. CASE send' = [send EXCEPT ![s].pc = "framed",
                ![s].command = [id |-> @.id, point |-> @.point, expires |-> @.expires,
                                producer |-> producer, sequence |-> nextSequence]]
    BY <2>1, <2>2 DEF SinkTypes, SendState, Alone
  <2>3. CASE \E outcome : Answer(s, outcome)
    BY <1>2, <2>3
  <2>. QED
    BY <1>8, <2>2, <2>3, Zenon DEF Frames
<1>9. CASE Connect(s)
  BY <1>9 DEF Connect, sinkVars, Alone, Leased, Transporting
<1>10. CASE CommandWrite(s)
  <2>1. Goto(s, "written") /\ send[s].pc \in Leased
    BY <1>10 DEF CommandWrite, Leased, Transporting
  <2>. QED
    BY <1>3, <2>1
<1>11. CASE WriteFails(s)
  <2>1. send[s].pc \in Leased
    BY <1>11 DEF WriteFails, Leased, Transporting
  <2>2. CASE send' = [send EXCEPT ![s].attempt = @ + 1]
    BY <2>1, <2>2 DEF SinkTypes, SendState, Alone
  <2>3. CASE \E outcome : Answer(s, outcome)
    BY <1>2, <2>3
  <2>. QED
    BY <1>11, <2>2, <2>3, Zenon DEF WriteFails
<1>. QED
  BY <1>4, <1>5, <1>6, <1>7, <1>8, <1>9, <1>10, <1>11 DEF Sender

(* The segment a leased call mirrored into is not replaced under it. *)
LEMMA MirrorStep ==
    ASSUME SinkTypes, Owners, MirrorIsCanonical, CommandNext
    PROVE  MirrorIsCanonical'
<1>1. ASSUME UNCHANGED <<canonical, swapping, send>> PROVE MirrorIsCanonical'
  BY <1>1 DEF MirrorIsCanonical
<1>2. ASSUME NEW s \in Senders, Sender(s) PROVE MirrorIsCanonical'
  BY <1>2, SenderLeases DEF MirrorIsCanonical, Alone
<1>3. ASSUME NEW c \in DOMAIN conns, Connection(c) PROVE MirrorIsCanonical'
  BY <1>1, <1>3, Zenon DEF Connection, Receive, ReadEof, Enqueue, CommandDiscard, commandIoVars, sinkVars
<1>4. CASE Dispatch \/ Tick \/ IoStops \/ Invalidate \/ Rebuild
  BY <1>1, <1>4, Zenon DEF Dispatch, Tick, IoStops, Invalidate, Rebuild, commandIoVars, sinkVars
<1>5. CASE BeginSwap
  BY <1>5 DEF BeginSwap, LeaseFree, MirrorIsCanonical, sinkVars
<1>6. CASE EndSwap
  BY <1>6 DEF EndSwap, MirrorIsCanonical, sinkVars
<1>7. CASE AutomationRestarts
  BY <1>7 DEF AutomationRestarts, MirrorIsCanonical, Idle, Leased, Transporting
<1>. QED
  BY <1>2, <1>3, <1>4, <1>5, <1>6, <1>7 DEF CommandNext

---------------------------------------------------------------------------
\* What a step of call s may do to the answers and the identifiers in flight:
\* refuse a new command or its own unwritten one; take a new identifier.
Traced(s) ==
  /\ issued <= issued'
  /\ \A id \in Commands : commandAnswer'[id] = "refused" =>
       \/ commandAnswer[id] = "refused" \/ id > issued
       \/ id = send[s].command.id /\ send[s].pc \notin {"idle", "written"}
  /\ \A t \in Senders : send'[t].pc # "idle" =>
       \/ send'[t].command.id > issued
       \/ /\ send'[t].command.id = send[t].command.id /\ send[t].pc # "idle"
          /\ send[t].pc = "written" => send'[t].pc = "written"

(* Every step of a call is so traced. *)
LEMMA SenderTraced ==
    ASSUME SinkTypes, Owners, NEW s \in Senders, Sender(s)
    PROVE  Traced(s)
<1>0. issued \in Nat /\ \A id \in Commands : id \in Nat
  BY DEF SinkTypes, Commands
<1>1. ASSUME NEW outcome \in Outcomes, send[s].pc # "idle", Answer(s, outcome), UNCHANGED issued,
             outcome = "refused" => send[s].pc # "written"
      PROVE  Traced(s)
  BY <1>0, <1>1, AnswerShape DEF Traced, Alone, Idle
<1>2. "refused" \in Outcomes /\ "receipt" \in Outcomes /\ "unconfirmed" \in Outcomes
  BY DEF Outcomes
<1>3. ASSUME UNCHANGED <<issued, commandAnswer>>,
             \A t \in Senders : /\ send'[t].command.id = send[t].command.id
                                /\ (send'[t].pc = "idle") = (send[t].pc = "idle")
                                /\ send[t].pc = "written" => send'[t].pc = "written"
      PROVE  Traced(s)
  BY <1>0, <1>3 DEF Traced
<1>4. ASSUME NEW pc, pc # "idle", send[s].pc \notin {"idle", "written"}, Goto(s, pc),
             UNCHANGED <<issued, commandAnswer>>
      PROVE  Traced(s)
  <2>1. \A t \in Senders : /\ send'[t].command = send[t].command
                           /\ t # s => send'[t].pc = send[t].pc
                           /\ send'[s].pc = pc
    BY <1>4 DEF Goto, SinkTypes, SendState
  <2>. QED
    BY <1>3, <1>4, <2>1
<1>5. ASSUME NEW p \in Points, Send(s, p) PROVE Traced(s)
  <2>1. issued' = issued + 1 /\ issued < MaxCommands /\ send[s] = Idle
    BY <1>5, Zenon DEF Send
  <2>2. CASE current = None
    <3>1. commandAnswer' = [commandAnswer EXCEPT ![issued + 1] = "refused"] /\ UNCHANGED send
      BY <1>5, <2>2, Zenon DEF Send
    <3>. QED
      BY <1>0, <2>1, <3>1 DEF Traced, SinkTypes
  <2>3. CASE current # None
    <3>. DEFINE q == [pc |-> "pinned", generation |-> current, attempt |-> 0,
                      command |-> [id |-> issued + 1, point |-> p, expires |-> clock + TTL]]
    <3>1. send' = [send EXCEPT ![s] = q] /\ UNCHANGED commandAnswer
      BY <1>5, <2>3, Zenon DEF Send
    <3>2. q.command.id = issued + 1
      OBVIOUS
    <3>. HIDE DEF q
    <3>3. \A t \in Senders : send'[t] = IF t = s THEN q ELSE send[t]
      BY <3>1 DEF SinkTypes
    <3>. QED
      BY <1>0, <2>1, <3>1, <3>2, <3>3 DEF Traced
  <2>. QED
    BY <2>2, <2>3
<1>6. CASE LeaseFails(s) \/ LockFails(s) \/ AttemptExpires(s) \/ ConnectFails(s) \/ Cancel(s)
  BY <1>1, <1>2, <1>6 DEF LeaseFails, LockFails, AttemptExpires, ConnectFails, Cancel
<1>7. CASE Mirror(s)
  BY <1>1, <1>2, <1>4, <1>7 DEF Mirror, Unauthoritative
<1>8. CASE LockNotifier(s)
  BY <1>1, <1>2, <1>4, <1>8 DEF LockNotifier, Unauthoritative
<1>9. CASE Confirm(s)
  BY <1>1, <1>2, <1>9 DEF Confirm, Unauthoritative
<1>10. CASE Frames(s)
  <2>1. send[s].pc = "locked" /\ UNCHANGED issued
    BY <1>10 DEF Frames
  <2>2. CASE Answer(s, "refused")
    BY <1>1, <1>2, <2>1, <2>2
  <2>3. CASE /\ send' = [send EXCEPT ![s].pc = "framed",
                ![s].command = [id |-> @.id, point |-> @.point, expires |-> @.expires,
                                producer |-> producer, sequence |-> nextSequence]]
             /\ UNCHANGED commandAnswer
    <3>1. \A t \in Senders : /\ t # s => send'[t] = send[t]
                             /\ send'[s].pc = "framed" /\ send'[s].command.id = send[s].command.id
      BY <2>3 DEF SinkTypes, SendState
    <3>. QED
      BY <1>3, <2>1, <2>3, <3>1
  <2>. QED
    BY <1>10, <2>2, <2>3, Zenon DEF Frames
<1>11. CASE Connect(s)
  BY <1>3, <1>11 DEF Connect, sinkVars
<1>12. CASE CommandWrite(s)
  BY <1>4, <1>12 DEF CommandWrite
<1>13. CASE WriteFails(s)
  <2>1. send[s].pc = "framed" /\ UNCHANGED issued
    BY <1>13 DEF WriteFails
  <2>2. CASE Answer(s, "refused")
    BY <1>1, <1>2, <2>1, <2>2
  <2>3. CASE send' = [send EXCEPT ![s].attempt = @ + 1] /\ UNCHANGED commandAnswer
    <3>1. \A t \in Senders : send'[t].pc = send[t].pc /\ send'[t].command = send[t].command
      BY <2>3 DEF SinkTypes, SendState
    <3>. QED
      BY <1>3, <2>1, <2>3, <3>1
  <2>. QED
    BY <1>13, <2>2, <2>3, Zenon DEF WriteFails
<1>. QED
  BY <1>5, <1>6, <1>7, <1>8, <1>9, <1>10, <1>11, <1>12, <1>13 DEF Sender

---------------------------------------------------------------------------

Conn == [frames : Seq(Frame \cup {Prefix}), alive : BOOLEAN,
         handling : Frame \cup {Nothing}, producer : 1..MaxProducers]
Execution == [frame : Frame, at : 0..MaxTime]

WireTypes ==
  /\ conns \in Seq(Conn) /\ Len(conns) <= MaxConns /\ stream \in 0..Len(conns)
  /\ commandQueue \in Seq(Frame) /\ Len(commandQueue) <= CommandQueueCapacity
  /\ executed \in Seq(Execution)

\* A frame of the command is beyond the sender: on a connection, in the
\* channel's queue or on the field bus.
Carries(k, id) == k.handling.id = id \/ \E i \in DOMAIN k.frames : k.frames[i].id = id
Carried(id) == \E c \in DOMAIN conns : Carries(conns[c], id)
Queued(id) == \E i \in DOMAIN commandQueue : commandQueue[i].id = id
Executed(id) == \E i \in DOMAIN executed : executed[i].frame.id = id
Wired(id) == Carried(id) \/ Queued(id) \/ Executed(id)

\* A frame beyond the sender belongs to an issued command that was not refused,
\* and its call, if still in flight, has written it.
Traceable ==
  \A id \in Commands : Wired(id) =>
    /\ id <= issued /\ commandAnswer[id] # "refused"
    /\ \A s \in Senders : send[s].pc # "idle" /\ send[s].command.id = id => send[s].pc = "written"

Aligned(k) == \A i \in DOMAIN k.frames : k.frames[i] = Prefix => i = Len(k.frames)
Whole(k) == \A i \in DOMAIN k.frames : k.frames[i] # Prefix

\* The stream in use carries whole frames only.
Unbroken == stream # None => Whole(conns[stream])

\* The properties of the connections
WireInv == WireTypes /\ FramesStayAligned /\ Unbroken

PathInv == SinkTypes /\ Owners /\ WireInv /\ Traceable /\ NeverLate /\ MirrorIsCanonical
---------------------------------------------------------------------------
\* A step that replaces the record of connection c by k
Replaced(c, k) ==
  /\ conns' \in Seq(Conn) /\ Len(conns') = Len(conns)
  /\ conns'[c] = k /\ \A d \in 1..Len(conns) : d # c => conns'[d] = conns[d]

(* One connection is replaced in place. *)
LEMMA ConnReplaced ==
    ASSUME conns \in Seq(Conn), NEW c \in DOMAIN conns, NEW k \in Conn,
           conns' = [conns EXCEPT ![c] = k]
    PROVE  Replaced(c, k)
BY DEF Replaced

(* What a replaced connection must satisfy *)
LEMMA ReplacedInv ==
    ASSUME WireInv, NEW c \in DOMAIN conns, NEW k, Replaced(c, k), Aligned(k),
           stream' \in {stream, None}, stream' = c => Whole(k)
    PROVE  /\ conns' \in Seq(Conn) /\ Len(conns') <= MaxConns /\ stream' \in 0..Len(conns')
           /\ FramesStayAligned' /\ Unbroken'
           /\ \A id : Carried(id)' => Carried(id) \/ Carries(k, id)
<1>1. DOMAIN conns' = DOMAIN conns /\ DOMAIN conns = 1..Len(conns)
  BY DEF WireInv, WireTypes, Replaced
<1>2. conns' \in Seq(Conn) /\ Len(conns') <= MaxConns /\ stream' \in 0..Len(conns')
  BY DEF WireInv, WireTypes, Replaced, None
<1>3. FramesStayAligned'
  BY <1>1 DEF WireInv, FramesStayAligned, Aligned, Replaced
<1>4. Unbroken'
  BY <1>1, <1>2 DEF WireInv, WireTypes, Unbroken, Whole, Replaced, None
<1>5. \A id : Carried(id)' => Carried(id) \/ Carries(k, id)
  BY <1>1 DEF Carried, Carries, Replaced
<1>. QED
  BY <1>2, <1>3, <1>4, <1>5

(* A frame or a prefix is appended behind whole frames. *)
LEMMA AppendedConn ==
    ASSUME NEW k \in Conn, NEW f \in Frame \cup {Prefix}, Whole(k)
    PROVE  LET m == [k EXCEPT !.frames = Append(@, f)]
           IN  /\ m \in Conn /\ Aligned(m) /\ (f # Prefix => Whole(m))
               /\ \A id : Carries(m, id) => Carries(k, id) \/ id = f.id
<1>. DEFINE m == [k EXCEPT !.frames = Append(@, f)]
<1>1. k.frames \in Seq(Frame \cup {Prefix})
  BY DEF Conn
<1>a. Append(k.frames, f) \in Seq(Frame \cup {Prefix})
  BY <1>1
<1>b. m.frames = Append(k.frames, f) /\ m.handling = k.handling
  BY DEF Conn
<1>c. m \in Conn
  BY <1>a DEF Conn
<1>2. /\ m.frames = Append(k.frames, f) /\ m.handling = k.handling /\ m \in Conn
  BY <1>b, <1>c
<1>3. /\ DOMAIN m.frames = 1..(Len(k.frames) + 1) /\ m.frames[Len(k.frames) + 1] = f
      /\ \A i \in 1..Len(k.frames) : m.frames[i] = k.frames[i]
      /\ Len(m.frames) = Len(k.frames) + 1 /\ Len(k.frames) \in Nat /\ DOMAIN k.frames = 1..Len(k.frames)
  BY <1>1, <1>2
<1>. HIDE DEF m
<1>d. ASSUME NEW i \in 1..Len(k.frames) PROVE m.frames[i] # Prefix
  BY <1>3 DEF Whole
<1>4. Aligned(m) /\ (f # Prefix => Whole(m))
  BY <1>3, <1>d DEF Aligned, Whole
<1>5. \A id : Carries(m, id) => Carries(k, id) \/ id = f.id
  BY <1>2, <1>3 DEF Carries
<1>. QED
  BY <1>2, <1>4, <1>5 DEF m

(* The head of a connection is taken off. *)
LEMMA TakenConn ==
    ASSUME NEW k \in Conn, k.frames # <<>>, NEW f \in Frame \cup {Nothing},
           f = Nothing \/ f = Head(k.frames), Aligned(k)
    PROVE  LET m == [k EXCEPT !.frames = Tail(@), !.handling = f]
           IN  /\ m \in Conn /\ Aligned(m) /\ (Whole(k) => Whole(m))
               /\ \A id \in Commands : Carries(m, id) => Carries(k, id)
<1>. DEFINE m == [k EXCEPT !.frames = Tail(@), !.handling = f]
<1>1. k.frames \in Seq(Frame \cup {Prefix})
  BY DEF Conn
<1>a. Tail(k.frames) \in Seq(Frame \cup {Prefix})
  BY <1>1
<1>b. m.frames = Tail(k.frames) /\ m.handling = f
  BY DEF Conn
<1>c. m \in Conn
  BY <1>a DEF Conn
<1>2. /\ m.frames = Tail(k.frames) /\ m.handling = f /\ m \in Conn
  BY <1>b, <1>c
<1>3. /\ Len(k.frames) \in Nat \ {0} /\ Len(m.frames) = Len(k.frames) - 1
      /\ DOMAIN m.frames = 1..(Len(k.frames) - 1) /\ DOMAIN k.frames = 1..Len(k.frames)
      /\ \A i \in 1..(Len(k.frames) - 1) : m.frames[i] = k.frames[i + 1]
      /\ Head(k.frames) = k.frames[1]
  BY <1>1, <1>2
<1>. HIDE DEF m
<1>d. ASSUME NEW i \in 1..(Len(k.frames) - 1)
      PROVE  m.frames[i] = Prefix => i = Len(k.frames) - 1 /\ ~Whole(k)
  <2>1. i + 1 \in DOMAIN k.frames /\ m.frames[i] = k.frames[i + 1]
    BY <1>3
  <2>2. m.frames[i] = Prefix => i + 1 = Len(k.frames)
    BY <2>1 DEF Aligned
  <2>3. m.frames[i] = Prefix => ~Whole(k)
    BY <2>1 DEF Whole
  <2>. QED
    BY <1>3, <2>2, <2>3
<1>4. Aligned(m) /\ (Whole(k) => Whole(m))
  BY <1>3, <1>d DEF Aligned, Whole
<1>5. \A id \in Commands : Carries(m, id) => Carries(k, id)
  BY <1>2, <1>3 DEF Carries, Commands, Nothing
<1>. QED
  BY <1>2, <1>4, <1>5 DEF m

---------------------------------------------------------------------------
(* The steps of a call keep the connections in order. Only a write puts a new *)
(* frame on one, the frame of the call that wrote it.                         *)
LEMMA SenderWire ==
    ASSUME SinkTypes, Owners, WireInv, NEW s \in Senders, Sender(s)
    PROVE  /\ WireInv' /\ UNCHANGED <<commandQueue, executed>>
           /\ \A id \in Commands : Carried(id)' =>
                Carried(id) \/ (CommandWrite(s) /\ id = send[s].command.id)
<1>1. UNCHANGED <<commandQueue, executed>>
  BY Zenon DEF Sender, Send, LeaseFails, Mirror, LockNotifier, LockFails, Confirm, Frames,
     AttemptExpires, Connect, ConnectFails, CommandWrite, WriteFails, Cancel, listenerVars, pastSocket
<1>2. ASSUME UNCHANGED conns, stream' \in {stream, None}
      PROVE  WireInv' /\ \A id : Carried(id)' => Carried(id)
  BY <1>1, <1>2 DEF WireInv, WireTypes, FramesStayAligned, Unbroken, Whole, Carried, Carries, None
<1>3. CASE Connect(s)
  <2>. DEFINE k == [frames |-> <<>>, alive |-> TRUE, handling |-> Nothing, producer |-> producer]
  <2>1. k \in Conn /\ Aligned(k) /\ Whole(k) /\ \A id \in Commands : ~Carries(k, id)
    BY DEF Conn, Aligned, Whole, Carries, SinkTypes, Nothing, Commands
  <2>2. conns' = Append(conns, k) /\ stream' = Len(conns') /\ Len(conns) < MaxConns
    BY <1>3, Zenon DEF Connect
  <2>. HIDE DEF k
  <2>3. /\ conns' \in Seq(Conn) /\ Len(conns') = Len(conns) + 1 /\ conns'[Len(conns) + 1] = k
        /\ \A c \in 1..Len(conns) : conns'[c] = conns[c]
        /\ DOMAIN conns' = 1..(Len(conns) + 1) /\ DOMAIN conns = 1..Len(conns) /\ Len(conns) \in Nat
    BY <2>1, <2>2 DEF WireInv, WireTypes
  <2>4. WireTypes'
    BY <1>1, <2>2, <2>3 DEF WireInv, WireTypes
  <2>5. FramesStayAligned' /\ Unbroken'
    BY <2>1, <2>2, <2>3 DEF WireInv, FramesStayAligned, Aligned, Unbroken
  <2>6. \A id \in Commands : Carried(id)' => Carried(id)
    BY <2>1, <2>3 DEF Carried
  <2>. QED
    BY <1>1, <2>4, <2>5, <2>6 DEF WireInv
<1>4. ASSUME NEW f \in Frame \cup {Prefix}, stream # None,
             conns' = [conns EXCEPT ![stream].frames = Append(@, f)],
             stream' = None \/ (stream' = stream /\ f # Prefix)
      PROVE  WireInv' /\ \A id : Carried(id)' => Carried(id) \/ id = f.id
  <2>. DEFINE m == [conns[stream] EXCEPT !.frames = Append(@, f)]
  <2>1. stream \in DOMAIN conns /\ conns[stream] \in Conn /\ Whole(conns[stream])
    BY <1>4 DEF WireInv, WireTypes, Unbroken, None
  <2>2. /\ m \in Conn /\ Aligned(m) /\ (f # Prefix => Whole(m))
        /\ \A id : Carries(m, id) => Carries(conns[stream], id) \/ id = f.id
    BY <2>1, AppendedConn
  <2>3. conns' = [conns EXCEPT ![stream] = m]
    BY <1>4
  <2>. HIDE DEF m
  <2>4. Replaced(stream, m)
    BY <2>1, <2>2, <2>3, ConnReplaced DEF WireInv, WireTypes
  <2>5. /\ conns' \in Seq(Conn) /\ Len(conns') <= MaxConns /\ stream' \in 0..Len(conns')
        /\ FramesStayAligned' /\ Unbroken'
        /\ \A id : Carried(id)' => Carried(id) \/ Carries(m, id)
    BY <1>4, <2>1, <2>2, <2>4, ReplacedInv DEF None
  <2>. QED
    BY <1>1, <2>1, <2>2, <2>5 DEF WireInv, WireTypes, Carried
<1>5. Prefix \in Frame \cup {Prefix} /\ Prefix.id \notin Commands
  BY DEF Prefix, Commands
<1>6. CASE CommandWrite(s)
  <2>1. /\ send[s].command \in Frame /\ stream # None /\ stream' = stream
        /\ conns' = [conns EXCEPT ![stream].frames = Append(@, send[s].command)]
    BY <1>6 DEF CommandWrite, SinkTypes, SenderTyped, notifierVars
  <2>2. send[s].command # Prefix
    BY <2>1 DEF Frame, Prefix, Commands
  <2>. QED
    BY <1>1, <1>4, <1>6, <2>1, <2>2
<1>7. CASE WriteFails(s) \/ Cancel(s)
  <2>1. stream' = None
    BY <1>7, Zenon DEF WriteFails, Cancel
  <2>2. CASE UNCHANGED conns
    BY <1>1, <1>2, <2>1, <2>2
  <2>3. CASE stream # None /\ conns' = [conns EXCEPT ![stream].frames = Append(@, Prefix)]
    BY <1>1, <1>4, <1>5, <2>1, <2>3
  <2>. QED
    BY <1>7, <2>2, <2>3, Zenon DEF WriteFails, Cancel, Blocked, Partial
<1>8. CASE UNCHANGED <<conns, stream>>
  BY <1>1, <1>2, <1>8
<1>. QED
  BY <1>3, <1>6, <1>7, <1>8, Zenon DEF Sender, Send, LeaseFails, Mirror, LockNotifier, LockFails, Confirm,
     Frames, AttemptExpires, ConnectFails, listenerVars, pastSocket, notifierVars

(* A closed connection holds no frame; the one being handled may be dropped. *)
LEMMA ClosedConn ==
    ASSUME NEW k \in Conn
    PROVE  /\ LET m == [k EXCEPT !.frames = <<>>, !.alive = FALSE]
              IN  m \in Conn /\ m.frames = <<>> /\ m.handling = k.handling
           /\ LET m == [k EXCEPT !.frames = <<>>, !.alive = FALSE, !.handling = Nothing]
              IN  m \in Conn /\ m.frames = <<>> /\ m.handling = Nothing
<1>1. <<>> \in Seq(Frame \cup {Prefix}) /\ FALSE \in BOOLEAN
  OBVIOUS
<1>2. ASSUME NEW e \in Seq(Frame \cup {Prefix}), NEW a \in BOOLEAN
      PROVE  /\ LET m == [k EXCEPT !.frames = e, !.alive = a]
                IN  m \in Conn /\ m.frames = e /\ m.handling = k.handling
             /\ LET m == [k EXCEPT !.frames = e, !.alive = a, !.handling = Nothing]
                IN  m \in Conn /\ m.frames = e /\ m.handling = Nothing
  BY DEF Conn
<1>. QED
  BY <1>1, <1>2

(* A connection's task moves frames on and makes none. *)
LEMMA ConnectionWire ==
    ASSUME WireInv, NEW c \in DOMAIN conns, Connection(c)
    PROVE  /\ WireInv' /\ UNCHANGED <<sinkVars, executed>>
           /\ \A id \in Commands : Wired(id)' => Wired(id)
<1>0. UNCHANGED <<sinkVars, executed, stream>>
  BY Zenon DEF Connection, Receive, ReadEof, Enqueue, CommandDiscard, pastSocket, notifierVars
<1>1. ASSUME NEW k \in Conn, conns' = [conns EXCEPT ![c] = k], Aligned(k),
             Whole(conns[c]) \/ c # stream => Whole(k) \/ c # stream
      PROVE  /\ conns' \in Seq(Conn) /\ Len(conns') <= MaxConns /\ stream' \in 0..Len(conns')
             /\ FramesStayAligned' /\ Unbroken'
             /\ \A id : Carried(id)' => Carried(id) \/ Carries(k, id)
  <2>1. Replaced(c, k)
    BY <1>1, ConnReplaced DEF WireInv, WireTypes
  <2>2. stream' = c => Whole(k)
    BY <1>0, <1>1 DEF WireInv, Unbroken, WireTypes, None
  <2>. QED
    BY <1>0, <1>1, <2>1, <2>2, ReplacedInv
<1>2. conns[c] \in Conn /\ Aligned(conns[c])
  BY DEF WireInv, WireTypes, FramesStayAligned, Aligned
<1>3. CASE Receive(c)
  <2>1. PICK f \in Frame \cup {Nothing} :
          /\ f = Nothing \/ f = Head(conns[c].frames)
          /\ conns[c].frames # <<>> /\ conns' = Handled(c, f) /\ UNCHANGED commandQueue
    <3>1. conns[c].frames \in Seq(Frame \cup {Prefix}) /\ conns[c].frames # <<>>
      BY <1>2, <1>3 DEF Conn, Receive
    <3>2. Head(conns[c].frames) \in Frame
      BY <1>3, <3>1 DEF Receive
    <3>. QED
      BY <1>3, <3>1, <3>2, Zenon DEF Receive
  <2>. DEFINE m == [conns[c] EXCEPT !.frames = Tail(@), !.handling = f]
  <2>2. /\ m \in Conn /\ Aligned(m) /\ (Whole(conns[c]) => Whole(m))
        /\ \A id \in Commands : Carries(m, id) => Carries(conns[c], id)
    BY <1>2, <2>1, TakenConn
  <2>3. conns' = [conns EXCEPT ![c] = m]
    BY <2>1 DEF Handled
  <2>. HIDE DEF m
  <2>4. /\ conns' \in Seq(Conn) /\ Len(conns') <= MaxConns /\ stream' \in 0..Len(conns')
        /\ FramesStayAligned' /\ Unbroken'
        /\ \A id \in Commands : Carried(id)' => Carried(id)
    BY <1>1, <2>2, <2>3 DEF Carried
  <2>. QED
    BY <1>0, <2>1, <2>4 DEF WireInv, WireTypes, Wired, Queued, Executed
<1>4. CASE ReadEof(c)
  <2>. DEFINE m == [conns[c] EXCEPT !.frames = <<>>, !.alive = FALSE]
  <2>1. m \in Conn /\ m.frames = <<>> /\ m.handling = conns[c].handling
    BY <1>2, ClosedConn
  <2>2. conns' = [conns EXCEPT ![c] = m] /\ UNCHANGED commandQueue
    BY <1>4 DEF ReadEof, pastSocket
  <2>. HIDE DEF m
  <2>3. Aligned(m) /\ Whole(m) /\ \A id : Carries(m, id) => Carries(conns[c], id)
    BY <2>1 DEF Aligned, Whole, Carries
  <2>4. /\ conns' \in Seq(Conn) /\ Len(conns') <= MaxConns /\ stream' \in 0..Len(conns')
        /\ FramesStayAligned' /\ Unbroken'
        /\ \A id \in Commands : Carried(id)' => Carried(id)
    BY <1>1, <2>1, <2>2, <2>3 DEF Carried
  <2>. QED
    BY <1>0, <2>2, <2>4 DEF WireInv, WireTypes, Wired, Queued, Executed
<1>5. CASE Enqueue(c) \/ CommandDiscard(c)
  <2>. DEFINE m == [conns[c] EXCEPT !.handling = Nothing]
  <2>1. m \in Conn /\ m.frames = conns[c].frames /\ m.handling = Nothing
    BY <1>2 DEF Conn
  <2>2. conns' = [conns EXCEPT ![c] = m]
    BY <1>5 DEF Enqueue, CommandDiscard
  <2>. HIDE DEF m
  <2>3. /\ Aligned(m) /\ (Whole(conns[c]) => Whole(m))
        /\ \A id \in Commands : Carries(m, id) => Carries(conns[c], id)
    BY <1>2, <2>1 DEF Aligned, Whole, Carries, Nothing, Commands
  <2>4. /\ conns' \in Seq(Conn) /\ Len(conns') <= MaxConns /\ stream' \in 0..Len(conns')
        /\ FramesStayAligned' /\ Unbroken'
        /\ \A id \in Commands : Carried(id)' => Carried(id)
    BY <1>1, <2>1, <2>2, <2>3 DEF Carried
  <2>5. CASE UNCHANGED commandQueue
    BY <1>0, <2>4, <2>5 DEF WireInv, WireTypes, Wired, Queued, Executed
  <2>6. CASE Enqueue(c)
    <3>1. conns[c].handling \in Frame
      BY <1>2, <2>6 DEF Conn, Enqueue
    <3>2. commandQueue' = Append(commandQueue, conns[c].handling) /\ Len(commandQueue) < CommandQueueCapacity
      BY <2>6 DEF Enqueue
    <3>3. commandQueue' \in Seq(Frame) /\ Len(commandQueue') <= CommandQueueCapacity
      BY <3>1, <3>2 DEF WireInv, WireTypes
    <3>4. \A id : Queued(id)' => Queued(id) \/ Carried(id)
      BY <3>1, <3>2 DEF WireInv, WireTypes, Queued, Carried, Carries
    <3>. QED
      BY <1>0, <2>4, <3>3, <3>4 DEF WireInv, WireTypes, Wired, Executed
  <2>. QED
    BY <1>5, <2>5, <2>6 DEF CommandDiscard, pastSocket
<1>. QED
  BY <1>3, <1>4, <1>5 DEF Connection

(* The other steps make no frame either: what is executed was queued. *)
LEMMA OtherWire ==
    ASSUME WireInv, SinkTypes,
           Dispatch \/ Tick \/ BeginSwap \/ EndSwap \/ IoStops \/ Invalidate \/ Rebuild \/ AutomationRestarts
    PROVE  WireInv' /\ \A id \in Commands : Wired(id)' => Wired(id)
<1>1. ASSUME UNCHANGED <<conns, commandQueue, executed>>, stream' \in {stream, None}
      PROVE  WireInv' /\ \A id \in Commands : Wired(id)' => Wired(id)
  <2>1. WireTypes'
    BY <1>1 DEF WireInv, WireTypes, None
  <2>2. FramesStayAligned' /\ Unbroken'
    BY <1>1, Zenon DEF WireInv, FramesStayAligned, Unbroken, Whole
  <2>3. \A id \in Commands : Wired(id)' => Wired(id)
    BY <1>1, Zenon DEF Wired, Carried, Carries, Queued, Executed
  <2>. QED
    BY <2>1, <2>2, <2>3 DEF WireInv
<1>2. CASE Tick \/ BeginSwap \/ EndSwap \/ Invalidate \/ Rebuild \/ AutomationRestarts
  BY <1>1, <1>2, Zenon DEF Tick, BeginSwap, EndSwap, Invalidate, Rebuild, AutomationRestarts,
     notifierVars, listenerVars, pastSocket
<1>3. CASE IoStops
  <2>. DEFINE Closed(k) == [k EXCEPT !.frames = <<>>, !.alive = FALSE, !.handling = Nothing]
  <2>1. /\ conns' = [c \in DOMAIN conns |-> Closed(conns[c])] /\ commandQueue' = <<>>
        /\ UNCHANGED <<stream, executed>>
    BY <1>3, Zenon DEF IoStops, notifierVars
  <2>2. \A c \in DOMAIN conns : conns[c] \in Conn /\ DOMAIN conns = 1..Len(conns)
    BY DEF WireInv, WireTypes
  <2>3. \A c \in DOMAIN conns :
          Closed(conns[c]) \in Conn /\ Closed(conns[c]).frames = <<>> /\ Closed(conns[c]).handling = Nothing
    BY <2>2, ClosedConn
  <2>. HIDE DEF Closed
  <2>4. /\ conns' \in Seq(Conn) /\ Len(conns') = Len(conns) /\ DOMAIN conns' = DOMAIN conns
        /\ \A c \in DOMAIN conns : conns'[c].frames = <<>> /\ conns'[c].handling = Nothing
    <3>1. /\ conns' \in [1..Len(conns) -> Conn] /\ DOMAIN conns' = DOMAIN conns
          /\ \A c \in DOMAIN conns : conns'[c].frames = <<>> /\ conns'[c].handling = Nothing
      <4>1. DOMAIN conns = 1..Len(conns)
        BY DEF WireInv, WireTypes
      <4>. QED
        BY <2>1, <2>3, <4>1, Zenon
    <3>2. Len(conns) \in Nat
      BY DEF WireInv, WireTypes
    <3>3. conns' \in Seq(Conn) /\ Len(conns') = Len(conns)
      BY <3>1, <3>2
    <3>. QED
      BY <3>1, <3>3
  <2>5. WireTypes'
    <3>1. WireTypes /\ CommandQueueCapacity \in Nat /\ <<>> \in Seq(Frame) /\ Len(<<>>) = 0
      BY DEF WireInv
    <3>2. commandQueue' \in Seq(Frame) /\ Len(commandQueue') <= CommandQueueCapacity
      BY <2>1, <3>1
    <3>. QED
      BY <2>1, <2>4, <3>1, <3>2 DEF WireTypes
  <2>6. FramesStayAligned' /\ Unbroken'
    <3>1. FramesStayAligned'
      BY <2>4 DEF FramesStayAligned
    <3>2. stream # None => stream \in DOMAIN conns
      BY DEF WireInv, WireTypes, None
    <3>3. Unbroken'
      BY <2>1, <2>4, <3>2 DEF Unbroken, Whole
    <3>. QED
      BY <3>1, <3>3
  <2>7. \A id \in Commands : Wired(id)' => Wired(id)
    <3>1. \A id \in Commands : id # Nothing.id
      BY DEF Nothing, Commands
    <3>2. \A id \in Commands : ~Carried(id)'
      BY <2>4, <3>1 DEF Carried, Carries
    <3>3. \A id \in Commands : ~Queued(id)' /\ (Executed(id)' <=> Executed(id))
      BY <2>1 DEF Queued, Executed
    <3>. QED
      BY <3>2, <3>3 DEF Wired
  <2>. QED
    BY <2>5, <2>6, <2>7 DEF WireInv
<1>4. CASE Dispatch
  <2>1. /\ commandQueue # <<>> /\ commandQueue' = Tail(commandQueue) /\ UNCHANGED <<conns, stream, clock>>
        /\ executed' \in {executed, Append(executed, [frame |-> Head(commandQueue), at |-> clock])}
    BY <1>4 DEF Dispatch, notifierVars
  <2>2. Head(commandQueue) = commandQueue[1] /\ Head(commandQueue) \in Frame /\ 1 \in DOMAIN commandQueue
    BY <2>1 DEF WireInv, WireTypes
  <2>3. /\ commandQueue' \in Seq(Frame) /\ Len(commandQueue') <= CommandQueueCapacity
        /\ \A id : Queued(id)' => Queued(id)
    BY <2>1 DEF WireInv, WireTypes, Queued
  <2>4. /\ executed' \in Seq(Execution)
        /\ \A id : Executed(id)' => Executed(id) \/ Queued(id)
    <3>1. [frame |-> Head(commandQueue), at |-> clock] \in Execution
      BY <2>2 DEF Execution, SinkTypes
    <3>2. CASE UNCHANGED executed
      BY <3>2 DEF WireInv, WireTypes, Executed
    <3>3. CASE executed' = Append(executed, [frame |-> Head(commandQueue), at |-> clock])
      <4>1. /\ executed' \in Seq(Execution) /\ Len(executed') = Len(executed) + 1
            /\ DOMAIN executed' = 1..(Len(executed) + 1) /\ DOMAIN executed = 1..Len(executed)
            /\ executed'[Len(executed) + 1].frame = commandQueue[1]
            /\ \A i \in 1..Len(executed) : executed'[i] = executed[i]
        BY <2>2, <3>1, <3>3 DEF WireInv, WireTypes
      <4>. QED
        BY <2>2, <4>1 DEF Executed, Queued
    <3>. QED
      BY <2>1, <3>2, <3>3
  <2>5. FramesStayAligned' /\ Unbroken' /\ \A id : Carried(id)' => Carried(id)
    BY <2>1 DEF WireInv, FramesStayAligned, Unbroken, Whole, Carried, Carries
  <2>. QED
    BY <2>1, <2>3, <2>4, <2>5 DEF WireInv, WireTypes, Wired
<1>. QED
  BY <1>2, <1>3, <1>4

(* What is beyond the sender stays traceable to a command not refused. *)
LEMMA TraceableStep ==
    ASSUME PathInv, CommandNext
    PROVE  Traceable'
<1>. USE DEF PathInv
<1>1. ASSUME UNCHANGED <<issued, commandAnswer>>, \A id \in Commands : Wired(id)' => Wired(id),
             \A t \in Senders : send'[t] = send[t] \/ send'[t].pc = "idle"
      PROVE  Traceable'
  BY <1>1 DEF Traceable
<1>2. ASSUME NEW s \in Senders, Sender(s) PROVE Traceable'
  <2>1. /\ \A id \in Commands : Wired(id)' => Wired(id) \/ (CommandWrite(s) /\ id = send[s].command.id)
        /\ Traced(s)
    BY <1>2, SenderTraced, SenderWire DEF Wired, Queued, Executed
  <2>2. ASSUME NEW id \in Commands, Wired(id)
        PROVE  /\ id <= issued' /\ commandAnswer'[id] # "refused"
               /\ \A t \in Senders : send'[t].pc # "idle" /\ send'[t].command.id = id => send'[t].pc = "written"
    <3>1. /\ id <= issued /\ commandAnswer[id] # "refused" /\ id \in Nat /\ issued \in Nat
          /\ \A t \in Senders : send[t].pc # "idle" /\ send[t].command.id = id => send[t].pc = "written"
      BY <2>2 DEF Traceable, Commands, SinkTypes
    <3>2. id <= issued' /\ commandAnswer'[id] # "refused"
      <4>1. issued' \in Nat
        BY <1>2, SenderSink DEF SinkTypes
      <4>. QED
        BY <2>1, <3>1, <4>1 DEF Traced
    <3>3. ASSUME NEW t \in Senders, send'[t].pc # "idle", send'[t].command.id = id
          PROVE  send'[t].pc = "written"
      BY <2>1, <3>1, <3>3 DEF Traced
    <3>. QED
      BY <3>2, <3>3
  <2>3. ASSUME CommandWrite(s)
        PROVE  LET id == send[s].command.id
               IN  /\ id <= issued' /\ commandAnswer'[id] # "refused"
                   /\ \A t \in Senders : send'[t].pc # "idle" /\ send'[t].command.id = id => send'[t].pc = "written"
    <3>1. /\ send[s].pc = "framed" /\ Goto(s, "written") /\ UNCHANGED <<issued, commandAnswer>>
      BY <2>3 DEF CommandWrite
    <3>2. "written" \in SendPhases
      BY DEF SendPhases, Leased, Transporting
    <3>3. Alone(s) /\ send'[s].pc = "written"
      BY <3>1, <3>2, GotoKeeps
    <3>4. /\ send[s].command.id \in 1..issued /\ commandAnswer[send[s].command.id] = "none"
          /\ \A t \in Senders \ {s} : send[t].pc # "idle" => send[t].command.id # send[s].command.id
      BY <3>1 DEF Owners, Owned
    <3>. QED
      BY <3>1, <3>3, <3>4 DEF Alone, SinkTypes
  <2>. QED
    BY <2>1, <2>2, <2>3 DEF Traceable
<1>3. ASSUME NEW c \in DOMAIN conns, Connection(c) PROVE Traceable'
  BY <1>1, <1>3, ConnectionWire DEF sinkVars
<1>4. CASE AutomationRestarts
  <2>1. UNCHANGED <<issued, commandAnswer>> /\ \A t \in Senders : send'[t].pc = "idle"
    BY <1>4 DEF AutomationRestarts, Idle
  <2>. QED
    BY <1>1, <1>4, <2>1, OtherWire
<1>5. CASE Dispatch \/ Tick \/ BeginSwap \/ EndSwap \/ IoStops \/ Invalidate \/ Rebuild
  <2>1. UNCHANGED <<issued, commandAnswer, send>>
    BY <1>5, Zenon DEF Dispatch, Tick, BeginSwap, EndSwap, IoStops, Invalidate, Rebuild, sinkVars
  <2>. QED
    BY <1>1, <1>5, <2>1, OtherWire
<1>. QED
  BY <1>2, <1>3, <1>4, <1>5 DEF CommandNext

(* The channel task checks the deadline in the step that writes. *)
LEMMA NeverLateStep ==
    ASSUME PathInv, CommandNext
    PROVE  NeverLate'
<1>. USE DEF PathInv
<1>1. ASSUME UNCHANGED executed PROVE NeverLate'
  BY <1>1 DEF NeverLate
<1>2. ASSUME NEW s \in Senders, Sender(s) PROVE NeverLate'
  BY <1>1, <1>2, SenderWire
<1>3. ASSUME NEW c \in DOMAIN conns, Connection(c) PROVE NeverLate'
  BY <1>1, <1>3, ConnectionWire
<1>4. CASE Tick \/ BeginSwap \/ EndSwap \/ IoStops \/ Invalidate \/ Rebuild \/ AutomationRestarts
  BY <1>1, <1>4, Zenon DEF Tick, BeginSwap, EndSwap, IoStops, Invalidate, Rebuild, AutomationRestarts,
     listenerVars, pastSocket
<1>5. CASE Dispatch
  <2>. DEFINE x == [frame |-> Head(commandQueue), at |-> clock]
  <2>1. CASE executed' = Append(executed, x) /\ ~Expired(Head(commandQueue))
    <3>1. Head(commandQueue) \in Frame /\ clock \in 0..MaxTime
      BY <1>5 DEF Dispatch, WireInv, WireTypes, SinkTypes
    <3>2. clock < Head(commandQueue).expires
      BY <2>1, <3>1 DEF Expired, Frame
    <3>3. /\ executed \in Seq(Execution) /\ DOMAIN executed' = 1..(Len(executed) + 1)
          /\ executed'[Len(executed) + 1] = x /\ \A i \in 1..Len(executed) : executed'[i] = executed[i]
      BY <2>1 DEF WireInv, WireTypes
    <3>. QED
      BY <3>2, <3>3 DEF NeverLate
  <2>. QED
    BY <1>1, <1>5, <2>1 DEF Dispatch
<1>. QED
  BY <1>2, <1>3, <1>4, <1>5 DEF CommandNext

(* The path is sound when it starts. *)
LEMMA PathInit == CommandInit => PathInv
<1>. SUFFICES ASSUME CommandInit PROVE PathInv
  OBVIOUS
<1>. USE DEF CommandInit
<1>1. Idle \in SendState /\ Idle.pc = "idle"
  BY DEF Idle, SendState, SendPhases, None
<1>2. \A s \in Senders : send[s] = Idle /\ send[s].pc = "idle"
  BY <1>1
<1>3. SinkTypes
  <2>1. swapping \in BOOLEAN /\ ioUp \in BOOLEAN /\ ~swapping
    BY Zenon
  <2>2. send \in [Senders -> SendState] /\ \A s \in Senders : SenderTyped(s)
    BY <1>1, <1>2 DEF SenderTyped
  <2>3. commandAnswer \in [Commands -> Outcomes]
    BY DEF Outcomes
  <2>. QED
    BY <2>1, <2>2, <2>3 DEF SinkTypes
<1>4. Owners /\ MirrorIsCanonical
  BY <1>2 DEF Owners, Owned, MirrorIsCanonical, Leased, Transporting
<1>5. WireInv /\ Traceable /\ NeverLate
  BY DEF WireInv, WireTypes, FramesStayAligned, Unbroken, None, Traceable, Wired, Carried, Queued,
     Executed, NeverLate
<1>. QED
  BY <1>3, <1>4, <1>5 DEF PathInv

(* Every step keeps the path sound. *)
LEMMA PathStep == PathInv /\ [CommandNext]_commandVars => PathInv'
<1>. SUFFICES ASSUME PathInv, [CommandNext]_commandVars PROVE PathInv'
  OBVIOUS
<1>1. CASE CommandNext
  <2>1. SinkTypes' /\ Owners' /\ MirrorIsCanonical'
    BY <1>1, SinkStep, MirrorStep DEF PathInv
  <2>2. Traceable' /\ NeverLate'
    BY <1>1, TraceableStep, NeverLateStep
  <2>3. WireInv'
    BY <1>1, SenderWire, ConnectionWire, OtherWire DEF CommandNext, PathInv
  <2>. QED
    BY <2>1, <2>2, <2>3 DEF PathInv
<1>2. CASE UNCHANGED commandVars
  <2>1. /\ UNCHANGED <<clock, canonical, swapping, ioUp, current, send, commandAnswer, issued>>
        /\ UNCHANGED <<producer, nextSequence, stream, conns, commandQueue, executed>>
    BY <1>2, Zenon DEF commandVars, commandIoVars, sinkVars, notifierVars, listenerVars, pastSocket
  <2>2. SinkTypes' /\ Owners' /\ MirrorIsCanonical'
    BY <2>1 DEF PathInv, SinkTypes, SenderTyped, Owners, Owned, MirrorIsCanonical
  <2>3. WireInv' /\ NeverLate'
    BY <2>1 DEF PathInv, WireInv, WireTypes, FramesStayAligned, Unbroken, Whole, NeverLate
  <2>4. \A id : Wired(id)' <=> Wired(id)
    BY <2>1 DEF Wired, Carried, Carries, Queued, Executed
  <2>5. Traceable'
    BY <2>1, <2>4 DEF PathInv, Traceable
  <2>. QED
    BY <2>2, <2>3, <2>5 DEF PathInv
<1>. QED
  BY <1>1, <1>2

---------------------------------------------------------------------------
(* The path's state is well typed, whatever interleaving of senders,         *)
(* connections, replacements and restarts led to it: no queue outgrows its   *)
(* capacity and no call more attempts than SEND_RETRIES.                     *)
THEOREM CommandTypesHold == CommandSpec => []CommandTypeOK
<1>1. PathInv => CommandTypeOK
  <2>. SUFFICES ASSUME PathInv PROVE CommandTypeOK
    OBVIOUS
  <2>1. send \in [Senders -> [pc : {"idle", "pinned"} \cup Leased,
                              command : Command \cup Frame \cup {Nothing},
                              generation : 0..MaxGenerations,
                              attempt : 0..(SendRetries - 1)]]
    BY DEF PathInv, SinkTypes, SendState, SendPhases
  <2>2. \A c \in DOMAIN conns :
          /\ \A i \in DOMAIN conns[c].frames : conns[c].frames[i] \in Frame \cup {Prefix}
          /\ conns[c].handling \in Frame \cup {Nothing}
          /\ conns[c].producer \in 1..MaxProducers
          /\ conns[c].alive \in BOOLEAN
    <3>1. \A c \in DOMAIN conns : conns[c] \in Conn
      BY DEF PathInv, WireInv, WireTypes
    <3>2. ASSUME NEW k \in Conn
          PROVE  /\ k.frames \in Seq(Frame \cup {Prefix})
                 /\ k.handling \in Frame \cup {Nothing} /\ k.producer \in 1..MaxProducers
                 /\ k.alive \in BOOLEAN
      BY Zenon DEF Conn
    <3>. QED
      BY <3>1, <3>2
  <2>3. /\ clock \in 0..MaxTime
        /\ canonical \in 1..MaxGenerations /\ swapping \in BOOLEAN /\ ioUp \in BOOLEAN
        /\ current \in 0..MaxGenerations
        /\ commandAnswer \in [Commands -> Outcomes] /\ issued \in 0..MaxCommands
        /\ producer \in 1..MaxProducers /\ nextSequence \in 1..(SeqMod - 1)
    BY Zenon DEF PathInv, SinkTypes
  <2>4. /\ stream \in 0..Len(conns) /\ Len(conns) <= MaxConns
        /\ Len(commandQueue) <= CommandQueueCapacity
        /\ \A i \in DOMAIN commandQueue : commandQueue[i] \in Frame
    BY DEF PathInv, WireInv, WireTypes
  <2>. QED
    BY <2>1, <2>2, <2>3, <2>4, Zenon DEF CommandTypeOK
<1>. QED
  BY <1>1, PathInit, PathStep, PTL DEF CommandSpec

(* No command reaches the field bus at or after its deadline, however long    *)
(* it waited for the lease, the notifier, the socket or the queue.            *)
THEOREM CommandsAreNeverLate == CommandSpec => []NeverLate
<1>1. PathInv => NeverLate
  BY DEF PathInv
<1>. QED
  BY <1>1, PathInit, PathStep, PTL DEF CommandSpec

(* A command whose send was refused never reaches the device: every refusal   *)
(* leaves no complete frame of it in a socket, a queue or a task.             *)
THEOREM RefusedCommandsStay == CommandSpec => []RefusedNeverExecutes
<1>1. PathInv => RefusedNeverExecutes
  <2>. SUFFICES ASSUME PathInv, NEW i \in DOMAIN executed
                PROVE  commandAnswer[executed[i].frame.id] # "refused"
    BY DEF RefusedNeverExecutes
  <2>1. executed[i].frame.id \in Commands
    <3>1. executed[i] \in Execution
      BY DEF PathInv, WireInv, WireTypes
    <3>. QED
      BY <3>1 DEF Execution, Frame
  <2>2. Wired(executed[i].frame.id)
    BY DEF Wired, Executed
  <2>. QED
    BY <2>1, <2>2 DEF PathInv, Traceable
<1>. QED
  BY <1>1, PathInit, PathStep, PTL DEF CommandSpec

(* The generation a leased call mirrored into stays the canonical one, and    *)
(* nothing follows the prefix of a cancelled frame on a stream.               *)
THEOREM StreamStaysSound == CommandSpec => []StreamIsSound
<1>1. PathInv => StreamIsSound
  BY DEF PathInv, WireInv, StreamIsSound
<1>. QED
  BY <1>1, PathInit, PathStep, PTL DEF CommandSpec

=============================================================================

