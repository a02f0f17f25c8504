----------------------------- MODULE CommandPath -----------------------------
(***************************************************************************)
(* The path of one device command from aether-automation to the device:    *)
(* ShmDeviceCommandSink::send mirrors the value into the canonical segment  *)
(* under a shared authority lease and writes a frame to the command socket  *)
(* (extensions/shm-bridge/src/command_sink.rs); ShmCommandListener drops    *)
(* expired, stale and duplicate frames and queues the rest for the channel  *)
(* (services/io/src/core/channels/shm_listener.rs); the channel task        *)
(* revalidates a command before it writes to the field bus                  *)
(* (command_guard.rs, channel_task.rs).                                     *)
(*                                                                         *)
(* A value is never looked at after PhysicalDeviceCommand::new, so a        *)
(* command is its identifier, its point and its exclusive deadline.         *)
(***************************************************************************)
EXTENDS Integers, Sequences

CONSTANTS Senders,         \* concurrent calls of send
          Points,          \* command points of one channel
          MaxCommands,     \* bound: commands issued
          TTL,             \* lifetime of a command
          MaxTime,         \* bound: readings of the host clock
          SeqMod,          \* sequences wrap at SeqMod (2^64)
          SendRetries,     \* CommandNotifier::SEND_RETRIES
          SocketCapacity,  \* frames the socket buffers before a write blocks
          CommandQueueCapacity,   \* the channel's business queue (1024)
          MaxConns,        \* bound: connections opened
          MaxGenerations,  \* bound: SHM generations published
          MaxProducers     \* bound: automation incarnations

ASSUME CommandAssumption ==
  /\ MaxCommands \in Nat /\ MaxTime \in Nat /\ TTL \in Nat \ {0}
  /\ SeqMod \in Nat \ {0, 1} /\ SendRetries \in Nat \ {0}
  /\ SocketCapacity \in Nat /\ CommandQueueCapacity \in Nat /\ MaxConns \in Nat
  /\ MaxGenerations \in Nat \ {0} /\ MaxProducers \in Nat \ {0}

VARIABLES clock,
          canonical, swapping, ioUp,       \* aether-io and its segment
          current,                         \* generation the sink has pinned
          send, commandAnswer, issued,            \* the calls of send
          producer, nextSequence, stream,  \* CommandNotifier
          conns, lastSequences, commandQueue,     \* ShmCommandListener
          executed                         \* what the field bus was told

sinkVars == <<current, send, commandAnswer, issued>>
notifierVars == <<producer, nextSequence, stream>>
commandIoVars == <<canonical, swapping, ioUp>>
pastSocket == <<lastSequences, commandQueue, executed>>
listenerVars == <<conns, pastSocket>>
commandVars == <<clock, commandIoVars, sinkVars, notifierVars, listenerVars>>

None == 0
Nothing == [id |-> 0]
Prefix == [id |-> -1]  \* the first bytes of a frame whose write was cancelled
Commands == 1..MaxCommands
Outcomes == {"none", "receipt", "refused", "unconfirmed"}

Command == [id : Commands, point : Points, expires : 1..(MaxTime + TTL)]
Frame == [id : Commands, point : Points, expires : 1..(MaxTime + TTL),
          producer : 1..MaxProducers, sequence : 1..(SeqMod - 1)]

Idle == [pc |-> "idle", command |-> Nothing, generation |-> None, attempt |-> 0]

\* The sender owns the notifier's async mutex until send returns.
Transporting == {"locked", "framed", "written"}
\* It owns the shared authority lease from the mirror until send returns.
Leased == {"mirrored"} \cup Transporting

Flight == {s \in Senders : send[s].pc # "idle"}
LeaseFree == \A s \in Senders : send[s].pc \notin Leased
MutexFree == \A s \in Senders : send[s].pc \notin Transporting

CommandTypeOK ==
  /\ clock \in 0..MaxTime
  /\ canonical \in 1..MaxGenerations /\ swapping \in BOOLEAN /\ ioUp \in BOOLEAN
  /\ current \in 0..MaxGenerations
  /\ send \in [Senders -> [pc : {"idle", "pinned"} \cup Leased,
                           command : Command \cup Frame \cup {Nothing},
                           generation : 0..MaxGenerations,
                           attempt : 0..(SendRetries - 1)]]
  /\ commandAnswer \in [Commands -> Outcomes] /\ issued \in 0..MaxCommands
  /\ producer \in 1..MaxProducers /\ nextSequence \in 1..(SeqMod - 1)
  /\ stream \in 0..Len(conns)
  /\ Len(conns) <= MaxConns
  /\ \A c \in DOMAIN conns :
       /\ \A i \in DOMAIN conns[c].frames : conns[c].frames[i] \in Frame \cup {Prefix}
       /\ conns[c].handling \in Frame \cup {Nothing}
       /\ conns[c].producer \in 1..MaxProducers
       /\ conns[c].alive \in BOOLEAN
  /\ Len(commandQueue) <= CommandQueueCapacity
  /\ \A i \in DOMAIN commandQueue : commandQueue[i] \in Frame

CommandInit ==
  /\ clock = 0
  /\ canonical = 1 /\ swapping = FALSE /\ ioUp = TRUE
  /\ current = 1
  /\ send = [s \in Senders |-> Idle]
  /\ commandAnswer = [c \in Commands |-> "none"] /\ issued = 0
  /\ producer = 1 /\ nextSequence = 1 /\ stream = None
  /\ conns = <<>>
  /\ lastSequences = [p \in Points |-> [producer |-> 0, sequence |-> 0]]
  /\ commandQueue = <<>> /\ executed = <<>>
------------------------------------------------------------------------------
\* ShmDeviceCommandSink

Expired(command) == clock >= command.expires

Answer(s, outcome) ==
  /\ commandAnswer' = [commandAnswer EXCEPT ![send[s].command.id] = outcome]
  /\ send' = [send EXCEPT ![s] = Idle]

Goto(s, pc) == send' = [send EXCEPT ![s].pc = pc]

\* validate_authority: the sink still publishes the pinned generation and its
\* file is the canonical one, stably published. Nothing republishes the sink
\* while a command is in flight (Rebuild takes the command gate), so `current`
\* equals a pinned generation exactly when it is the same Arc.
Authoritative(s) == current = send[s].generation /\ send[s].generation = canonical

\* validate_authority answers an error: a stale generation is dropped.
Unauthoritative(s, outcome) ==
  /\ ~Authoritative(s)
  /\ current' = IF current = send[s].generation THEN None ELSE current
  /\ Answer(s, outcome)
  /\ UNCHANGED issued

\* A command with its deadline enters send, which pins the published generation.
Send(s, p) ==
  /\ send[s] = Idle /\ issued < MaxCommands
  /\ issued' = issued + 1
  /\ IF current = None
       THEN commandAnswer' = [commandAnswer EXCEPT ![issued + 1] = "refused"] /\ UNCHANGED send
       ELSE /\ send' = [send EXCEPT ![s] =
                 [pc |-> "pinned", generation |-> current, attempt |-> 0,
                  command |-> [id |-> issued + 1, point |-> p, expires |-> clock + TTL]]]
            /\ UNCHANGED commandAnswer
  /\ UNCHANGED <<clock, commandIoVars, current, notifierVars, listenerVars>>

\* acquire_authority gives up: the deadline passed or the replacement took 350 ms.
LeaseFails(s) ==
  /\ send[s].pc = "pinned" /\ swapping
  /\ Answer(s, "refused")
  /\ UNCHANGED <<clock, commandIoVars, current, issued, notifierVars, listenerVars>>

\* The lease is taken, the authority checked, the point's slot looked up and
\* the value mirrored. A manifest without the point refuses the command.
Mirror(s) ==
  /\ send[s].pc = "pinned" /\ ~swapping
  /\ \/ Authoritative(s) /\ Goto(s, "mirrored") /\ UNCHANGED <<current, commandAnswer, issued>>
     \/ Authoritative(s) /\ Answer(s, "refused") /\ UNCHANGED <<current, issued>>
     \/ Unauthoritative(s, "refused")
  /\ UNCHANGED <<clock, commandIoVars, notifierVars, listenerVars>>

\* Mutant of LockNotifier: the notifier is used without its mutex
LockNotifierShared(s) ==
  /\ send[s].pc = "mirrored" /\ ~Expired(send[s].command)
  /\ Goto(s, "locked")
  /\ UNCHANGED <<clock, commandIoVars, current, commandAnswer, issued, notifierVars, listenerVars>>

\* After the mirror send checks the authority, waits for the notifier, and
\* checks the deadline and the authority again. (The check before the wait
\* fails only where the one after it fails as well.)
LockNotifier(s) ==
  /\ send[s].pc = "mirrored"
  /\ \/ /\ MutexFree /\ ~Expired(send[s].command) /\ Authoritative(s)
        /\ Goto(s, "locked")
        /\ UNCHANGED <<current, commandAnswer, issued>>
     \/ /\ MutexFree /\ Expired(send[s].command)
        /\ Answer(s, "refused") /\ UNCHANGED <<current, issued>>
     \/ Unauthoritative(s, "refused")
  /\ UNCHANGED <<clock, commandIoVars, notifierVars, listenerVars>>

\* notifier.lock() takes 100 ms.
LockFails(s) ==
  /\ send[s].pc = "mirrored" /\ ~MutexFree
  /\ Answer(s, "refused")
  /\ UNCHANGED <<clock, commandIoVars, current, issued, notifierVars, listenerVars>>

\* The last check, then the receipt.
Confirm(s) ==
  /\ send[s].pc = "written"
  /\ \/ Authoritative(s) /\ Answer(s, "receipt") /\ UNCHANGED <<current, issued>>
     \/ Unauthoritative(s, "unconfirmed")
  /\ UNCHANGED <<clock, commandIoVars, notifierVars, listenerVars>>
------------------------------------------------------------------------------
\* CommandNotifier, called by the sender that owns its mutex

NextSequence(n) == IF (n + 1) % SeqMod = 0 THEN 1 ELSE (n + 1) % SeqMod

\* notify gives the command its sequence and encodes the frame once.
Frames(s) ==
  /\ send[s].pc = "locked"
  /\ \/ /\ ~Expired(send[s].command)
        /\ send' = [send EXCEPT ![s].pc = "framed",
             ![s].command = [id |-> @.id, point |-> @.point, expires |-> @.expires,
                             producer |-> producer, sequence |-> nextSequence]]
        /\ nextSequence' = NextSequence(nextSequence)
        /\ UNCHANGED commandAnswer
     \/ /\ Expired(send[s].command)
        /\ Answer(s, "refused") /\ UNCHANGED nextSequence
  /\ UNCHANGED <<clock, commandIoVars, current, issued, producer, stream, listenerVars>>

\* An attempt finds the deadline passed.
AttemptExpires(s) ==
  /\ send[s].pc = "framed" /\ Expired(send[s].command)
  /\ Answer(s, "refused")
  /\ UNCHANGED <<clock, commandIoVars, current, issued, notifierVars, listenerVars>>

\* try_reconnect finds the listener.
Connect(s) ==
  /\ send[s].pc \in {"locked", "framed"} /\ stream = None
  /\ ioUp /\ Len(conns) < MaxConns
  /\ conns' = Append(conns, [frames |-> <<>>, alive |-> TRUE, handling |-> Nothing,
                             producer |-> producer])
  /\ stream' = Len(conns')
  /\ UNCHANGED <<clock, commandIoVars, sinkVars, producer, nextSequence, pastSocket>>

\* try_reconnect times out, or is refused or backing off and leaves no stream.
ConnectFails(s) ==
  /\ send[s].pc = "framed" /\ stream = None
  /\ Answer(s, "refused")
  /\ UNCHANGED <<clock, commandIoVars, current, issued, notifierVars, listenerVars>>

\* write_all hands the whole frame to the socket.
CommandWrite(s) ==
  /\ send[s].pc = "framed" /\ ~Expired(send[s].command) /\ stream # None
  /\ conns[stream].alive /\ Len(conns[stream].frames) < SocketCapacity
  /\ conns' = [conns EXCEPT ![stream].frames = Append(@, send[s].command)]
  /\ Goto(s, "written")
  /\ UNCHANGED <<clock, commandIoVars, current, commandAnswer, issued, notifierVars, pastSocket>>

\* The frame did not fit: the socket may hold a prefix of it.
Blocked == stream # None /\ conns[stream].alive /\ Len(conns[stream].frames) >= SocketCapacity
Partial == conns' \in {conns, [conns EXCEPT ![stream].frames = Append(@, Prefix)]}

\* Mutant of WriteFails: an error is answered for a frame that was written
WriteFailsWhole(s) ==
  /\ send[s].pc = "framed" /\ stream # None
  /\ conns[stream].alive /\ Len(conns[stream].frames) < SocketCapacity
  /\ conns' = [conns EXCEPT ![stream].frames = Append(@, send[s].command)]
  /\ stream' = None
  /\ IF send[s].attempt + 1 < SendRetries
       THEN send' = [send EXCEPT ![s].attempt = @ + 1] /\ UNCHANGED commandAnswer
       ELSE Answer(s, "refused")
  /\ UNCHANGED <<clock, commandIoVars, current, issued, producer, nextSequence, pastSocket>>

\* A write fails or takes 100 ms. The notifier drops the stream and tries the
\* same frame again, or gives up after SEND_RETRIES attempts.
WriteFails(s) ==
  /\ send[s].pc = "framed" /\ stream # None
  /\ \/ Blocked /\ Partial
     \/ ~conns[stream].alive /\ UNCHANGED conns
  /\ stream' = None
  /\ IF send[s].attempt + 1 < SendRetries
       THEN send' = [send EXCEPT ![s].attempt = @ + 1] /\ UNCHANGED commandAnswer
       ELSE Answer(s, "refused")
  /\ UNCHANGED <<clock, commandIoVars, current, issued, producer, nextSequence, pastSocket>>

\* Mutant of Cancel: the stream survives a cancelled write
CancelKeepsStream(s) ==
  /\ \/ send[s].pc \in {"locked", "framed"} /\ stream = None /\ UNCHANGED conns
     \/ send[s].pc = "framed" /\ Blocked /\ Partial
  /\ Answer(s, "refused")
  /\ UNCHANGED <<clock, commandIoVars, current, issued, notifierVars, pastSocket>>

\* notify exceeds its 350 ms while it connects or writes: the future is dropped,
\* perhaps in the middle of a frame, and the stream with it.
Cancel(s) ==
  /\ \/ send[s].pc \in {"locked", "framed"} /\ stream = None /\ UNCHANGED conns
     \/ send[s].pc = "framed" /\ Blocked /\ Partial
  /\ stream' = None
  /\ Answer(s, "refused")
  /\ UNCHANGED <<clock, commandIoVars, current, issued, producer, nextSequence, pastSocket>>
------------------------------------------------------------------------------
\* ShmCommandListener: one task per connection

Distance(a, b) == (a + SeqMod - b) % SeqMod

\* Same producer, and not newer by wrapping comparison (stale or duplicate).
Superseded(f) ==
  LET last == lastSequences[f.point]
  IN  /\ last.producer = f.producer
      /\ \/ Distance(f.sequence, last.sequence) > SeqMod \div 2 - 1
         \/ f.sequence = last.sequence

Handled(c, f) == [conns EXCEPT ![c].frames = Tail(@), ![c].handling = f]

\* handle_notification up to the sequence entry: an expired, stale or duplicate
\* frame is dropped, any other becomes the point's last and goes on.
Receive(c) ==
  /\ conns[c].handling = Nothing
  /\ conns[c].frames # <<>> /\ Head(conns[c].frames) # Prefix
  /\ LET f == Head(conns[c].frames)
     IN  IF Expired(f) \/ Superseded(f)
           THEN conns' = Handled(c, Nothing) /\ UNCHANGED lastSequences
           ELSE /\ conns' = Handled(c, f)
                /\ lastSequences' = [lastSequences EXCEPT ![f.point] =
                     [producer |-> f.producer, sequence |-> f.sequence]]
  /\ UNCHANGED <<clock, commandIoVars, sinkVars, notifierVars, commandQueue, executed>>

\* read_exact meets the end of a stream its writer left in the middle of a frame.
ReadEof(c) ==
  /\ conns[c].handling = Nothing /\ c # stream
  /\ conns[c].frames # <<>> /\ Head(conns[c].frames) = Prefix
  /\ conns' = [conns EXCEPT ![c].frames = <<>>, ![c].alive = FALSE]
  /\ UNCHANGED <<clock, commandIoVars, sinkVars, notifierVars, pastSocket>>

\* Mutant of Enqueue: the queue has no capacity
EnqueueUnbounded(c) ==
  /\ conns[c].handling # Nothing
  /\ commandQueue' = Append(commandQueue, conns[c].handling)
  /\ conns' = [conns EXCEPT ![c].handling = Nothing]
  /\ UNCHANGED <<clock, commandIoVars, sinkVars, notifierVars, lastSequences, executed>>

\* The accepted frame enters the channel's queue. Another connection's task may
\* run between the sequence entry and the queue.
Enqueue(c) ==
  /\ conns[c].handling # Nothing /\ Len(commandQueue) < CommandQueueCapacity
  /\ commandQueue' = Append(commandQueue, conns[c].handling)
  /\ conns' = [conns EXCEPT ![c].handling = Nothing]
  /\ UNCHANGED <<clock, commandIoVars, sinkVars, notifierVars, lastSequences, executed>>

\* The value is invalid, the queue stays full for 50 ms, or the channel is
\* closed or not registered.
CommandDiscard(c) ==
  /\ conns[c].handling # Nothing
  /\ conns' = [conns EXCEPT ![c].handling = Nothing]
  /\ UNCHANGED <<clock, commandIoVars, sinkVars, notifierVars, pastSocket>>
------------------------------------------------------------------------------
\* The channel task

\* Mutant of Dispatch: the deadline is not checked before the write
DispatchUnguarded ==
  /\ commandQueue # <<>>
  /\ commandQueue' = Tail(commandQueue)
  /\ executed' = Append(executed, [frame |-> Head(commandQueue), at |-> clock])
  /\ UNCHANGED <<clock, commandIoVars, sinkVars, notifierVars, conns, lastSequences>>

\* handle_business_command: CommandGuard::validate, then the protocol's write.
\* An expired command is dropped, and so is one outside the point's policy.
Dispatch ==
  /\ commandQueue # <<>>
  /\ commandQueue' = Tail(commandQueue)
  /\ \/ ~Expired(Head(commandQueue)) /\ executed' = Append(executed, [frame |-> Head(commandQueue), at |-> clock])
     \/ UNCHANGED executed
  /\ UNCHANGED <<clock, commandIoVars, sinkVars, notifierVars, conns, lastSequences>>
------------------------------------------------------------------------------
\* The processes around the path

Tick == clock < MaxTime /\ clock' = clock + 1
        /\ UNCHANGED <<commandIoVars, sinkVars, notifierVars, listenerVars>>

\* aether-io takes the exclusive lease to publish a generation.
BeginSwap ==
  /\ ~swapping /\ LeaseFree /\ canonical < MaxGenerations
  /\ swapping' = TRUE
  /\ UNCHANGED <<clock, canonical, ioUp, sinkVars, notifierVars, listenerVars>>

EndSwap ==
  /\ swapping
  /\ swapping' = FALSE /\ canonical' = canonical + 1 /\ ioUp' = TRUE
  /\ UNCHANGED <<clock, sinkVars, notifierVars, listenerVars>>

\* aether-io stops: its connections, sequences and queues go with it.
IoStops ==
  /\ ioUp /\ ~swapping /\ canonical < MaxGenerations
  /\ ioUp' = FALSE
  /\ conns' = [c \in DOMAIN conns |->
       [conns[c] EXCEPT !.frames = <<>>, !.alive = FALSE, !.handling = Nothing]]
  /\ lastSequences' = [p \in Points |-> [producer |-> 0, sequence |-> 0]]
  /\ commandQueue' = <<>>
  /\ UNCHANGED <<clock, canonical, swapping, sinkVars, notifierVars, executed>>

\* The inode watcher invalidates whatever the sink publishes.
Invalidate ==
  /\ current # None
  /\ current' = None
  /\ UNCHANGED <<clock, commandIoVars, send, commandAnswer, issued, notifierVars, listenerVars>>

\* refresh: the command gate excludes commands in flight, and the candidate is
\* validated under the authority lease.
Rebuild ==
  /\ Flight = {} /\ ~swapping /\ current # canonical
  /\ current' = canonical
  /\ UNCHANGED <<clock, commandIoVars, send, commandAnswer, issued, notifierVars, listenerVars>>

\* aether-automation restarts: the calls in flight are never answered, the
\* frames in its sockets stay readable, and the producer is a new one.
AutomationRestarts ==
  /\ producer < MaxProducers
  /\ producer' = producer + 1 /\ nextSequence' = 1 /\ stream' = None
  /\ send' = [s \in Senders |-> Idle]
  /\ current' = None
  /\ UNCHANGED <<clock, commandIoVars, commandAnswer, issued, listenerVars>>

Sender(s) ==
  \/ \E p \in Points : Send(s, p)
  \/ LeaseFails(s) \/ Mirror(s) \/ LockNotifier(s) \/ LockFails(s) \/ Confirm(s)
  \/ Frames(s) \/ AttemptExpires(s) \/ Connect(s) \/ ConnectFails(s)
  \/ CommandWrite(s) \/ WriteFails(s) \/ Cancel(s)

Connection(c) == Receive(c) \/ ReadEof(c) \/ Enqueue(c) \/ CommandDiscard(c)

CommandNext ==
  \/ \E s \in Senders : Sender(s)
  \/ \E c \in DOMAIN conns : Connection(c)
  \/ Dispatch \/ Tick
  \/ BeginSwap \/ EndSwap \/ IoStops \/ Invalidate \/ Rebuild \/ AutomationRestarts

CommandSpec == CommandInit /\ [][CommandNext]_commandVars
------------------------------------------------------------------------------
(* A command reaches the field bus only before its exclusive deadline,      *)
(* however long it waited for the lease, the notifier, the socket, the      *)
(* listener or the channel's queue (command_sink.rs send,                   *)
(* shm_listener.rs handle_notification, channel_task.rs                     *)
(* handle_business_command).                                                *)
NeverLate == \A i \in DOMAIN executed : executed[i].at < executed[i].frame.expires

(* A command whose send answered an error never reaches the device, except  *)
(* where the authority was lost after the frame was written: every other    *)
(* error path of send and notify leaves no complete frame in a socket.      *)
RefusedNeverExecutes == \A i \in DOMAIN executed : commandAnswer[executed[i].frame.id] # "refused"

(* While send holds the lease, the generation it mirrored into is the       *)
(* canonical one: io cannot replace the segment under a command, and a      *)
(* receipt never stands for a value written to an abandoned file.           *)
MirrorIsCanonical ==
  \A s \in Senders : send[s].pc \in Leased =>
     send[s].generation = canonical /\ ~swapping

(* Nothing is written after the prefix of a cancelled frame, so the         *)
(* listener's 56-byte reads never straddle two frames (command_sink.rs send, *)
(* on the notify timeout).                                                  *)
FramesStayAligned ==
  \A c \in DOMAIN conns : \A i \in DOMAIN conns[c].frames :
     conns[c].frames[i] = Prefix => i = Len(conns[c].frames)

(* What a sender mirrored went to the canonical segment, and the stream its *)
(* frame went to carries whole frames.                                      *)
StreamIsSound == FramesStayAligned /\ MirrorIsCanonical

(* On the only stream a producer opened, no unread frame is older than the  *)
(* one its point last accepted from that producer: the notifier's mutex     *)
(* numbers and writes frames in one order, so the listener's stale check    *)
(* only ever drops a command whose stream was replaced.                     *)
OneStreamNeverStale ==
  \A c \in DOMAIN conns : \A i \in DOMAIN conns[c].frames :
     /\ conns[c].frames[i] # Prefix
     /\ \A d \in DOMAIN conns \ {c} : conns[d].producer # conns[c].producer
     => ~Superseded(conns[c].frames[i])

(* Within one producer the listener drops a stale frame, so the device      *)
(* never sees a point's older command after its newer one.                  *)
StaleNeverExecutes ==
  \A i, j \in DOMAIN executed :
     /\ i < j
     /\ executed[i].frame.point = executed[j].frame.point
     /\ executed[i].frame.producer = executed[j].frame.producer
     => executed[i].frame.sequence < executed[j].frame.sequence
==============================================================================
