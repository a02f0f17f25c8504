------------------------------ MODULE CloudLink ------------------------------
(***************************************************************************)
(* The CloudLink MQTT transport (extensions/cloudlink-mqtt/src/transport.rs) *)
(* between the CloudLink runtime and the broker. Two tasks and three queues *)
(* of the same capacity: the runtime sends messages into `outbound` and     *)
(* reads `events`; the manager task moves messages from `outbound` into the *)
(* MQTT client's request queue, polls the client and reports what it sees   *)
(* into `events`. Every one of these sends waits for room, and a task that  *)
(* waits does nothing else.                                                 *)
(***************************************************************************)
EXTENDS Naturals, Sequences, FiniteSets

CONSTANTS Backlog,       \* records the runtime offers in every session
          QueueRoom,     \* request_capacity of the configuration
          MaxConnections \* bound: connections

VARIABLES transportRuntime,    \* the CloudLink task: waiting for a connection, offering, serving
          outbound,   \* messages sent and not yet taken by the manager; 0 is a session message
          manager,    \* what the manager's select loop is in the middle of
          transportRequests,   \* the MQTT client's request queue, per connection
          waiting,    \* waiting_packet_id
          inflight,   \* packet identifiers of records not yet confirmed
          wire,       \* packets the broker has and has not confirmed
          events,     \* transport events not yet read by the runtime
          reported    \* ghost: records the broker confirmed and records reported

transportVars ==
  <<transportRuntime, outbound, manager, transportRequests, waiting, inflight, wire, events, reported>>

Packets == 1 .. Backlog + 1
Connected == "connected"
Disconnected == "disconnected"

TransportInit ==
  /\ transportRuntime = [pc |-> "waiting", next |-> 0]
  /\ outbound = <<>>
  /\ manager = [pc |-> "select", held |-> <<>>, link |-> "connecting", connection |-> 1]
  /\ transportRequests = <<>>
  /\ waiting = <<>>
  /\ inflight = <<>>
  /\ wire = <<>>
  /\ events = <<>>
  /\ reported = [confirmed |-> {}, told |-> {}]

-----------------------------------------------------------------------------
(* The runtime: on Connected it sends the session message and every record  *)
(* without looking at its events, then it serves events.                    *)

RuntimeEvent ==
  /\ transportRuntime.pc \in {"waiting", "serving"}
  /\ events # <<>>
  /\ events' = Tail(events)
  /\ LET e == Head(events)
     IN transportRuntime' = IF transportRuntime.pc = "waiting"
                     THEN IF e = <<Connected>> THEN [pc |-> "offering", next |-> 0] ELSE transportRuntime
                     ELSE IF e \in {<<Connected>>, <<Disconnected>>}
                            THEN [transportRuntime EXCEPT !.pc = "waiting"] ELSE transportRuntime
  /\ UNCHANGED <<outbound, manager, transportRequests, waiting, inflight, wire, reported>>

RuntimeSend ==
  /\ transportRuntime.pc = "offering"
  /\ Len(outbound) < QueueRoom
  /\ outbound' = Append(outbound, transportRuntime.next)
  /\ transportRuntime' = IF transportRuntime.next = Backlog THEN [transportRuntime EXCEPT !.pc = "serving"]
                ELSE [transportRuntime EXCEPT !.next = @ + 1]
  /\ UNCHANGED <<manager, transportRequests, waiting, inflight, wire, events, reported>>

-----------------------------------------------------------------------------
(* The manager: one branch of select! at a time.                            *)

Selecting == manager.pc = "select" /\ manager.link # "sleeping"

\* outbound.recv(): remember the identity, publish into the request queue.
ManagerTakes ==
  /\ Selecting
  /\ outbound # <<>>
  /\ outbound' = Tail(outbound)
  /\ waiting' = Append(waiting, Head(outbound))
  /\ manager' = [manager EXCEPT !.pc = "publish", !.held = <<Head(outbound)>>]
  /\ UNCHANGED <<transportRuntime, transportRequests, inflight, wire, events, reported>>

\* client.publish(..).await returns when the request queue has room.
ManagerPublishes ==
  /\ manager.pc = "publish"
  /\ Len(transportRequests) < QueueRoom
  /\ transportRequests' = Append(transportRequests, manager.held[1])
  /\ manager' = [manager EXCEPT !.pc = "select", !.held = <<>>]
  /\ UNCHANGED <<transportRuntime, outbound, waiting, inflight, wire, events, reported>>

\* events.send(..).await returns when the runtime's queue has room.
ManagerReports ==
  /\ manager.pc = "report"
  /\ Len(events) < QueueRoom
  /\ events' = Append(events, manager.held)
  /\ manager' = [manager EXCEPT !.held = <<>>, !.pc = "select",
                   !.link = IF manager.held = <<Disconnected>> THEN "sleeping" ELSE @]
  /\ reported' = IF Len(manager.held) = 2
                   THEN [reported EXCEPT !.told = @ \cup {manager.held[2]}] ELSE reported
  /\ UNCHANGED <<transportRuntime, outbound, transportRequests, waiting, inflight, wire>>

\* poll(): ConnAck; the subscriptions enter the empty request queue of the client.
PollConnAck ==
  /\ Selecting
  /\ manager.link = "connecting"
  /\ manager' = [manager EXCEPT !.link = "up", !.pc = "report", !.held = <<Connected>>]
  /\ UNCHANGED <<transportRuntime, outbound, transportRequests, waiting, inflight, wire, events, reported>>

FreePacket == CHOOSE k \in Packets : k \notin DOMAIN wire
Extended(f, k, v) == [j \in DOMAIN f \cup {k} |-> IF j = k THEN v ELSE f[j]]
Dropped(f, k) == [j \in DOMAIN f \ {k} |-> f[j]]

\* poll(): the client writes the next request; Outgoing::Publish names its packet,
\* which belongs to the identity that has waited longest.
PollOutgoing ==
  /\ Selecting
  /\ manager.link = "up"
  /\ transportRequests # <<>>
  /\ Packets \ DOMAIN wire # {}
  /\ transportRequests' = Tail(transportRequests)
  /\ wire' = Extended(wire, FreePacket, Head(transportRequests))
  /\ IF waiting = <<>> THEN UNCHANGED <<waiting, inflight>>
     ELSE /\ waiting' = Tail(waiting)
          /\ inflight' = IF Head(waiting) = 0 THEN inflight
                         ELSE Extended(inflight, FreePacket, Head(waiting))
  /\ UNCHANGED <<transportRuntime, outbound, manager, events, reported>>

\* poll(): PubAck of a packet the broker stored.
PollPubAck ==
  /\ Selecting
  /\ manager.link = "up"
  /\ \E k \in DOMAIN wire :
       /\ wire' = Dropped(wire, k)
       /\ reported' = [reported EXCEPT !.confirmed = @ \cup {wire[k]}]
       /\ IF k \in DOMAIN inflight
            THEN /\ inflight' = Dropped(inflight, k)
                 /\ manager' = [manager EXCEPT !.pc = "report",
                                  !.held = <<"published", inflight[k]>>]
            ELSE UNCHANGED <<inflight, manager>>
  /\ UNCHANGED <<transportRuntime, outbound, transportRequests, waiting, events>>

\* poll(): the connection is lost. The client and everything it holds go away.
PollDisconnected ==
  /\ Selecting
  /\ manager.link = "up"
  /\ manager.connection < MaxConnections
  /\ manager' = [manager EXCEPT !.pc = "report", !.held = <<Disconnected>>]
  /\ wire' = <<>>
  /\ UNCHANGED <<transportRuntime, outbound, transportRequests, waiting, inflight, events, reported>>

\* The reconnection delay has passed: a new client, new bookkeeping.
Reconnect ==
  /\ manager.pc = "select"
  /\ manager.link = "sleeping"
  /\ manager' = [manager EXCEPT !.link = "connecting", !.connection = @ + 1]
  /\ transportRequests' = <<>>
  /\ waiting' = <<>>
  /\ inflight' = <<>>
  /\ UNCHANGED <<transportRuntime, outbound, wire, events, reported>>

TransportNext ==
  \/ RuntimeEvent \/ RuntimeSend
  \/ ManagerTakes \/ ManagerPublishes \/ ManagerReports
  \/ PollConnAck \/ PollOutgoing \/ PollPubAck \/ PollDisconnected \/ Reconnect

TransportSpec == TransportInit /\ [][TransportNext]_transportVars

\* Tasks run, select! takes a ready branch at random, brokers answer.
TransportFairness ==
  /\ WF_transportVars(RuntimeEvent) /\ WF_transportVars(RuntimeSend)
  /\ SF_transportVars(ManagerTakes) /\ WF_transportVars(ManagerPublishes)
  /\ WF_transportVars(ManagerReports) /\ WF_transportVars(Reconnect)
  /\ SF_transportVars(PollConnAck) /\ SF_transportVars(PollOutgoing)
  /\ SF_transportVars(PollPubAck)

-----------------------------------------------------------------------------
\* Types of the tasks and queues; the bookkeeping matches the request queue.
TransportTypeOK ==
  /\ transportRuntime.pc \in {"waiting", "offering", "serving"}
  /\ manager.pc \in {"select", "publish", "report"}
  /\ Len(outbound) <= QueueRoom /\ Len(transportRequests) <= QueueRoom /\ Len(events) <= QueueRoom
  /\ DOMAIN inflight \subseteq Packets

\* TransportPublished names a record whose own packet the broker confirmed: packet
\* identifiers stay paired with identities through session messages, failures and
\* reconnections.
ReportedWereConfirmed == reported.told \subseteq reported.confirmed

\* A replay that started ends: the runtime gets back to reading events, with the
\* records handed over or the connection lost.
ReplayEnds == (transportRuntime.pc = "offering") ~> (transportRuntime.pc # "offering")

---------------------------------------------------------------------------
(***************************************************************************)
(* How the edge establishes a gateway-signed CloudLink session             *)
(* (services/io/src/home_assistant.rs): it sends a challenge request,      *)
(* answers the cloud's challenge with one signed hello, binds the accepted *)
(* session, completes the challenge in its ledger                          *)
(* (extensions/store-local/src/cloudlink_challenge_ledger.rs) and commits  *)
(* the session epoch, all of it retried, timed out, repeated by the cloud  *)
(* and interrupted by disconnects and crashes. Ledger and epoch file       *)
(* survive a crash. A signature is a function of what is signed, so a      *)
(* hello is the pair of its challenge and its request.                     *)
(***************************************************************************)

CONSTANTS MaxSessionRequests,    \* bound: challenge requests (nonces) drawn
          MaxChallenges,  \* bound: challenges the cloud issues
          LedgerCapacity, \* capacity of the challenge ledger
          RequestLife,    \* CLOUDLINK_CHALLENGE_REQUEST_LIFETIME_MS
          ChallengeLives, \* lifetimes the cloud gives its challenges
          MaxNow,         \* bound: clock
          MaxEvents,      \* bound: events queued for the task
          MaxLinks,       \* bound: connections
          MaxStops,       \* bound: crashes and failed writes of ledger or epoch file
          Nobody          \* absent: no request, challenge, hello

VARIABLES task,      \* the runtime's task: where it is in the handshake
          ledger,    \* the challenge ledger, on disk: records, next_completion_order
          epochFile, \* FileSessionEpochStore, on disk
          sessionInbox,     \* transport events not yet read by the task
          uplinked,  \* session messages on their way to the cloud
          sessionClock, peer, net

sessionVars == <<task, ledger, epochFile, sessionInbox, uplinked, sessionClock, peer, net>>

SessionRequest == 1 .. MaxSessionRequests
Challenge == 1 .. MaxChallenges

\* A request or challenge with its deadline; a hello with its challenge and request;
\* a record of the ledger.
Stamps == [id : Nat, until : Nat]
Hellos == Nat \X Nat
LedgerRecords == [until : Nat, request : Nat \cup {Nobody}, hello : Hellos \cup {Nobody}, order : Nat]

ASSUME SessionAssumption ==
  /\ RequestLife \in Nat /\ ChallengeLives \subseteq Nat
  /\ Nobody \notin Nat \cup Stamps \cup Hellos

SessionIdle(pc) == [pc |-> pc, request |-> Nobody, challenge |-> Nobody, hello |-> Nobody, epoch |-> 0]
Stamped(id, until) == [id |-> id, until |-> until]

SessionInit ==
  /\ task = SessionIdle("waiting")
  /\ ledger = [pending |-> Nobody, records |-> <<>>, next |-> 1]
  /\ epochFile = 0
  /\ sessionInbox = <<>>
  /\ uplinked = {}
  /\ sessionClock = 0
  /\ peer = [nonces |-> 0, issued |-> <<>>, accepted |-> <<>>, sent |-> {}]
  /\ net = [up |-> FALSE, links |-> 0, stops |-> 0, hellos |-> {}, evicted |-> {}, served |-> <<>>]

-----------------------------------------------------------------------------
(* The ledger. A record is pending (with its request and, once signed, its  *)
(* hello) or completed (with the order of completion).                      *)

Live(l) == l.pending # Nobody /\ l.pending.until > sessionClock

\* prepare_request: an unexpired request is used again as it is.
Prepared(l, fresh) ==
  IF Live(l) THEN l ELSE [l EXCEPT !.pending = Stamped(fresh, sessionClock + RequestLife)]

Kept(l) == {c \in DOMAIN l.records : l.records[c].order > 0 \/ l.records[c].until > sessionClock}
Completed(l) == {c \in DOMAIN l.records : l.records[c].order > 0}

\* The completed record that makes room for a new one, the oldest first, ...
Room(l) ==
  IF Cardinality(Kept(l)) < LedgerCapacity THEN {}
  ELSE {c \in Completed(l) : \A d \in Completed(l) : l.records[c].order <= l.records[d].order}

\* ... which may still be unexpired.
Forgets(l, c) == IF c.id \in Kept(l) THEN {} ELSE {d \in Room(l) : l.records[d].until > sessionClock}

\* reserve: may the challenge be answered with the request at hand, ...
MayReserve(l, c, request) ==
  /\ sessionClock < c.until
  /\ c.id \in Kept(l) => l.records[c.id].until = c.until /\ l.records[c.id].order = 0
  /\ Live(l)
  /\ l.pending.id = request
  /\ c.id \notin Kept(l) => Cardinality(Kept(l) \ Room(l)) < LedgerCapacity

\* ... and the ledger then: the request lives as long as the challenge.
Reserved(l, c, request) ==
  LET keep == IF c.id \in Kept(l) THEN Kept(l) ELSE Kept(l) \ Room(l)
      new == [until |-> c.until, request |-> request, hello |-> Nobody, order |-> 0]
  IN [pending |-> Stamped(l.pending.id, c.until), next |-> l.next,
      records |-> [d \in keep \cup {c.id} |->
                     IF d \in DOMAIN l.records /\ d \in keep THEN l.records[d] ELSE new]]

\* store_hello
Signed(l, id, hello) == [l EXCEPT !.records[id].hello = hello]
MaySign(l, id, hello) ==
  /\ id \in DOMAIN l.records
  /\ l.records[id].order = 0
  /\ l.records[id].hello \in {Nobody, hello}

\* complete: erase the transcript, keep the identity.
MayComplete(l, id) ==
  /\ id \in DOMAIN l.records
  /\ l.records[id].order = 0
  /\ l.records[id].hello # Nobody
  /\ l.pending # Nobody
  /\ l.pending.id = l.records[id].request
\* Mutant: completion forgets the challenge.
CompleteForgets(l, id) ==
  [pending |-> Nobody, records |-> [d \in DOMAIN l.records \ {id} |-> l.records[d]], next |-> l.next]

Complete(l, id) ==
  [pending |-> Nobody, next |-> l.next + 1,
   records |-> [l.records EXCEPT ![id].order = l.next, ![id].request = Nobody,
                                 ![id].hello = Nobody]]

-----------------------------------------------------------------------------
(* The task. Giving up returns to the outer loop, which acts on Connected   *)
(* events only.                                                             *)

GiveUp == task' = SessionIdle("waiting")
RequestMessage(r) == <<"request", r>>
HelloMessage(h) == <<"hello", h>>
Post(m) == uplinked' = uplinked \cup {m}
Told(h) == [net EXCEPT !.hellos = @ \cup {h}]
Evicts(c) == [net EXCEPT !.evicted = @ \cup Forgets(ledger, c)]

\* Outer loop: everything but Connected is dropped; Connected starts a handshake.
AwaitConnection ==
  /\ task.pc = "waiting"
  /\ sessionInbox # <<>>
  /\ sessionInbox' = Tail(sessionInbox)
  /\ IF Head(sessionInbox) # <<"connected">>
       THEN UNCHANGED <<task, ledger, uplinked, peer>>
       ELSE /\ peer.nonces < MaxSessionRequests
            /\ ledger' = Prepared(ledger, peer.nonces + 1)
            /\ peer' = [peer EXCEPT !.nonces = @ + 1]
            /\ task' = [SessionIdle("challenge") EXCEPT !.request = ledger'.pending.id]
            /\ Post(RequestMessage(ledger'.pending.id))
  /\ UNCHANGED <<epochFile, sessionClock, net>>

\* receive_cloudlink_challenge_with_retry, then verify and reserve.
AwaitChallenge ==
  /\ task.pc = "challenge"
  /\ sessionInbox # <<>>
  /\ sessionInbox' = Tail(sessionInbox)
  /\ LET e == Head(sessionInbox)
     IN \/ /\ e[1] = "connected"
           /\ UNCHANGED <<task, ledger, uplinked, net>>
        \/ /\ e[1] = "challenge"
           /\ MayReserve(ledger, e[2], task.request)
           /\ ledger' = Reserved(ledger, e[2], task.request)
           /\ LET hello == ledger'.records[e[2].id].hello
              IN IF hello = Nobody
                   THEN /\ task' = [task EXCEPT !.pc = "sign", !.challenge = e[2]]
                        /\ net' = Evicts(e[2])
                        /\ UNCHANGED uplinked
                   ELSE /\ task' = [task EXCEPT !.pc = "accept", !.challenge = e[2], !.hello = hello]
                        /\ Post(HelloMessage(hello))
                        /\ net' = Told(hello)
        \/ /\ \/ e[1] \in {"disconnected", "accepted"}
              \/ e[1] = "challenge" /\ ~MayReserve(ledger, e[2], task.request)
           /\ GiveUp
           /\ UNCHANGED <<ledger, uplinked, net>>
  /\ UNCHANGED <<epochFile, sessionClock, peer>>

\* Verify again, sign the persisted challenge and request, store the hello, send it.
SignHello ==
  /\ task.pc = "sign"
  /\ LET id == task.challenge.id
         hello == <<id, ledger.records[id].request>>
     IN IF sessionClock < task.challenge.until /\ MaySign(ledger, id, hello)
          THEN /\ ledger' = Signed(ledger, id, hello)
               /\ task' = [task EXCEPT !.pc = "accept", !.hello = hello]
               /\ Post(HelloMessage(hello))
               /\ net' = Told(hello)
          ELSE GiveUp /\ UNCHANGED <<ledger, uplinked, net>>
  /\ UNCHANGED <<epochFile, sessionInbox, sessionClock, peer>>

\* The retry timers of both receive loops.
Resend ==
  /\ \/ task.pc = "challenge" /\ Live(ledger) /\ Post(RequestMessage(task.request))
     \/ task.pc = "accept" /\ sessionClock < task.challenge.until /\ Post(HelloMessage(task.hello))
  /\ UNCHANGED <<task, ledger, epochFile, sessionInbox, sessionClock, peer, net>>

\* Their deadlines: the request's, then the challenge's.
TimeOut ==
  /\ \/ task.pc = "challenge" /\ ~Live(ledger)
     \/ task.pc = "accept" /\ sessionClock >= task.challenge.until
  /\ GiveUp
  /\ UNCHANGED <<ledger, epochFile, sessionInbox, uplinked, sessionClock, peer, net>>

\* SessionAccepted::bind: only an epoch above the committed one.
Binds(epoch) == epoch > epochFile

\* receive_gateway_session_accepted_with_retry and bind_cloudlink_session.
AwaitAccepted ==
  /\ task.pc = "accept"
  /\ sessionClock < task.challenge.until
  /\ sessionInbox # <<>>
  /\ sessionInbox' = Tail(sessionInbox)
  /\ LET e == Head(sessionInbox)
         repeated == e[1] = "challenge" /\ e[2].id = task.challenge.id
         answered == repeated /\ MayReserve(ledger, e[2], task.request)
                              /\ Reserved(ledger, e[2], task.request).records[e[2].id].hello = task.hello
     IN \/ e[1] = "connected" /\ UNCHANGED <<task, ledger, uplinked, net>>
        \/ /\ e[1] = "accepted" /\ Binds(e[2])
           /\ task' = [task EXCEPT !.pc = "complete", !.epoch = e[2]]
           /\ UNCHANGED <<ledger, uplinked, net>>
        \/ /\ answered
           /\ ledger' = Reserved(ledger, e[2], task.request)
           /\ net' = Evicts(e[2])
           /\ Post(HelloMessage(task.hello))
           /\ UNCHANGED task
        \/ /\ \/ e[1] = "disconnected"
              \/ e[1] = "accepted" /\ ~Binds(e[2])
              \/ e[1] = "challenge" /\ ~answered
           /\ GiveUp
           /\ UNCHANGED <<ledger, uplinked, net>>
  /\ UNCHANGED <<epochFile, sessionClock, peer>>

CompleteChallenge ==
  /\ task.pc = "complete"
  /\ IF MayComplete(ledger, task.challenge.id)
       THEN /\ ledger' = Complete(ledger, task.challenge.id)
            /\ task' = [task EXCEPT !.pc = "commit"]
       ELSE GiveUp /\ UNCHANGED ledger
  /\ UNCHANGED <<epochFile, sessionInbox, uplinked, sessionClock, peer, net>>

\* FileSessionEpochStore::persist, then the session is served.
CommitEpoch ==
  /\ task.pc = "commit"
  /\ epochFile' = task.epoch
  /\ task' = [task EXCEPT !.pc = "serving"]
  /\ net' = [net EXCEPT !.served = Append(@, task.epoch)]
  /\ UNCHANGED <<ledger, sessionInbox, uplinked, sessionClock, peer>>

\* Serving: a connection event of either kind ends the session.
Serve ==
  /\ task.pc = "serving"
  /\ sessionInbox # <<>>
  /\ sessionInbox' = Tail(sessionInbox)
  /\ IF Head(sessionInbox)[1] \in {"connected", "disconnected"} THEN GiveUp ELSE UNCHANGED task
  /\ UNCHANGED <<ledger, epochFile, uplinked, sessionClock, peer, net>>

-----------------------------------------------------------------------------
(* Faults, time and the other side.                                         *)

SessionStopped == net' = [net EXCEPT !.stops = @ + 1]

\* A write of the ledger or the epoch file fails; the handshake is abandoned with
\* the file as it was or, when only the directory's synchronization failed, replaced.
SessionWriteFails ==
  /\ net.stops < MaxStops
  /\ task.pc \in {"sign", "complete", "commit"}
  /\ SessionStopped
  /\ GiveUp
  /\ \/ UNCHANGED <<ledger, epochFile>>
     \/ task.pc = "commit" /\ epochFile' = task.epoch /\ UNCHANGED ledger
  /\ UNCHANGED <<sessionInbox, uplinked, sessionClock, peer>>

\* The process dies and starts again: files stay, the connection is new.
CrashRestart ==
  /\ net.stops < MaxStops
  /\ net' = [net EXCEPT !.stops = @ + 1, !.up = FALSE]
  /\ task' = SessionIdle("waiting")
  /\ sessionInbox' = <<>>
  /\ uplinked' = {}
  /\ UNCHANGED <<ledger, epochFile, sessionClock, peer>>

Connects ==
  /\ ~net.up
  /\ net.links < MaxLinks
  /\ net' = [net EXCEPT !.up = TRUE, !.links = @ + 1]
  /\ sessionInbox' = Append(sessionInbox, <<"connected">>)
  /\ UNCHANGED <<task, ledger, epochFile, uplinked, sessionClock, peer>>

Disconnects ==
  /\ net.up
  /\ net.links < MaxLinks
  /\ net' = [net EXCEPT !.up = FALSE]
  /\ sessionInbox' = Append(sessionInbox, <<"disconnected">>)
  /\ uplinked' = {}
  /\ UNCHANGED <<task, ledger, epochFile, sessionClock, peer>>

SessionTick ==
  /\ sessionClock < MaxNow
  /\ sessionClock' = sessionClock + 1
  /\ UNCHANGED <<task, ledger, epochFile, sessionInbox, uplinked, peer, net>>

Deliver(m) == net.up /\ Len(sessionInbox) < MaxEvents /\ sessionInbox' = Append(sessionInbox, m)

\* The cloud answers a request with a new challenge.
CloudChallenges ==
  /\ \E r \in SessionRequest, life \in ChallengeLives :
       /\ RequestMessage(r) \in uplinked
       /\ Len(peer.issued) < MaxChallenges
       /\ LET c == Stamped(Len(peer.issued) + 1, sessionClock + life)
          IN /\ Deliver(<<"challenge", c>>)
             /\ peer' = [peer EXCEPT !.issued = Append(@, c), !.sent = @ \cup {<<"challenge", c>>}]
       /\ uplinked' = uplinked \ {RequestMessage(r)}
  /\ UNCHANGED <<task, ledger, epochFile, sessionClock, net>>

\* The cloud accepts the first hello of a challenge under its next epoch.
CloudAccepts ==
  /\ \E h \in net.hellos :
       /\ HelloMessage(h) \in uplinked
       /\ \A i \in DOMAIN peer.accepted : peer.accepted[i] # h[1]
       /\ LET epoch == Len(peer.accepted) + 1
          IN /\ Deliver(<<"accepted", epoch>>)
             /\ peer' = [peer EXCEPT !.accepted = Append(@, h[1]),
                                     !.sent = @ \cup {<<"accepted", epoch>>}]
       /\ uplinked' = uplinked \ {HelloMessage(h)}
  /\ UNCHANGED <<task, ledger, epochFile, sessionClock, net>>

\* The cloud, or the broker for it, sends one of its messages again.
CloudRepeats ==
  /\ \E m \in peer.sent : Deliver(m)
  /\ UNCHANGED <<task, ledger, epochFile, uplinked, sessionClock, peer, net>>

SessionNext ==
  \/ AwaitConnection \/ AwaitChallenge \/ SignHello \/ Resend \/ TimeOut \/ AwaitAccepted
  \/ CompleteChallenge \/ CommitEpoch \/ Serve \/ SessionWriteFails \/ CrashRestart
  \/ Connects \/ Disconnects \/ SessionTick \/ CloudChallenges \/ CloudAccepts \/ CloudRepeats

SessionSpec == SessionInit /\ [][SessionNext]_sessionVars

-----------------------------------------------------------------------------
\* Types of the task, the ledger and the epoch file; the ledger stays in bounds.
SessionTypeOK ==
  /\ task.pc \in {"waiting", "challenge", "sign", "accept", "complete", "commit", "serving"}
  /\ ledger.pending # Nobody => ledger.pending.id \in SessionRequest
  /\ DOMAIN ledger.records \subseteq Challenge
  /\ Cardinality(DOMAIN ledger.records) <= LedgerCapacity
  /\ epochFile \in 0 .. MaxChallenges

\* A challenge is answered by one hello only, whatever is repeated, retried, crashes
\* or expires in between, and also after its session was served, as long as a full
\* ledger has not given up its completed record before it expired: the ledger holds
\* the hello before it is sent and the challenge after it is done.
OneHelloPerChallenge ==
  \A g, h \in net.hellos : g[1] = h[1] /\ g[1] \notin net.evicted => g = h

\* Sessions are served under strictly increasing epochs, across crashes too, and only
\* after the epoch is on disk.
EpochsAreFresh ==
  /\ \A i, j \in DOMAIN net.served : i < j => net.served[i] < net.served[j]
  /\ task.pc = "serving" => epochFile = task.epoch

\* Sessions of the cloud link are fresh: a reported record was confirmed by the
\* broker, a challenge gets one hello, and an epoch is never used twice.
CloudSessionsAreFresh == ReportedWereConfirmed /\ OneHelloPerChallenge /\ EpochsAreFresh
=============================================================================
