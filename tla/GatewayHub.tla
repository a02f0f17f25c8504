----------------------------- MODULE GatewayHub -----------------------------
(***************************************************************************)
(* The WebSocket hub of the API gateway.  A connection registers a handle  *)
(* under its client id and subscribes; one task pushes live values to the  *)
(* registered clients on a timer and whenever a watched point changes;     *)
(* another pings every client and removes the inactive ones.               *)
(*                                                                         *)
(* The hub is keyed by client id and every part of a connection (its send  *)
(* task, its receive task, the push task) looks the id up again each time, *)
(* so what it finds may be gone or may be another connection's handle.     *)
(***************************************************************************)
EXTENDS Integers, Sequences, FiniteSets
LOCAL INSTANCE SequencesExt

CONSTANTS
  Conns,          \* connections made, in any order
  ClientIdOf,     \* [Conns -> client ids]: a client may reuse its id
  HubSlots,       \* live points
  PageSlots,      \* the formulas a homepage row may have
  Inactive,       \* cleanup_inactive: ticks without activity
  MaxValue,       \* values a point takes
  MaxTexts,       \* text frames a client sends
  NoConn          \* no handle

VARIABLES
  conn,         \* per connection: its tasks and its handle
  hub,          \* WsHub::clients: the handle registered under each id
  homepage,     \* slots of the calculated_points rows
  live,         \* live value of each slot
  bitmap,       \* the gateway's PointWatch subscription bitmap
  watchEvents,  \* PointWatch events not yet taken by the push task
  push,         \* the push round in progress
  quiet         \* heartbeats since the peer was last heard, in any kind of frame

hubVars == <<conn, hub, homepage, live, bitmap, watchEvents, push, quiet>>

ClientIds == {ClientIdOf[c] : c \in Conns}
NoSubscription == [source |-> "inst", slots |-> {}]
NoPush == [todo |-> {}, id |-> NoConn, sends |-> {}]
NewConn == [pc |-> "new", sub |-> NoSubscription, idle |-> 0, asked |-> {},
            shown |-> [s \in HubSlots |-> 0], texts |-> 0, loaded |-> {}]
Ended == [NewConn EXCEPT !.pc = "gone"]

HubInit ==
  /\ conn = [c \in Conns |-> NewConn]
  /\ hub = [i \in ClientIds |-> NoConn]
  /\ homepage = HubSlots
  /\ live = [s \in HubSlots |-> 1]
  /\ bitmap = {} /\ watchEvents = {} /\ push = NoPush
  /\ quiet = [c \in Conns |-> 0]

Registered(c) == hub[ClientIdOf[c]] # NoConn

-----------------------------------------------------------------------------
(* A connection.                                                            *)

\* The handle replaces whatever is registered under the id; the channel of a
\* replaced handle closes.
Registers(c) ==
  /\ conn[c].pc = "new"
  /\ hub' = [hub EXCEPT ![ClientIdOf[c]] = c]
  /\ conn' = [conn EXCEPT ![c].pc = "welcome", ![c].idle = 0]
  /\ quiet' = [quiet EXCEPT ![c] = 0]
  /\ UNCHANGED <<homepage, live, bitmap, watchEvents, push>>

Deregistered(c) == [hub EXCEPT ![ClientIdOf[c]] = NoConn]

\* The welcome is written to the socket before the tasks start.
Welcomes(c) ==
  /\ conn[c].pc = "welcome"
  /\ \/ /\ conn' = [conn EXCEPT ![c].pc = "open"]
        /\ UNCHANGED hub
     \/ /\ conn' = [conn EXCEPT ![c] = Ended]
        /\ hub' = Deregistered(c)
  /\ UNCHANGED <<homepage, live, bitmap, watchEvents, push, quiet>>

\* update_activity touches the handle found under the id.
Touched(c) ==
  IF Registered(c) THEN [conn EXCEPT ![hub[ClientIdOf[c]]].idle = 0] ELSE conn

\* A text frame of any kind: ping, unknown, refused control, invalid JSON.
SendsText(c) ==
  /\ conn[c].pc = "open" /\ conn[c].texts < MaxTexts
  /\ conn' = [Touched(c) EXCEPT ![c].texts = @ + 1]
  /\ quiet' = [quiet EXCEPT ![c] = 0]
  /\ UNCHANGED <<hub, homepage, live, bitmap, watchEvents, push>>

\* The automatic answer to a ping frame is received and ignored.
AnswersPing(c) ==
  /\ conn[c].pc = "open" /\ quiet[c] > 0
  /\ quiet' = [quiet EXCEPT ![c] = 0]
  /\ UNCHANGED <<conn, hub, homepage, live, bitmap, watchEvents, push>>

\* Subscribing to the homepage loads its rows once; the subscription is written
\* to the handle found under the id.
HomepageRows == homepage

BeginsSubscribe(c) ==
  /\ conn[c].pc = "open" /\ conn[c].texts < MaxTexts
  /\ conn' = [Touched(c) EXCEPT ![c].texts = @ + 1, ![c].pc = "loading", ![c].loaded = HomepageRows]
  /\ quiet' = [quiet EXCEPT ![c] = 0]
  /\ UNCHANGED <<hub, homepage, live, bitmap, watchEvents, push>>

UpdateSubscription(c, sub) ==
  IF Registered(c) THEN [conn EXCEPT ![hub[ClientIdOf[c]]].sub = sub, ![c].pc = "open"]
  ELSE [conn EXCEPT ![c].pc = "open"]

\* Standard subscriptions name owners and data types, the homepage takes the
\* loaded rows, a rule subscription watches no point; unsubscribing empties it.
Subscriptions(c) ==
  {[source |-> "inst", slots |-> ss] : ss \in SUBSET HubSlots}
    \cup {[source |-> "homepage", slots |-> conn[c].loaded], [source |-> "rule", slots |-> {}]}

HubSubscribes(c) ==
  /\ conn[c].pc = "loading"
  /\ \E sub \in Subscriptions(c) :
       conn' = [UpdateSubscription(c, sub) EXCEPT ![c].asked = sub.slots, ![c].loaded = {}]
  /\ UNCHANGED <<hub, homepage, live, bitmap, watchEvents, push, quiet>>

\* The peer closes, or the channel of the handle closed because the id was
\* removed or taken over: either task ends the other.
Closes(c) ==
  /\ conn[c].pc \in {"open", "loading"}
  /\ conn' = [conn EXCEPT ![c].pc = "closing"]
  /\ UNCHANGED <<hub, homepage, live, bitmap, watchEvents, push, quiet>>

ChannelCloses(c) ==
  /\ hub[ClientIdOf[c]] # c /\ Closes(c)

\* handle_socket ends by removing whatever its id holds.
Leaves(c) ==
  /\ conn[c].pc = "closing"
  /\ conn' = [conn EXCEPT ![c] = Ended]
  /\ hub' = Deregistered(c)
  /\ UNCHANGED <<homepage, live, bitmap, watchEvents, push, quiet>>

-----------------------------------------------------------------------------
(* Background tasks.                                                        *)

InactiveIds ==
  {i \in ClientIds : hub[i] # NoConn /\ conn[hub[i]].idle > Inactive}

\* The next heartbeat interval: a count past the limit is as good as the next.
Aged(n) == IF n > Inactive THEN n ELSE n + 1

\* Every handle is pinged, then the inactive ones are removed.
Heartbeat ==
  /\ hub' = [i \in ClientIds |-> IF i \in InactiveIds THEN NoConn ELSE hub[i]]
  /\ conn' = [c \in Conns |-> IF conn[c].pc \in {"new", "gone"} THEN conn[c]
                              ELSE [conn[c] EXCEPT !.idle = Aged(@)]]
  /\ quiet' = [c \in Conns |-> IF conn[c].pc \in {"new", "gone"} THEN 0 ELSE Aged(quiet[c])]
  /\ UNCHANGED <<homepage, live, bitmap, watchEvents, push>>

PointChanges(s) ==
  /\ live[s] < MaxValue
  /\ live' = [live EXCEPT ![s] = @ + 1]
  /\ watchEvents' \in {watchEvents, watchEvents \cup ({s} \cap bitmap)}
  /\ UNCHANGED <<conn, hub, homepage, bitmap, push, quiet>>

\* PUT and reset of the calculated points.
HomepageEdits ==
  /\ homepage' \in PageSlots /\ homepage' # homepage
  /\ UNCHANGED <<conn, hub, live, bitmap, watchEvents, push, quiet>>

WatchedSlots(c) == IF conn[c].sub.source = "rule" THEN {} ELSE conn[c].sub.slots
AllWatched == UNION {WatchedSlots(hub[i]) : i \in {j \in ClientIds : hub[j] # NoConn}}
ClientsWatching(changed) ==
  {i \in ClientIds : hub[i] # NoConn /\ WatchedSlots(hub[i]) \cap changed # {}}

\* The timer rebuilds the bitmap and serves every client.
PushTick ==
  /\ push = NoPush
  /\ bitmap' = AllWatched
  /\ push' = [NoPush EXCEPT !.todo = {i \in ClientIds : hub[i] # NoConn}]
  /\ UNCHANGED <<conn, hub, homepage, live, watchEvents, quiet>>

\* Events are debounced into one batch that serves the clients watching them.
PushEvents ==
  /\ push = NoPush /\ watchEvents # {}
  /\ push' = [NoPush EXCEPT !.todo = ClientsWatching(watchEvents)]
  /\ watchEvents' = {}
  /\ UNCHANGED <<conn, hub, homepage, live, bitmap, quiet>>

\* One client: its subscription is copied and its values are read; a client that
\* left or subscribes to nothing is skipped.
PushReads ==
  /\ push.id = NoConn
  /\ \E i \in push.todo :
       push' = IF hub[i] = NoConn \/ WatchedSlots(hub[i]) = {}
               THEN [push EXCEPT !.todo = @ \ {i}]
               ELSE [todo |-> push.todo \ {i}, id |-> i,
                     sends |-> {<<s, live[s]>> : s \in WatchedSlots(hub[i])}]
  /\ UNCHANGED <<conn, hub, homepage, live, bitmap, watchEvents, quiet>>

\* send_to looks the id up again.
PushSends ==
  /\ push.id # NoConn
  /\ push' = [push EXCEPT !.id = NoConn, !.sends = {}]
  /\ conn' = IF hub[push.id] = NoConn THEN conn
             ELSE [conn EXCEPT ![hub[push.id]].shown =
                     [s \in HubSlots |->
                        IF \E v \in 1..MaxValue : <<s, v>> \in push.sends
                        THEN CHOOSE v \in 1..MaxValue : <<s, v>> \in push.sends
                        ELSE @[s]]]
  /\ UNCHANGED <<hub, homepage, live, bitmap, watchEvents, quiet>>

-----------------------------------------------------------------------------

Connecting ==
  \E c \in Conns : Registers(c) \/ Welcomes(c) \/ SendsText(c) \/ BeginsSubscribe(c)
                   \/ HubSubscribes(c) \/ Closes(c) \/ ChannelCloses(c) \/ Leaves(c)
Pinging == Heartbeat \/ \E c \in Conns : AnswersPing(c)
Pushing ==
  \/ HomepageEdits \/ \E s \in HubSlots : PointChanges(s)
  \/ PushTick \/ PushEvents \/ PushReads \/ PushSends

HubNext == Connecting \/ Pinging \/ Pushing

HubSpec == HubInit /\ [][HubNext]_hubVars

\* The push timer fires for ever and a round runs to its end; the tasks of a
\* connection whose channel closed end it.
HubFairness ==
  /\ WF_hubVars(PushTick) /\ WF_hubVars(PushReads) /\ WF_hubVars(PushSends)
  /\ \A c \in Conns : WF_hubVars(Leaves(c)) /\ WF_hubVars(Welcomes(c)) /\ WF_hubVars(ChannelCloses(c))
                      /\ WF_hubVars(HubSubscribes(c))

-----------------------------------------------------------------------------

HubTypeOK ==
  /\ \A c \in Conns : conn[c].pc \in {"new", "welcome", "open", "loading", "closing", "gone"}
  /\ hub \in [ClientIds -> Conns \cup {NoConn}]
  /\ bitmap \subseteq HubSlots /\ watchEvents \subseteq bitmap \cup HubSlots
  /\ quiet \in [Conns -> 0..(Inactive + 1)]

\* A registered handle subscribes to what its own connection last asked for, so
\* nobody is served another client's points.
OwnSubscription ==
  \A c \in Conns : conn[c].pc = "open" /\ hub[ClientIdOf[c]] = c => conn[c].sub.slots = conn[c].asked

\* A connection that ended leaves no handle behind to push to.
GoneIsForgotten == \A i \in ClientIds : hub[i] # NoConn => conn[hub[i]].pc # "gone"

\* The heartbeat comment says the browser's automatic Pong is all that keeps a
\* connection alive: a peer that was heard within the limit is not removed.
ListenersStay ==
  [][\A i \in ClientIds : hub[i] # NoConn /\ hub'[i] = NoConn /\ conn'[hub[i]].pc = "open"
        => quiet[hub[i]] > Inactive]_hubVars

\* A client that stays subscribed sees the current value of every point it
\* watches, whether or not the PointWatch event arrives, and whoever else comes,
\* leaves or unsubscribes.
ValuesArrive ==
  \A c \in Conns, s \in HubSlots :
    <>[](hub[ClientIdOf[c]] = c /\ s \in WatchedSlots(c)) => <>[](conn[c].shown[s] = live[s])
=============================================================================
