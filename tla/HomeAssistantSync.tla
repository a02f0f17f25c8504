--------------------------- MODULE HomeAssistantSync ---------------------------
(***************************************************************************)
(* The local projection of a Home Assistant installation: the WebSocket     *)
(* session actor and the provider (extensions/home-assistant-bridge/src),   *)
(* the synchronizer (crates/aether-application/src/                         *)
(* integration_synchronizer.rs), the in-memory projection and its loop      *)
(* (services/io/src/home_assistant.rs) and the file of topology generations *)
(* (extensions/store-local/src/integration_generation.rs).                  *)
(* Home Assistant answers commands and pushes events on one ordered stream: *)
(* events keep arriving between the answers a snapshot is made of. Every    *)
(* entity has one point.                                                    *)
(***************************************************************************)
EXTENDS Naturals, Sequences, FiniteSets
LOCAL INSTANCE FiniteSetsExt

CONSTANTS Entities,       \* entities of the installation
          BufferRoom,     \* max_collection_items: events buffered during a command
          MaxUpdates,     \* bound: state and registry changes, power commands
          MaxSyncFaults,  \* bound: disconnects, refused connects, failed writes, crashes
          NoSync          \* absent: no session, no projection, no fence

VARIABLES home,       \* Home Assistant: registry, state and update time per entity
          syncStream,     \* messages of the open connection not yet read, NoSync when closed
          session,    \* the actor's session: command in flight, buffered events, fence
          sync,       \* resync_required, needs_snapshot, the provider's map and counter
          projection, \* InMemoryIntegrationProjection
          generations,\* the generation store: in memory and on disk
          syncPublished,  \* history: <<generation, registry>> of every projected topology
          syncBudget  \* updates and faults so far

syncVars == <<home, syncStream, session, sync, projection, generations, syncPublished, syncBudget>>

OpenSession == [todo |-> <<>>, registry |-> {}, buffer |-> <<>>, fence |-> [e \in Entities |-> 0]]

FreshSync == [resync |-> FALSE, needs |-> TRUE, known |-> {}, seq |-> 1]

SyncInit ==
  /\ home = [registry |-> Entities, value |-> [e \in Entities |-> 1], at |-> [e \in Entities |-> 1]]
  /\ syncStream = <<>>
  /\ session = OpenSession
  /\ sync = FreshSync
  /\ projection = NoSync
  /\ generations = [mem |-> [gen |-> 0, digest |-> {}], disk |-> [gen |-> 0, digest |-> {}]]
  /\ syncPublished = {}
  /\ syncBudget = [updates |-> 0, faults |-> 0]

Pushed(message) == IF syncStream = NoSync THEN syncStream ELSE Append(syncStream, message)

SyncFault ==
  /\ syncBudget.faults < MaxSyncFaults
  /\ syncBudget' = [syncBudget EXCEPT !.faults = @ + 1]

-----------------------------------------------------------------------------
(* Home Assistant.                                                          *)

SyncUpdates ==
  /\ syncBudget.updates < MaxUpdates
  /\ syncBudget' = [syncBudget EXCEPT !.updates = @ + 1]

\* A state changes at a later millisecond than the last one of its entity.
StateChanges(e) ==
  /\ SyncUpdates
  /\ home' = [home EXCEPT !.value[e] = @ + 1, !.at[e] = @ + 1]
  /\ syncStream' = Pushed([kind |-> "state", entity |-> e,
                       value |-> home.value[e] + 1, at |-> home.at[e] + 1])
  /\ UNCHANGED <<session, sync, projection, generations, syncPublished>>

\* An entity enters or leaves the registry; its state stays.
RegistryChanges(e) ==
  /\ SyncUpdates
  /\ home' = [home EXCEPT !.registry =
                IF e \in home.registry THEN @ \ {e} ELSE @ \cup {e}]
  /\ syncStream' = Pushed([kind |-> "registry"])
  /\ UNCHANGED <<session, sync, projection, generations, syncPublished>>

\* The connection closes; the session notices when it next reads.
SyncDisconnects ==
  /\ syncStream # NoSync
  /\ SyncFault
  /\ syncStream' = NoSync
  /\ UNCHANGED <<home, session, sync, projection, generations, syncPublished>>

-----------------------------------------------------------------------------
(* The session actor.                                                       *)

\* The session is dropped; only a complete snapshot clears resync_required.
DropSession ==
  /\ session' = NoSync
  /\ sync' = [sync EXCEPT !.resync = TRUE, !.needs = TRUE]

\* Session::connect: authenticate and subscribe; events flow from here on. A snapshot or a
\* power command asks for it.
SyncConnects ==
  /\ session = NoSync
  /\ session' = OpenSession
  /\ syncStream' = <<>>
  /\ UNCHANGED <<home, sync, projection, generations, syncPublished, syncBudget>>

\* fetch_snapshot: the registries, then the states; Home Assistant answers in order.
FetchBegins ==
  /\ sync.needs
  /\ session # NoSync /\ session.todo = <<>> /\ syncStream # NoSync
  /\ session' = [session EXCEPT !.todo = <<"registry", "states">>]
  /\ syncStream' = Append(syncStream, [kind |-> "registry-list", registry |-> home.registry])
  /\ UNCHANGED <<home, sync, projection, generations, syncPublished, syncBudget>>

\* wait_for_result: an event is buffered; a full buffer gives the session up.
EventDuringCommand ==
  /\ session # NoSync /\ session.todo # <<>>
  /\ syncStream # NoSync /\ syncStream # <<>>
  /\ Head(syncStream).kind \in {"state", "registry"}
  /\ IF Len(session.buffer) >= BufferRoom
       THEN DropSession /\ syncStream' = NoSync
       ELSE /\ session' = [session EXCEPT !.buffer = Append(@, Head(syncStream))]
            /\ syncStream' = Tail(syncStream)
            /\ UNCHANGED sync
  /\ UNCHANGED <<home, projection, generations, syncPublished, syncBudget>>

\* A power command is taken before the next event is waited for, and uses the same
\* session; events arriving before its answer are buffered.
PowerBegins ==
  /\ session # NoSync /\ session.todo = <<>> /\ syncStream # NoSync
  /\ SyncUpdates
  /\ session' = [session EXCEPT !.todo = <<"power">>]
  /\ syncStream' = Append(syncStream, [kind |-> "power-done"])
  /\ UNCHANGED <<home, sync, projection, generations, syncPublished>>

\* Its answer arrives, or its deadline passes first and the session, on which the answer
\* is still due, is dropped.
PowerEnds ==
  /\ session # NoSync /\ session.todo = <<"power">>
  /\ \/ /\ syncStream # NoSync /\ syncStream # <<>> /\ Head(syncStream).kind = "power-done"
        /\ session' = [session EXCEPT !.todo = <<>>]
        /\ syncStream' = Tail(syncStream)
        /\ UNCHANGED <<sync, syncBudget>>
     \/ SyncFault /\ DropSession /\ syncStream' = NoSync
  /\ UNCHANGED <<home, projection, generations, syncPublished>>

RegistryListed ==
  /\ session # NoSync /\ session.todo = <<"registry", "states">>
  /\ syncStream # NoSync /\ syncStream # <<>> /\ Head(syncStream).kind = "registry-list"
  /\ session' = [session EXCEPT !.todo = <<"states">>, !.registry = Head(syncStream).registry]
  /\ syncStream' = Append(Tail(syncStream), [kind |-> "state-list", value |-> home.value, at |-> home.at])
  /\ UNCHANGED <<home, sync, projection, generations, syncPublished, syncBudget>>

-----------------------------------------------------------------------------
(* The provider, the generation store and the projection.                   *)

\* Mutant: the stored digest is not compared.
ReservedAgain(digest) == [gen |-> generations.mem.gen, digest |-> digest]

\* reserve_generation: the same topology keeps its generation, another takes the next.
SyncReserved(digest) ==
  IF generations.mem.gen > 0 /\ generations.mem.digest = digest THEN generations.mem
  ELSE [gen |-> generations.mem.gen + 1, digest |-> digest]

\* install_state_event_fence: events up to the snapshot's states are old.
SyncFence(at) == at

\* map_snapshot numbers one observation per registered entity.
Observed(registry, value) ==
  LET order == CHOOSE f \in [registry -> 0 .. Cardinality(registry) - 1] :
                 \A a, b \in registry : a # b => f[a] # f[b]
  IN [e \in registry |-> [value |-> value[e], seq |-> sync.seq + order[e]]]

\* replace_snapshot: a conflict if the generation went back or kept another digest.
Replaces(topology) ==
  projection = NoSync \/ topology.gen > projection.gen
    \/ (topology.gen = projection.gen /\ topology.digest = projection.digest)

\* synchronize_snapshot: the projection takes the snapshot, or the conflict asks for
\* another.
Projects(topology, seen) ==
  /\ sync' = [sync EXCEPT !.resync = FALSE, !.needs = ~Replaces(topology),
                !.known = topology.digest, !.seq = @ + Cardinality(topology.digest)]
  /\ IF Replaces(topology)
       THEN /\ projection' = [gen |-> topology.gen, digest |-> topology.digest, obs |-> seen]
            /\ syncPublished' = syncPublished \cup {<<topology.gen, topology.digest>>}
       ELSE UNCHANGED <<projection, syncPublished>>

\* topology_digest: equal for equal registries only.
TopologyDigest(registry) == registry

\* The states arrive: snapshot(). The generation is on disk before the projection
\* changes; a failed write leaves the projection as it was and the snapshot is fetched
\* again.
StatesListed ==
  /\ session # NoSync /\ session.todo = <<"states">>
  /\ syncStream # NoSync /\ syncStream # <<>> /\ Head(syncStream).kind = "state-list"
  /\ syncStream' = Tail(syncStream)
  /\ session' = [session EXCEPT !.todo = <<>>, !.fence = SyncFence(Head(syncStream).at)]
  /\ LET topology == SyncReserved(TopologyDigest(session.registry))
     IN \/ /\ generations' = [mem |-> topology,
                              disk |-> IF topology = generations.mem THEN generations.disk ELSE topology]
           /\ Projects(topology, Observed(session.registry, Head(syncStream).value))
           /\ UNCHANGED syncBudget
        \/ /\ topology # generations.mem   \* the write fails before or after the rename
           /\ SyncFault
           /\ \E disk \in {generations.disk, topology} :
                generations' = [generations EXCEPT !.disk = disk]
           /\ sync' = [sync EXCEPT !.resync = FALSE]
           /\ UNCHANGED <<projection, syncPublished>>
  /\ UNCHANGED home

\* last_sequence of the projected observations; none counts as zero.
LastSequence == Max({0} \cup {projection.obs[e].seq : e \in DOMAIN projection.obs})

\* apply_observation: the entity's observation is replaced or added.
Projected(e, observation) ==
  [projection EXCEPT !.obs =
     [x \in DOMAIN @ \cup {e} |-> IF x = e THEN observation ELSE @[x]]]

\* synchronize_next: only the next sequence of a declared point is applied.
Applied(e, value) ==
  IF projection # NoSync /\ e \in projection.digest /\ LastSequence + 1 = sync.seq
    THEN /\ projection' = Projected(e, [value |-> value, seq |-> sync.seq])
         /\ sync' = [sync EXCEPT !.seq = @ + 1]
    ELSE sync' = [sync EXCEPT !.seq = @ + 1, !.needs = TRUE] /\ UNCHANGED projection

\* One event: older ones are skipped, a registry change or an entity outside the last
\* snapshot asks for a complete resynchronization.
Handles(event, fenced) ==
  IF event.kind = "registry"
    THEN sync' = [sync EXCEPT !.resync = TRUE, !.needs = TRUE] /\ session' = fenced /\ UNCHANGED projection
  ELSE IF event.at <= session.fence[event.entity]
    THEN session' = fenced /\ UNCHANGED <<sync, projection>>
  ELSE /\ session' = [fenced EXCEPT !.fence[event.entity] = event.at]
       /\ IF event.entity \in sync.known THEN Applied(event.entity, event.value)
          ELSE sync' = [sync EXCEPT !.needs = TRUE] /\ UNCHANGED projection

\* next_state_changed: buffered events first, then the stream. An empty stream only
\* times out, which changes nothing.
NextEvent ==
  /\ ~sync.needs /\ ~sync.resync
  /\ session # NoSync /\ session.todo = <<>>
  /\ IF session.buffer # <<>>
       THEN /\ Handles(Head(session.buffer), [session EXCEPT !.buffer = Tail(@)])
            /\ UNCHANGED syncStream
       ELSE /\ syncStream # NoSync /\ syncStream # <<>>
            /\ Handles(Head(syncStream), session)
            /\ syncStream' = Tail(syncStream)
  /\ UNCHANGED <<home, generations, syncPublished, syncBudget>>

\* A read finds the connection closed, during a command or while waiting for events.
ReadFails ==
  /\ session # NoSync /\ syncStream = NoSync
  /\ session.todo # <<>> \/ sync.needs \/ session.buffer = <<>>
  /\ DropSession
  /\ UNCHANGED <<home, syncStream, projection, generations, syncPublished, syncBudget>>

\* The process stops; a new one starts with an empty projection and the file.
SyncCrash ==
  /\ SyncFault
  /\ session' = OpenSession
  /\ syncStream' = <<>>
  /\ sync' = FreshSync
  /\ projection' = NoSync
  /\ generations' = [generations EXCEPT !.mem = generations.disk]
  /\ UNCHANGED <<home, syncPublished>>

SyncNext ==
  \/ \E e \in Entities : StateChanges(e) \/ RegistryChanges(e)
  \/ SyncDisconnects \/ SyncConnects \/ FetchBegins \/ PowerBegins \/ PowerEnds
  \/ EventDuringCommand \/ RegistryListed
  \/ StatesListed \/ NextEvent \/ ReadFails \/ SyncCrash

SyncSpec == SyncInit /\ [][SyncNext]_syncVars

\* The loop of run_synchronizer retries with a bounded delay; Home Assistant answers.
SyncFairness ==
  /\ WF_syncVars(SyncConnects)
  /\ WF_syncVars(FetchBegins)
  /\ WF_syncVars(EventDuringCommand)
  /\ WF_syncVars(RegistryListed)
  /\ WF_syncVars(PowerEnds)
  /\ WF_syncVars(StatesListed)
  /\ WF_syncVars(NextEvent)
  /\ WF_syncVars(ReadFails)

-----------------------------------------------------------------------------
\* Types of the synchronizer's state.
SyncTypeOK ==
  /\ home.registry \subseteq Entities
  /\ session # NoSync => Len(session.buffer) <= BufferRoom
  /\ projection # NoSync => DOMAIN projection.obs \subseteq projection.digest
  /\ generations.disk.gen >= generations.mem.gen

SyncSettled == \* every event has been read and no snapshot is owed
  /\ session # NoSync /\ syncStream = <<>> /\ session.todo = <<>> /\ session.buffer = <<>>
  /\ ~sync.needs /\ ~sync.resync

\* Once every event has been handled the projection is Home Assistant's state: nothing
\* that changed between the registry answer, the state answer and the first event, or
\* around a reconnect, is missed.
SettledIsCurrent ==
  SyncSettled => /\ projection.digest = home.registry
             /\ \A e \in home.registry :
                  e \in DOMAIN projection.obs /\ projection.obs[e].value = home.value[e]

\* A projected value is never replaced by an older one, by an event buffered before the
\* snapshot or by a snapshot fetched again.
ProjectionStep ==
  projection # NoSync /\ projection' # NoSync =>
    \A e \in DOMAIN projection.obs \cap DOMAIN projection'.obs :
      projection'.obs[e].value >= projection.obs[e].value

ProjectionNeverGoesBack == [][ProjectionStep]_syncVars

\* A topology generation names one topology for ever, across restarts and failed writes
\* of the generation file.
GenerationsIdentify ==
  \A a, b \in syncPublished : a[1] = b[1] => a[2] = b[2]

\* While Home Assistant stays reachable the projection catches up with it.
SyncCatchesUp == <>[](syncBudget.updates = MaxUpdates => SyncSettled)

=============================================================================
