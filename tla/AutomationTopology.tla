------------------------- MODULE AutomationTopology -------------------------
(***************************************************************************)
(* aether-automation's view of the plant: one immutable generation of       *)
(* physical layout, SHM mapping and logical routes, replaced as a whole     *)
(* (services/automation/src/infra/runtime_topology.rs). The module composes *)
(* everything that replaces or uses it: the periodic refresh, the governed  *)
(* routing mutations with their revocation lease (action_routing.rs,        *)
(* measurement_routing.rs), commands that pin a generation                  *)
(* (application_control.rs), rule executions fenced by its sequence         *)
(* (rule_live_state.rs), and the rebuild of the PointWatch index (main.rs,  *)
(* rule_mutation.rs).                                                       *)
(*                                                                         *)
(* A route table is abstracted to the physical target of one logical point. *)
(***************************************************************************)
EXTENDS Naturals

CONSTANTS RouteLayouts,        \* physical point and health layouts
          Targets,        \* physical targets a logical point may be routed to
          RouteNone,           \* no route, no segment
          Manual, Rules,  \* callers: operator commands and rule executions
          Rebuilders,     \* who rebuilds PointWatch: topology changes, rule mutations
          MaxSequence,    \* bound: publications
          MaxIncarnation, \* bound: segments io publishes
          MaxRevision,    \* bound: routing mutations
          MaxRules        \* bound: rule mutations

ASSUME AutomationAssumption ==
  MaxSequence \in Nat /\ MaxIncarnation \in Nat /\ MaxRevision \in Nat \ {0} /\ MaxRules \in Nat

VARIABLES database,       \* SQLite: layout, routes, revision, rules
          shm,            \* what io has published
          generation,     \* AutomationTopologyHandle::current
          changeSequence, changed,
          sink,           \* segment the command writer is open on
          job,            \* the holder of refresh_gate
          caller,         \* commands and rule executions
          rebuild, ready, index, scheduled  \* PointWatch and the loaded rules

topologyVars == <<generation, changeSequence, changed, sink, job>>
watchVars == <<rebuild, ready, index, scheduled>>
automationVars == <<database, shm, topologyVars, caller, watchVars>>

NoSegment == [layout |-> RouteNone, incarnation |-> 0]
Unready == MaxSequence + 1      \* u64::MAX
Callers == Manual \cup Rules
Routes == Targets \cup {RouteNone}
Kinds == {"action", "measurement"}

Digest(d) == <<d.layout, d.measurement, d.action>>

Segments == [layout : RouteLayouts \cup {RouteNone}, incarnation : 0..MaxIncarnation]
Generations ==
  [layout : RouteLayouts, measurement : Routes, action : Routes,
   digest : RouteLayouts \X Routes \X Routes, sequence : 0..MaxSequence,
   segment : 0..MaxIncarnation, validated : BOOLEAN, revoked : SUBSET Kinds]

\* CandidateParts and AutomationTopologyGeneration::compose
Compose(parts, segment, validated, sequence) ==
  [layout |-> parts.layout, measurement |-> parts.measurement, action |-> parts.action,
   digest |-> Digest(parts), sequence |-> sequence, segment |-> segment,
   validated |-> validated, revoked |-> {}]

NoGeneration == [sequence |-> Unready]
RouteIdle == [pc |-> "idle"]
Free == [owner |-> "none", pc |-> "free", parts |-> RouteIdle, next |-> NoGeneration,
         previous |-> NoGeneration, notifies |-> FALSE]
NotBuilt == [sequence |-> Unready, measurement |-> RouteNone, layout |-> RouteNone, rules |-> 0]
NoCall == [pc |-> "idle", fence |-> Unready, read |-> NoGeneration, view |-> NoGeneration]
NoRebuild == [owner |-> "none", pc |-> "free", view |-> NoGeneration]

AutomationTypeOK ==
  /\ database \in [layout : RouteLayouts, measurement : Routes, action : Routes,
                   revision : 1..MaxRevision, rules : 0..MaxRules]
  /\ shm \in Segments /\ sink \in Segments
  /\ generation \in Generations
  /\ changeSequence \in 0..MaxSequence /\ changed \in BOOLEAN
  /\ job.owner \in {"none", "refresh", "revoking"} \cup Kinds
  /\ job.pc \in {"free", "revoke", "stage", "commit", "restore", "load", "store", "open",
                 "publish", "withdraw"}
  /\ job.next \in Generations \cup {NoGeneration}
  /\ job.previous \in Generations \cup {NoGeneration}
  /\ \A c \in Callers : /\ caller[c].pc \in {"idle", "begun", "read", "routed"}
                        /\ caller[c].view \in Generations \cup {NoGeneration}
  /\ rebuild.owner \in {"none"} \cup Rebuilders
  /\ rebuild.pc \in {"free", "locked", "pinned", "reloaded", "built"}
  /\ ready \in 0..Unready /\ scheduled \in 0..MaxRules
  /\ index.rules \in 0..MaxRules

\* main: the handle starts lazily from SQLite and no SHM file is opened.
AutomationInit ==
  /\ database \in [layout : RouteLayouts, measurement : Targets, action : Targets,
                   revision : {1}, rules : {0}]
  /\ shm = NoSegment /\ sink = NoSegment
  /\ generation = Compose(database, 0, FALSE, 0)
  /\ changeSequence = 0 /\ changed = FALSE
  /\ job = Free
  /\ caller = [c \in Callers |-> NoCall]
  /\ rebuild = NoRebuild /\ ready = Unready /\ index = NotBuilt /\ scheduled = 0
------------------------------------------------------------------------------
\* aether-io and the operator's physical configuration

\* io (re)publishes the configured layout in a new segment.
IoPublishes ==
  /\ shm.incarnation < MaxIncarnation
  /\ shm' = [layout |-> database.layout, incarnation |-> shm.incarnation + 1]
  /\ UNCHANGED <<database, topologyVars, caller, watchVars>>

\* io commits another physical layout to SQLite.
LayoutChanges ==
  /\ \E l \in RouteLayouts \ {database.layout} : database' = [database EXCEPT !.layout = l]
  /\ shm.incarnation < MaxIncarnation
  /\ UNCHANGED <<shm, topologyVars, caller, watchVars>>

\* ShmDeviceCommandSink drops a generation that is no longer canonical, found
\* by a command or by the inode watcher.
SinkInvalidated ==
  /\ sink # NoSegment /\ sink # shm
  /\ sink' = NoSegment
  /\ UNCHANGED <<database, shm, generation, changeSequence, changed, job, caller, watchVars>>
------------------------------------------------------------------------------
\* The command gate: who holds a pinned view. A replacement waits for all of them.

Pinned == {c \in Callers : caller[c].pc = "routed"}
Unpinned == Pinned = {} /\ rebuild.pc \notin {"pinned", "reloaded", "built"}

\* Publishing one generation under the command gate.
Install(g) ==
  /\ generation' = g
  /\ changed' = TRUE

\* revoke_action_routes_locked, revoke_measurement_routes_locked
Revoked(kind, sequence) ==
  [generation EXCEPT ![kind] = RouteNone, !.sequence = sequence, !.revoked = @ \cup {kind}]

\* The job goes on as "already" when the routes were revoked before, else as "now".
Revoke(kind, already, now) ==
  /\ Unpinned
  /\ IF kind \in generation.revoked
       THEN UNCHANGED <<generation, changed, changeSequence>> /\ job' = already
       ELSE /\ changeSequence < MaxSequence
            /\ changeSequence' = changeSequence + 1
            /\ Install(Revoked(kind, changeSequence + 1))
            /\ job' = now

\* AutomationTopologyHandle::refresh and the refresh of a committed instance
\* configuration (refresh_or_revoke_commands, owner "revoking").
RefreshBegins(owner) ==
  /\ job = Free
  /\ job' = [Free EXCEPT !.owner = owner, !.pc = "load"]
  /\ UNCHANGED <<database, shm, generation, changeSequence, changed, sink, caller, watchVars>>

\* begin_action_routing_mutation, begin_measurement_routing_mutation: the client
\* read some earlier revision, its mutation changes one route.
MutationBegins(kind, route, expected) ==
  /\ job = Free
  /\ expected <= database.revision
  /\ job' = [Free EXCEPT !.owner = kind, !.pc = "revoke",
                         !.parts = [route |-> route, expected |-> expected]]
  /\ UNCHANGED <<database, shm, generation, changeSequence, changed, sink, caller, watchVars>>

MutationRevokes ==
  /\ job.owner \in Kinds /\ job.pc = "revoke"
  /\ Revoke(job.owner, [job EXCEPT !.pc = "stage", !.previous = NoGeneration],
                       [job EXCEPT !.pc = "stage", !.previous = generation])
  /\ UNCHANGED <<database, shm, sink, caller, watchVars>>

Committed == [database EXCEPT ![job.owner] = job.parts.route, !.revision = @ + 1]

\* The transaction compares the revision and applies the rows, validated. Then
\* commit_started disarms the restoration. Any error restores.
MutationStages ==
  /\ job.owner \in Kinds /\ job.pc = "stage"
  /\ \/ /\ job.parts.expected = database.revision /\ database.revision < MaxRevision
        /\ job' = [job EXCEPT !.pc = "commit", !.previous = NoGeneration]
     \/ job' = [job EXCEPT !.pc = "restore"]
  /\ UNCHANGED <<database, shm, generation, changeSequence, changed, sink, caller, watchVars>>

\* commit().await: an error, or a cancelled request, leaves the outcome open.
MutationCommits ==
  /\ job.owner \in Kinds /\ job.pc = "commit"
  /\ \/ database' = Committed /\ job' = [job EXCEPT !.pc = "load"]
     \/ database' \in {database, Committed} /\ job' = Free
  /\ UNCHANGED <<shm, generation, changeSequence, changed, sink, caller, watchVars>>

\* The request's future is dropped. Before the commit the lease restores in a
\* task of its own that keeps the gate; afterwards it only releases the gate.
MutationCancelled ==
  /\ job.owner \in Kinds
  /\ \/ job.pc = "stage" /\ job' = [job EXCEPT !.pc = "restore"]
     \/ job.pc \in {"revoke", "load", "store", "open", "publish"} /\ job' = Free
  /\ UNCHANGED <<database, shm, generation, changeSequence, changed, sink, caller, watchVars>>

\* restore_revoked_generation, awaited or spawned by Drop
MutationRestores ==
  /\ job.pc = "restore"
  /\ IF job.previous = NoGeneration
       THEN UNCHANGED <<generation, changed>>
       ELSE Unpinned /\ Install(job.previous)
  /\ job' = Free
  /\ UNCHANGED <<database, shm, changeSequence, sink, caller, watchVars>>
------------------------------------------------------------------------------
\* refresh_locked

PhysicalChanged == generation.layout # database.layout
LogicalChanged == generation.digest # Digest(database) \/ generation.revoked # {}
PhysicalCurrent == generation.validated /\ generation.segment = shm.incarnation

\* The SQLite snapshot is compared with the current generation.
RefreshLoads ==
  /\ job.pc = "load"
  /\ IF ~PhysicalChanged /\ PhysicalCurrent /\ sink # NoSegment
       THEN IF ~LogicalChanged
              THEN job' = Free /\ UNCHANGED changeSequence
              ELSE /\ changeSequence < MaxSequence
                   /\ changeSequence' = changeSequence + 1
                   /\ job' = [job EXCEPT !.pc = "store", !.notifies = TRUE,
                        !.next = Compose(database, generation.segment, TRUE, changeSequence')]
       ELSE IF ~PhysicalChanged /\ LogicalChanged /\ ~generation.validated
              THEN /\ changeSequence < MaxSequence
                   /\ changeSequence' = changeSequence + 1
                   /\ job' = [job EXCEPT !.pc = "store", !.notifies = TRUE,
                        !.next = Compose(database, generation.segment, FALSE, changeSequence')]
              ELSE /\ job' = [job EXCEPT !.pc = "open",
                        !.next = Compose(database, 0, TRUE, generation.sequence),
                        !.notifies = LogicalChanged \/ PhysicalChanged
                                       \/ ~generation.validated]
                   /\ UNCHANGED changeSequence
  /\ UNCHANGED <<database, shm, generation, changed, sink, caller, watchVars>>

\* A replacement that keeps the mapped segments
RefreshStores ==
  /\ job.pc = "store" /\ Unpinned
  /\ Install(job.next)
  /\ job' = Free
  /\ UNCHANGED <<database, shm, changeSequence, sink, caller, watchVars>>

\* ShmReadTopologyGeneration::open finds both planes on the candidate's layout.
RefreshOpens ==
  /\ job.pc = "open" /\ shm.incarnation # 0 /\ shm.layout = job.next.layout
  /\ IF job.notifies
       THEN /\ changeSequence < MaxSequence
            /\ changeSequence' = changeSequence + 1
            /\ job' = [job EXCEPT !.pc = "publish", !.next.segment = shm.incarnation,
                                  !.next.sequence = changeSequence']
       ELSE /\ job' = [job EXCEPT !.pc = "publish", !.next.segment = shm.incarnation]
            /\ UNCHANGED changeSequence
  /\ UNCHANGED <<database, shm, generation, changed, sink, caller, watchVars>>

\* Mutant of RefreshPublishes: the generation is replaced without the command gate
RefreshPublishesUngated ==
  /\ job.pc = "publish"
  /\ shm.incarnation = job.next.segment
  /\ sink' = shm /\ generation' = job.next
  /\ changed' = (changed \/ job.notifies)
  /\ job' = Free
  /\ UNCHANGED <<database, shm, changeSequence, caller, watchVars>>

\* Under the command gate and the authority of the opened segment the command
\* writer is reopened and the generation replaced.
RefreshPublishes ==
  /\ job.pc = "publish" /\ Unpinned
  /\ shm.incarnation = job.next.segment
  /\ sink' = shm /\ generation' = job.next
  /\ changed' = (changed \/ job.notifies)
  /\ job' = Free
  /\ UNCHANGED <<database, shm, changeSequence, caller, watchVars>>

\* SQLite is unavailable, a plane has another layout, or io republished meanwhile.
RefreshFails ==
  /\ job.pc \in {"load", "open", "publish"}
  /\ job' = IF job.owner = "revoking" THEN [job EXCEPT !.pc = "withdraw"] ELSE Free
  /\ UNCHANGED <<database, shm, generation, changeSequence, changed, sink, caller, watchVars>>

\* refresh_or_revoke_commands after a failed refresh
RefreshWithdraws ==
  /\ job.pc = "withdraw"
  /\ Revoke("action", Free, Free)
  /\ UNCHANGED <<database, shm, sink, caller, watchVars>>
------------------------------------------------------------------------------
\* Commands and rule executions

\* begin_execution captures the sequence of the generation as the fence.
ExecutionBegins(c) ==
  /\ c \in Rules /\ caller[c].pc = "idle"
  /\ caller' = [caller EXCEPT ![c] = [NoCall EXCEPT !.pc = "begun",
                                        !.fence = generation.sequence]]
  /\ UNCHANGED <<database, shm, topologyVars, watchVars>>

\* get_instance_for_execution: the point is absent unless the fence still holds.
ExecutionReads(c) ==
  /\ caller[c].pc = "begun"
  /\ caller' = [caller EXCEPT ![c] =
       IF generation.sequence = caller[c].fence /\ generation.measurement # RouteNone
         THEN [@ EXCEPT !.pc = "read", !.read = generation]
         ELSE NoCall]
  /\ UNCHANGED <<database, shm, topologyVars, watchVars>>

\* validate_command_topology_fence
Fenced(c) == c \in Rules => caller[c].fence = generation.sequence

\* AutomationCommandDispatcher::dispatch_inner pins the generation, checks the
\* fence and resolves the route; then it reads the point's constraints and health.
RouteDispatch(c) ==
  /\ caller[c].pc = (IF c \in Rules THEN "read" ELSE "idle")
  /\ caller' = [caller EXCEPT ![c] =
       IF Fenced(c) /\ generation.action # RouteNone
         THEN [@ EXCEPT !.pc = "routed", !.view = generation]
         ELSE NoCall]
  /\ UNCHANGED <<database, shm, topologyVars, watchVars>>

\* sink.send answers or a check rejects the command; the view is dropped.
Dispatched(c) ==
  /\ caller[c].pc = "routed"
  /\ caller' = [caller EXCEPT ![c] = NoCall]
  /\ UNCHANGED <<database, shm, topologyVars, watchVars>>
------------------------------------------------------------------------------
\* PointWatch: the index and bitmap of watched points

\* SqliteRuleMutator commits a rule mutation; its reload follows.
RulesChange ==
  /\ database.rules < MaxRules
  /\ database' = [database EXCEPT !.rules = @ + 1]
  /\ UNCHANGED <<shm, topologyVars, caller, watchVars>>

\* lock_rebuild, for a change notification or a committed rule mutation
RebuildLocks(r) ==
  /\ rebuild = NoRebuild
  /\ IF r = "subscription" THEN changed ELSE scheduled # database.rules
  /\ changed' = IF r = "subscription" THEN FALSE ELSE changed
  /\ rebuild' = [NoRebuild EXCEPT !.owner = r, !.pc = "locked"]
  /\ UNCHANGED <<database, shm, generation, changeSequence, sink, job, caller, ready, index,
                 scheduled>>

\* pin_command, then mark_unready
RebuildPins ==
  /\ rebuild.pc = "locked"
  /\ rebuild' = [rebuild EXCEPT !.pc = "pinned", !.view = generation]
  /\ ready' = Unready
  /\ UNCHANGED <<database, shm, topologyVars, caller, index, scheduled>>

\* reload_rules replaces the scheduler's rules, or fails and leaves the gate closed.
RebuildReloads ==
  /\ rebuild.pc = "pinned"
  /\ \/ scheduled' = database.rules /\ rebuild' = [rebuild EXCEPT !.pc = "reloaded"]
     \/ rebuild' = NoRebuild /\ UNCHANGED scheduled
  /\ UNCHANGED <<database, shm, topologyVars, caller, ready, index>>

\* rebuild_point_watch from the pinned generation
RebuildIndexes ==
  /\ rebuild.pc = "reloaded"
  /\ index' = [sequence |-> rebuild.view.sequence, measurement |-> rebuild.view.measurement,
               layout |-> rebuild.view.layout, rules |-> scheduled]
  /\ rebuild' = [rebuild EXCEPT !.pc = "built"]
  /\ UNCHANGED <<database, shm, topologyVars, caller, ready, scheduled>>

\* mark_ready, if the command writer's manifest is the generation's
RebuildReadies ==
  /\ rebuild.pc = "built"
  /\ ready' = IF sink.layout = rebuild.view.layout THEN rebuild.view.sequence ELSE ready
  /\ rebuild' = NoRebuild
  /\ UNCHANGED <<database, shm, topologyVars, caller, index, scheduled>>

\* PointWatchReadiness::accepts, asked by the bridge task with a pinned view
Accepts(g) == g.sequence = ready
------------------------------------------------------------------------------
\* Everything that replaces the generation
Replacing ==
  \/ IoPublishes \/ LayoutChanges \/ SinkInvalidated
  \/ \E owner \in {"refresh", "revoking"} : RefreshBegins(owner)
  \/ \E kind \in Kinds, route \in Routes, expected \in 1..MaxRevision :
       MutationBegins(kind, route, expected)
  \/ MutationRevokes \/ MutationStages \/ MutationCommits \/ MutationCancelled
  \/ MutationRestores
  \/ RefreshLoads \/ RefreshStores \/ RefreshOpens \/ RefreshPublishes \/ RefreshFails
  \/ RefreshWithdraws

Calling ==
  \E c \in Callers : ExecutionBegins(c) \/ ExecutionReads(c) \/ RouteDispatch(c) \/ Dispatched(c)

Watching ==
  \/ RulesChange
  \/ \E r \in Rebuilders : RebuildLocks(r)
  \/ RebuildPins \/ RebuildReloads \/ RebuildIndexes \/ RebuildReadies

AutomationNext == Replacing \/ Calling \/ Watching

AutomationSpec == AutomationInit /\ [][AutomationNext]_automationVars

\* io comes up; the refresh timer gets the first-come-first-served refresh gate
\* and the write side of the command gate, SQLite and the planes do not fail for
\* ever, and every request and rebuild goes on.
AutomationFairness ==
  /\ WF_automationVars(IoPublishes) /\ SF_automationVars(RefreshBegins("refresh"))
  /\ SF_automationVars(RefreshLoads) /\ SF_automationVars(RefreshOpens)
  /\ SF_automationVars(RefreshPublishes)
  /\ SF_automationVars(RefreshStores \/ RefreshWithdraws \/ MutationRevokes \/ MutationRestores)
  /\ WF_automationVars(RefreshFails /\ job.pc \in {"open", "publish"})
  /\ WF_automationVars(MutationStages) /\ WF_automationVars(MutationCommits)
  /\ \A c \in Callers : WF_automationVars(Dispatched(c))
  /\ WF_automationVars(RebuildPins) /\ WF_automationVars(RebuildReloads)
  /\ WF_automationVars(RebuildIndexes) /\ WF_automationVars(RebuildReadies)
  /\ \A r \in Rebuilders : WF_automationVars(RebuildLocks(r))
------------------------------------------------------------------------------
\* No command uses a route that SQLite no longer holds: in the window between a
\* routing commit and its publication every published or pinned action route is
\* the committed one or revoked, even when the commit's outcome is unknown
\* (action_routing.rs: "never an old route during the commit-to-publish window").
RoutesAreCommitted ==
  /\ generation.action \in {RouteNone, database.action}
  /\ generation.measurement \in {RouteNone, database.measurement}
  /\ \A c \in Pinned : caller[c].view.action = database.action

\* A rule's command is sent with the routes of the view its inputs were read
\* from: no topology change fits between the reads and the command.
RulesActOnOneView ==
  \A c \in Pinned \cap Rules :
    /\ caller[c].read.digest = caller[c].view.digest
    /\ caller[c].read.measurement = caller[c].view.measurement

\* What a command was routed by stays the published view until the command is sent.
PinsHoldTheView == \A c \in Pinned : caller[c].view.sequence = generation.sequence

\* A PointWatch hint is accepted only while the index was built from the routes
\* and layout of the current generation and from the rules the scheduler runs.
HintsUseCurrentIndex ==
  Accepts(generation) => /\ index.measurement = generation.measurement
                         /\ index.layout = generation.layout
                         /\ index.rules = scheduled

Settled == generation.digest = Digest(database) /\ generation.revoked = {}
             /\ generation.validated

\* Revoked routes come back: after any cancelled, failed or ambiguous mutation
\* the periodic refresh republishes the committed routes.
RoutesRecover == []<>(Settled \/ changeSequence = MaxSequence)

\* main.rs: "Every successful topology replacement rebuilds PointWatch routing
\* and bitmap subscriptions": PointWatch always becomes ready again.
WatchRecovers == []<>(ready = generation.sequence \/ changeSequence = MaxSequence)

\* Automation acts on one committed view: no command uses a route SQLite no
\* longer holds, a rule's inputs and its command belong to one view, and a hint
\* is matched with the index of the current one.
RulesActOnACommittedView ==
  RoutesAreCommitted /\ RulesActOnOneView /\ PinsHoldTheView /\ HintsUseCurrentIndex
=============================================================================
