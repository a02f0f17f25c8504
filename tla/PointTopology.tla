---------------------------- MODULE PointTopology ----------------------------
(***************************************************************************)
(* Point definitions and protocol mappings of one channel                  *)
(* (services/io/src/point_topology.rs and the HTTP handlers that use it).  *)
(* Every command names the channel revision its client read and runs in    *)
(* one SQLite transaction: advance the revision, load the protocol, apply  *)
(* the mutations in order, roll everything back at the first error. Before *)
(* it the handlers read the protocol, the template or the next free point  *)
(* id outside of that transaction. The channel mutator changes the         *)
(* protocol and aether-automation routes points of the same database.      *)
(***************************************************************************)
EXTENDS Naturals, Sequences
LOCAL INSTANCE SequencesExt
LOCAL INSTANCE FiniteSetsExt

CONSTANTS Keys,              \* kind and id of the points that may be configured
          NoPoint,           \* a point that is not configured; also "nothing"
          MaxPointRevision   \* bound: revisions of the channel

VARIABLES channel,    \* revision and protocol of the channel row
          points,     \* the four point tables
          routed,     \* points that a logical route names
          template,   \* a channel template, or what a snapshot has read so far
          mutationCommand     \* a client of the point API and its handler

pointVars == <<channel, points, routed, template, mutationCommand>>

Protocols == {"modbus", "can"}

\* A mapping has the fields the two validators look at; "-" is absent. A number
\* sent as a string is "text".
Mapping(slave, code, can) == [slave |-> slave, code |-> code, can |-> can]
Unmapped == Mapping("-", "-", "-")
\* protocol_data: null
Cleared == Mapping("null", "null", "null")
\* The definition says nothing about the mapping
MutationKept == Mapping("kept", "kept", "kept")

MutationSent == {Cleared, Mapping("text", "read", "-"), Mapping("num", "write", "-"),
         Mapping("-", "-", "num"), Mapping("-", "write", "-")}

IsMapping(m) ==
  /\ m.slave \in {"-", "num", "text"} /\ m.code \in {"-", "read", "write"}
  /\ m.can \in {"-", "num"}
------------------------------------------------------------------------------
\* Mappings

\* normalize_protocol_data: numeric fields of the channel's protocol
Normalised(protocol, m) ==
  IF m # Cleared /\ protocol = "modbus" /\ m.slave = "text"
    THEN [m EXCEPT !.slave = "num"] ELSE m

\* validate_protocol_mapping
Fits(protocol, kind, m) ==
  \/ m = Unmapped
  \/ /\ protocol = "modbus" /\ m.slave = "num"
     /\ m.code = IF kind = "T" THEN "read" ELSE "write"
  \/ protocol = "can" /\ m.can = "num"

\* serde_json::Map::extend
MutationExtended(base, update) ==
  [f \in DOMAIN base |-> IF update[f] = "-" THEN base[f] ELSE update[f]]

\* What the mapping of a point becomes
NewMapping(old, update, merge) ==
  CASE update = Cleared -> Unmapped
    [] update # Cleared /\ merge -> MutationExtended(old, update)
    [] OTHER -> update
------------------------------------------------------------------------------
\* Mutations inside the transaction. A state of the tables is the function
\* "points", or Refused once a mutation has failed.

MutationRefused == NoPoint

\* ensure_point_not_routed, ensure_channel_measurements_not_routed; triggers of
\* the schema refuse the same deletions.
Unrouted(keys) == keys \cap routed = {}

Create(key, signal, mapping, force) ==
  [op |-> "create", key |-> key, signal |-> signal, mapping |-> mapping, force |-> force]
Update(key, signal) == [op |-> "update", key |-> key, signal |-> signal]
MutationDelete(key) == [op |-> "delete", key |-> key]
Map(key, mapping, merge) == [op |-> "map", key |-> key, mapping |-> mapping, merge |-> merge]

\* The stored mapping that validate_definition_mapping and
\* validate_existing_mapping check under the current protocol
Stored(pts, key) == IF pts[key] = NoPoint THEN Unmapped ELSE pts[key].mapping

\* create_point: INSERT, with ON CONFLICT DO UPDATE when forced; an upsert whose
\* definition is silent about the mapping keeps the stored one.
CreatePoint(pts, protocol, m) ==
  LET keeps == m.mapping = MutationKept
      checked == IF ~keeps THEN m.mapping
                 ELSE IF m.force THEN Stored(pts, m.key) ELSE Unmapped
      written == IF ~keeps THEN m.mapping
                 ELSE IF pts[m.key] # NoPoint THEN pts[m.key].mapping ELSE Unmapped
  IN  IF Fits(protocol, m.key[1], checked) /\ (m.force \/ pts[m.key] = NoPoint)
        THEN [pts EXCEPT ![m.key] = [signal |-> m.signal, mapping |-> written]]
        ELSE MutationRefused

UpdatePoint(pts, protocol, m) ==
  IF pts[m.key] # NoPoint /\ Fits(protocol, m.key[1], Stored(pts, m.key))
    THEN [pts EXCEPT ![m.key].signal = m.signal] ELSE MutationRefused

DeletePoint(pts, m) ==
  IF pts[m.key] # NoPoint /\ Unrouted({m.key})
    THEN [pts EXCEPT ![m.key] = NoPoint] ELSE MutationRefused

\* update_mapping: rows_affected = 0 for a point that does not exist
UpdateMapping(pts, protocol, m) ==
  IF pts[m.key] = NoPoint THEN MutationRefused
  ELSE LET new == NewMapping(pts[m.key].mapping, m.mapping, m.merge)
       IN  IF Fits(protocol, m.key[1], new)
             THEN [pts EXCEPT ![m.key].mapping = new] ELSE MutationRefused

\* apply_point_mutation, after an earlier error not at all
ApplyPoint(pts, protocol, m) ==
  CASE pts = MutationRefused -> MutationRefused
    [] pts # MutationRefused /\ m.op = "create" -> CreatePoint(pts, protocol, m)
    [] pts # MutationRefused /\ m.op = "update" -> UpdatePoint(pts, protocol, m)
    [] pts # MutationRefused /\ m.op = "delete" -> DeletePoint(pts, m)
    [] pts # MutationRefused /\ m.op = "map" -> UpdateMapping(pts, protocol, m)

\* apply_topology_mutation: "replace" first deletes every point of the channel.
ApplyTopology(request, protocol) ==
  LET cleared == IF ~request.replace THEN points
                 ELSE IF Unrouted(Keys) THEN [k \in Keys |-> NoPoint] ELSE MutationRefused
  IN  FoldLeft(LAMBDA pts, m : ApplyPoint(pts, protocol, m), cleared, request.mutations)

MutationRequest(replace, mutations) == [replace |-> replace, mutations |-> mutations]

\* Commands whose handler reads nothing first: single creation (which leaves the
\* point unmapped), update and deletion, and a batch, which runs its deletions
\* before its creations before its updates.
PlainRequests ==
  {MutationRequest(FALSE, <<m>>) :
     m \in {Create(k, 2, Unmapped, FALSE) : k \in Keys} \cup {Update(k, 2) : k \in Keys}
             \cup {MutationDelete(k) : k \in Keys}}
    \cup {MutationRequest(FALSE, <<MutationDelete(j), Create(k, 1, s, TRUE), Update(k, 2)>>) :
            j \in Keys, k \in {<<"T", 1>>}, s \in {Mapping("-", "-", "num"), MutationKept}}
------------------------------------------------------------------------------
NoMutationCommand == [pc |-> "idle", rev |-> 0, protocol |-> "-", points |-> NoPoint, kind |-> "-",
              request |-> NoPoint, dry |-> FALSE]
NoTemplate == [pc |-> "none", protocol |-> "-", signals |-> NoPoint, mappings |-> NoPoint]

PointTopologyTypeOK ==
  /\ channel.rev \in 1..MaxPointRevision /\ channel.protocol \in Protocols
  /\ \A k \in Keys : points[k] = NoPoint \/ (points[k].signal \in 1..2 /\ IsMapping(points[k].mapping))
  /\ routed \subseteq Keys
  /\ template.pc \in {"none", "points", "stored"}
  /\ mutationCommand.pc \in {"idle", "read", "ready"}

Configured(mapping) == [signal |-> 1, mapping |-> mapping]
PointTopologyInit ==
  /\ channel = [rev |-> 1, protocol |-> "modbus"]
  /\ points = [k \in Keys |-> IF k[2] # 1 THEN NoPoint
       ELSE Configured(Mapping("num", IF k[1] = "T" THEN "read" ELSE "write", "-"))]
  /\ routed = {} /\ template = NoTemplate /\ mutationCommand = NoMutationCommand

\* The channel mutator replaces the protocol (ChannelPatch); nothing looks at
\* the stored mappings.
ChangeProtocol ==
  /\ channel.rev < MaxPointRevision
  /\ \E p \in Protocols \ {channel.protocol} :
       channel' = [rev |-> channel.rev + 1, protocol |-> p]
  /\ UNCHANGED <<points, routed, template, mutationCommand>>

\* aether-automation routes a point that exists in its transaction, or removes
\* the route.
RouteUpsert(k) ==
  /\ points[k] # NoPoint /\ routed' = routed \cup {k}
  /\ UNCHANGED <<channel, points, template, mutationCommand>>
RouteDelete(k) ==
  /\ k \in routed /\ routed' = routed \ {k}
  /\ UNCHANGED <<channel, points, template, mutationCommand>>

\* Another client, whose handler is not interrupted, deletes or creates a point.
OtherRequests ==
  {MutationRequest(FALSE, <<m>>) : m \in {Create(k, 2, Unmapped, FALSE) : k \in Keys}
                                   \cup {MutationDelete(k) : k \in Keys}}
OtherCommand(request) ==
  /\ channel.rev < MaxPointRevision
  /\ LET after == ApplyTopology(request, channel.protocol)
     IN  /\ after # MutationRefused
         /\ points' = after /\ channel' = [channel EXCEPT !.rev = @ + 1]
  /\ UNCHANGED <<routed, template, mutationCommand>>

\* create_template_from_channel reads the protocol and the definitions first,
\* the mappings of the same tables afterwards. A channel without points makes a
\* template that cannot be applied.
SnapshotPoints ==
  /\ template.pc = "none"
  /\ template' = [NoTemplate EXCEPT !.pc = "points", !.protocol = channel.protocol,
       !.signals = [k \in Keys |-> IF points[k] = NoPoint THEN 0 ELSE points[k].signal]]
  /\ UNCHANGED <<channel, points, routed, mutationCommand>>
SnapshotMappings ==
  /\ template.pc = "points"
  /\ template' = [template EXCEPT !.pc = "stored",
       !.mappings = [k \in Keys |-> Stored(points, k)]]
  /\ UNCHANGED <<channel, points, routed, mutationCommand>>
------------------------------------------------------------------------------
\* One client. It reads the channel, then sends a command with the revision it
\* read; "protocol" and "points" remember what it read.

ClientReads ==
  /\ mutationCommand.pc = "idle"
  /\ mutationCommand' = [NoMutationCommand EXCEPT !.pc = "read", !.rev = channel.rev,
                   !.protocol = channel.protocol, !.points = points]
  /\ UNCHANGED <<channel, points, routed, template>>

MutationPrepared(kind, request) ==
  mutationCommand' = [mutationCommand EXCEPT !.pc = "ready", !.kind = kind, !.request = request]

\* Single and batch commands go straight to the application.
SendPlain ==
  /\ mutationCommand.pc = "read" /\ \E r \in PlainRequests : MutationPrepared("plain", r)
  /\ UNCHANGED <<channel, points, routed, template>>

\* update_channel_mappings_handler: normalise with the protocol just read and,
\* when replacing, validate.
SendMappings ==
  /\ mutationCommand.pc = "read"
  /\ \E k \in Keys, s \in MutationSent, merge \in BOOLEAN :
       LET m == Normalised(channel.protocol, s)
       IN  /\ ~merge => Fits(channel.protocol, k[1], NewMapping(Unmapped, m, FALSE))
           /\ MutationPrepared("mappings", MutationRequest(FALSE, <<Map(k, m, merge)>>))
  /\ UNCHANGED <<channel, points, routed, template>>

\* validate_only: the same checks on what is stored now, and no command. In
\* merge mode the merged mapping is normalised before it is validated.
DryRun ==
  /\ mutationCommand.pc = "ready" /\ mutationCommand.kind = "mappings" /\ ~mutationCommand.dry
  /\ LET m == mutationCommand.request.mutations[1]
     IN  /\ points[m.key] # NoPoint
         /\ Fits(channel.protocol, m.key[1],
                 Normalised(channel.protocol, NewMapping(points[m.key].mapping, m.mapping, m.merge)))
  /\ mutationCommand' = [mutationCommand EXCEPT !.dry = TRUE]
  /\ UNCHANGED <<channel, points, routed, template>>

\* template_point_mutations
TemplateMutations ==
  LET used == {k \in Keys : template.signals[k] # 0}
      force == [r \in BOOLEAN |-> ~r]
  IN  [replace \in BOOLEAN |->
        MutationRequest(replace, SetToSeq({Create(k, template.signals[k], template.mappings[k], force[replace])
                                     : k \in used}))]

\* apply_template: the template's protocol must be the channel's, as read here.
SendTemplate ==
  /\ mutationCommand.pc = "read" /\ template.pc = "stored"
  /\ template.protocol = channel.protocol
  /\ \E k \in Keys : template.signals[k] # 0
  /\ \E replace \in BOOLEAN : MutationPrepared("template", TemplateMutations[replace])
  /\ UNCHANGED <<channel, points, routed, template>>

\* provision_sunspec: discovery asks the device, next_point_id reads the
\* highest id of the four tables; the points are inserted, never upserted.
NextPointId == 1 + Max({0} \cup {k[2] : k \in {j \in Keys : points[j] # NoPoint}})
SendProvision ==
  /\ mutationCommand.pc = "read" /\ channel.protocol = "modbus" /\ <<"T", NextPointId>> \in Keys
  /\ \E replace \in BOOLEAN :
       MutationPrepared("provision",
         MutationRequest(replace, <<Create(<<"T", NextPointId>>, 2, Mapping("num", "read", "-"), FALSE)>>))
  /\ UNCHANGED <<channel, points, routed, template>>

\* advance_revision: UPDATE ... WHERE revision = expected
AdvanceRevision(expected) == channel.rev = expected

MutationAnswered == mutationCommand' = NoMutationCommand

\* mutate_validated: a conflict, a refused mutation and a database error roll
\* back. (What is recorded and answered is module GovernedOperation's.)
Mutate ==
  /\ mutationCommand.pc = "ready" /\ channel.rev < MaxPointRevision
  /\ LET after == ApplyTopology(mutationCommand.request, channel.protocol)
     IN  \/ /\ AdvanceRevision(mutationCommand.rev) /\ after # MutationRefused
            /\ points' = after /\ channel' = [channel EXCEPT !.rev = @ + 1]
         \/ UNCHANGED <<points, channel>>
  /\ MutationAnswered
  /\ UNCHANGED <<routed, template>>
------------------------------------------------------------------------------
PointTopologyNext ==
  \/ ChangeProtocol \/ SnapshotPoints \/ SnapshotMappings
  \/ \E k \in Keys : RouteUpsert(k) \/ RouteDelete(k)
  \/ \E r \in OtherRequests : OtherCommand(r)
  \/ ClientReads \/ SendPlain \/ SendMappings \/ DryRun \/ SendTemplate \/ SendProvision
  \/ Mutate

PointTopologySpec == PointTopologyInit /\ [][PointTopologyNext]_pointVars
------------------------------------------------------------------------------
\* A logical route never names a point that is gone, whatever single, batch,
\* template or provisioning command ran and wherever automation committed a
\* route between a client's read and its command.
RoutedPointsExist == \A k \in routed : points[k] # NoPoint

\* A command changes exactly the points and the protocol its client read: no
\* other command, template read, discovery or protocol change lies between.
PreparedStep ==
  Mutate /\ channel' # channel =>
    mutationCommand.points = points /\ mutationCommand.protocol = channel.protocol

PreparedIsApplied == [][PreparedStep]_pointVars

\* Every point a command writes is left with a mapping that the driver of the
\* channel's protocol accepts, also when the mapping was stored under another
\* protocol and the command did not mention it.
WrittenStep ==
  Mutate => \A k \in Keys : points'[k] # points[k] /\ points'[k] # NoPoint =>
    Fits(channel.protocol, k[1], points'[k].mapping)

WrittenMappingsFit == [][WrittenStep]_pointVars

\* A mapping request that passed validate_only is accepted at the revision it was
\* validated at, as long as the stored mappings fit the channel's protocol.
DryRunIsHonoured ==
  mutationCommand.dry /\ AdvanceRevision(mutationCommand.rev)
    /\ (\A k \in Keys : Fits(channel.protocol, k[1], Stored(points, k))) =>
  ApplyTopology(mutationCommand.request, channel.protocol) # MutationRefused
==============================================================================
