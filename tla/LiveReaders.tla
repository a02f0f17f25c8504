----------------------------- MODULE LiveReaders -----------------------------
(***************************************************************************)
(* How alarm, api, history and uplink keep their view of the live state:   *)
(* one immutable generation (layout, logical routes, pinned publication)   *)
(* per service, replaced by a periodic refresh that reads the SQLite       *)
(* topology, compares it with the current generation and swaps the         *)
(* generation under the shared-memory authority locks.  The services do    *)
(* not interact, so a behaviour follows one of them; the database and the  *)
(* publisher (io) change between any two steps of a refresh.               *)
(*                                                                         *)
(* Layout n has the points 1..n; a point's slot moves when the layout      *)
(* grows, as slots are numbered from the manifest's sorted counts.         *)
(***************************************************************************)
EXTENDS Integers

CONSTANTS
  ReaderServices,   \* which services a behaviour may follow
  MaxLayout,        \* layouts 1..MaxLayout
  MaxDbEdits,       \* committed changes of the topology tables
  MaxPublications,  \* shared-memory publications by io
  NoLiveGeneration      \* no snapshot or candidate

VARIABLES
  reader,      \* the service followed
  sqlite,      \* committed topology: [layout, routes]
  liveShm,         \* [open, epoch]: open is FALSE while io replaces the files
  layouts,     \* epoch -> layout it was published with
  liveGeneration,  \* the service's current generation
  refresh,     \* the refresh under way: [step, snapshot, candidate]
  dbEdits      \* database changes so far

liveReaderVars == <<reader, sqlite, liveShm, layouts, liveGeneration, refresh, dbEdits>>

LiveLayouts == 1..MaxLayout
Epochs == 1..MaxPublications

\* ChannelPointManifest::slot_for.
SlotIn(layout, p) == IF p \in 1..layout THEN layout - p ELSE -1

\* load_routes accepts only targets that have a slot in the same transaction.
LiveCommitted == {t \in [layout: LiveLayouts, routes: SUBSET LiveLayouts] : t.routes \subseteq 1..t.layout}

LiveDigest(t) == <<t.layout, t.routes>>
----------------------------------------------------------------------------
(* What each service derives from a snapshot.                              *)

AlarmPoints(t) == t.routes
GatewayPoints(t) == t.routes
HistoryPoints(t) == 1..t.layout \cup t.routes
UplinkPoints(t) == 1..t.layout \cup t.routes

PointsOf(s, t) == CASE s = "alarm" -> AlarmPoints(t)
                    [] s = "api" -> GatewayPoints(t)
                    [] s = "history" -> HistoryPoints(t)
                    [] s = "uplink" -> UplinkPoints(t)

\* A generation as built from a snapshot; epoch 0 is the lazy, unpinned one.
Built(s, t, epoch) == [layout |-> t.layout, points |-> PointsOf(s, t), digest |-> LiveDigest(t),
                       epoch |-> epoch]

\* validate_locked_publication and the pin comparison of
\* with_validated_authority, under the three locks.
LiveValidates(g) == /\ liveShm.open
                /\ layouts[liveShm.epoch] = g.layout
                /\ g.epoch \in {0, liveShm.epoch}

LivePinned(g) == [g EXCEPT !.epoch = liveShm.epoch]
----------------------------------------------------------------------------
NoRefresh == [step |-> "idle", snapshot |-> NoLiveGeneration, candidate |-> NoLiveGeneration]

ReadersInit ==
  /\ reader \in ReaderServices
  /\ sqlite = [layout |-> 1, routes |-> {1}]
  /\ liveShm \in {[open |-> FALSE, epoch |-> 0], [open |-> TRUE, epoch |-> 1]}
  /\ layouts = [e \in Epochs |-> IF e = liveShm.epoch THEN 1 ELSE 0]
  /\ liveGeneration = Built(reader, sqlite, 0)
  /\ refresh = NoRefresh
  /\ dbEdits = 0

ReadersTypeOK ==
  /\ reader \in ReaderServices
  /\ sqlite \in LiveCommitted
  /\ liveShm \in [open: BOOLEAN, epoch: 0..MaxPublications]
  /\ layouts \in [Epochs -> 0..MaxLayout]
  /\ liveGeneration.layout \in LiveLayouts /\ liveGeneration.epoch \in 0..MaxPublications
  /\ refresh.step \in {"idle", "compare", "open", "routes", "swap"}
  /\ refresh.snapshot \in LiveCommitted \cup {NoLiveGeneration}
  /\ dbEdits \in 0..MaxDbEdits
----------------------------------------------------------------------------
(* The environment: edits of the tables, and io publishing them.           *)

DbEdited ==
  /\ dbEdits < MaxDbEdits
  /\ sqlite' \in LiveCommitted \ {sqlite}
  /\ dbEdits' = dbEdits + 1
  /\ UNCHANGED <<reader, liveShm, layouts, liveGeneration, refresh>>

PublicationBegins ==
  /\ liveShm.open
  /\ liveShm.epoch < MaxPublications
  /\ liveShm' = [liveShm EXCEPT !.open = FALSE]
  /\ UNCHANGED <<reader, sqlite, layouts, liveGeneration, refresh, dbEdits>>

PublicationEnds ==
  /\ ~liveShm.open
  /\ liveShm.epoch < MaxPublications
  /\ liveShm' = [open |-> TRUE, epoch |-> liveShm.epoch + 1]
  /\ layouts' = [layouts EXCEPT ![liveShm.epoch + 1] = sqlite.layout]
  /\ UNCHANGED <<reader, sqlite, liveGeneration, refresh, dbEdits>>
----------------------------------------------------------------------------
(* The refresh.                                                            *)

\* load_sqlite_live_topology: one read transaction.
LoadsSnapshot ==
  /\ refresh.step = "idle"
  /\ refresh' = [NoRefresh EXCEPT !.step = IF reader = "uplink" THEN "open" ELSE "compare",
                                  !.snapshot = sqlite]
  /\ UNCHANGED <<reader, sqlite, liveShm, layouts, liveGeneration, dbEdits>>

\* physical_layout_matches.
SameLayout(g, t) == g.layout = t.layout

\* lazy_route_only.
Lazy(g, t) == g.epoch = 0 /\ g.digest # LiveDigest(t)

\* alarm and api may replace the routes of a lazy generation before any
\* publication can be validated; history replaces routes only when it can.
AlarmRoutesOnly(g, t, physical) == SameLayout(g, t) /\ (physical \/ Lazy(g, t))
GatewayRoutesOnly(g, t, physical) == SameLayout(g, t) /\ (physical \/ Lazy(g, t))
HistoryRoutesOnly(g, t, physical) == SameLayout(g, t) /\ physical

RoutesOnly(g, t, physical) == CASE reader = "alarm" -> AlarmRoutesOnly(g, t, physical)
                                [] reader = "api" -> GatewayRoutesOnly(g, t, physical)
                                [] reader = "history" -> HistoryRoutesOnly(g, t, physical)

\* The next generation keeps the current one's manifest, source and topology.
Rerouted(g, t) == [Built(reader, t, g.epoch) EXCEPT !.layout = g.layout]

UpToDate(g, t, physical) == g.digest = LiveDigest(t) /\ physical

\* validate_layouts pins a lazy generation as a side effect.
LiveCompares ==
  /\ refresh.step = "compare"
  /\ LET t == refresh.snapshot
         physical == LiveValidates(liveGeneration)
         g == IF physical THEN LivePinned(liveGeneration) ELSE liveGeneration
     IN /\ liveGeneration' = g
        /\ refresh' = IF UpToDate(liveGeneration, t, physical) THEN NoRefresh
                      ELSE IF RoutesOnly(liveGeneration, t, physical)
                      THEN [refresh EXCEPT !.step = "routes",
                                           !.candidate = Rerouted(g, t)]
                      ELSE [refresh EXCEPT !.step = "open"]
  /\ UNCHANGED <<reader, sqlite, liveShm, layouts, dbEdits>>

\* The route-only swap: validated when the generation was, immediate when the
\* generation is lazy.
SwapsRoutes ==
  /\ refresh.step = "routes"
  /\ liveGeneration' = CASE refresh.candidate.epoch = 0 -> refresh.candidate
                     [] refresh.candidate.epoch # 0 /\ LiveValidates(refresh.candidate) -> refresh.candidate
                     [] OTHER -> liveGeneration
  /\ refresh' = NoRefresh
  /\ UNCHANGED <<reader, sqlite, liveShm, layouts, dbEdits>>

\* build_*_generation in its validating mode: ShmReadTopologyGeneration::open
\* pins what it validated; uplink drops a candidate equal to its current one.
OpensCandidate ==
  /\ refresh.step = "open"
  /\ LET c == Built(reader, refresh.snapshot, 0)
     IN refresh' = IF ~LiveValidates(c) \/ (reader = "uplink" /\ liveGeneration = LivePinned(c)) THEN NoRefresh
                   ELSE [refresh EXCEPT !.step = "swap", !.candidate = LivePinned(c)]
  /\ UNCHANGED <<reader, sqlite, liveShm, layouts, liveGeneration, dbEdits>>

SwapsGeneration ==
  /\ refresh.step = "swap"
  /\ liveGeneration' = IF LiveValidates(refresh.candidate) THEN refresh.candidate ELSE liveGeneration
  /\ refresh' = NoRefresh
  /\ UNCHANGED <<reader, sqlite, liveShm, layouts, dbEdits>>

\* collect_patterns, read_group and collect_entries validate before they
\* read, which pins a lazy generation; alarm and api read the pinned source.
HistoryCollects ==
  /\ reader = "history"
  /\ LiveValidates(liveGeneration)
  /\ liveGeneration' = LivePinned(liveGeneration)
  /\ UNCHANGED <<reader, sqlite, liveShm, layouts, refresh, dbEdits>>

UplinkCollects ==
  /\ reader = "uplink"
  /\ LiveValidates(liveGeneration)
  /\ liveGeneration' = LivePinned(liveGeneration)
  /\ UNCHANGED <<reader, sqlite, liveShm, layouts, refresh, dbEdits>>

Refreshes == LoadsSnapshot \/ LiveCompares \/ SwapsRoutes \/ OpensCandidate \/ SwapsGeneration

ReadersNext == \/ DbEdited \/ PublicationBegins \/ PublicationEnds
               \/ Refreshes \/ HistoryCollects \/ UplinkCollects

ReadersSpec == ReadersInit /\ [][ReadersNext]_liveReaderVars

\* The refresh runs on an interval and every step of it ends; io finishes a
\* publication it began and publishes the layout the database holds.
ReadersFairness ==
  /\ WF_liveReaderVars(Refreshes)
  /\ WF_liveReaderVars(PublicationEnds)
----------------------------------------------------------------------------
\* Every point a generation serves has a slot in its own layout, and a pinned
\* generation addresses it at the slot that the publication it is pinned to
\* gives that point, however edits, publications and refreshes interleave.
ReadsTheRightSlot ==
  \A p \in liveGeneration.points :
    /\ SlotIn(liveGeneration.layout, p) # -1
    /\ liveGeneration.epoch # 0 =>
         SlotIn(layouts[liveGeneration.epoch], p) = SlotIn(liveGeneration.layout, p)

\* Once the tables are settled and io has published their layout, the service
\* serves exactly that topology from that publication.
ReadersCatchUp ==
  <>[](liveShm.open /\ layouts[liveShm.epoch] = sqlite.layout)
    => <>(liveGeneration.digest = LiveDigest(sqlite) /\ liveGeneration.epoch = liveShm.epoch)
=============================================================================
