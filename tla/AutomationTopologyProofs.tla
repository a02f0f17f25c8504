---------------------- MODULE AutomationTopologyProofs ----------------------
(***************************************************************************)
(* Proof that automation acts on one committed view, for any layouts,      *)
(* targets, callers and numbers of publications, segments and mutations.   *)
(***************************************************************************)
EXTENDS AutomationTopology, TLAPS

USE AutomationAssumption

JobPcs == {"free", "revoke", "stage", "commit", "restore", "load", "store", "open", "publish",
           "withdraw"}
Maybe == Generations \cup {NoGeneration}
Edits == [route : Routes, expected : 1..MaxRevision]
Jobs == [owner : {"none", "refresh", "revoking"} \cup Kinds, pc : JobPcs,
         parts : {RouteIdle} \cup Edits,
         next : Maybe, previous : Maybe, notifies : BOOLEAN]
Calls == [pc : {"idle", "begun", "read", "routed"}, fence : 0..Unready, read : Maybe, view : Maybe]
RebuildPcs == {"free", "locked", "pinned", "reloaded", "built"}
Rebuilds == [owner : {"none"} \cup Rebuilders, pc : RebuildPcs, view : Maybe]
Databases == [layout : RouteLayouts, measurement : Routes, action : Routes,
              revision : 1..MaxRevision, rules : 0..MaxRules]

ViewTypes ==
  /\ database \in Databases /\ generation \in Generations /\ changeSequence \in 0..MaxSequence
  /\ job \in Jobs /\ caller \in [Callers -> Calls]
  /\ rebuild \in Rebuilds /\ ready \in 0..Unready

\* What a generation says of its routes: the digested ones, or revoked.
Digested(g) ==
  /\ g.digest[1] = g.layout
  /\ g.measurement = IF "measurement" \in g.revoked THEN RouteNone ELSE g.digest[2]
  /\ g.action = IF "action" \in g.revoked THEN RouteNone ELSE g.digest[3]

\* No route that SQLite does not hold
FromDatabase(g) ==
  g.action \in {RouteNone, database.action} /\ g.measurement \in {RouteNone, database.measurement}

\* The holder of the refresh gate: what it may restore is committed, what it
\* is about to commit is revoked, what it is about to publish is committed.
JobIsSafe ==
  /\ job.previous # NoGeneration =>
       /\ job.pc \in {"stage", "restore"} /\ job.previous.sequence < generation.sequence
       /\ Digested(job.previous) /\ FromDatabase(job.previous)
  /\ job.owner \in Kinds => job.parts \in Edits
  /\ job.owner \in Kinds /\ job.pc \in {"stage", "commit"} => job.owner \in generation.revoked
  /\ job.owner \in Kinds /\ job.pc = "commit" => database.revision < MaxRevision
  /\ job.pc \in {"store", "open", "publish"} =>
       /\ job.next \in Generations /\ Digested(job.next)
       /\ job.next.action = database.action /\ job.next.measurement = database.measurement

\* The same sequence is the same view.
Agree(g, h) ==
  g.sequence = h.sequence => g.digest = h.digest /\ g.measurement = h.measurement /\ g.layout = h.layout

Fresh == job.pc = "store" \/ (job.pc = "publish" /\ job.notifies)
Reading(c) == c \in Rules /\ caller[c].pc \in {"read", "routed"}

\* Who remembers a sequence, an execution that read its inputs or a ready
\* PointWatch, remembers the view that g is.
Remembered(g) ==
  /\ \A c \in Callers : Reading(c) => Agree(caller[c].read, g)
  /\ ready # Unready /\ g.sequence = ready =>
       index.measurement = g.measurement /\ index.layout = g.layout

SequencesNameViews ==
  /\ generation.sequence <= changeSequence
  /\ Fresh => job.next.sequence = changeSequence /\ generation.sequence < changeSequence
  /\ job.pc \in {"open", "publish"} /\ ~job.notifies =>
       job.next.sequence = generation.sequence /\ Agree(job.next, generation)
  /\ \A c \in Callers : Reading(c) =>
       /\ caller[c].read \in Generations /\ caller[c].read.sequence = caller[c].fence
       /\ caller[c].fence <= changeSequence
       /\ Fresh => caller[c].fence < changeSequence
  /\ ready # Unready =>
       /\ index.sequence = ready /\ index.rules = scheduled /\ ready <= changeSequence
       /\ Fresh => ready < changeSequence
  /\ Remembered(generation)
  /\ job.previous # NoGeneration => Remembered(job.previous)

\* Who pinned a view holds the generation in place.
PinsAreCurrent ==
  /\ \A c \in Callers : caller[c].pc = "routed" =>
       /\ caller[c].view = generation /\ generation.action # RouteNone
       /\ c \in Rules => Agree(caller[c].read, generation) /\ caller[c].read.sequence = generation.sequence
  /\ rebuild.pc \in {"pinned", "reloaded", "built"} => rebuild.view = generation /\ ready = Unready
  /\ rebuild.pc = "built" =>
       /\ index.sequence = generation.sequence /\ index.measurement = generation.measurement
       /\ index.layout = generation.layout /\ index.rules = scheduled

ViewInv ==
  /\ ViewTypes /\ Digested(generation) /\ FromDatabase(generation)
  /\ JobIsSafe /\ SequencesNameViews /\ PinsAreCurrent
---------------------------------------------------------------------------
(* No generation is mistaken for none. *)
LEMMA NoneIsNotOne == NoGeneration \notin Generations
<1>1. \A g \in Generations : g.sequence <= MaxSequence
  BY DEF Generations
<1>2. NoGeneration.sequence = MaxSequence + 1
  BY DEF NoGeneration, Unready
<1>. QED
  BY <1>1, <1>2

(* A composed generation carries the database's routes and is not revoked. *)
LEMMA Composed ==
    ASSUME NEW d \in Databases, NEW segment \in 0..MaxIncarnation, NEW v \in BOOLEAN,
           NEW q \in 0..MaxSequence
    PROVE  \E g \in Generations :
             /\ g = Compose(d, segment, v, q) /\ Digested(g)
             /\ g.action = d.action /\ g.measurement = d.measurement /\ g.layout = d.layout
             /\ g.sequence = q /\ g.digest = Digest(d)
<1>. DEFINE g == [layout |-> d.layout, measurement |-> d.measurement, action |-> d.action,
                  digest |-> Digest(d), sequence |-> q, segment |-> segment,
                  validated |-> v, revoked |-> {}]
<1>1. Compose(d, segment, v, q) = g
  BY Zenon DEF Compose
<1>2. /\ Digest(d) \in RouteLayouts \X Routes \X Routes /\ {} \in SUBSET Kinds
      /\ Digest(d)[1] = d.layout /\ Digest(d)[2] = d.measurement /\ Digest(d)[3] = d.action
  BY DEF Digest, Databases
<1>3. /\ g.action = d.action /\ g.measurement = d.measurement /\ g.layout = d.layout
      /\ g.sequence = q /\ g.digest = Digest(d) /\ g.revoked = {}
  OBVIOUS
<1>4. g \in Generations
  BY <1>2 DEF Generations, Databases
<1>. HIDE DEF g
<1>5. Digested(g)
  BY <1>2, <1>3 DEF Digested
<1>. QED
  BY <1>1, <1>3, <1>4, <1>5

(* The gate is free: nothing to publish, nothing to restore. *)
LEMMA FreeJob ==
    /\ Free \in Jobs /\ Free.pc = "free" /\ Free.previous = NoGeneration /\ Free.owner = "none"
    /\ Free.next = NoGeneration
<1>1. FALSE \in BOOLEAN /\ NoGeneration \in Maybe
  BY DEF Maybe
<1>2. ASSUME NEW n \in BOOLEAN
      PROVE  [owner |-> "none", pc |-> "free", parts |-> RouteIdle, next |-> NoGeneration,
              previous |-> NoGeneration, notifies |-> n] \in Jobs
  BY <1>1 DEF Jobs, JobPcs
<1>. QED
  BY <1>1, <1>2, Zenon DEF Free

(* The handle starts from the database, with nothing pinned. *)
LEMMA ViewInit == AutomationInit => ViewInv
<1>. SUFFICES ASSUME AutomationInit PROVE ViewInv
  OBVIOUS
<1>1. database \in Databases
  BY DEF AutomationInit, Databases, Routes
<1>2. generation = Compose(database, 0, FALSE, 0) /\ changeSequence = 0 /\ job = Free
  BY Zenon DEF AutomationInit
<1>3. /\ generation \in Generations /\ Digested(generation)
      /\ FromDatabase(generation) /\ generation.sequence = 0
  <2>1. FALSE \in BOOLEAN /\ 0 \in 0..MaxSequence /\ 0 \in 0..MaxIncarnation
    OBVIOUS
  <2>2. PICK g \in Generations :
           /\ g = Compose(database, 0, FALSE, 0) /\ Digested(g)
           /\ g.action = database.action /\ g.measurement = database.measurement
           /\ g.layout = database.layout /\ g.sequence = 0 /\ g.digest = Digest(database)
    BY <1>1, <2>1, Composed, Zenon
  <2>3. g = generation
    BY <1>2, <2>2, Zenon
  <2>. QED
    BY <2>2, <2>3, Zenon DEF FromDatabase
<1>4. NoCall \in Calls /\ NoCall.pc = "idle"
  BY DEF NoCall, Calls, Maybe, Unready
<1>5. caller \in [Callers -> Calls] /\ \A c \in Callers : caller[c].pc = "idle"
  BY <1>4 DEF AutomationInit
<1>6. rebuild.pc = "free" /\ rebuild.view = NoGeneration /\ ready = Unready
  BY DEF AutomationInit, NoRebuild
<1>7. ViewTypes
  <2>1. job \in Jobs /\ rebuild \in Rebuilds
    BY <1>2, FreeJob DEF AutomationInit, NoRebuild, Rebuilds, RebuildPcs, Maybe
  <2>2. changeSequence \in 0..MaxSequence /\ ready \in 0..Unready
    BY <1>2, <1>6 DEF Unready
  <2>. QED
    BY <1>1, <1>3, <1>5, <2>1, <2>2, Zenon DEF ViewTypes
<1>8. /\ changeSequence = 0 /\ job.pc = "free" /\ job.previous = NoGeneration
      /\ job.owner = "none"
  BY <1>2, FreeJob, Zenon
<1>9. JobIsSafe
  BY <1>8 DEF JobIsSafe, Kinds
<1>10. SequencesNameViews /\ PinsAreCurrent
  BY <1>3, <1>5, <1>6, <1>8
  DEF SequencesNameViews, PinsAreCurrent, Fresh, Reading, Remembered
<1>. QED
  BY <1>3, <1>7, <1>9, <1>10 DEF ViewInv

(* What the invariant says of the sequence numbers. *)
LEMMA SequenceFacts ==
    ASSUME ViewInv
    PROVE  /\ generation \in Generations /\ generation.sequence \in 0..MaxSequence
           /\ changeSequence \in 0..MaxSequence /\ generation.sequence <= changeSequence
           /\ Fresh => generation.sequence < changeSequence
           /\ ready \in Nat /\ \A c \in Callers : caller[c].fence \in Nat
           /\ job.previous # NoGeneration =>
                /\ job.previous \in Generations /\ job.previous.sequence \in Nat
                /\ job.previous.sequence < generation.sequence
<1>1. /\ generation \in Generations /\ changeSequence \in 0..MaxSequence /\ job.previous \in Maybe
      /\ ready \in Nat /\ \A c \in Callers : caller[c].fence \in Nat
  BY DEF ViewInv, ViewTypes, Jobs, Calls, Unready
<1>2. \A g \in Generations : g.sequence \in 0..MaxSequence
  BY DEF Generations
<1>3. job.previous # NoGeneration => job.previous.sequence < generation.sequence
  BY Zenon DEF ViewInv, JobIsSafe
<1>4. /\ generation.sequence <= changeSequence
      /\ Fresh => generation.sequence < changeSequence
  BY Zenon DEF ViewInv, SequencesNameViews
<1>. QED
  BY <1>1, <1>2, <1>3, <1>4 DEF Maybe

(* What changes neither the routes nor the view: io, the physical layout, the *)
(* command writer and the rules.                                              *)
LEMMA EnvironmentInv ==
    ASSUME ViewInv, IoPublishes \/ LayoutChanges \/ SinkInvalidated \/ RulesChange
    PROVE  ViewInv'
<1>1. /\ UNCHANGED <<generation, changeSequence, job, caller, rebuild, ready, index, scheduled>>
      /\ database' \in Databases
      /\ database'.action = database.action /\ database'.measurement = database.measurement
      /\ database'.revision = database.revision
  BY DEF ViewInv, ViewTypes, Databases, IoPublishes, LayoutChanges, SinkInvalidated, RulesChange,
     topologyVars, watchVars
<1>2. ViewTypes' /\ Digested(generation)' /\ FromDatabase(generation)'
  BY <1>1 DEF ViewInv, ViewTypes, Digested, FromDatabase
<1>3. JobIsSafe'
  BY <1>1 DEF ViewInv, JobIsSafe, Digested, FromDatabase
<1>4. SequencesNameViews' /\ PinsAreCurrent'
  BY <1>1 DEF ViewInv, SequencesNameViews, PinsAreCurrent, Fresh, Reading, Agree,
     Remembered
<1>. QED
  BY <1>2, <1>3, <1>4 DEF ViewInv

(* A step of the gate's holder that publishes nothing: it may forget what it *)
(* would restore and must own a revoked kind before it commits.              *)
LEMMA JobInv ==
    ASSUME ViewInv, job' \in Jobs,
           UNCHANGED <<database, generation, changeSequence, caller, rebuild, ready, index,
                       scheduled>>,
           job'.previous \in {NoGeneration, job.previous},
           job'.pc \notin {"store", "open", "publish"},
           job'.previous # NoGeneration => job'.pc \in {"stage", "restore"},
           job'.owner \in Kinds => job'.parts \in Edits,
           job'.owner \in Kinds /\ job'.pc \in {"stage", "commit"} =>
             job'.owner \in generation.revoked,
           job'.owner \in Kinds /\ job'.pc = "commit" => database.revision < MaxRevision
    PROVE  ViewInv'
<1>1. ViewTypes' /\ Digested(generation)' /\ FromDatabase(generation)'
  BY DEF ViewInv, ViewTypes, Digested, FromDatabase
<1>2. JobIsSafe'
  BY DEF ViewInv, JobIsSafe, Digested, FromDatabase
<1>3. ~Fresh'
  BY DEF Fresh
<1>4. SequencesNameViews'
  BY <1>3 DEF ViewInv, SequencesNameViews, Reading, Agree, Remembered
<1>5. PinsAreCurrent'
  BY DEF ViewInv, PinsAreCurrent, Agree
<1>. QED
  BY <1>1, <1>2, <1>4, <1>5 DEF ViewInv

(* Replacing the generation while nobody holds a view, and leaving the gate, *)
(* or keeping it with what may be restored.                                  *)
LEMMA InstallInv ==
    ASSUME ViewInv, Unpinned, job' \in Jobs, JobIsSafe',
           UNCHANGED <<database, caller, rebuild, ready, index, scheduled>>,
           changeSequence' \in changeSequence..MaxSequence,
           generation' \in Generations, Digested(generation'), FromDatabase(generation'),
           generation'.sequence <= changeSequence',
           Remembered(generation'),
           job'.previous # NoGeneration => Remembered(job'.previous),
           job'.pc \notin {"store", "open", "publish"}
    PROVE  ViewInv'
<1>1. ViewTypes' /\ Digested(generation)' /\ FromDatabase(generation)'
  BY DEF ViewInv, ViewTypes, Digested, FromDatabase
<1>2. ~Fresh'
  BY DEF Fresh
<1>3. changeSequence \in 0..MaxSequence /\ changeSequence <= changeSequence'
  BY DEF ViewInv, ViewTypes
<1>4. Remembered(generation)' /\ (job'.previous # NoGeneration => Remembered(job.previous)')
  BY DEF Remembered, Reading, Agree
<1>5. \A c \in Callers : caller[c].fence \in Nat
  BY DEF ViewInv, ViewTypes, Calls, Unready
<1>6. SequencesNameViews'
  BY <1>2, <1>3, <1>4, <1>5 DEF ViewInv, ViewTypes, SequencesNameViews, Reading, Unready
<1>7. PinsAreCurrent'
  BY DEF PinsAreCurrent, Unpinned, Pinned
<1>. QED
  BY <1>1, <1>6, <1>7 DEF ViewInv

(* A sequence that nobody has seen is remembered by nobody. *)
LEMMA FreshIsUnknown ==
    ASSUME ViewInv, NEW g \in Generations,
           \/ g.sequence = changeSequence + 1
           \/ Fresh /\ g.sequence = changeSequence
    PROVE  Remembered(g)
<1>1. changeSequence \in Nat /\ ready \in Nat /\ \A c \in Callers : caller[c].fence \in Nat
  BY DEF ViewInv, ViewTypes, Calls, Unready
<1>. QED
  BY <1>1 DEF ViewInv, SequencesNameViews, Remembered, Agree

(* Taking the gate, staging, giving up: nothing is published. *)
LEMMA TakenInv ==
    ASSUME ViewInv,
           \/ \E owner \in {"refresh", "revoking"} : RefreshBegins(owner)
           \/ \E kind \in Kinds, route \in Routes, expected \in 1..MaxRevision :
                MutationBegins(kind, route, expected)
    PROVE  ViewInv'
<1>1. UNCHANGED <<database, generation, changeSequence, caller, rebuild, ready, index, scheduled>>
  BY Zenon DEF RefreshBegins, MutationBegins, watchVars
<1>2. CASE \E owner \in {"refresh", "revoking"} : RefreshBegins(owner)
  <2>1. PICK owner \in {"refresh", "revoking"} : job' = [Free EXCEPT !.owner = owner, !.pc = "load"]
    BY <1>2, Zenon DEF RefreshBegins
  <2>2. /\ job' \in Jobs /\ job'.pc = "load" /\ job'.previous = NoGeneration
        /\ job'.owner \notin Kinds
    BY <2>1, FreeJob, Zenon DEF Jobs, JobPcs, Kinds
  <2>. QED
    BY <1>1, <2>2, JobInv
<1>3. CASE \E kind \in Kinds, route \in Routes, expected \in 1..MaxRevision :
             MutationBegins(kind, route, expected)
  <2>1. PICK kind \in Kinds, route \in Routes, expected \in 1..MaxRevision :
           job' = [Free EXCEPT !.owner = kind, !.pc = "revoke",
                               !.parts = [route |-> route, expected |-> expected]]
    BY <1>3, Zenon DEF MutationBegins
  <2>2. /\ job' \in Jobs /\ job'.pc = "revoke" /\ job'.previous = NoGeneration
        /\ job'.parts \in Edits
    BY <2>1, FreeJob, Zenon DEF Jobs, JobPcs, Edits
  <2>. QED
    BY <1>1, <2>2, JobInv
<1>. QED
  BY <1>2, <1>3

\* A refresh that fails, or a call that gives up, keeps the invariant (the error
\* returns of refresh() and of the routing mutations).
LEMMA GivenUpInv ==
    ASSUME ViewInv, MutationStages \/ MutationCancelled \/ RefreshFails
    PROVE  ViewInv'
<1>1. UNCHANGED <<database, generation, changeSequence, caller, rebuild, ready, index, scheduled>>
  BY Zenon DEF MutationStages, MutationCancelled, RefreshFails, watchVars
<1>2. job \in Jobs /\ NoGeneration \in Maybe
  BY DEF ViewInv, ViewTypes, Maybe
<1>3. CASE job' = Free
  BY <1>1, <1>3, FreeJob, JobInv DEF Kinds
<1>4. CASE /\ job.owner \in Kinds /\ job.pc = "stage" /\ database.revision < MaxRevision
           /\ job' = [job EXCEPT !.pc = "commit", !.previous = NoGeneration]
  <2>1. /\ job' \in Jobs /\ job'.pc = "commit" /\ job'.previous = NoGeneration
        /\ job'.owner = job.owner /\ job'.parts = job.parts
    BY <1>2, <1>4, Zenon DEF Jobs, JobPcs
  <2>2. job.owner \in generation.revoked /\ job.parts \in Edits
    BY <1>4 DEF ViewInv, JobIsSafe
  <2>. QED
    BY <1>1, <1>4, <2>1, <2>2, JobInv
<1>5. CASE job' = [job EXCEPT !.pc = "restore"]
  <2>1. /\ job' \in Jobs /\ job'.pc = "restore" /\ job'.previous = job.previous
        /\ job'.owner = job.owner /\ job'.parts = job.parts
    BY <1>2, <1>5 DEF Jobs, JobPcs
  <2>. QED
    BY <1>1, <2>1, JobInv DEF ViewInv, JobIsSafe
<1>6. CASE job.pc \in {"load", "open", "publish"} /\ job' = [job EXCEPT !.pc = "withdraw"]
  <2>1. /\ job' \in Jobs /\ job'.pc = "withdraw" /\ job'.previous = job.previous
        /\ job'.owner = job.owner /\ job'.parts = job.parts
    BY <1>2, <1>6 DEF Jobs, JobPcs
  <2>2. job.previous = NoGeneration
    BY <1>6 DEF ViewInv, JobIsSafe
  <2>. QED
    BY <1>1, <2>1, <2>2, JobInv DEF ViewInv, JobIsSafe
<1>. QED
  BY <1>3, <1>4, <1>5, <1>6, Zenon DEF MutationStages, MutationCancelled, RefreshFails

(* A committed mutation changes one route and the revision. *)
LEMMA Edited ==
    ASSUME NEW d \in Databases, NEW r \in Routes, d.revision < MaxRevision
    PROVE  /\ [d EXCEPT !.action = r, !.revision = @ + 1] \in Databases
           /\ [d EXCEPT !.measurement = r, !.revision = @ + 1] \in Databases
           /\ [d EXCEPT !.action = r, !.revision = @ + 1].measurement = d.measurement
           /\ [d EXCEPT !.measurement = r, !.revision = @ + 1].action = d.action
<1>1. d.revision \in 1..MaxRevision /\ d.revision + 1 \in 1..MaxRevision
  BY DEF Databases
<1>. QED
  BY <1>1, Zenon DEF Databases

(* The commit replaces a route that nobody can use: its kind is revoked, so *)
(* the generation and every pinned view are without it.                     *)
LEMMA CommitInv ==
    ASSUME ViewInv, MutationCommits
    PROVE  ViewInv'
<1>1. /\ job.owner \in Kinds /\ job.pc = "commit"
      /\ UNCHANGED <<generation, changeSequence, caller, rebuild, ready, index, scheduled>>
      /\ database' \in {database, Committed}
      /\ job' = [job EXCEPT !.pc = "load"] \/ job' = Free
  BY Zenon DEF MutationCommits, watchVars
<1>2. /\ job \in Jobs /\ job.owner \in generation.revoked /\ job.previous = NoGeneration
      /\ job.parts \in Edits /\ database.revision < MaxRevision /\ database \in Databases
  BY <1>1 DEF ViewInv, ViewTypes, JobIsSafe
<1>3. job' \in Jobs /\ job'.pc \in {"load", "free"} /\ job'.previous = NoGeneration
      /\ (job'.owner \in Kinds => job'.parts \in Edits)
  BY <1>1, <1>2, FreeJob DEF Jobs, JobPcs, Kinds
<1>4. ASSUME job.owner = "action"
      PROVE  database' \in Databases /\ FromDatabase(generation)'
  <2>1. generation.action = RouteNone
    BY <1>2, <1>4 DEF ViewInv, Digested
  <2>2. Committed = [database EXCEPT !.action = job.parts.route, !.revision = @ + 1]
    BY <1>4, Zenon DEF Committed
  <2>3. Committed \in Databases /\ Committed.measurement = database.measurement
    <3>1. job.parts.route \in Routes
      BY <1>2 DEF Edits
    <3>. QED
      BY <1>2, <2>2, <3>1, Edited, Zenon
  <2>. QED
    BY <1>1, <1>2, <2>1, <2>3 DEF ViewInv, FromDatabase
<1>5. ASSUME job.owner = "measurement"
      PROVE  database' \in Databases /\ FromDatabase(generation)'
  <2>1. generation.measurement = RouteNone
    BY <1>2, <1>5 DEF ViewInv, Digested
  <2>2. Committed = [database EXCEPT !.measurement = job.parts.route, !.revision = @ + 1]
    BY <1>5, Zenon DEF Committed
  <2>3. Committed \in Databases /\ Committed.action = database.action
    <3>1. job.parts.route \in Routes
      BY <1>2 DEF Edits
    <3>. QED
      BY <1>2, <2>2, <3>1, Edited, Zenon
  <2>. QED
    BY <1>1, <1>2, <2>1, <2>3 DEF ViewInv, FromDatabase
<1>6. database' \in Databases /\ FromDatabase(generation)'
  BY <1>1, <1>4, <1>5 DEF Kinds
<1>7. ViewTypes' /\ Digested(generation)'
  BY <1>1, <1>3, <1>6 DEF ViewInv, ViewTypes, Digested
<1>8. JobIsSafe'
  BY <1>3 DEF JobIsSafe
<1>9. ~Fresh'
  BY <1>3 DEF Fresh
<1>10. SequencesNameViews' /\ PinsAreCurrent'
  BY <1>1, <1>3, <1>9 DEF ViewInv, SequencesNameViews, PinsAreCurrent, Reading, Agree, Remembered
<1>. QED
  BY <1>6, <1>7, <1>8, <1>10 DEF ViewInv

(* A revocation clears one kind of route under a sequence of its own. *)
LEMMA RevokedView ==
    ASSUME ViewInv, NEW kind \in Kinds, changeSequence < MaxSequence
    PROVE  \E g \in Generations :
             /\ g = Revoked(kind, changeSequence + 1) /\ Digested(g) /\ FromDatabase(g)
             /\ g.sequence = changeSequence + 1 /\ g.revoked = generation.revoked \cup {kind}
<1>. DEFINE g == Revoked(kind, changeSequence + 1)
<1>1. /\ generation \in Generations /\ changeSequence + 1 \in 0..MaxSequence
      /\ Digested(generation) /\ FromDatabase(generation) /\ RouteNone \in Routes
      /\ generation.revoked \cup {kind} \in SUBSET Kinds
  BY DEF ViewInv, ViewTypes, Routes, Generations
<1>2. CASE kind = "action"
  <2>1. g = [generation EXCEPT !.action = RouteNone, !.sequence = changeSequence + 1,
                               !.revoked = generation.revoked \cup {"action"}]
    BY <1>2, Zenon DEF Revoked
  <2>2. /\ g \in Generations /\ g.action = RouteNone /\ g.measurement = generation.measurement
        /\ g.digest = generation.digest /\ g.layout = generation.layout
        /\ g.sequence = changeSequence + 1 /\ g.revoked = generation.revoked \cup {"action"}
    BY <1>1, <1>2, <2>1, Zenon DEF Generations
  <2>. QED
    BY <1>1, <1>2, <2>2 DEF Digested, FromDatabase
<1>3. CASE kind = "measurement"
  <2>1. g = [generation EXCEPT !.measurement = RouteNone, !.sequence = changeSequence + 1,
                               !.revoked = generation.revoked \cup {"measurement"}]
    BY <1>3, Zenon DEF Revoked
  <2>2. /\ g \in Generations /\ g.measurement = RouteNone /\ g.action = generation.action
        /\ g.digest = generation.digest /\ g.layout = generation.layout
        /\ g.sequence = changeSequence + 1 /\ g.revoked = generation.revoked \cup {"measurement"}
    BY <1>1, <1>3, <2>1, Zenon DEF Generations
  <2>. QED
    BY <1>1, <1>3, <2>2 DEF Digested, FromDatabase
<1>. QED
  BY <1>2, <1>3 DEF Kinds

(* MutationRevokes: the kind is revoked and the former generation kept aside. *)
LEMMA RevokesInv ==
    ASSUME ViewInv, MutationRevokes
    PROVE  ViewInv'
<1>1. /\ job.owner \in Kinds /\ job.pc = "revoke" /\ Unpinned
      /\ UNCHANGED <<database, caller, rebuild, ready, index, scheduled>>
  BY Zenon DEF MutationRevokes, Revoke, watchVars
<1>2. job \in Jobs /\ job.previous = NoGeneration /\ job.parts \in Edits
  BY <1>1 DEF ViewInv, ViewTypes, JobIsSafe
<1>3. CASE job.owner \in generation.revoked
  <2>1. /\ UNCHANGED <<generation, changeSequence>>
        /\ job' = [job EXCEPT !.pc = "stage", !.previous = NoGeneration]
    BY <1>3, Zenon DEF MutationRevokes, Revoke
  <2>2. /\ job' \in Jobs /\ job'.pc = "stage" /\ job'.previous = NoGeneration
        /\ job'.owner = job.owner /\ job'.parts = job.parts
    BY <1>2, <2>1, Zenon DEF Jobs, JobPcs, Maybe
  <2>. QED
    BY <1>1, <1>2, <1>3, <2>1, <2>2, JobInv
<1>4. CASE job.owner \notin generation.revoked
  <2>1. /\ changeSequence < MaxSequence /\ changeSequence' = changeSequence + 1
        /\ generation' = Revoked(job.owner, changeSequence + 1)
        /\ job' = [job EXCEPT !.pc = "stage", !.previous = generation]
    BY <1>4, Zenon DEF MutationRevokes, Revoke, Install
  <2>2. /\ generation \in Generations /\ changeSequence \in 0..MaxSequence
        /\ generation.sequence \in 0..MaxSequence /\ generation.sequence <= changeSequence
    BY DEF ViewInv, ViewTypes, SequencesNameViews, Generations
  <2>3. PICK g \in Generations :
          /\ g = Revoked(job.owner, changeSequence + 1) /\ Digested(g) /\ FromDatabase(g)
          /\ g.sequence = changeSequence + 1 /\ g.revoked = generation.revoked \cup {job.owner}
    BY <1>1, <2>1, RevokedView
  <2>4. generation' = g
    BY <2>1, <2>3, Zenon
  <2>5. /\ job' \in Jobs /\ job'.pc = "stage" /\ job'.previous = generation
        /\ job'.owner = job.owner /\ job'.parts = job.parts
    BY <1>2, <2>1, <2>2, Zenon DEF Jobs, JobPcs, Maybe
  <2>6. Remembered(g) /\ Remembered(generation)
    BY <2>3, FreshIsUnknown DEF ViewInv, SequencesNameViews
  <2>7. generation.sequence < g.sequence
    BY <2>2, <2>3
  <2>8. JobIsSafe'
    BY <1>1, <1>2, <2>3, <2>4, <2>5, <2>7 DEF ViewInv, JobIsSafe, Digested, FromDatabase
  <2>. QED
    BY <1>1, <2>1, <2>2, <2>3, <2>4, <2>5, <2>6, <2>8, InstallInv
<1>. QED
  BY <1>3, <1>4

(* RefreshWithdraws: the action routes are revoked and the gate is left. *)
LEMMA WithdrawsInv ==
    ASSUME ViewInv, RefreshWithdraws
    PROVE  ViewInv'
<1>1. /\ Unpinned /\ job' = Free
      /\ UNCHANGED <<database, caller, rebuild, ready, index, scheduled>>
  BY Zenon DEF RefreshWithdraws, Revoke, watchVars
<1>2. CASE "action" \in generation.revoked
  <2>1. UNCHANGED <<generation, changeSequence>>
    BY <1>2, Zenon DEF RefreshWithdraws, Revoke
  <2>. QED
    BY <1>1, <2>1, FreeJob, JobInv DEF Kinds
<1>3. CASE "action" \notin generation.revoked
  <2>1. /\ changeSequence < MaxSequence /\ changeSequence' = changeSequence + 1
        /\ generation' = Revoked("action", changeSequence + 1)
    BY <1>3, Zenon DEF RefreshWithdraws, Revoke, Install
  <2>2. changeSequence \in 0..MaxSequence /\ "action" \in Kinds
    BY DEF ViewInv, ViewTypes, Kinds
  <2>3. PICK g \in Generations :
          /\ g = Revoked("action", changeSequence + 1) /\ Digested(g) /\ FromDatabase(g)
          /\ g.sequence = changeSequence + 1 /\ g.revoked = generation.revoked \cup {"action"}
    BY <2>1, <2>2, RevokedView
  <2>4. generation' = g /\ Remembered(g)
    BY <2>1, <2>3, FreshIsUnknown, Zenon
  <2>5. JobIsSafe'
    BY <1>1, FreeJob DEF JobIsSafe, Kinds
  <2>. QED
    BY <1>1, <2>1, <2>2, <2>3, <2>4, <2>5, FreeJob, InstallInv
<1>. QED
  BY <1>2, <1>3

(* MutationRestores: what comes back is the view that was there before. *)
LEMMA RestoresInv ==
    ASSUME ViewInv, MutationRestores
    PROVE  ViewInv'
<1>1. /\ job' = Free /\ job.pc = "restore"
      /\ UNCHANGED <<database, changeSequence, caller, rebuild, ready, index, scheduled>>
  BY Zenon DEF MutationRestores, watchVars
<1>2. CASE job.previous = NoGeneration
  <2>1. UNCHANGED generation
    BY <1>2, Zenon DEF MutationRestores
  <2>. QED
    BY <1>1, <2>1, FreeJob, JobInv DEF Kinds
<1>3. CASE job.previous # NoGeneration
  <2>1. Unpinned /\ generation' = job.previous
    BY <1>3, Zenon DEF MutationRestores, Install
  <2>2. /\ job.previous \in Generations /\ Digested(job.previous) /\ FromDatabase(job.previous)
        /\ job.previous.sequence < generation.sequence /\ Remembered(job.previous)
    BY <1>3 DEF ViewInv, ViewTypes, Jobs, Maybe, JobIsSafe, SequencesNameViews
  <2>3. /\ generation.sequence <= changeSequence /\ changeSequence \in 0..MaxSequence
        /\ generation.sequence \in Nat /\ job.previous.sequence \in Nat
    BY <1>3, SequenceFacts
  <2>4. JobIsSafe'
    BY <1>1, FreeJob DEF JobIsSafe, Kinds
  <2>. QED
    BY <1>1, <2>1, <2>2, <2>3, <2>4, FreeJob, InstallInv
<1>. QED
  BY <1>2, <1>3

(* Preparing the next generation: under a sequence of its own, or under the *)
(* present one when it is the present view on other segments.               *)
LEMMA PrepareInv ==
    ASSUME ViewInv, job' \in Jobs, JobIsSafe', job'.previous = NoGeneration,
           UNCHANGED <<database, generation, caller, rebuild, ready, index, scheduled>>,
           changeSequence' \in {changeSequence, changeSequence + 1},
           changeSequence' <= MaxSequence,
           Fresh' => /\ changeSequence' = changeSequence + 1
                     /\ job'.next.sequence = changeSequence',
           job'.pc \in {"open", "publish"} /\ ~job'.notifies =>
             job'.next.sequence = generation.sequence /\ Agree(job'.next, generation)
    PROVE  ViewInv'
<1>1. /\ changeSequence \in Nat /\ generation.sequence \in Nat /\ ready \in Nat
      /\ \A c \in Callers : caller[c].fence \in Nat
  BY SequenceFacts
<1>2. ViewTypes' /\ Digested(generation)' /\ FromDatabase(generation)'
  BY <1>1 DEF ViewInv, ViewTypes, Digested, FromDatabase
<1>3. Remembered(generation)'
  BY DEF ViewInv, SequencesNameViews, Remembered, Reading, Agree
<1>4. \A c \in Callers : Reading(c)' =>
        /\ caller'[c].read \in Generations /\ caller'[c].read.sequence = caller'[c].fence
        /\ caller'[c].fence <= changeSequence'
        /\ Fresh' => caller'[c].fence < changeSequence'
  BY <1>1 DEF ViewInv, SequencesNameViews, Reading
<1>6. ready' # Unready =>
        /\ index'.sequence = ready' /\ index'.rules = scheduled' /\ ready' <= changeSequence'
        /\ Fresh' => ready' < changeSequence'
  BY <1>1 DEF ViewInv, SequencesNameViews
<1>7. /\ generation'.sequence <= changeSequence'
      /\ Fresh' => generation'.sequence < changeSequence'
      /\ Agree(job.next, generation)' <=> Agree(job'.next, generation)
  BY <1>1, SequenceFacts DEF Agree
<1>8. SequencesNameViews'
  BY <1>3, <1>4, <1>6, <1>7, Zenon DEF SequencesNameViews
<1>9. PinsAreCurrent'
  BY DEF ViewInv, PinsAreCurrent, Agree
<1>. QED
  BY <1>2, <1>8, <1>9 DEF ViewInv

(* RefreshLoads: the candidate is composed from the committed rows. *)
LEMMA LoadsInv ==
    ASSUME ViewInv, RefreshLoads
    PROVE  ViewInv'
<1>1. /\ job.pc = "load"
      /\ UNCHANGED <<database, generation, caller, rebuild, ready, index, scheduled>>
  BY Zenon DEF RefreshLoads, watchVars
<1>2. /\ job \in Jobs /\ job.previous = NoGeneration /\ database \in Databases
      /\ generation \in Generations /\ changeSequence \in 0..MaxSequence
      /\ (job.owner \in Kinds => job.parts \in Edits)
  BY <1>1 DEF ViewInv, ViewTypes, JobIsSafe
<1>3. CASE job' = Free /\ UNCHANGED changeSequence
  BY <1>1, <1>3, FreeJob, JobInv DEF Kinds
<1>4. CASE \E v \in BOOLEAN :
             /\ changeSequence < MaxSequence /\ changeSequence' = changeSequence + 1
             /\ job' = [job EXCEPT !.pc = "store", !.notifies = TRUE,
                          !.next = Compose(database, generation.segment, v, changeSequence')]
  <2>1. PICK v \in BOOLEAN :
             /\ changeSequence < MaxSequence /\ changeSequence' = changeSequence + 1
             /\ job' = [job EXCEPT !.pc = "store", !.notifies = TRUE,
                          !.next = Compose(database, generation.segment, v, changeSequence')]
    BY <1>4, Zenon
  <2>2. changeSequence' \in 0..MaxSequence /\ generation.segment \in 0..MaxIncarnation
    BY <1>2, <2>1 DEF Generations
  <2>3. PICK g \in Generations :
             /\ g = Compose(database, generation.segment, v, changeSequence') /\ Digested(g)
             /\ g.action = database.action /\ g.measurement = database.measurement
             /\ g.layout = database.layout /\ g.sequence = changeSequence'
             /\ g.digest = Digest(database)
    BY <1>2, <2>2, Composed
  <2>4. job' = [job EXCEPT !.pc = "store", !.notifies = TRUE, !.next = g]
    BY <2>1, <2>3, Zenon
  <2>5. /\ job' \in Jobs /\ job'.pc = "store" /\ job'.next = g /\ job'.previous = NoGeneration
        /\ job'.owner = job.owner /\ job'.parts = job.parts
    BY <1>2, <2>4, Zenon DEF Jobs, JobPcs, Maybe
  <2>6. JobIsSafe'
    BY <1>1, <1>2, <2>3, <2>5 DEF JobIsSafe, Digested
  <2>. QED
    BY <1>1, <1>2, <2>1, <2>2, <2>3, <2>5, <2>6, PrepareInv
<1>5. CASE \E n \in BOOLEAN :
             /\ UNCHANGED changeSequence
             /\ ~n => ~LogicalChanged
             /\ job' = [job EXCEPT !.pc = "open",
                          !.next = Compose(database, 0, TRUE, generation.sequence),
                          !.notifies = n]
  <2>1. PICK n \in BOOLEAN :
             /\ UNCHANGED changeSequence
             /\ ~n => ~LogicalChanged
             /\ job' = [job EXCEPT !.pc = "open",
                          !.next = Compose(database, 0, TRUE, generation.sequence),
                          !.notifies = n]
    BY <1>5, Zenon
  <2>2. TRUE \in BOOLEAN /\ generation.sequence \in 0..MaxSequence /\ 0 \in 0..MaxIncarnation
    BY <1>2 DEF Generations
  <2>3. PICK g \in Generations :
             /\ g = Compose(database, 0, TRUE, generation.sequence) /\ Digested(g)
             /\ g.action = database.action /\ g.measurement = database.measurement
             /\ g.layout = database.layout /\ g.sequence = generation.sequence
             /\ g.digest = Digest(database)
    <3>1. PICK v \in BOOLEAN : v = TRUE
      OBVIOUS
    <3>2. \E g \in Generations :
             /\ g = Compose(database, 0, v, generation.sequence) /\ Digested(g)
             /\ g.action = database.action /\ g.measurement = database.measurement
             /\ g.layout = database.layout /\ g.sequence = generation.sequence
             /\ g.digest = Digest(database)
      BY <1>2, <2>2, Composed
    <3>. QED
      BY <3>1, <3>2, Zenon
  <2>4. job' = [job EXCEPT !.pc = "open", !.next = g, !.notifies = n]
    BY <2>1, <2>3, Zenon
  <2>5. /\ job' \in Jobs /\ job'.pc = "open" /\ job'.next = g /\ job'.previous = NoGeneration
        /\ job'.owner = job.owner /\ job'.parts = job.parts /\ job'.notifies = n
    BY <1>2, <2>4, Zenon DEF Jobs, JobPcs, Maybe
  <2>6. JobIsSafe'
    BY <1>1, <1>2, <2>3, <2>5, Zenon DEF JobIsSafe, Digested
  <2>7. ASSUME ~n PROVE Agree(g, generation)
    <3>1. generation.digest = Digest(database) /\ generation.revoked = {}
      BY <2>1, <2>7, Zenon DEF LogicalChanged
    <3>2. g.digest[1] = g.layout /\ g.digest[2] = g.measurement
      <4>1. Digest(database)[1] = database.layout /\ Digest(database)[2] = database.measurement
        BY DEF Digest
      <4>. QED
        BY <2>3, <4>1, Zenon
    <3>3. Digested(generation)
      BY DEF ViewInv
    <3>. QED
      BY <2>3, <3>1, <3>2, <3>3, Zenon DEF Agree, Digested
  <2>8. ~Fresh' /\ changeSequence <= MaxSequence
    BY <1>2, <2>5 DEF Fresh
  <2>. QED
    BY <1>1, <2>1, <2>3, <2>5, <2>6, <2>7, <2>8, PrepareInv, Zenon
<1>6. CASE /\ UNCHANGED changeSequence
           /\ job' = [job EXCEPT !.pc = "open",
                        !.next = Compose(database, 0, TRUE, generation.sequence),
                        !.notifies = LogicalChanged \/ PhysicalChanged
                                       \/ ~generation.validated]
  <2>. DEFINE n == LogicalChanged \/ PhysicalChanged \/ ~generation.validated
  <2>1. n \in BOOLEAN /\ (~n => ~LogicalChanged)
    BY Zenon
  <2>2. job' = [job EXCEPT !.pc = "open",
                  !.next = Compose(database, 0, TRUE, generation.sequence), !.notifies = n]
    BY <1>6, Zenon
  <2>. HIDE DEF n
  <2>. QED
    BY <1>5, <1>6, <2>1, <2>2, Zenon
<1>7. CASE /\ changeSequence < MaxSequence /\ changeSequence' = changeSequence + 1
           /\ job' = [job EXCEPT !.pc = "store", !.notifies = TRUE,
                        !.next = Compose(database, generation.segment, TRUE, changeSequence')]
  BY <1>4, <1>7, Zenon
<1>8. CASE /\ changeSequence < MaxSequence /\ changeSequence' = changeSequence + 1
           /\ job' = [job EXCEPT !.pc = "store", !.notifies = TRUE,
                        !.next = Compose(database, generation.segment, FALSE, changeSequence')]
  BY <1>4, <1>8, Zenon
<1>. QED
  BY <1>3, <1>6, <1>7, <1>8, Zenon DEF RefreshLoads

(* RefreshOpens: the candidate gets the opened segment, and its sequence if *)
(* it is another view.                                                      *)
LEMMA OpensInv ==
    ASSUME ViewInv, RefreshOpens, shm.incarnation \in 0..MaxIncarnation
    PROVE  ViewInv'
<1>1. /\ job.pc = "open"
      /\ UNCHANGED <<database, generation, caller, rebuild, ready, index, scheduled>>
  BY Zenon DEF RefreshOpens, watchVars
<1>2. /\ job \in Jobs /\ job.previous = NoGeneration /\ changeSequence \in 0..MaxSequence
      /\ job.next \in Generations /\ Digested(job.next)
      /\ job.next.action = database.action /\ job.next.measurement = database.measurement
      /\ (job.owner \in Kinds => job.parts \in Edits)
      /\ ~job.notifies =>
           job.next.sequence = generation.sequence /\ Agree(job.next, generation)
  BY <1>1 DEF ViewInv, ViewTypes, JobIsSafe, SequencesNameViews
<1>3. ASSUME NEW q \in 0..MaxSequence, NEW g,
             g = [job.next EXCEPT !.segment = shm.incarnation, !.sequence = q]
      PROVE  /\ g \in Generations /\ Digested(g) /\ g.sequence = q
             /\ g.action = database.action /\ g.measurement = database.measurement
  BY <1>2, <1>3, Zenon DEF Generations, Digested
<1>4. CASE job.notifies
  <2>1. /\ changeSequence < MaxSequence /\ changeSequence' = changeSequence + 1
        /\ job' = [job EXCEPT !.pc = "publish", !.next.segment = shm.incarnation,
                              !.next.sequence = changeSequence']
    BY <1>4, Zenon DEF RefreshOpens
  <2>2. PICK g : g = [job.next EXCEPT !.segment = shm.incarnation, !.sequence = changeSequence']
    OBVIOUS
  <2>3. changeSequence' \in 0..MaxSequence
    BY <1>2, <2>1
  <2>4. /\ g \in Generations /\ Digested(g) /\ g.sequence = changeSequence'
        /\ g.action = database.action /\ g.measurement = database.measurement
    BY <1>3, <2>2, <2>3, Zenon
  <2>5. /\ job' = [job EXCEPT !.pc = "publish", !.next = g]
    BY <1>2, <2>1, <2>2, Zenon DEF Jobs
  <2>6. /\ job' \in Jobs /\ job'.pc = "publish" /\ job'.next = g /\ job'.previous = NoGeneration
        /\ job'.owner = job.owner /\ job'.parts = job.parts /\ job'.notifies = job.notifies
    BY <1>2, <2>4, <2>5, Zenon DEF Jobs, JobPcs, Maybe
  <2>7. JobIsSafe'
    BY <1>1, <1>2, <2>4, <2>6 DEF JobIsSafe, Digested
  <2>. QED
    BY <1>1, <1>2, <1>4, <2>1, <2>3, <2>4, <2>6, <2>7, PrepareInv
<1>5. CASE ~job.notifies
  <2>1. /\ changeSequence' = changeSequence
        /\ job' = [job EXCEPT !.pc = "publish", !.next.segment = shm.incarnation]
    BY <1>5, Zenon DEF RefreshOpens
  <2>2. PICK g : g = [job.next EXCEPT !.segment = shm.incarnation]
    OBVIOUS
  <2>3. /\ g \in Generations /\ Digested(g) /\ g.sequence = job.next.sequence
        /\ g.action = database.action /\ g.measurement = database.measurement
        /\ g.digest = job.next.digest /\ g.layout = job.next.layout
    BY <1>2, <2>2 DEF Generations, Digested
  <2>4. job' = [job EXCEPT !.pc = "publish", !.next = g]
    BY <1>2, <2>1, <2>2 DEF Jobs
  <2>5. /\ job' \in Jobs /\ job'.pc = "publish" /\ job'.next = g /\ job'.previous = NoGeneration
        /\ job'.owner = job.owner /\ job'.parts = job.parts /\ job'.notifies = job.notifies
    BY <1>2, <2>3, <2>4, Zenon DEF Jobs, JobPcs, Maybe
  <2>6. JobIsSafe'
    BY <1>1, <1>2, <2>3, <2>5 DEF JobIsSafe, Digested
  <2>7. ~Fresh' /\ Agree(g, generation)
    BY <1>2, <1>5, <2>3, <2>5 DEF Fresh, Agree
  <2>. QED
    BY <1>1, <1>2, <1>5, <2>1, <2>3, <2>5, <2>6, <2>7, PrepareInv
<1>. QED
  BY <1>4, <1>5

(* RefreshStores, RefreshPublishes: the prepared generation is installed. *)
LEMMA PublishedInv ==
    ASSUME ViewInv, RefreshStores \/ RefreshPublishes
    PROVE  ViewInv'
<1>1. /\ job.pc \in {"store", "publish"} /\ Unpinned /\ job' = Free /\ generation' = job.next
      /\ UNCHANGED <<database, changeSequence, caller, rebuild, ready, index, scheduled>>
  BY Zenon DEF RefreshStores, RefreshPublishes, Install, watchVars
<1>2. /\ job.next \in Generations /\ Digested(job.next) /\ FromDatabase(job.next)
      /\ changeSequence \in 0..MaxSequence
  BY <1>1 DEF ViewInv, ViewTypes, JobIsSafe, FromDatabase
<1>3. job.next.sequence <= changeSequence /\ Remembered(job.next)
  <2>1. CASE Fresh
    <3>1. job.next.sequence = changeSequence
      BY <2>1, Zenon DEF ViewInv, SequencesNameViews
    <3>. QED
      BY <1>2, <2>1, <3>1, FreshIsUnknown
  <2>2. CASE ~Fresh
    BY <1>1, <2>2 DEF ViewInv, SequencesNameViews, Fresh, Remembered, Agree
  <2>. QED
    BY <2>1, <2>2
<1>4. JobIsSafe'
  BY <1>1, FreeJob DEF JobIsSafe, Kinds
<1>5. /\ job' \in Jobs /\ job'.previous = NoGeneration
      /\ job'.pc \notin {"store", "open", "publish"}
  BY <1>1, FreeJob
<1>6. /\ generation' \in Generations /\ Digested(generation') /\ FromDatabase(generation')
      /\ generation'.sequence <= changeSequence' /\ Remembered(generation')
      /\ changeSequence' \in changeSequence..MaxSequence
  BY <1>1, <1>2, <1>3
<1>. QED
  BY <1>1, <1>4, <1>5, <1>6, InstallInv

(* A step of one caller: what it remembers or pins is the generation. *)
LEMMA CallInv ==
    ASSUME ViewInv, NEW c \in Callers, NEW e \in Calls,
           caller' = [caller EXCEPT ![c] = e],
           UNCHANGED <<database, generation, changeSequence, job, rebuild, ready, index, scheduled>>,
           e.pc = "read" => /\ e.read = generation /\ e.fence = generation.sequence,
           e.pc = "routed" =>
             /\ e.view = generation /\ generation.action # RouteNone
             /\ c \in Rules => /\ caller[c].pc = "read" /\ e.fence = generation.sequence
                               /\ e.fence = caller[c].fence /\ e.read = caller[c].read
    PROVE  ViewInv'
<1>1. /\ caller \in [Callers -> Calls] /\ caller'[c] = e
      /\ \A o \in Callers : o # c => caller'[o] = caller[o]
  BY DEF ViewInv, ViewTypes
<1>2. /\ generation \in Generations /\ generation.sequence \in Nat /\ changeSequence \in Nat
      /\ generation.sequence <= changeSequence
      /\ Fresh => generation.sequence < changeSequence
  BY SequenceFacts
<1>3. ViewTypes' /\ Digested(generation)' /\ FromDatabase(generation)' /\ JobIsSafe'
  BY <1>1 DEF ViewInv, ViewTypes, Digested, FromDatabase, JobIsSafe
<1>4. Reading(c)' => /\ e.read \in Generations /\ e.read.sequence = e.fence
                     /\ e.fence <= changeSequence /\ (Fresh => e.fence < changeSequence)
                     /\ Agree(e.read, generation)
                     /\ job.previous # NoGeneration => Agree(e.read, job.previous)
  <2>1. CASE e.pc = "read"
    <3>1. Agree(generation, generation)
      BY DEF Agree
    <3>2. job.previous # NoGeneration => Agree(generation, job.previous)
      <4>1. job.previous # NoGeneration =>
              job.previous.sequence < generation.sequence /\ job.previous \in Generations
        BY DEF ViewInv, ViewTypes, JobIsSafe, Jobs, Maybe
      <4>. QED
        BY <1>2, <4>1 DEF Agree, Generations
    <3>. QED
      BY <1>2, <2>1, <3>1, <3>2
  <2>2. CASE e.pc = "routed"
    BY <2>2, <1>1 DEF Reading, ViewInv, SequencesNameViews, Remembered
  <2>. QED
    BY <1>1, <2>1, <2>2 DEF Reading
<1>5. \A o \in Callers : o # c => (Reading(o)' <=> Reading(o))
  BY <1>1 DEF Reading
<1>6. Remembered(generation)'
  BY <1>1, <1>4, <1>5 DEF ViewInv, SequencesNameViews, Remembered, Agree
<1>7. job.previous # NoGeneration => Remembered(job.previous)'
  BY <1>1, <1>4, <1>5 DEF ViewInv, SequencesNameViews, Remembered, Agree
<1>8. SequencesNameViews'
  BY <1>1, <1>4, <1>5, <1>6, <1>7 DEF ViewInv, SequencesNameViews, Fresh, Agree
<1>9. PinsAreCurrent'
  <2>1. ASSUME e.pc = "routed", c \in Rules
        PROVE  e.read.sequence = generation.sequence /\ Agree(e.read, generation)
    BY <1>1, <1>4, <2>1 DEF Reading
  <2>. QED
    BY <1>1, <2>1 DEF ViewInv, PinsAreCurrent, Agree
<1>. QED
  BY <1>3, <1>8, <1>9 DEF ViewInv

(* Every step of a command or of a rule's execution is such a step. *)
LEMMA CallingInv ==
    ASSUME ViewInv, Calling
    PROVE  ViewInv'
<1>1. PICK c \in Callers :
        ExecutionBegins(c) \/ ExecutionReads(c) \/ RouteDispatch(c) \/ Dispatched(c)
  BY DEF Calling
<1>2. UNCHANGED <<database, generation, changeSequence, job, rebuild, ready, index, scheduled>>
  BY <1>1, Zenon DEF ExecutionBegins, ExecutionReads, RouteDispatch, Dispatched, topologyVars,
     watchVars
<1>3. /\ caller \in [Callers -> Calls] /\ generation \in Generations
      /\ generation.sequence \in 0..Unready
  BY DEF ViewInv, ViewTypes, Generations, Unready
<1>4. NoCall \in Calls /\ NoCall.pc = "idle"
  BY DEF NoCall, Calls, Maybe, Unready
<1>5. CASE caller' = [caller EXCEPT ![c] = NoCall]
  BY <1>2, <1>4, <1>5, CallInv, Zenon
<1>6. CASE caller' = [caller EXCEPT ![c] = [NoCall EXCEPT !.pc = "begun",
                                              !.fence = generation.sequence]]
  <2>. DEFINE e == [NoCall EXCEPT !.pc = "begun", !.fence = generation.sequence]
  <2>1. e \in Calls /\ e.pc = "begun"
    BY <1>3, <1>4, Zenon DEF Calls
  <2>. HIDE DEF e
  <2>. QED
    BY <1>2, <1>6, <2>1, CallInv, Zenon DEF e
<1>7. CASE /\ generation.sequence = caller[c].fence
           /\ caller' = [caller EXCEPT ![c] = [caller[c] EXCEPT !.pc = "read",
                                                 !.read = generation]]
  <2>. DEFINE e == [caller[c] EXCEPT !.pc = "read", !.read = generation]
  <2>1. e \in Calls /\ e.pc = "read" /\ e.read = generation /\ e.fence = generation.sequence
    BY <1>3, <1>7, Zenon DEF Calls, Maybe
  <2>2. caller' = [caller EXCEPT ![c] = e]
    BY <1>7
  <2>. HIDE DEF e
  <2>. QED
    BY <1>2, <2>1, <2>2, CallInv, Zenon
<1>8. CASE /\ caller[c].pc = (IF c \in Rules THEN "read" ELSE "idle")
           /\ Fenced(c) /\ generation.action # RouteNone
           /\ caller' = [caller EXCEPT ![c] = [caller[c] EXCEPT !.pc = "routed",
                                                 !.view = generation]]
  <2>. DEFINE e == [caller[c] EXCEPT !.pc = "routed", !.view = generation]
  <2>1. /\ e \in Calls /\ e.pc = "routed" /\ e.view = generation
        /\ e.fence = caller[c].fence /\ e.read = caller[c].read
    BY <1>3, Zenon DEF Calls, Maybe
  <2>2. c \in Rules => caller[c].pc = "read" /\ caller[c].fence = generation.sequence
    BY <1>8 DEF Fenced
  <2>3. caller' = [caller EXCEPT ![c] = e]
    BY <1>8
  <2>. HIDE DEF e
  <2>4. /\ e.view = generation /\ generation.action # RouteNone
        /\ c \in Rules => /\ caller[c].pc = "read" /\ e.fence = generation.sequence
                          /\ e.fence = caller[c].fence /\ e.read = caller[c].read
    BY <1>8, <2>1, <2>2, Zenon
  <2>5. e.pc # "read" /\ e \in Calls
    BY <2>1
  <2>. QED
    BY <1>2, <2>3, <2>4, <2>5, CallInv, Zenon
<1>. QED
  BY <1>1, <1>5, <1>6, <1>7, <1>8, Zenon
  DEF ExecutionBegins, ExecutionReads, RouteDispatch, Dispatched

(* Rebuilding PointWatch: the gate to its hints is closed while the rebuild *)
(* holds a view, and opens on the index of that view.                       *)
LEMMA WatchingInv ==
    ASSUME ViewInv,
           \/ \E r \in Rebuilders : RebuildLocks(r)
           \/ RebuildPins \/ RebuildReloads \/ RebuildIndexes \/ RebuildReadies
    PROVE  ViewInv'
<1>1. UNCHANGED <<database, generation, changeSequence, job, caller>>
  BY Zenon DEF RebuildLocks, RebuildPins, RebuildReloads, RebuildIndexes, RebuildReadies,
     topologyVars
<1>2. /\ generation \in Generations /\ generation.sequence \in 0..MaxSequence
      /\ changeSequence \in Nat /\ generation.sequence <= changeSequence
      /\ Fresh => generation.sequence < changeSequence
  BY SequenceFacts
<1>3. /\ Digested(generation)' /\ FromDatabase(generation)' /\ JobIsSafe'
  BY <1>1 DEF ViewInv, Digested, FromDatabase, JobIsSafe
<1>4. (Fresh' <=> Fresh) /\ \A c \in Callers : Reading(c)' <=> Reading(c)
  BY <1>1 DEF Fresh, Reading
<1>5. SUFFICES
        /\ rebuild' \in Rebuilds /\ ready' \in 0..Unready
        /\ \/ ready' = Unready
           \/ UNCHANGED <<ready, index, scheduled>>
           \/ /\ ready' = generation.sequence /\ index'.sequence = ready'
              /\ index'.rules = scheduled' /\ index'.measurement = generation.measurement
              /\ index'.layout = generation.layout
        /\ rebuild'.pc \in {"pinned", "reloaded", "built"} =>
             rebuild'.view = generation /\ ready' = Unready
        /\ rebuild'.pc = "built" =>
             /\ index'.sequence = generation.sequence /\ index'.rules = scheduled'
             /\ index'.measurement = generation.measurement /\ index'.layout = generation.layout
  <2>1. ViewTypes'
    BY <1>1, <1>5 DEF ViewInv, ViewTypes
  <2>2. PinsAreCurrent'
    BY <1>1, <1>5 DEF ViewInv, PinsAreCurrent, Agree
  <2>3. job.previous # NoGeneration => job.previous.sequence # generation.sequence
    <3>1. job.previous # NoGeneration =>
            job.previous.sequence < generation.sequence /\ job.previous \in Generations
      BY DEF ViewInv, ViewTypes, JobIsSafe, Jobs, Maybe
    <3>. QED
      BY <1>2, <3>1 DEF Generations
  <2>4. /\ Remembered(generation)'
        /\ (job.previous # NoGeneration => Remembered(job.previous)')
    BY <1>1, <1>4, <1>5, <2>3, Zenon DEF ViewInv, SequencesNameViews, Remembered, Agree
  <2>5. SequencesNameViews'
    BY <1>1, <1>2, <1>4, <1>5, <2>4, Zenon DEF ViewInv, SequencesNameViews, Agree
  <2>. QED
    BY <1>3, <2>1, <2>2, <2>5 DEF ViewInv
<1>6. /\ rebuild \in Rebuilds /\ ready \in 0..Unready
      /\ rebuild.pc \in {"pinned", "reloaded", "built"} =>
           rebuild.view = generation /\ ready = Unready
      /\ rebuild.pc = "built" =>
           /\ index.sequence = generation.sequence /\ index.rules = scheduled
           /\ index.measurement = generation.measurement /\ index.layout = generation.layout
      /\ Unready \in 0..Unready /\ generation.sequence \in 0..Unready
  <2>1. Unready \in 0..Unready /\ generation.sequence \in 0..Unready
    BY <1>2 DEF Unready
  <2>. QED
    BY <2>1, Zenon DEF ViewInv, ViewTypes, PinsAreCurrent
<1>7. NoRebuild \in Rebuilds /\ NoRebuild.pc = "free"
  BY DEF NoRebuild, Rebuilds, RebuildPcs, Maybe
<1>8. CASE \E r \in Rebuilders : RebuildLocks(r)
  <2>1. PICK r \in Rebuilders : rebuild' = [NoRebuild EXCEPT !.owner = r, !.pc = "locked"]
                                  /\ UNCHANGED <<ready, index, scheduled>>
    BY <1>8, Zenon DEF RebuildLocks
  <2>2. rebuild' \in Rebuilds /\ rebuild'.pc = "locked"
    BY <1>7, <2>1, Zenon DEF Rebuilds, RebuildPcs
  <2>. QED
    BY <1>6, <2>1, <2>2
<1>9. CASE RebuildPins
  <2>1. ready' = Unready /\ rebuild' = [rebuild EXCEPT !.pc = "pinned", !.view = generation]
    BY <1>9, Zenon DEF RebuildPins
  <2>2. rebuild' \in Rebuilds /\ rebuild'.pc = "pinned" /\ rebuild'.view = generation
    BY <1>2, <1>6, <2>1, Zenon DEF Rebuilds, RebuildPcs, Maybe
  <2>. QED
    BY <1>6, <2>1, <2>2
<1>10. CASE RebuildReloads
  <2>1. /\ rebuild.pc = "pinned" /\ ready' = ready
        /\ rebuild' = [rebuild EXCEPT !.pc = "reloaded"] \/ rebuild' = NoRebuild
    BY <1>10, Zenon DEF RebuildReloads
  <2>2. /\ rebuild' \in Rebuilds
        /\ \/ rebuild'.pc = "reloaded" /\ rebuild'.view = generation
           \/ rebuild'.pc = "free"
    BY <1>6, <1>7, <2>1 DEF Rebuilds, RebuildPcs
  <2>. QED
    BY <1>6, <2>1, <2>2
<1>11. CASE RebuildIndexes
  <2>1. /\ rebuild.pc = "reloaded" /\ ready' = ready /\ scheduled' = scheduled
        /\ rebuild' = [rebuild EXCEPT !.pc = "built"]
        /\ index' = [sequence |-> rebuild.view.sequence, measurement |-> rebuild.view.measurement,
                     layout |-> rebuild.view.layout, rules |-> scheduled]
    BY <1>11, Zenon DEF RebuildIndexes
  <2>2. rebuild' \in Rebuilds /\ rebuild'.pc = "built" /\ rebuild'.view = generation
    BY <1>6, <2>1 DEF Rebuilds, RebuildPcs
  <2>. QED
    BY <1>6, <2>1, <2>2
<1>12. CASE RebuildReadies
  <2>1. /\ rebuild.pc = "built" /\ index' = index /\ scheduled' = scheduled
        /\ ready' \in {ready, rebuild.view.sequence} /\ rebuild' = NoRebuild
    BY <1>12, Zenon DEF RebuildReadies
  <2>. QED
    BY <1>6, <1>7, <2>1
<1>. QED
  BY <1>8, <1>9, <1>10, <1>11, <1>12

(* Segments are numbered up to the bound. *)
Incarnations == shm.incarnation \in 0..MaxIncarnation

(* Every step keeps the invariant. *)
LEMMA ViewStep ==
    ASSUME ViewInv, Incarnations, [AutomationNext]_automationVars
    PROVE  ViewInv' /\ Incarnations'
<1>1. CASE UNCHANGED automationVars
  <2>1. UNCHANGED <<database, shm, generation, changeSequence, job, caller, rebuild, ready, index,
                    scheduled>>
    BY <1>1 DEF automationVars, topologyVars, watchVars
  <2>2. ViewTypes' /\ Digested(generation)' /\ FromDatabase(generation)'
    BY <2>1 DEF ViewInv, ViewTypes, Digested, FromDatabase
  <2>3. JobIsSafe'
    BY <2>1 DEF ViewInv, Digested, FromDatabase, JobIsSafe
  <2>4. SequencesNameViews'
    BY <2>1 DEF ViewInv, SequencesNameViews, Fresh, Reading, Agree, Remembered
  <2>5. PinsAreCurrent'
    BY <2>1 DEF ViewInv, PinsAreCurrent, Agree
  <2>. QED
    BY <2>1, <2>2, <2>3, <2>4, <2>5 DEF ViewInv, Incarnations
<1>2. CASE AutomationNext
  <2>1. ViewInv'
    BY <1>2, EnvironmentInv, TakenInv, GivenUpInv, CommitInv, RevokesInv, WithdrawsInv,
       RestoresInv, LoadsInv, OpensInv, PublishedInv, CallingInv, WatchingInv
    DEF AutomationNext, Replacing, Watching, Incarnations
  <2>2. shm' = shm \/ IoPublishes
    BY <1>2, Zenon DEF AutomationNext, Replacing, Calling, Watching, LayoutChanges, SinkInvalidated,
       RefreshBegins, MutationBegins, MutationRevokes, MutationStages, MutationCommits,
       MutationCancelled, MutationRestores, RefreshLoads, RefreshStores, RefreshOpens,
       RefreshPublishes, RefreshFails, RefreshWithdraws, ExecutionBegins, ExecutionReads,
       RouteDispatch, Dispatched, RulesChange, RebuildLocks, RebuildPins, RebuildReloads,
       RebuildIndexes, RebuildReadies
  <2>3. Incarnations'
    BY <2>2 DEF Incarnations, IoPublishes
  <2>. QED
    BY <2>1, <2>3
<1>. QED
  BY <1>1, <1>2

(* The invariant is enough: pinned routes are the generation's, and not none. *)
LEMMA ViewIsCommitted == ViewInv => RulesActOnACommittedView
<1>. SUFFICES ASSUME ViewInv PROVE RulesActOnACommittedView
  OBVIOUS
<1>1. RoutesAreCommitted /\ PinsHoldTheView
  BY DEF ViewInv, FromDatabase, PinsAreCurrent, RoutesAreCommitted, PinsHoldTheView, Pinned
<1>2. RulesActOnOneView
  BY DEF ViewInv, PinsAreCurrent, RulesActOnOneView, Pinned, Agree
<1>3. generation.sequence # Unready
  BY DEF ViewInv, ViewTypes, Generations, Unready
<1>4. HintsUseCurrentIndex
  BY <1>3 DEF ViewInv, SequencesNameViews, Remembered, HintsUseCurrentIndex, Accepts
<1>. QED
  BY <1>1, <1>2, <1>4 DEF RulesActOnACommittedView

(* Automation acts on one committed view, for any number of callers, targets, *)
(* layouts and publications: no command is routed by what SQLite no longer    *)
(* holds, whatever becomes of a commit, a rule's inputs and command belong to *)
(* one view, and a PointWatch hint is matched with the index of that view.    *)
THEOREM AutomationActsOnOneView == AutomationSpec => []RulesActOnACommittedView
<1>1. AutomationInit => ViewInv /\ Incarnations
  BY ViewInit DEF AutomationInit, Incarnations, NoSegment
<1>2. ViewInv /\ Incarnations /\ [AutomationNext]_automationVars => ViewInv' /\ Incarnations'
  BY ViewStep
<1>. QED
  BY <1>1, <1>2, ViewIsCommitted, PTL DEF AutomationSpec
=============================================================================
