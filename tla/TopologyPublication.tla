------------------------- MODULE TopologyPublication -------------------------
(***************************************************************************)
(* Coordinated publication of the point and channel-health shared-memory   *)
(* planes (extensions/shm-bridge/src/{topology_commit,runtime,health,      *)
(* read_topology,managed,acquisition_writer}.rs over the files and leases  *)
(* of crates/aether-dataplane/src/core).                                   *)
(*                                                                         *)
(* aether-io owns both planes.  To publish a topology it takes the         *)
(* exclusive topology lease, allocates an epoch above everything it can    *)
(* observe, replaces the point file and then the health file (create a     *)
(* staging file, mark the old header unstable, rename, reopen), and last   *)
(* renames a commit witness that names both files.  It can fail or die at  *)
(* every step.  Readers in the other services accept only the pair the     *)
(* witness names, pin it, and read through mappings that outlive a rename. *)
(* Writers (acquisition in io, commands in automation) write through such  *)
(* mappings under a shared plane lease.                                    *)
(*                                                                         *)
(* A file is named by its writer_generation, 1, 2, ... in creation order   *)
(* (the code's value is even and unique; stable = FALSE stands for the odd *)
(* value).  Layout hash and slot count are one abstract layout.            *)
(***************************************************************************)
EXTENDS Naturals

CONSTANTS Layouts,          \* layout hashes
          Topologies,       \* desired topologies: a layout for each plane
          Readers,          \* services that read through a pinned pair
          Writers,          \* holders of a writable mapping of the point plane
          MaxGen,           \* bound on the number of files ever created
          MaxDisruptions    \* bound on crashes, I/O errors and lost witnesses

Planes == {"point", "health"}

ASSUME TopologiesAssumption == /\ Topologies \subseteq [Planes -> Layouts]
                               /\ Topologies # {}

ASSUME BoundsAssumption == MaxGen \in Nat /\ MaxDisruptions \in Nat

VARIABLES header,       \* header[g]: the header of file g
          gens,         \* number of files created so far
          canon,        \* canon[p]: the file at plane p's canonical path, 0 for none
          witness,      \* the topology-commit sidecar
          committed,    \* every witness ever published (ghost)
          desired,      \* the topology SQLite holds
          disruptions,  \* crashes, errors and lost witnesses so far
          pc,           \* where io is in a publication
          starting,     \* io publishes its first generation since it started
          restoring,    \* the start-up publication restores a snapshot
          target,       \* the topology being published
          plane,        \* the plane being replaced
          epoch,        \* the epoch allocated for the publication
          staged,       \* the staging file
          fenced,       \* the file begin_generation_swap() marked, 0 for none
          handle,       \* handle[p]: the file io's writer handle maps, 0 for none
          lease,        \* readers that hold the shared topology lease
          want,         \* want[r]: the topology r loaded from SQLite
          cand,         \* cand[r]: the publication r's candidate is pinned to
          view,         \* view[r]: the publication r's published view is pinned to
          att,          \* att[r][p]: the file the view's source has mapped, 0 for none
          reading,      \* reading[r]: the read in progress
          mapped,       \* mapped[w]: the point file w has mapped, 0 for none
          writing       \* writers inside a write transaction

fileVars == <<header, gens, canon>>
commitVars == <<witness, committed>>
ioVars == <<pc, starting, restoring, target, plane, epoch, staged, fenced, handle>>
readerVars == <<lease, want, cand, view, att, reading>>
writerVars == <<mapped, writing>>
vars == <<fileVars, commitVars, desired, disruptions, ioVars, readerVars, writerVars>>

Files == 0 .. MaxGen
Header == [plane : Planes, layout : Layouts, epoch : Nat, stable : BOOLEAN]
Commit == [epoch : Nat, gen : [Planes -> Files], layout : [Planes -> Layouts]]

SomeTopology == CHOOSE t \in Topologies : TRUE
NoCommit == [epoch |-> 0, gen |-> [p \in Planes |-> 0], layout |-> SomeTopology]
NoRead == [plane |-> "point", gen |-> 0]
BlankHeader == [plane |-> "point", layout |-> SomeTopology["point"], epoch |-> 0, stable |-> FALSE]

Steps == {"down", "idle", "begin", "replace", "staged", "fenced", "renamed", "commit"}

FileTypeOK == /\ header \in [1 .. MaxGen -> Header]
              /\ gens \in Files
              /\ canon \in [Planes -> 0 .. gens]
              /\ handle \in [Planes -> 0 .. gens]

PublicationTypeOK == /\ witness \in Commit
                     /\ committed \in SUBSET Commit
                     /\ desired \in Topologies
                     /\ disruptions \in 0 .. MaxDisruptions
                     /\ pc \in Steps
                     /\ starting \in BOOLEAN
                     /\ restoring \in BOOLEAN
                     /\ target \in Topologies
                     /\ plane \in Planes
                     /\ epoch \in Nat
                     /\ staged \in Files
                     /\ fenced \in Files

ReaderTypeOK == /\ lease \in SUBSET Readers
                /\ want \in [Readers -> Topologies]
                /\ cand \in [Readers -> Commit]
                /\ view \in [Readers -> Commit]
                /\ att \in [Readers -> [Planes -> Files]]
                /\ reading \in [Readers -> [plane : Planes, gen : Files]]

WriterTypeOK == /\ mapped \in [Writers -> Files]
                /\ writing \in SUBSET Writers

TypeOK == FileTypeOK /\ PublicationTypeOK /\ ReaderTypeOK /\ WriterTypeOK

\* The first start of io on an empty directory
Init == /\ header = [g \in 1 .. MaxGen |-> BlankHeader]
        /\ gens = 0
        /\ canon = [p \in Planes |-> 0]
        /\ witness = NoCommit
        /\ committed = {}
        /\ desired \in Topologies
        /\ disruptions = 0
        /\ pc = "down"
        /\ starting = FALSE
        /\ restoring = FALSE
        /\ target = desired
        /\ plane = "point"
        /\ epoch = 0
        /\ staged = 0
        /\ fenced = 0
        /\ handle = [p \in Planes |-> 0]
        /\ lease = {}
        /\ want = [r \in Readers |-> desired]
        /\ cand = [r \in Readers |-> NoCommit]
        /\ view = [r \in Readers |-> NoCommit]
        /\ att = [r \in Readers |-> [p \in Planes |-> 0]]
        /\ reading = [r \in Readers |-> NoRead]
        /\ mapped = [w \in Writers |-> 0]
        /\ writing = {}

---------------------------------------------------------------------------
(* Leases: advisory locks on sidecar files, shared or exclusive, which the *)
(* kernel drops when their process exits                                   *)

\* io holds the topology lease from begin_topology_publication() to the end
TopologyHeld == pc \in {"replace", "staged", "fenced", "renamed", "commit"}

\* io holds plane p's lease from before staging until the reopen
PlaneHeld(p) == p = plane /\ pc \in {"staged", "fenced", "renamed"}

\* Transactions that hold plane p's lease shared.  A reader with the topology
\* lease holds both plane leases with it.
PlaneShared(p) == IF p = "point" THEN lease # {} \/ writing # {} ELSE lease # {}

---------------------------------------------------------------------------
(* Validation *)

Stable(g) == g # 0 /\ header[g].stable

EpochOf(g) == IF g = 0 THEN 0 ELSE header[g].epoch

\* The headers with g's generation made even (b) or odd
Marked(g, b) == [header EXCEPT ![g].stable = b]

\* TopologyPublicationCommit::matches_readers(): an unstable header's
\* generation differs from every recorded one
MatchesReaders(c) == /\ c.epoch # 0
                     /\ \A p \in Planes : /\ Stable(canon[p])
                                          /\ canon[p] = c.gen[p]
                                          /\ header[canon[p]].epoch = c.epoch
                                          /\ header[canon[p]].layout = c.layout[p]

\* validate_topology_publication_locked()
Validates(t) == /\ \A p \in Planes : canon[p] # 0 /\ header[canon[p]].layout = t[p]
                /\ MatchesReaders(witness)

---------------------------------------------------------------------------
(* io: start, projection, publication *)

\* main() loads the topology from SQLite; a snapshot may be there to restore
Start == /\ pc = "down"
         /\ pc' = "begin"
         /\ starting' = TRUE
         /\ restoring' \in BOOLEAN
         /\ target' = desired
         /\ UNCHANGED <<fileVars, commitVars, desired, disruptions, plane, epoch, staged,
                        fenced, handle, readerVars, writerVars>>

\* Mutant of Project: only a changed layout is published
ProjectChanged == /\ pc = "idle"
                  /\ \E p \in Planes : handle[p] = 0 \/ header[handle[p]].layout # desired[p]
                  /\ pc' = "begin"
                  /\ target' = desired
                  /\ UNCHANGED <<fileVars, commitVars, desired, disruptions, starting, restoring,
                                 plane, epoch, staged, fenced, handle, readerVars, writerVars>>

\* SqliteShmTopologyProjector::project(): publish when the handles or the
\* published files differ from the desired topology, otherwise do nothing
Project == /\ pc = "idle"
           /\ \/ \E p \in Planes : handle[p] = 0 \/ header[handle[p]].layout # desired[p]
              \/ ~Validates(desired)
           /\ pc' = "begin"
           /\ target' = desired
           /\ UNCHANGED <<fileVars, commitVars, desired, disruptions, starting, restoring,
                          plane, epoch, staged, fenced, handle, readerVars, writerVars>>

Larger(m, n) == IF m >= n THEN m ELSE n

Floor == Larger(Larger(EpochOf(canon["point"]), EpochOf(canon["health"])), witness.epoch)

\* next_publication_epoch()
NextEpoch == Floor + 1

\* begin_topology_publication() waits for the readers' leases, then allocates
Begin == /\ pc = "begin"
         /\ lease = {}
         /\ epoch' = NextEpoch
         /\ plane' = "point"
         /\ pc' = "replace"
         /\ UNCHANGED <<fileVars, commitVars, desired, disruptions, starting, restoring,
                        target, staged, fenced, handle, readerVars, writerVars>>

\* Mutant of Stage: the plane lease is not taken exclusively
StageShared == /\ pc = "replace"
               /\ gens < MaxGen
               /\ gens' = gens + 1
               /\ staged' = gens + 1
               /\ header' = [header EXCEPT ![gens + 1] =
                               [plane |-> plane, layout |-> target[plane], epoch |-> epoch, stable |-> TRUE]]
               /\ pc' = "staged"
               /\ UNCHANGED <<canon, commitVars, desired, disruptions, starting, restoring,
                              target, plane, epoch, fenced, handle, readerVars, writerVars>>

\* publish_generation(), publish_health_writer(): wait for the plane lease,
\* create the staging file with the epoch in its header.  An epoch the handle
\* already carries is refused.
Stage == /\ pc = "replace"
         /\ ~PlaneShared(plane)
         /\ EpochOf(handle[plane]) # epoch
         /\ gens < MaxGen
         /\ gens' = gens + 1
         /\ staged' = gens + 1
         /\ header' = [header EXCEPT ![gens + 1] =
                         [plane |-> plane, layout |-> target[plane], epoch |-> epoch, stable |-> TRUE]]
         /\ pc' = "staged"
         /\ UNCHANGED <<canon, commitVars, desired, disruptions, starting, restoring,
                        target, plane, epoch, fenced, handle, readerVars, writerVars>>

\* The file to invalidate: the handle's, or what open_canonical_for_replacement()
\* finds (nothing when the canonical file is missing or unstable already)
Previous == IF handle[plane] # 0 THEN handle[plane]
            ELSE IF Stable(canon[plane]) THEN canon[plane] ELSE 0

\* begin_generation_swap() accepts only a stable file that is still canonical
Replaceable(g) == g = 0 \/ (g = canon[plane] /\ Stable(g))

\* Mutant of Fence: retained mappings of the old file stay valid
FenceNothing == /\ pc = "staged"
                /\ Replaceable(Previous)
                /\ fenced' = Previous
                /\ pc' = "fenced"
                /\ UNCHANGED <<header, gens, canon, commitVars, desired, disruptions, starting, restoring,
                               target, plane, epoch, staged, handle, readerVars, writerVars>>

Fence == /\ pc = "staged"
         /\ Replaceable(Previous)
         /\ fenced' = Previous
         /\ header' = IF Previous = 0 THEN header ELSE Marked(Previous, FALSE)
         /\ pc' = "fenced"
         /\ UNCHANGED <<gens, canon, commitVars, desired, disruptions, starting, restoring,
                        target, plane, epoch, staged, handle, readerVars, writerVars>>

\* commit_generation_swap_locked()
Rename == /\ pc = "fenced"
          /\ canon' = [canon EXCEPT ![plane] = staged]
          /\ pc' = "renamed"
          /\ UNCHANGED <<header, gens, commitVars, desired, disruptions, starting, restoring,
                         target, plane, epoch, staged, fenced, handle, readerVars, writerVars>>

\* open_existing() of the new canonical file; the handle moves to it and the
\* plane lease is released
Reopen == /\ pc = "renamed"
          /\ handle' = [handle EXCEPT ![plane] = staged]
          /\ IF plane = "point"
             THEN plane' = "health" /\ pc' = "replace"
             ELSE UNCHANGED plane /\ pc' = "commit"
          /\ UNCHANGED <<fileVars, commitVars, desired, disruptions, starting, restoring,
                         target, epoch, staged, fenced, readerVars, writerVars>>

\* TopologyPublicationCommit::from_readers()
NewCommit == [epoch |-> epoch, gen |-> canon,
              layout |-> [p \in Planes |-> header[canon[p]].layout]]

\* No reuse of a durable epoch, and both headers stable and of this epoch
Committable == /\ witness.epoch < epoch
               /\ \A p \in Planes : Stable(canon[p]) /\ header[canon[p]].epoch = epoch

\* commit_topology_publication_under_guard(): the witness replaces its predecessor
CommitWitness == /\ pc = "commit"
                 /\ Committable
                 /\ witness' = NewCommit
                 /\ committed' = committed \cup {NewCommit}
                 /\ pc' = "idle"
                 /\ starting' = FALSE
                 /\ UNCHANGED <<fileVars, desired, disruptions, restoring, target, plane, epoch,
                                staged, fenced, handle, readerVars, writerVars>>

---------------------------------------------------------------------------
(* io: failures and crashes *)

\* An error ends a projection, and ends the process during start-up, except
\* that a failed restore of the point plane is tried again without snapshot
AfterError == IF ~starting
              THEN pc' = "idle" /\ UNCHANGED <<starting, restoring, handle>>
              ELSE IF restoring /\ plane = "point"
              THEN pc' = "replace" /\ restoring' = FALSE /\ UNCHANGED <<starting, handle>>
              ELSE /\ pc' = "down"
                   /\ handle' = [p \in Planes |-> 0]
                   /\ UNCHANGED <<starting, restoring>>

\* StagingCleanup, and cleanup_orphan_generation_files() after a crash: a file
\* that never was canonical is removed, and nothing has mapped it
Discard == gens' = IF pc \in {"staged", "fenced"} THEN gens - 1 ELSE gens

\* An I/O error; GenerationInvalidation's Drop restores what Fence marked
Unfence == header' = IF pc = "fenced" /\ fenced # 0
                     THEN Marked(fenced, TRUE) ELSE header

Fail == /\ pc \in {"replace", "staged", "fenced", "commit"}
        /\ disruptions < MaxDisruptions
        /\ disruptions' = disruptions + 1
        /\ Unfence
        /\ Discard
        /\ AfterError
        /\ UNCHANGED <<canon, commitVars, desired, target, plane, epoch, staged, fenced,
                       readerVars, writerVars>>

\* The error after the rename: the new file is canonical, the handle is not moved
FailReopen == /\ pc = "renamed"
              /\ disruptions < MaxDisruptions
              /\ disruptions' = disruptions + 1
              /\ Discard
              /\ AfterError
              /\ UNCHANGED <<header, canon, commitVars, desired, target, plane, epoch, staged, fenced,
                             readerVars, writerVars>>

\* begin_generation_swap() refuses a handle that lost its path or its
\* stability, a rebuild an epoch its handle carries, and commit() an epoch
\* that is not above the witness or not in both headers
Refused == /\ \/ pc = "staged" /\ ~Replaceable(Previous)
              \/ pc = "replace" /\ EpochOf(handle[plane]) = epoch
              \/ pc = "commit" /\ ~Committable
           /\ Discard
           /\ AfterError
           /\ UNCHANGED <<header, canon, commitVars, desired, disruptions, target, plane, epoch, staged,
                          fenced, readerVars, writerVars>>

\* io dies: handles and leases go, files stay as they are
Crash == /\ pc # "down"
         /\ disruptions < MaxDisruptions
         /\ disruptions' = disruptions + 1
         /\ Discard
         /\ pc' = "down"
         /\ handle' = [p \in Planes |-> 0]
         /\ UNCHANGED <<header, canon, commitVars, desired, starting, restoring, target, plane, epoch, staged,
                        fenced, readerVars, writerVars>>

\* The witness is deleted or corrupted
LoseWitness == /\ witness # NoCommit
               /\ disruptions < MaxDisruptions
               /\ disruptions' = disruptions + 1
               /\ witness' = NoCommit
               /\ UNCHANGED <<fileVars, committed, desired, ioVars, readerVars, writerVars>>

\* A configuration change is stored in SQLite
ChangeDesired == /\ disruptions < MaxDisruptions
                 /\ disruptions' = disruptions + 1
                 /\ desired' \in Topologies \ {desired}
                 /\ UNCHANGED <<fileVars, commitVars, ioVars, readerVars, writerVars>>

---------------------------------------------------------------------------
(* Readers: the topology supervisor and the reads of one service *)

\* The supervisor loads the topology from SQLite
LoadTopology(r) == /\ cand[r] = NoCommit
                   /\ want' = [want EXCEPT ![r] = desired]
                   /\ UNCHANGED <<fileVars, commitVars, desired, disruptions, ioVars, lease, cand, view, att,
                                  reading, writerVars>>

\* ShmReadTopologyGeneration::open(): validate under the shared leases, then
\* pin; the leases are released before the pin is stored
OpenCandidate(r) == /\ cand[r] = NoCommit
                    /\ ~TopologyHeld
                    /\ Validates(want[r])
                    /\ cand' = [cand EXCEPT ![r] = witness]
                    /\ UNCHANGED <<fileVars, commitVars, desired, disruptions, ioVars, lease, want, view, att,
                                   reading, writerVars>>

\* Mutant of BeginPublish: what open() validated is not validated again
BeginPublishUnvalidated(r) == /\ cand[r] # NoCommit
                              /\ r \notin lease
                              /\ ~TopologyHeld
                              /\ lease' = lease \cup {r}
                              /\ UNCHANGED <<fileVars, commitVars, desired, disruptions, ioVars, want, cand, view, att,
                                             reading, writerVars>>

\* ShmReadTopologyHandle::publish() through with_validated_authority(): the
\* leases are held while the pair is validated again and compared with the pin
BeginPublish(r) == /\ cand[r] # NoCommit
                   /\ r \notin lease
                   /\ ~TopologyHeld
                   /\ Validates(want[r]) /\ witness = cand[r]
                   /\ lease' = lease \cup {r}
                   /\ UNCHANGED <<fileVars, commitVars, desired, disruptions, ioVars, want, cand, view, att,
                                  reading, writerVars>>

\* ... the ArcSwap: the candidate and its two mapped sources become the view
EndPublish(r) == /\ r \in lease
                 /\ view' = [view EXCEPT ![r] = cand[r]]
                 /\ att' = [att EXCEPT ![r] = cand[r].gen]
                 /\ cand' = [cand EXCEPT ![r] = NoCommit]
                 /\ lease' = lease \ {r}
                 /\ UNCHANGED <<fileVars, commitVars, desired, disruptions, ioVars, want, reading, writerVars>>

\* ... the candidate no longer matches and is dropped
DropCandidate(r) == /\ cand[r] # NoCommit
                    /\ r \notin lease
                    /\ ~TopologyHeld
                    /\ ~(Validates(want[r]) /\ witness = cand[r])
                    /\ cand' = [cand EXCEPT ![r] = NoCommit]
                    /\ UNCHANGED <<fileVars, commitVars, desired, disruptions, ioVars, lease, want, view, att,
                                   reading, writerVars>>

\* ReconnectingSlotSource::ensure_current(): a mapping that became unstable, or
\* is not the canonical file when its identity is looked at, is opened again
\* under the plane lease, once no read uses it
Reattach(r, p) == /\ view[r] # NoCommit
                  /\ reading[r] # [plane |-> p, gen |-> att[r][p]]
                  /\ ~(Stable(att[r][p]) /\ att[r][p] = canon[p])
                  /\ ~PlaneHeld(p)
                  /\ att' = [att EXCEPT ![r][p] =
                               IF Stable(canon[p]) /\ header[canon[p]].layout = view[r].layout[p]
                               THEN canon[p] ELSE 0]
                  /\ UNCHANGED <<fileVars, commitVars, desired, disruptions, ioVars, lease, want, cand, view,
                                 reading, writerVars>>

\* with_reader(), before the data is read: the mapping is stable and carries
\* the pinned epoch and generation
BeginRead(r, p) == /\ view[r] # NoCommit
                   /\ reading[r] = NoRead
                   /\ Stable(att[r][p])
                   /\ att[r][p] = view[r].gen[p]
                   /\ header[att[r][p]].epoch = view[r].epoch
                   /\ reading' = [reading EXCEPT ![r] = [plane |-> p, gen |-> att[r][p]]]
                   /\ UNCHANGED <<fileVars, commitVars, desired, disruptions, ioVars, lease, want, cand, view,
                                  att, writerVars>>

\* ... and after: the data is returned only from a mapping that is still stable
EndRead(r) == /\ reading[r] # NoRead
              /\ reading' = [reading EXCEPT ![r] = NoRead]
              /\ UNCHANGED <<fileVars, commitVars, desired, disruptions, ioVars, lease, want, cand, view,
                             att, writerVars>>

---------------------------------------------------------------------------
(* Writers: transactions on the point plane through a retained mapping *)

\* open_existing() maps a stable canonical file
MapPoint(w) == /\ w \notin writing
               /\ Stable(canon["point"])
               /\ mapped' = [mapped EXCEPT ![w] = canon["point"]]
               /\ UNCHANGED <<fileVars, commitVars, desired, disruptions, ioVars, readerVars, writing>>

\* commit_batch(), ShmDeviceCommandSink::send(): the shared plane lease, then
\* validate_generation(): the mapping is the canonical file, and stable
BeginWrite(w) == /\ w \notin writing
                 /\ ~PlaneHeld("point")
                 /\ Stable(mapped[w]) /\ mapped[w] = canon["point"]
                 /\ writing' = writing \cup {w}
                 /\ UNCHANGED <<fileVars, commitVars, desired, disruptions, ioVars, readerVars, mapped>>

\* The slots are stored and the lease is released
EndWrite(w) == /\ w \in writing
               /\ writing' = writing \ {w}
               /\ UNCHANGED <<fileVars, commitVars, desired, disruptions, ioVars, readerVars, mapped>>

---------------------------------------------------------------------------
Publish == Begin \/ Stage \/ Fence \/ Rename \/ Reopen \/ CommitWitness \/ Refused

Supervise(r) == \/ LoadTopology(r) \/ OpenCandidate(r) \/ DropCandidate(r)
                \/ BeginPublish(r) \/ EndPublish(r)

Read(r) == \/ \E p \in Planes : Reattach(r, p) \/ BeginRead(r, p)
           \/ EndRead(r)

Write(w) == MapPoint(w) \/ BeginWrite(w) \/ EndWrite(w)

Disrupt == Fail \/ Crash \/ LoseWitness \/ ChangeDesired

\* Everything but an error between the rename and the reopen
NextReopens == \/ Start \/ Project \/ Publish \/ Disrupt
               \/ \E r \in Readers : Supervise(r) \/ Read(r)
               \/ \E w \in Writers : Write(w)

Next == NextReopens \/ FailReopen

Spec == Init /\ [][Next]_vars

\* io's tasks and the supervisors run on; a lock that becomes free again and
\* again is granted in the end; transactions and reads end
Fairness == /\ WF_vars(Start) /\ WF_vars(Project)
            /\ SF_vars(Begin) /\ SF_vars(Stage)
            /\ WF_vars(Fence \/ Rename \/ Reopen \/ CommitWitness \/ Refused)
            /\ \A r \in Readers : /\ WF_vars(LoadTopology(r))
                                  /\ SF_vars(OpenCandidate(r))
                                  /\ SF_vars(BeginPublish(r) \/ DropCandidate(r))
                                  /\ WF_vars(EndPublish(r))
            /\ \A w \in Writers : WF_vars(EndWrite(w))

FairSpecReopens == Init /\ [][NextReopens]_vars /\ Fairness

FairSpec == Spec /\ Fairness

---------------------------------------------------------------------------
(***************************************************************************)
(* The data of a read that passes the second generation check comes from   *)
(* the file that is canonical at that moment: invalidating the old header  *)
(* before the rename leaves no window in which a retained mapping of a     *)
(* replaced file still looks valid (writer.rs, GenerationInvalidation).    *)
(***************************************************************************)
AcceptedReadIsCanonical ==
    \A r \in Readers : reading[r] # NoRead /\ Stable(reading[r].gen)
                          => canon[reading[r].plane] = reading[r].gen

(***************************************************************************)
(* A write transaction stores into the canonical, stable point file for as *)
(* long as it lasts: no acquired value and no command is stored in a file  *)
(* that readers have left (acquisition_writer.rs, commit_batch).           *)
(***************************************************************************)
WritesReachCanonical ==
    \A w \in writing : mapped[w] = canon["point"] /\ Stable(mapped[w])

(***************************************************************************)
(* Epochs of published witnesses increase: a publication after a crash, a  *)
(* failed publication or a lost witness never takes an epoch that readers  *)
(* may have pinned (topology_commit.rs, next_publication_epoch).           *)
(***************************************************************************)
EpochStep == \A c \in committed' \ committed : \A d \in committed : d.epoch < c.epoch

EpochsIncrease == [][EpochStep]_vars

(***************************************************************************)
(* A view is published only while its two files are the canonical ones:    *)
(* "a service-local ArcSwap performed in this closure cannot race the      *)
(* final validation and publish a mapping that was already superseded"     *)
(* (read_topology.rs, with_validated_authority).                           *)
(***************************************************************************)
PublishedViewIsCurrent ==
    [][\A r \in Readers : view'[r] # view[r]
          => \A p \in Planes : canon[p] = view'[r].gen[p] /\ Stable(canon[p])]_vars

(***************************************************************************)
(* Once crashes, errors, lost witnesses and configuration changes end, the *)
(* desired topology is committed for good and every service's view is      *)
(* pinned to it (automatic_reconciliation.rs and the topology supervisors  *)
(* retry).                                                                 *)
(***************************************************************************)
Converges ==
    <>[](Validates(desired) /\ \A r \in Readers : view[r] = witness)

(***************************************************************************)
(* The same for io alone: an unchanged projection is a no-op only when the *)
(* witness proves both planes, "otherwise reconciliation republishes both  *)
(* planes with a fresh epoch" (docs/adr/0014, Failure semantics).          *)
(***************************************************************************)
ReconciliationRepublishes == <>[]Validates(desired)
=============================================================================
