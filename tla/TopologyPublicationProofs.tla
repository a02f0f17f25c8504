---------------------- MODULE TopologyPublicationProofs ----------------------
(***************************************************************************)
(* Theorems about TopologyPublication, for any topologies, readers,        *)
(* writers and any number of disruptions: the inductive invariant, what    *)
(* io's steps keep of it (FilesKept is what such a step does to the files, *)
(* as far as readers and writers are concerned), then the readers' and the *)
(* writers' parts.                                                         *)
(***************************************************************************)
EXTENDS TopologyPublication, TLAPS

\* The files that have been canonical: all but the staging file
Top == IF pc \in {"staged", "fenced"} THEN gens - 1 ELSE gens

RefInv == \A p \in Planes : /\ canon[p] \in 0 .. Top
                            /\ handle[p] \in 0 .. Top
                            /\ canon[p] # 0 => header[canon[p]].plane = p

StageInv == /\ pc \in {"staged", "fenced"} => /\ gens > 0
                                              /\ staged = gens
                                              /\ header[staged].plane = plane
                                              /\ header[staged].epoch = epoch
            /\ pc = "renamed" => staged = canon[plane]

FenceInv == pc = "fenced" => /\ ~Stable(canon[plane])
                             /\ fenced # 0 => fenced = canon[plane]

\* A file that was replaced is unstable
StableInv == \A g \in 1 .. Top : header[g].stable => canon[header[g].plane] = g

EpochInv == \A c \in committed : /\ \A p \in Planes : canon[p] # 0 /\ c.epoch <= header[canon[p]].epoch
                                 /\ TopologyHeld => c.epoch < epoch

\* What io keeps about the files
CoreInv == /\ FileTypeOK
           /\ PublicationTypeOK
           /\ RefInv
           /\ StageInv
           /\ FenceInv
           /\ StableInv
           /\ EpochInv

LockInv == /\ TopologyHeld => lease = {}
           /\ PlaneHeld("point") => writing = {}

OfPlane(g, p) == g \in 0 .. Top /\ (g # 0 => header[g].plane = p)

\* A reader maps files that were canonical
ReaderRefs(r) == /\ \A p \in Planes : OfPlane(att[r][p], p) /\ OfPlane(cand[r].gen[p], p)
                 /\ OfPlane(reading[r].gen, reading[r].plane)

\* A reader that holds the topology lease has the canonical pair
LeaseInv == \A r \in lease : \A p \in Planes : canon[p] = cand[r].gen[p] /\ Stable(canon[p])

ReaderInv == ReaderTypeOK /\ (\A r \in Readers : ReaderRefs(r)) /\ LeaseInv

WriterInv == WriterTypeOK /\ WritesReachCanonical

Inv == CoreInv /\ LockInv /\ ReaderInv /\ WriterInv

\* What a step of io does to the files, as far as the others are concerned
FilesKept == /\ Top \in Nat /\ Top' \in Nat /\ Top <= Top'
             /\ \A g \in 1 .. Top : header'[g].plane = header[g].plane
             /\ lease # {} => UNCHANGED <<header, canon>>
             /\ writing # {} => /\ canon'["point"] = canon["point"]
                                /\ Stable(canon["point"]) => Stable(canon["point"])'
             /\ UNCHANGED <<readerVars, writerVars>>

\* The groups of variables and the small sets are expanded everywhere below
USE DEF fileVars, commitVars, ioVars, readerVars, writerVars, Planes, Files

\* The absent witness names no file
LEMMA NoCommitFacts == /\ NoCommit \in Commit
                       /\ NoCommit.epoch = 0
                       /\ \A p \in Planes : NoCommit.gen[p] = 0
<1>1. SomeTopology \in [Planes -> Layouts]
  BY TopologiesAssumption DEF SomeTopology
<1>. QED
  BY <1>1, BoundsAssumption DEF NoCommit, Commit, Files

\* Marking a header changes its stability and nothing else
LEMMA OddFacts ==
  ASSUME header \in [1 .. MaxGen -> Header], NEW g \in 1 .. MaxGen
  PROVE  /\ Marked(g, FALSE) \in [1 .. MaxGen -> Header]
         /\ \A k \in 1 .. MaxGen : /\ Marked(g, FALSE)[k].plane = header[k].plane
                                   /\ Marked(g, FALSE)[k].epoch = header[k].epoch
                                   /\ Marked(g, FALSE)[k].stable <=> (header[k].stable /\ k # g)
  BY Zenon DEF Marked, Header

\* ... and so does restoring it
LEMMA EvenFacts ==
  ASSUME header \in [1 .. MaxGen -> Header], NEW g \in 1 .. MaxGen
  PROVE  /\ Marked(g, TRUE) \in [1 .. MaxGen -> Header]
         /\ \A k \in 1 .. MaxGen : /\ Marked(g, TRUE)[k].plane = header[k].plane
                                   /\ Marked(g, TRUE)[k].epoch = header[k].epoch
                                   /\ Marked(g, TRUE)[k].stable <=> (header[k].stable \/ k = g)
  BY Zenon DEF Marked, Header

\* Types of what io's steps compare
LEMMA CoreFacts ==
  ASSUME CoreInv
  PROVE  /\ MaxGen \in Nat /\ gens \in Nat /\ gens <= MaxGen /\ Top \in Nat /\ Top <= gens
         /\ plane \in Planes /\ epoch \in Nat /\ witness.epoch \in Nat
         /\ \A p \in Planes : /\ canon[p] \in 0 .. Top /\ handle[p] \in 0 .. Top
                              /\ EpochOf(canon[p]) \in Nat
                              /\ EpochOf(handle[p]) \in Nat
         /\ \A k \in 1 .. MaxGen : /\ header[k].plane \in Planes
                                   /\ header[k].epoch \in Nat
                                   /\ header[k].stable \in BOOLEAN
         /\ \A c \in committed : c.epoch \in Nat
<1>1. /\ MaxGen \in Nat /\ gens \in Nat /\ gens <= MaxGen /\ Top \in Nat /\ Top <= gens
      /\ plane \in Planes /\ epoch \in Nat
  BY BoundsAssumption DEF CoreInv, FileTypeOK, PublicationTypeOK, Top, StageInv
<1>2. \A p \in Planes : canon[p] \in 0 .. Top /\ handle[p] \in 0 .. Top
  BY DEF CoreInv, RefInv
<1>3. \A k \in 1 .. MaxGen : /\ header[k].plane \in Planes
                             /\ header[k].epoch \in Nat
                             /\ header[k].stable \in BOOLEAN
  BY DEF CoreInv, FileTypeOK, Header
<1>4. witness.epoch \in Nat /\ \A c \in committed : c.epoch \in Nat
  BY DEF CoreInv, PublicationTypeOK, Commit
<1>5. \A p \in Planes : EpochOf(canon[p]) \in Nat /\ EpochOf(handle[p]) \in Nat
  BY <1>1, <1>2, <1>3 DEF EpochOf
<1>. QED
  BY <1>1, <1>2, <1>3, <1>4, <1>5

\* The files that were canonical are numbered within the bound
LEMMA CanonFacts ==
  ASSUME CoreInv
  PROVE  /\ MaxGen \in Nat /\ gens \in Nat /\ Top \in Nat /\ Top <= MaxGen /\ plane \in Planes
         /\ header \in [1 .. MaxGen -> Header]
         /\ \A k \in 1 .. Top : k \in 1 .. MaxGen
         /\ \A p \in Planes : canon[p] # 0 => canon[p] \in 1 .. MaxGen
<1>1. MaxGen \in Nat /\ gens \in Nat /\ Top \in Nat /\ Top <= gens /\ gens <= MaxGen /\ plane \in Planes
  BY CoreFacts
<1>2. header \in [1 .. MaxGen -> Header]
  BY DEF CoreInv, FileTypeOK
<1>3. \A p \in Planes : canon[p] \in 0 .. Top
  BY DEF CoreInv, RefInv
<1>. QED
  BY <1>1, <1>2, <1>3

\* A step that neither writes a header nor renames
LEMMA FilesSame ==
  ASSUME CoreInv, UNCHANGED <<header, canon>>, UNCHANGED <<readerVars, writerVars>>, Top' = Top
  PROVE  FilesKept
<1>1. Top \in Nat
  BY CanonFacts
<1>2. Stable(canon["point"]) => Stable(canon["point"])'
  BY DEF Stable
<1>. QED
  BY <1>1, <1>2 DEF FilesKept

\* What every error path does to io's own state
LEMMA ErrorFacts ==
  ASSUME CoreInv, Discard, AfterError
  PROVE  /\ gens' = Top
         /\ handle' \in [Planes -> 0 .. gens']
         /\ pc' \in {"idle", "replace", "down"} /\ (pc' = "replace" => plane = "point")
         /\ starting' \in BOOLEAN /\ restoring' \in BOOLEAN
<1>1. gens' = Top
  BY DEF Discard, Top
<1>2. handle \in [Planes -> 0 .. Top]
  BY CoreFacts DEF CoreInv, FileTypeOK
<1>3. 0 \in 0 .. Top
  BY CoreFacts
<1>. QED
  BY <1>1, <1>2, <1>3, Zenon DEF AfterError, CoreInv, PublicationTypeOK

\* Starting touches no file
LEMMA StartStep == ASSUME CoreInv, LockInv, Start PROVE CoreInv' /\ LockInv' /\ FilesKept
<1>1. FileTypeOK'
  BY DEF CoreInv, Start, FileTypeOK
<1>2. PublicationTypeOK'
  BY DEF CoreInv, Start, PublicationTypeOK, Steps
<1>3. RefInv'
  BY DEF CoreInv, Start, RefInv, Top
<1>4. StageInv'
  BY DEF Start, StageInv
<1>5. FenceInv'
  BY DEF Start, FenceInv
<1>6. StableInv'
  BY DEF CoreInv, Start, StableInv, Top
<1>7. EpochInv'
  BY DEF CoreInv, Start, EpochInv, TopologyHeld
<1>8. LockInv'
  BY DEF Start, LockInv, TopologyHeld, PlaneHeld
<1>9. FilesKept
  <2>1. UNCHANGED <<header, canon>> /\ UNCHANGED <<readerVars, writerVars>> /\ Top' = Top
    BY DEF Start, Top
  <2>. QED
    BY <2>1, FilesSame
<1>. QED
  BY <1>1, <1>2, <1>3, <1>4, <1>5, <1>6, <1>7, <1>8, <1>9 DEF CoreInv

\* Deciding to publish touches no file
LEMMA ProjectStep == ASSUME CoreInv, LockInv, Project PROVE CoreInv' /\ LockInv' /\ FilesKept
<1>1. FileTypeOK'
  BY DEF CoreInv, Project, FileTypeOK
<1>2. PublicationTypeOK'
  BY DEF CoreInv, Project, PublicationTypeOK, Steps
<1>3. RefInv'
  BY DEF CoreInv, Project, RefInv, Top
<1>4. StageInv'
  BY DEF Project, StageInv
<1>5. FenceInv'
  BY DEF Project, FenceInv
<1>6. StableInv'
  BY DEF CoreInv, Project, StableInv, Top
<1>7. EpochInv'
  BY DEF CoreInv, Project, EpochInv, TopologyHeld
<1>8. LockInv'
  BY DEF Project, LockInv, TopologyHeld, PlaneHeld
<1>9. FilesKept
  <2>1. UNCHANGED <<header, canon>> /\ UNCHANGED <<readerVars, writerVars>> /\ Top' = Top
    BY DEF Project, Top
  <2>. QED
    BY <2>1, FilesSame
<1>. QED
  BY <1>1, <1>2, <1>3, <1>4, <1>5, <1>6, <1>7, <1>8, <1>9 DEF CoreInv

\* The allocated epoch is above both canonical headers
LEMMA BeginStep == ASSUME CoreInv, LockInv, Begin PROVE CoreInv' /\ LockInv' /\ FilesKept
<1>a. NextEpoch \in Nat /\ \A p \in Planes : EpochOf(canon[p]) < NextEpoch
  <2>1. /\ EpochOf(canon["point"]) \in Nat /\ EpochOf(canon["health"]) \in Nat
        /\ witness.epoch \in Nat
    BY CoreFacts DEF Planes
  <2>. QED
    BY <2>1 DEF NextEpoch, Floor, Larger, Planes
<1>b. \A p \in Planes : canon[p] # 0 => EpochOf(canon[p]) = header[canon[p]].epoch
  BY DEF EpochOf
<1>1. FileTypeOK'
  BY DEF CoreInv, Begin, FileTypeOK
<1>2. PublicationTypeOK'
  BY <1>a DEF Begin, CoreInv, FileTypeOK, PublicationTypeOK, Steps
<1>3. RefInv'
  BY DEF CoreInv, Begin, RefInv, Top
<1>4. StageInv'
  BY DEF Begin, StageInv
<1>5. FenceInv'
  BY DEF Begin, FenceInv
<1>6. StableInv'
  BY DEF CoreInv, Begin, StableInv, Top
<1>7. EpochInv'
  <2>. SUFFICES ASSUME NEW c \in committed', NEW p \in Planes
                PROVE  /\ canon'[p] # 0 /\ c.epoch <= header'[canon'[p]].epoch
                       /\ TopologyHeld' => c.epoch < epoch'
    BY DEF EpochInv, Planes
  <2>1. c \in committed
    BY DEF Begin, commitVars
  <2>2. /\ canon[p] # 0 /\ c.epoch <= header[canon[p]].epoch
        /\ TopologyHeld => c.epoch < epoch
    BY <2>1 DEF CoreInv, EpochInv
  <2>. QED
    BY <2>2, CoreFacts, <1>a, <1>b DEF Begin
<1>8. LockInv'
  BY DEF Begin, LockInv, PlaneHeld
<1>9. FilesKept
  <2>1. UNCHANGED <<header, canon>> /\ UNCHANGED <<readerVars, writerVars>> /\ Top' = Top
    BY DEF Begin, Top
  <2>. QED
    BY <2>1, FilesSame
<1>. QED
  BY <1>1, <1>2, <1>3, <1>4, <1>5, <1>6, <1>7, <1>8, <1>9 DEF CoreInv

\* The staging file is not yet one of the files that were canonical
LEMMA StageStep == ASSUME CoreInv, LockInv, Stage PROVE CoreInv' /\ LockInv' /\ FilesKept
<1>1. FileTypeOK'
  <2>1. gens \in Nat /\ gens + 1 \in 1 .. MaxGen /\ gens' = gens + 1
    BY BoundsAssumption DEF Stage, CoreInv, FileTypeOK
  <2>2. [plane |-> plane, layout |-> target[plane], epoch |-> epoch, stable |-> TRUE] \in Header
    BY TopologiesAssumption DEF CoreInv, PublicationTypeOK, Header
  <2>. QED
    BY <2>2, BoundsAssumption DEF Stage, CoreInv, FileTypeOK
<1>2. PublicationTypeOK'
  BY BoundsAssumption DEF CoreInv, Stage, FileTypeOK, PublicationTypeOK, Steps
<1>3. RefInv'
  BY DEF CoreInv, Stage, FileTypeOK, RefInv, Top
<1>4. StageInv'
  BY BoundsAssumption DEF CoreInv, Stage, FileTypeOK, StageInv
<1>5. FenceInv'
  BY DEF Stage, FenceInv
<1>6. StableInv'
  BY DEF CoreInv, Stage, FileTypeOK, StableInv, Top
<1>7. EpochInv'
  <2>. SUFFICES ASSUME NEW c \in committed', NEW p \in Planes
                PROVE  /\ canon'[p] # 0 /\ c.epoch <= header'[canon'[p]].epoch
                       /\ TopologyHeld' => c.epoch < epoch'
    BY DEF EpochInv, Planes
  <2>1. c \in committed
    BY DEF Stage, commitVars
  <2>2. /\ canon[p] # 0 /\ c.epoch <= header[canon[p]].epoch
        /\ TopologyHeld => c.epoch < epoch
    BY <2>1 DEF CoreInv, EpochInv
  <2>. QED
    BY <2>2, CoreFacts DEF Stage, TopologyHeld
<1>8. LockInv'
  BY DEF Stage, LockInv, PlaneHeld, PlaneShared
<1>9. FilesKept
  BY DEF CoreInv, Stage, FileTypeOK, FilesKept, Top, Stable, LockInv, TopologyHeld
<1>. QED
  BY <1>1, <1>2, <1>3, <1>4, <1>5, <1>6, <1>7, <1>8, <1>9 DEF CoreInv

\* Fencing makes the canonical file of the plane unstable
LEMMA FenceStep == ASSUME CoreInv, LockInv, Fence PROVE CoreInv' /\ LockInv' /\ FilesKept
<1>a. \/ fenced' = 0 /\ header' = header /\ ~Stable(canon[plane])
      \/ fenced' = canon[plane] /\ canon[plane] # 0 /\ header' = Marked(canon[plane], FALSE)
  <2>1. CASE Previous = 0
    <3>1. ~Stable(canon[plane])
      BY <2>1 DEF Previous, Stable
    <3>. QED
      BY <2>1, <3>1, Zenon DEF Fence
  <2>2. CASE Previous # 0
    BY <2>2, CoreFacts, Zenon DEF Fence, Replaceable
  <2>. QED
    BY <2>1, <2>2, Zenon
<1>b. /\ header' \in [1 .. MaxGen -> Header]
      /\ \A k \in 1 .. MaxGen : /\ header'[k].plane = header[k].plane
                                /\ header'[k].epoch = header[k].epoch
                                /\ header'[k].stable <=> (header[k].stable /\ k # canon[plane])
  <2>1. CASE fenced' = 0 /\ header' = header /\ ~Stable(canon[plane])
    <3>1. \A k \in 1 .. MaxGen : k = canon[plane] => ~header[k].stable
      BY <2>1 DEF Stable
    <3>. QED
      BY <2>1, <3>1 DEF CoreInv, FileTypeOK
  <2>2. CASE fenced' = canon[plane] /\ canon[plane] # 0 /\ header' = Marked(canon[plane], FALSE)
    <3>1. canon[plane] \in 1 .. MaxGen /\ header \in [1 .. MaxGen -> Header]
      BY <2>2, CanonFacts
    <3>. QED
      BY <2>2, <3>1, OddFacts, Zenon
  <2>. QED
    BY <1>a, <2>1, <2>2, Zenon
<1>c. /\ UNCHANGED <<gens, canon, handle, plane, epoch, staged, committed>>
      /\ pc = "staged" /\ pc' = "fenced" /\ Top' = Top
  BY DEF Fence, Top
<1>d. \A k \in 1 .. Top : k \in 1 .. MaxGen
  BY CanonFacts
<1>e. \A p \in Planes : canon[p] # 0 => canon[p] \in 1 .. MaxGen
  BY CanonFacts
<1>1. FileTypeOK'
  BY <1>b, <1>c DEF CoreInv, FileTypeOK
<1>2. PublicationTypeOK'
  <2>1. fenced' \in 0 .. MaxGen
    <3>1. canon[plane] \in 0 .. Top /\ Top \in Nat /\ Top <= MaxGen /\ MaxGen \in Nat
      BY CoreFacts
    <3>2. fenced' \in {0, canon[plane]}
      BY <1>a, Zenon
    <3>. QED
      BY <3>1, <3>2
  <2>. QED
    BY <2>1 DEF Fence, CoreInv, PublicationTypeOK, Steps
<1>3. RefInv'
  BY <1>b, <1>c, <1>e DEF CoreInv, RefInv
<1>4. StageInv'
  <2>1. staged \in 1 .. MaxGen
    BY <1>c, CoreFacts DEF CoreInv, StageInv
  <2>. QED
    BY <1>b, <1>c, <2>1 DEF CoreInv, StageInv
<1>5. FenceInv'
  BY <1>a, <1>b, <1>c, <1>e, CoreFacts, Zenon DEF FenceInv, Stable
<1>6. StableInv'
  BY <1>b, <1>c, <1>d DEF CoreInv, StableInv
<1>7. EpochInv'
  <2>1. TopologyHeld
    BY <1>c DEF TopologyHeld
  <2>. QED
    BY <1>b, <1>c, <1>e, <2>1 DEF CoreInv, EpochInv
<1>8. LockInv'
  BY <1>c DEF Fence, LockInv, TopologyHeld, PlaneHeld
<1>9. FilesKept
  <2>1. lease = {} /\ (writing # {} => plane = "health")
    BY <1>c, CoreFacts DEF LockInv, TopologyHeld, PlaneHeld
  <2>2. canon["point"] # 0 => canon["point"] # canon["health"]
    BY CoreFacts DEF CoreInv, RefInv
  <2>3. UNCHANGED <<readerVars, writerVars>>
    BY DEF Fence
  <2>4. writing # {} /\ Stable(canon["point"]) => Stable(canon["point"])'
    BY <1>b, <1>c, <1>e, <2>1, <2>2 DEF Stable
  <2>5. Top \in Nat /\ \A g \in 1 .. Top : header'[g].plane = header[g].plane
    BY <1>b, <1>d, CanonFacts
  <2>. QED
    BY <1>c, <2>1, <2>3, <2>4, <2>5 DEF FilesKept
<1>. QED
  BY <1>1, <1>2, <1>3, <1>4, <1>5, <1>6, <1>7, <1>8, <1>9 DEF CoreInv

\* The rename replaces an unstable file by a newer one
LEMMA RenameStep == ASSUME CoreInv, LockInv, Rename PROVE CoreInv' /\ LockInv' /\ FilesKept
<1>1. FileTypeOK'
  BY DEF CoreInv, Rename, FileTypeOK, Header, StageInv
<1>2. PublicationTypeOK'
  BY DEF CoreInv, Rename, PublicationTypeOK, Steps
<1>3. RefInv'
  BY DEF CoreInv, Rename, FileTypeOK, RefInv, Top, StageInv
<1>4. StageInv'
  BY DEF CoreInv, Rename, FileTypeOK, Header, StageInv
<1>5. FenceInv'
  BY DEF Rename, FenceInv
<1>6. StableInv'
  BY DEF CoreInv, Rename, FileTypeOK, Header, StableInv, Stable, Top, StageInv, FenceInv
<1>7. EpochInv'
  <2>. SUFFICES ASSUME NEW c \in committed', NEW p \in Planes
                PROVE  /\ canon'[p] # 0 /\ c.epoch <= header'[canon'[p]].epoch
                       /\ TopologyHeld' => c.epoch < epoch'
    BY DEF EpochInv, Planes
  <2>1. c \in committed
    BY DEF Rename, commitVars
  <2>2. /\ canon[p] # 0 /\ c.epoch <= header[canon[p]].epoch
        /\ TopologyHeld => c.epoch < epoch
    BY <2>1 DEF CoreInv, EpochInv
  <2>. QED
    <3>1. /\ pc = "fenced" /\ plane \in Planes /\ UNCHANGED <<header, epoch>>
          /\ canon' = [canon EXCEPT ![plane] = staged]
      BY CanonFacts DEF Rename
    <3>2. canon'[p] = IF p = plane THEN staged ELSE canon[p]
      BY <3>1 DEF CoreInv, FileTypeOK
    <3>3. staged # 0 /\ header[staged].epoch = epoch
      BY <3>1, CanonFacts DEF CoreInv, StageInv
    <3>4. c.epoch < epoch /\ c.epoch \in Nat /\ epoch \in Nat
      BY <2>1, <2>2, <3>1, CoreFacts DEF TopologyHeld
    <3>. QED
      BY <2>2, <3>1, <3>2, <3>3, <3>4
<1>8. LockInv'
  BY DEF Rename, LockInv, TopologyHeld, PlaneHeld
<1>9. FilesKept
  BY DEF CoreInv, Rename, PublicationTypeOK, FilesKept, Top, Stable, LockInv, TopologyHeld, PlaneHeld, StageInv
<1>. QED
  BY <1>1, <1>2, <1>3, <1>4, <1>5, <1>6, <1>7, <1>8, <1>9 DEF CoreInv

\* The handle moves to the file that was renamed
LEMMA ReopenStep == ASSUME CoreInv, LockInv, Reopen PROVE CoreInv' /\ LockInv' /\ FilesKept
<1>1. FileTypeOK'
  BY Zenon DEF CoreInv, Reopen, FileTypeOK, StageInv
<1>2. PublicationTypeOK'
  BY DEF CoreInv, Reopen, PublicationTypeOK, Steps
<1>3. RefInv'
  BY DEF CoreInv, Reopen, RefInv, Top, StageInv
<1>4. StageInv'
  BY DEF Reopen, StageInv
<1>5. FenceInv'
  BY DEF Reopen, FenceInv
<1>6. StableInv'
  BY DEF CoreInv, Reopen, StableInv, Top
<1>7. EpochInv'
  BY DEF CoreInv, Reopen, EpochInv, TopologyHeld
<1>8. LockInv'
  BY DEF Reopen, LockInv, TopologyHeld, PlaneHeld
<1>9. FilesKept
  <2>1. UNCHANGED <<header, canon>> /\ UNCHANGED <<readerVars, writerVars>> /\ Top' = Top
    BY DEF Reopen, Top
  <2>. QED
    BY <2>1, FilesSame
<1>. QED
  BY <1>1, <1>2, <1>3, <1>4, <1>5, <1>6, <1>7, <1>8, <1>9 DEF CoreInv

\* The witness takes the epoch of both canonical headers
LEMMA CommitWitnessStep == ASSUME CoreInv, LockInv, CommitWitness PROVE CoreInv' /\ LockInv' /\ FilesKept
<1>a. NewCommit \in Commit /\ NewCommit.epoch = epoch /\ epoch \in Nat
  BY BoundsAssumption DEF NewCommit, Commit, Committable, CommitWitness, Stable, CoreInv, FileTypeOK, Header
<1>b. \A p \in Planes : canon[p] # 0 /\ header[canon[p]].epoch = epoch
  BY DEF CommitWitness, Committable, Stable
<1>1. FileTypeOK'
  BY DEF CoreInv, CommitWitness, FileTypeOK
<1>2. PublicationTypeOK'
  BY <1>a, Zenon DEF CommitWitness, CoreInv, FileTypeOK, PublicationTypeOK, Steps
<1>3. RefInv'
  BY DEF CoreInv, CommitWitness, RefInv, Top
<1>4. StageInv'
  BY DEF CommitWitness, StageInv
<1>5. FenceInv'
  BY DEF CommitWitness, FenceInv
<1>6. StableInv'
  BY DEF CoreInv, CommitWitness, StableInv, Top
<1>7. EpochInv'
  BY <1>a, <1>b DEF CommitWitness, CoreInv, EpochInv, TopologyHeld
<1>8. LockInv'
  BY DEF CommitWitness, LockInv, TopologyHeld, PlaneHeld
<1>9. FilesKept
  <2>1. UNCHANGED <<header, canon>> /\ UNCHANGED <<readerVars, writerVars>> /\ Top' = Top
    BY DEF CommitWitness, Top
  <2>. QED
    BY <2>1, FilesSame
<1>. QED
  BY <1>1, <1>2, <1>3, <1>4, <1>5, <1>6, <1>7, <1>8, <1>9 DEF CoreInv

\* A refused publication leaves the canonical files
LEMMA RefusedStep == ASSUME CoreInv, LockInv, Refused PROVE CoreInv' /\ LockInv' /\ FilesKept
<1>a. /\ gens' = Top
      /\ handle' \in [Planes -> 0 .. gens']
      /\ pc' \in {"idle", "replace", "down"} /\ (pc' = "replace" => plane = "point")
      /\ starting' \in BOOLEAN /\ restoring' \in BOOLEAN
  BY ErrorFacts DEF Refused
<1>t. TopologyHeld
  BY DEF Refused, TopologyHeld
<1>1. FileTypeOK'
  <2>1. UNCHANGED <<header, canon>>
    BY DEF Refused
  <2>. QED
    <3>1. canon' \in [Planes -> 0 .. Top]
      BY <2>1, CoreFacts DEF CoreInv, FileTypeOK
    <3>2. header' \in [1 .. MaxGen -> Header] /\ gens' \in 0 .. MaxGen
      BY <1>a, <2>1, CanonFacts
    <3>. QED
      BY <1>a, <3>1, <3>2 DEF FileTypeOK
<1>2. PublicationTypeOK'
  BY <1>a DEF Refused, CoreInv, PublicationTypeOK, Steps
<1>3. RefInv'
  BY <1>a DEF Refused, CoreInv, RefInv, Top
<1>4. StageInv'
  BY <1>a DEF StageInv
<1>5. FenceInv'
  BY <1>a DEF FenceInv
<1>6. StableInv'
  BY <1>a DEF Refused, CoreInv, StableInv, Top
<1>7. EpochInv'
  BY <1>t DEF Refused, CoreInv, EpochInv
<1>8. LockInv'
  BY <1>a DEF Refused, LockInv, TopologyHeld, PlaneHeld
<1>9. FilesKept
  <2>1. UNCHANGED <<header, canon>> /\ UNCHANGED <<readerVars, writerVars>> /\ Top' = Top
    BY <1>a DEF Refused, Top
  <2>. QED
    BY <2>1, FilesSame
<1>. QED
  BY <1>1, <1>2, <1>3, <1>4, <1>5, <1>6, <1>7, <1>8, <1>9 DEF CoreInv

\* A failed publication restores the header it had marked
LEMMA FailStep == ASSUME CoreInv, LockInv, Fail PROVE CoreInv' /\ LockInv' /\ FilesKept
<1>a. \/ header' = header /\ ~(pc = "fenced" /\ fenced # 0)
      \/ pc = "fenced" /\ fenced = canon[plane] /\ canon[plane] # 0 /\ header' = Marked(canon[plane], TRUE)
  BY Zenon DEF Fail, Unfence, CoreInv, FenceInv
<1>b. /\ header' \in [1 .. MaxGen -> Header]
      /\ \A k \in 1 .. MaxGen : /\ header'[k].plane = header[k].plane
                                /\ header'[k].epoch = header[k].epoch
                                /\ (header[k].stable => header'[k].stable)
                                /\ (header'[k].stable => header[k].stable \/ (pc = "fenced" /\ k = canon[plane]))
      /\ header' # header => pc = "fenced"
  <2>1. CASE header' = header
    BY <2>1 DEF CoreInv, FileTypeOK
  <2>2. CASE pc = "fenced" /\ canon[plane] # 0 /\ header' = Marked(canon[plane], TRUE)
    <3>1. canon[plane] \in 1 .. MaxGen /\ header \in [1 .. MaxGen -> Header]
      BY <2>2, CanonFacts
    <3>. QED
      BY <2>2, <3>1, EvenFacts, Zenon
  <2>. QED
    BY <1>a, <2>1, <2>2, Zenon
<1>c. /\ gens' = Top
      /\ handle' \in [Planes -> 0 .. gens']
      /\ pc' \in {"idle", "replace", "down"} /\ (pc' = "replace" => plane = "point")
      /\ starting' \in BOOLEAN /\ restoring' \in BOOLEAN
  BY ErrorFacts DEF Fail
<1>t. TopologyHeld
  BY DEF Fail, TopologyHeld
<1>d. UNCHANGED <<canon, plane, epoch, staged, committed, readerVars, writerVars>> /\ Top' = Top
  BY <1>c DEF Fail, Top
<1>e. \A k \in 1 .. Top : k \in 1 .. MaxGen
  BY CanonFacts
<1>f. \A p \in Planes : canon[p] # 0 => canon[p] \in 1 .. MaxGen
  BY CanonFacts
<1>1. FileTypeOK'
  <2>1. gens' \in 0 .. MaxGen
    BY <1>c, CanonFacts
  <2>2. canon' \in [Planes -> 0 .. gens']
    <3>1. \A p \in Planes : canon[p] \in 0 .. Top
      BY DEF CoreInv, RefInv
    <3>. QED
      BY <1>c, <1>d, <3>1 DEF CoreInv, FileTypeOK
  <2>. QED
    BY <1>b, <1>c, <2>1, <2>2 DEF FileTypeOK
<1>2. PublicationTypeOK'
  <2>1. pc' \in Steps
    BY <1>c DEF Steps
  <2>2. disruptions' \in 0 .. MaxDisruptions
    BY BoundsAssumption DEF Fail, CoreInv, PublicationTypeOK
  <2>. QED
    BY <1>c, <2>1, <2>2 DEF Fail, CoreInv, PublicationTypeOK
<1>3. RefInv'
  <2>1. \A p \in Planes : handle'[p] \in 0 .. Top'
    BY <1>c, <1>d
  <2>. QED
    BY <1>b, <1>d, <1>f, <2>1 DEF CoreInv, RefInv
<1>4. StageInv'
  BY <1>c DEF StageInv
<1>5. FenceInv'
  BY <1>c DEF FenceInv
<1>6. StableInv'
  <2>. SUFFICES ASSUME NEW g \in 1 .. Top, header'[g].stable
                PROVE  canon[header[g].plane] = g
    BY <1>b, <1>d, <1>e DEF StableInv
  <2>1. CASE header[g].stable
    BY <2>1 DEF CoreInv, StableInv
  <2>2. CASE pc = "fenced" /\ g = canon[plane]
    BY <2>2, CoreFacts DEF CoreInv, RefInv
  <2>. QED
    BY <1>b, <1>e, <2>1, <2>2
<1>7. EpochInv'
  BY <1>b, <1>d, <1>f, <1>t DEF CoreInv, EpochInv
<1>8. LockInv'
  BY <1>c, <1>d, <1>t DEF LockInv, PlaneHeld
<1>9. FilesKept
  <2>1. lease = {}
    BY <1>t DEF LockInv
  <2>2. Stable(canon["point"]) => Stable(canon["point"])'
    BY <1>b, <1>d, <1>f DEF Stable
  <2>3. Top \in Nat /\ \A g \in 1 .. Top : header'[g].plane = header[g].plane
    BY <1>b, <1>e, CanonFacts
  <2>. QED
    BY <1>d, <2>1, <2>2, <2>3 DEF FilesKept
<1>. QED
  BY <1>1, <1>2, <1>3, <1>4, <1>5, <1>6, <1>7, <1>8, <1>9 DEF CoreInv

\* A failed reopen leaves the new file canonical
LEMMA FailReopenStep == ASSUME CoreInv, LockInv, FailReopen PROVE CoreInv' /\ LockInv' /\ FilesKept
<1>a. /\ gens' = Top
      /\ handle' \in [Planes -> 0 .. gens']
      /\ pc' \in {"idle", "replace", "down"} /\ (pc' = "replace" => plane = "point")
      /\ starting' \in BOOLEAN /\ restoring' \in BOOLEAN
  BY ErrorFacts DEF FailReopen
<1>t. TopologyHeld
  BY DEF FailReopen, TopologyHeld
<1>1. FileTypeOK'
  BY <1>a DEF FailReopen, CoreInv, FileTypeOK, Top
<1>2. PublicationTypeOK'
  <2>1. pc' \in Steps
    BY <1>a DEF Steps
  <2>2. disruptions' \in 0 .. MaxDisruptions
    BY BoundsAssumption DEF FailReopen, CoreInv, PublicationTypeOK
  <2>. QED
    BY <1>a, <2>1, <2>2 DEF FailReopen, CoreInv, PublicationTypeOK
<1>3. RefInv'
  BY <1>a DEF FailReopen, CoreInv, RefInv, Top
<1>4. StageInv'
  BY <1>a DEF StageInv
<1>5. FenceInv'
  BY <1>a DEF FenceInv
<1>6. StableInv'
  BY <1>a DEF FailReopen, CoreInv, StableInv, Top
<1>7. EpochInv'
  BY <1>t DEF FailReopen, CoreInv, EpochInv
<1>8. LockInv'
  BY DEF FailReopen, LockInv, TopologyHeld, PlaneHeld
<1>9. FilesKept
  <2>1. UNCHANGED <<header, canon>> /\ UNCHANGED <<readerVars, writerVars>> /\ Top' = Top
    BY <1>a DEF FailReopen, Top
  <2>. QED
    BY <2>1, FilesSame
<1>. QED
  BY <1>1, <1>2, <1>3, <1>4, <1>5, <1>6, <1>7, <1>8, <1>9 DEF CoreInv

\* A crash leaves the files, and the marks on them
LEMMA CrashStep == ASSUME CoreInv, LockInv, Crash PROVE CoreInv' /\ LockInv' /\ FilesKept
<1>1. FileTypeOK'
  BY BoundsAssumption DEF CoreInv, Crash, Discard, FileTypeOK, Top, RefInv
<1>2. PublicationTypeOK'
  BY BoundsAssumption DEF CoreInv, Crash, PublicationTypeOK, Steps
<1>3. RefInv'
  BY DEF CoreInv, Crash, Discard, RefInv, Top
<1>4. StageInv'
  BY DEF Crash, StageInv
<1>5. FenceInv'
  BY DEF Crash, FenceInv
<1>6. StableInv'
  BY DEF CoreInv, Crash, Discard, StableInv, Top
<1>7. EpochInv'
  BY DEF CoreInv, Crash, EpochInv, TopologyHeld
<1>8. LockInv'
  BY DEF Crash, LockInv, TopologyHeld, PlaneHeld
<1>9. FilesKept
  <2>1. UNCHANGED <<header, canon>> /\ UNCHANGED <<readerVars, writerVars>> /\ Top' = Top
    BY DEF Discard, Crash, Top
  <2>. QED
    BY <2>1, FilesSame
<1>. QED
  BY <1>1, <1>2, <1>3, <1>4, <1>5, <1>6, <1>7, <1>8, <1>9 DEF CoreInv

\* A lost witness leaves the epochs in the headers
LEMMA LoseWitnessStep == ASSUME CoreInv, LockInv, LoseWitness PROVE CoreInv' /\ LockInv' /\ FilesKept
<1>1. FileTypeOK'
  BY DEF CoreInv, LoseWitness, FileTypeOK
<1>2. PublicationTypeOK'
  BY BoundsAssumption, NoCommitFacts DEF CoreInv, LoseWitness, PublicationTypeOK
<1>3. RefInv'
  BY DEF CoreInv, LoseWitness, RefInv, Top
<1>4. StageInv'
  BY DEF CoreInv, LoseWitness, StageInv
<1>5. FenceInv'
  BY DEF CoreInv, LoseWitness, FenceInv, Stable
<1>6. StableInv'
  BY DEF CoreInv, LoseWitness, StableInv, Top
<1>7. EpochInv'
  BY DEF CoreInv, LoseWitness, EpochInv, TopologyHeld
<1>8. LockInv'
  BY DEF LoseWitness, LockInv, TopologyHeld, PlaneHeld
<1>9. FilesKept
  <2>1. UNCHANGED <<header, canon>> /\ UNCHANGED <<readerVars, writerVars>> /\ Top' = Top
    BY DEF LoseWitness, Top
  <2>. QED
    BY <2>1, FilesSame
<1>. QED
  BY <1>1, <1>2, <1>3, <1>4, <1>5, <1>6, <1>7, <1>8, <1>9 DEF CoreInv

\* A configuration change touches no file
LEMMA ChangeDesiredStep == ASSUME CoreInv, LockInv, ChangeDesired PROVE CoreInv' /\ LockInv' /\ FilesKept
<1>1. FileTypeOK'
  BY DEF CoreInv, ChangeDesired, FileTypeOK
<1>2. PublicationTypeOK'
  BY BoundsAssumption DEF CoreInv, ChangeDesired, PublicationTypeOK
<1>3. RefInv'
  BY DEF CoreInv, ChangeDesired, RefInv, Top
<1>4. StageInv'
  BY DEF CoreInv, ChangeDesired, StageInv
<1>5. FenceInv'
  BY DEF CoreInv, ChangeDesired, FenceInv, Stable
<1>6. StableInv'
  BY DEF CoreInv, ChangeDesired, StableInv, Top
<1>7. EpochInv'
  BY DEF CoreInv, ChangeDesired, EpochInv, TopologyHeld
<1>8. LockInv'
  BY DEF ChangeDesired, LockInv, TopologyHeld, PlaneHeld
<1>9. FilesKept
  <2>1. UNCHANGED <<header, canon>> /\ UNCHANGED <<readerVars, writerVars>> /\ Top' = Top
    BY DEF ChangeDesired, Top
  <2>. QED
    BY <2>1, FilesSame
<1>. QED
  BY <1>1, <1>2, <1>3, <1>4, <1>5, <1>6, <1>7, <1>8, <1>9 DEF CoreInv

-----------------------------------------------------------------------------
\* A step of io keeps the files in order and leaves the others alone
LEMMA IoStep ==
  ASSUME CoreInv, LockInv,
         Start \/ Project \/ Publish \/ Disrupt \/ FailReopen
  PROVE  CoreInv' /\ LockInv' /\ FilesKept
  BY StartStep, ProjectStep, BeginStep, StageStep, FenceStep, RenameStep, ReopenStep,
     CommitWitnessStep, RefusedStep, FailStep, FailReopenStep, CrashStep, LoseWitnessStep,
     ChangeDesiredStep DEF Publish, Disrupt
---------------------------------------------------------------------------
(* The readers' and writers' parts of the invariant of TopologyPublication *)
(* under the steps of io, of the readers and of the writers                *)

\* A step of io leaves what the others rely on
LEMMA OthersKept ==
  ASSUME CoreInv, LockInv, ReaderInv, WriterInv, FilesKept
  PROVE  ReaderInv' /\ WriterInv'
<1>1. UNCHANGED <<readerVars, writerVars>>
  BY DEF FilesKept
<1>2. ReaderTypeOK' /\ WriterTypeOK'
  BY <1>1 DEF ReaderInv, WriterInv, ReaderTypeOK, WriterTypeOK
<1>3. ASSUME NEW g, NEW p \in Planes, OfPlane(g, p)
      PROVE  g \in 0 .. Top' /\ (g # 0 => header'[g].plane = p)
  <2>1. /\ Top \in Nat /\ Top' \in Nat /\ Top <= Top'
        /\ \A k \in 1 .. Top : header'[k].plane = header[k].plane
    BY DEF FilesKept
  <2>. QED
    BY <1>3, <2>1 DEF OfPlane
<1>4. ASSUME NEW r \in Readers PROVE ReaderRefs(r)'
  <2>1. ReaderRefs(r) /\ reading[r].plane \in Planes
    BY DEF ReaderInv, ReaderTypeOK
  <2>. QED
    BY <1>1, <1>3, <2>1 DEF ReaderRefs, OfPlane
<1>5. LeaseInv'
  <2>1. lease # {} => UNCHANGED <<header, canon>>
    BY DEF FilesKept
  <2>. QED
    BY <1>1, <2>1 DEF ReaderInv, LeaseInv, Stable
<1>6. WritesReachCanonical'
  <2>1. writing # {} => /\ canon'["point"] = canon["point"]
                        /\ Stable(canon["point"]) => Stable(canon["point"])'
    BY DEF FilesKept
  <2>. QED
    BY <1>1, <2>1 DEF WriterInv, WritesReachCanonical, Stable
<1>. QED
  BY <1>2, <1>4, <1>5, <1>6 DEF ReaderInv, WriterInv

\* A step that leaves io's files and variables leaves what io keeps
LEMMA CoreFrame ==
  ASSUME CoreInv, UNCHANGED <<fileVars, commitVars, desired, disruptions, ioVars>>
  PROVE  CoreInv'
<1>1. FileTypeOK' /\ PublicationTypeOK'
  BY DEF CoreInv, FileTypeOK, PublicationTypeOK
<1>2. RefInv' /\ StageInv' /\ FenceInv' /\ StableInv'
  BY DEF CoreInv, RefInv, StageInv, FenceInv, StableInv, Top, Stable
<1>3. EpochInv'
  BY DEF CoreInv, EpochInv, TopologyHeld
<1>. QED
  BY <1>1, <1>2, <1>3 DEF CoreInv

\* A reader's step leaves the writers' part, and conversely
LEMMA WriterFrame ==
  ASSUME LockInv, WriterInv, UNCHANGED <<fileVars, ioVars, writerVars>>
  PROVE  (PlaneHeld("point")' => writing' = {}) /\ WriterInv'
  BY DEF LockInv, PlaneHeld, WriterInv, WriterTypeOK, WritesReachCanonical, Stable

\* What a step of a reader or writer has to show for the readers' invariant
LEMMA ReaderIntro ==
  ASSUME LockInv, UNCHANGED <<fileVars, ioVars>>, ReaderTypeOK',
         TopologyHeld => lease' \subseteq lease,
         \A r \in Readers : /\ \A p \in Planes : OfPlane(att'[r][p], p) /\ OfPlane(cand'[r].gen[p], p)
                            /\ OfPlane(reading'[r].gen, reading'[r].plane),
         \A r \in lease' : \A p \in Planes : canon[p] = cand'[r].gen[p] /\ Stable(canon[p])
  PROVE  (TopologyHeld' => lease' = {}) /\ ReaderInv'
<1>1. TopologyHeld' => lease' = {}
  BY DEF LockInv, TopologyHeld
<1>2. \A g, p : OfPlane(g, p) <=> g \in 0 .. Top' /\ (g # 0 => header'[g].plane = p)
  BY DEF OfPlane, Top
<1>3. ASSUME NEW r \in Readers PROVE ReaderRefs(r)'
  <2>1. ASSUME NEW p \in Planes PROVE OfPlane(att[r][p], p)' /\ OfPlane(cand[r].gen[p], p)'
    <3>1. OfPlane(att'[r][p], p) /\ OfPlane(cand'[r].gen[p], p)
      OBVIOUS
    <3>. QED
      BY <1>2, <3>1, Zenon DEF OfPlane
  <2>2. OfPlane(reading[r].gen, reading[r].plane)'
    <3>1. OfPlane(reading'[r].gen, reading'[r].plane)
      OBVIOUS
    <3>. QED
      BY <1>2, <3>1 DEF OfPlane
  <2>. QED
    BY <2>1, <2>2 DEF ReaderRefs
<1>4. LeaseInv'
  BY DEF LeaseInv, Stable
<1>. QED
  BY <1>1, <1>3, <1>4 DEF ReaderInv

\* A writer's step leaves the readers' part
LEMMA ReaderFrame ==
  ASSUME LockInv, ReaderInv, UNCHANGED <<fileVars, ioVars, readerVars>>
  PROVE  (TopologyHeld' => lease' = {}) /\ ReaderInv'
<1>1. ReaderTypeOK'
  BY DEF ReaderInv, ReaderTypeOK
<1>2. /\ \A r \in Readers : /\ \A p \in Planes : OfPlane(att'[r][p], p) /\ OfPlane(cand'[r].gen[p], p)
                            /\ OfPlane(reading'[r].gen, reading'[r].plane)
      /\ \A r \in lease' : \A p \in Planes : canon[p] = cand'[r].gen[p] /\ Stable(canon[p])
  BY DEF ReaderInv, ReaderRefs, LeaseInv
<1>. QED
  BY <1>1, <1>2, ReaderIntro

-----------------------------------------------------------------------------
\* The pair a validation accepts is canonical and stable
LEMMA ValidatesFacts ==
  ASSUME CoreInv, NEW t, Validates(t)
  PROVE  /\ witness \in Commit
         /\ \A p \in Planes : /\ canon[p] = witness.gen[p]
                              /\ Stable(canon[p])
                              /\ OfPlane(witness.gen[p], p)
  BY DEF CoreInv, Validates, MatchesReaders, PublicationTypeOK, RefInv, OfPlane

\* Loading the desired topology touches no mapping
LEMMA LoadTopologyStep ==
  ASSUME LockInv, CoreInv, ReaderInv, NEW r \in Readers, LoadTopology(r)
  PROVE  (TopologyHeld' => lease' = {}) /\ ReaderInv'
<1>1. UNCHANGED <<fileVars, ioVars>>
  BY DEF LoadTopology
<1>2. UNCHANGED <<lease, cand, view, att, reading>> /\ want' = [want EXCEPT ![r] = desired]
  BY DEF LoadTopology
<1>3. desired \in Topologies
  BY DEF CoreInv, PublicationTypeOK
<1>4. ReaderTypeOK'
  BY <1>2, <1>3 DEF ReaderInv, ReaderTypeOK
<1>5. /\ \A q \in Readers : /\ \A p \in Planes : OfPlane(att'[q][p], p) /\ OfPlane(cand'[q].gen[p], p)
                            /\ OfPlane(reading'[q].gen, reading'[q].plane)
      /\ \A q \in lease' : \A p \in Planes : canon[p] = cand'[q].gen[p] /\ Stable(canon[p])
  BY <1>2 DEF ReaderInv, ReaderRefs, LeaseInv
<1>. QED
  BY <1>1, <1>2, <1>4, <1>5, ReaderIntro

\* A candidate is pinned to the pair that was validated, which is canonical
LEMMA OpenCandidateStep ==
  ASSUME LockInv, CoreInv, ReaderInv, NEW r \in Readers, OpenCandidate(r)
  PROVE  (TopologyHeld' => lease' = {}) /\ ReaderInv'
<1>1. UNCHANGED <<fileVars, ioVars>>
  BY DEF OpenCandidate
<1>2. /\ UNCHANGED <<lease, want, view, att, reading>>
      /\ cand' = [cand EXCEPT ![r] = witness] /\ cand[r] = NoCommit
  BY DEF OpenCandidate
<1>3. /\ witness \in Commit
      /\ \A p \in Planes : canon[p] = witness.gen[p] /\ Stable(canon[p]) /\ OfPlane(witness.gen[p], p)
  BY ValidatesFacts DEF OpenCandidate
<1>4. ReaderTypeOK'
  BY <1>2, <1>3 DEF ReaderInv, ReaderTypeOK
<1>5. \A q \in Readers : cand'[q] = IF q = r THEN witness ELSE cand[q]
  BY <1>2 DEF ReaderInv, ReaderTypeOK
<1>6. ASSUME NEW q \in Readers
      PROVE  /\ \A p \in Planes : OfPlane(att'[q][p], p) /\ OfPlane(cand'[q].gen[p], p)
             /\ OfPlane(reading'[q].gen, reading'[q].plane)
  BY <1>2, <1>3, <1>5 DEF ReaderInv, ReaderRefs
<1>7. ASSUME NEW q \in lease' PROVE \A p \in Planes : canon[p] = cand'[q].gen[p] /\ Stable(canon[p])
  <2>1. q \in lease /\ q \in Readers
    BY <1>2 DEF ReaderInv, ReaderTypeOK
  <2>. QED
    BY <1>3, <1>5, <2>1 DEF ReaderInv, LeaseInv
<1>. QED
  BY <1>1, <1>2, <1>4, <1>6, <1>7, ReaderIntro

\* A candidate is dropped by a reader that does not hold the leases
LEMMA DropCandidateStep ==
  ASSUME LockInv, CoreInv, ReaderInv, NEW r \in Readers, DropCandidate(r)
  PROVE  (TopologyHeld' => lease' = {}) /\ ReaderInv'
<1>1. UNCHANGED <<fileVars, ioVars>>
  BY Zenon DEF DropCandidate
<1>2. /\ UNCHANGED <<lease, want, view, att, reading>>
      /\ cand' = [cand EXCEPT ![r] = NoCommit] /\ r \notin lease
  BY DEF DropCandidate
<1>3. ReaderTypeOK'
  BY <1>2, NoCommitFacts DEF ReaderInv, ReaderTypeOK
<1>4. \A q \in Readers : cand'[q] = IF q = r THEN NoCommit ELSE cand[q]
  BY <1>2 DEF ReaderInv, ReaderTypeOK
<1>5. \A p \in Planes : OfPlane(NoCommit.gen[p], p)
  BY NoCommitFacts, CoreFacts DEF OfPlane
<1>6. ASSUME NEW q \in Readers
      PROVE  /\ \A p \in Planes : OfPlane(att'[q][p], p) /\ OfPlane(cand'[q].gen[p], p)
             /\ OfPlane(reading'[q].gen, reading'[q].plane)
  BY <1>2, <1>4, <1>5 DEF ReaderInv, ReaderRefs
<1>7. ASSUME NEW q \in lease' PROVE \A p \in Planes : canon[p] = cand'[q].gen[p] /\ Stable(canon[p])
  <2>1. q \in lease /\ q \in Readers /\ q # r
    BY <1>2 DEF ReaderInv, ReaderTypeOK
  <2>. QED
    BY <1>4, <2>1 DEF ReaderInv, LeaseInv
<1>. QED
  BY <1>1, <1>2, <1>3, <1>6, <1>7, ReaderIntro, Zenon

\* The second validation shows that the pinned pair is still canonical
LEMMA BeginPublishStep ==
  ASSUME LockInv, CoreInv, ReaderInv, NEW r \in Readers, BeginPublish(r)
  PROVE  (TopologyHeld' => lease' = {}) /\ ReaderInv'
<1>1. UNCHANGED <<fileVars, ioVars>> /\ ~TopologyHeld
  BY Zenon DEF BeginPublish
<1>2. /\ UNCHANGED <<want, cand, view, att, reading>>
      /\ lease' = lease \cup {r} /\ cand[r] = witness
  BY DEF BeginPublish
<1>3. \A p \in Planes : canon[p] = cand[r].gen[p] /\ Stable(canon[p])
  BY <1>2, ValidatesFacts DEF BeginPublish
<1>4. ReaderTypeOK'
  BY <1>2 DEF ReaderInv, ReaderTypeOK
<1>5. \A q \in Readers : /\ \A p \in Planes : OfPlane(att'[q][p], p) /\ OfPlane(cand'[q].gen[p], p)
                         /\ OfPlane(reading'[q].gen, reading'[q].plane)
  BY <1>2 DEF ReaderInv, ReaderRefs
<1>6. \A q \in lease' : \A p \in Planes : canon[p] = cand'[q].gen[p] /\ Stable(canon[p])
  BY <1>2, <1>3 DEF ReaderInv, LeaseInv
<1>. QED
  BY <1>1, <1>4, <1>5, <1>6, ReaderIntro

\* The candidate's mappings become the view's
LEMMA EndPublishStep ==
  ASSUME LockInv, CoreInv, ReaderInv, NEW r \in Readers, EndPublish(r)
  PROVE  (TopologyHeld' => lease' = {}) /\ ReaderInv'
<1>1. UNCHANGED <<fileVars, ioVars>>
  BY DEF EndPublish
<1>2. /\ UNCHANGED <<want, reading>>
      /\ cand' = [cand EXCEPT ![r] = NoCommit]
      /\ att' = [att EXCEPT ![r] = cand[r].gen]
      /\ view' = [view EXCEPT ![r] = cand[r]]
      /\ lease' = lease \ {r} /\ r \in lease
  BY DEF EndPublish
<1>3. cand[r].gen \in [Planes -> Files] /\ cand[r] \in Commit
  BY DEF ReaderInv, ReaderTypeOK, Commit
<1>4. ReaderTypeOK'
  BY <1>2, <1>3, NoCommitFacts, Zenon DEF ReaderInv, ReaderTypeOK
<1>5. \A q \in Readers : /\ cand'[q] = IF q = r THEN NoCommit ELSE cand[q]
                         /\ att'[q] = IF q = r THEN cand[r].gen ELSE att[q]
  BY <1>2 DEF ReaderInv, ReaderTypeOK
<1>6. \A p \in Planes : OfPlane(NoCommit.gen[p], p)
  BY NoCommitFacts, CoreFacts DEF OfPlane
<1>7. ASSUME NEW q \in Readers
      PROVE  /\ \A p \in Planes : OfPlane(att'[q][p], p) /\ OfPlane(cand'[q].gen[p], p)
             /\ OfPlane(reading'[q].gen, reading'[q].plane)
  <2>1. ReaderRefs(q) /\ ReaderRefs(r)
    BY DEF ReaderInv
  <2>2. CASE q = r
    BY <1>2, <1>5, <1>6, <2>1, <2>2 DEF ReaderRefs
  <2>3. CASE q # r
    BY <1>2, <1>5, <2>1, <2>3 DEF ReaderRefs
  <2>. QED
    BY <2>2, <2>3
<1>8. ASSUME NEW q \in lease' PROVE \A p \in Planes : canon[p] = cand'[q].gen[p] /\ Stable(canon[p])
  <2>1. q \in lease /\ q \in Readers /\ q # r
    BY <1>2 DEF ReaderInv, ReaderTypeOK
  <2>. QED
    BY <1>5, <2>1 DEF ReaderInv, LeaseInv
<1>. QED
  BY <1>1, <1>2, <1>4, <1>7, <1>8, ReaderIntro, Zenon

\* A view is attached again to the canonical file of the same plane
LEMMA ReattachStep ==
  ASSUME LockInv, CoreInv, ReaderInv, NEW r \in Readers, NEW p \in Planes, Reattach(r, p)
  PROVE  (TopologyHeld' => lease' = {}) /\ ReaderInv'
<1>1. UNCHANGED <<fileVars, ioVars>>
  BY DEF Reattach
<1>2. UNCHANGED <<lease, want, cand, view, reading>>
  BY DEF Reattach
<1>3. PICK g \in {0, canon[p]} : att' = [att EXCEPT ![r][p] = g]
  BY Zenon DEF Reattach
<1>4. g \in Files /\ OfPlane(g, p)
  <2>1. /\ Top \in Nat /\ Top <= MaxGen /\ MaxGen \in Nat
        /\ canon[p] \in 0 .. Top /\ (canon[p] # 0 => header[canon[p]].plane = p)
    <3>1. canon[p] \in 0 .. Top /\ (canon[p] # 0 => header[canon[p]].plane = p)
      BY DEF CoreInv, RefInv
    <3>. QED
      BY <3>1, CanonFacts
  <2>. QED
    BY <1>3, <2>1 DEF OfPlane
<1>5. ReaderTypeOK'
  BY <1>2, <1>3, <1>4 DEF ReaderInv, ReaderTypeOK
<1>6. \A q \in Readers : \A k \in Planes : att'[q][k] = IF q = r /\ k = p THEN g ELSE att[q][k]
  BY <1>3 DEF ReaderInv, ReaderTypeOK
<1>7. ASSUME NEW q \in Readers
      PROVE  /\ \A k \in Planes : OfPlane(att'[q][k], k) /\ OfPlane(cand'[q].gen[k], k)
             /\ OfPlane(reading'[q].gen, reading'[q].plane)
  BY <1>2, <1>4, <1>6, Zenon DEF ReaderInv, ReaderRefs
<1>8. \A q \in lease' : \A k \in Planes : canon[k] = cand'[q].gen[k] /\ Stable(canon[k])
  BY <1>2 DEF ReaderInv, LeaseInv
<1>. QED
  BY <1>1, <1>2, <1>5, <1>7, <1>8, ReaderIntro, Zenon

\* A read uses the file its view has mapped
LEMMA BeginReadStep ==
  ASSUME LockInv, CoreInv, ReaderInv, NEW r \in Readers, NEW p \in Planes, BeginRead(r, p)
  PROVE  (TopologyHeld' => lease' = {}) /\ ReaderInv'
<1>1. UNCHANGED <<fileVars, ioVars>>
  BY Zenon DEF BeginRead
<1>2. /\ UNCHANGED <<lease, want, cand, view, att>>
      /\ reading' = [reading EXCEPT ![r] = [plane |-> p, gen |-> att[r][p]]]
  BY DEF BeginRead
<1>3. ReaderTypeOK'
  BY <1>2 DEF ReaderInv, ReaderTypeOK
<1>4. /\ reading'[r].gen = att[r][p] /\ reading'[r].plane = p
      /\ \A q \in Readers : q # r => reading'[q] = reading[q]
  BY <1>2 DEF ReaderInv, ReaderTypeOK
<1>5. ASSUME NEW q \in Readers
      PROVE  /\ \A k \in Planes : OfPlane(att'[q][k], k) /\ OfPlane(cand'[q].gen[k], k)
             /\ OfPlane(reading'[q].gen, reading'[q].plane)
  <2>1. ReaderRefs(q) /\ ReaderRefs(r)
    BY Zenon DEF ReaderInv
  <2>2. CASE q = r
    BY <1>2, <1>4, <2>1, <2>2, Zenon DEF ReaderRefs
  <2>3. CASE q # r
    BY <1>2, <1>4, <2>1, <2>3, Zenon DEF ReaderRefs
  <2>. QED
    BY <2>2, <2>3, Zenon
<1>6. \A q \in lease' : \A k \in Planes : canon[k] = cand'[q].gen[k] /\ Stable(canon[k])
  BY <1>2 DEF ReaderInv, LeaseInv
<1>. QED
  BY <1>1, <1>2, <1>3, <1>5, <1>6, ReaderIntro, Zenon

\* The end of a read releases the mapping
LEMMA EndReadStep ==
  ASSUME LockInv, CoreInv, ReaderInv, NEW r \in Readers, EndRead(r)
  PROVE  (TopologyHeld' => lease' = {}) /\ ReaderInv'
<1>1. UNCHANGED <<fileVars, ioVars>>
  BY DEF EndRead
<1>2. UNCHANGED <<lease, want, cand, view, att>> /\ reading' = [reading EXCEPT ![r] = NoRead]
  BY DEF EndRead
<1>3. NoRead \in [plane : Planes, gen : Files] /\ OfPlane(NoRead.gen, NoRead.plane)
  <2>1. 0 \in Files /\ 0 \in 0 .. Top
    BY CanonFacts
  <2>. QED
    BY <2>1 DEF NoRead, OfPlane
<1>4. ReaderTypeOK'
  BY <1>2, <1>3 DEF ReaderInv, ReaderTypeOK
<1>5. \A q \in Readers : reading'[q] = IF q = r THEN NoRead ELSE reading[q]
  BY <1>2 DEF ReaderInv, ReaderTypeOK
<1>6. ASSUME NEW q \in Readers
      PROVE  /\ \A k \in Planes : OfPlane(att'[q][k], k) /\ OfPlane(cand'[q].gen[k], k)
             /\ OfPlane(reading'[q].gen, reading'[q].plane)
  BY <1>2, <1>3, <1>5 DEF ReaderInv, ReaderRefs
<1>7. \A q \in lease' : \A k \in Planes : canon[k] = cand'[q].gen[k] /\ Stable(canon[k])
  BY <1>2 DEF ReaderInv, LeaseInv
<1>. QED
  BY <1>1, <1>2, <1>4, <1>6, <1>7, ReaderIntro, Zenon

\* A write transaction begins on the canonical file, under the plane lease
LEMMA WriteStep ==
  ASSUME LockInv, CoreInv, WriterInv, NEW w \in Writers, Write(w)
  PROVE  (PlaneHeld("point")' => writing' = {}) /\ WriterInv'
<1>1. canon["point"] \in Files
  BY CoreFacts
<1>2. CASE MapPoint(w)
  BY <1>1, <1>2 DEF MapPoint, LockInv, PlaneHeld, WriterInv, WriterTypeOK, WritesReachCanonical, Stable
<1>3. CASE BeginWrite(w)
  BY <1>3 DEF BeginWrite, LockInv, PlaneHeld, WriterInv, WriterTypeOK, WritesReachCanonical, Stable
<1>4. CASE EndWrite(w)
  BY <1>4 DEF EndWrite, LockInv, PlaneHeld, WriterInv, WriterTypeOK, WritesReachCanonical, Stable
<1>. QED
  BY <1>2, <1>3, <1>4 DEF Write

---------------------------------------------------------------------------
(* The theorems about TopologyPublication *)

\* The empty directory
LEMMA InitInv == Init => Inv
<1>. SUFFICES ASSUME Init PROVE Inv
  OBVIOUS
<1>1. /\ BlankHeader \in Header
      /\ SomeTopology \in [Planes -> Layouts]
  BY TopologiesAssumption DEF BlankHeader, SomeTopology, Header
<1>2. FileTypeOK
  BY <1>1, BoundsAssumption DEF Init, FileTypeOK
<1>3. PublicationTypeOK
  <2>1. witness \in Commit /\ committed \in SUBSET Commit
    BY NoCommitFacts DEF Init
  <2>2. /\ disruptions \in 0 .. MaxDisruptions /\ epoch \in Nat
        /\ staged \in Files /\ fenced \in Files
    BY BoundsAssumption DEF Init
  <2>. QED
    BY <2>1, <2>2, Zenon DEF Init, PublicationTypeOK, Steps
<1>4. ReaderTypeOK /\ WriterTypeOK
  <2>1. 0 \in Files /\ NoRead \in [plane : Planes, gen : Files] /\ NoCommit \in Commit
    <3>1. 0 \in Files
      BY BoundsAssumption
    <3>. QED
      BY <3>1, NoCommitFacts, Zenon DEF NoRead
  <2>2. desired \in Topologies
    BY DEF Init
  <2>. QED
    BY <2>1, <2>2 DEF Init, ReaderTypeOK, WriterTypeOK
<1>5. RefInv /\ StageInv /\ FenceInv /\ StableInv /\ EpochInv
  <2>1. pc = "down" /\ gens = 0 /\ Top = 0 /\ committed = {} /\ \A p \in Planes : canon[p] = 0 /\ handle[p] = 0
    BY DEF Init, Top
  <2>2. RefInv
    <3>1. 0 \in 0 .. Top
      BY <2>1
    <3>. QED
      BY <2>1, <3>1 DEF RefInv
  <2>3. StageInv /\ FenceInv
    BY <2>1 DEF StageInv, FenceInv
  <2>4. StableInv
    BY <2>1 DEF StableInv
  <2>5. EpochInv
    BY <2>1 DEF EpochInv
  <2>. QED
    BY <2>2, <2>3, <2>4, <2>5
<1>6. \A r \in Readers : ReaderRefs(r)
  <2>1. \A p : OfPlane(0, p)
    BY <1>2 DEF Init, OfPlane, Top
  <2>2. NoRead.gen = 0 /\ \A p \in Planes : NoCommit.gen[p] = 0
    BY NoCommitFacts DEF NoRead
  <2>3. ASSUME NEW r \in Readers
        PROVE  /\ cand[r] = NoCommit /\ reading[r] = NoRead
               /\ \A p \in Planes : att[r][p] = 0
    BY DEF Init
  <2>. QED
    BY <2>1, <2>2, <2>3 DEF ReaderRefs
<1>7. lease = {} /\ writing = {}
  BY DEF Init
<1>. QED
  BY <1>2, <1>3, <1>4, <1>5, <1>6, <1>7 DEF Inv, CoreInv, LockInv, ReaderInv, LeaseInv,
     WriterInv, WritesReachCanonical

\* Every step keeps the invariant
LEMMA NextInv == Inv /\ [Next]_vars => Inv'
<1>. SUFFICES ASSUME Inv, [Next]_vars PROVE Inv'
  OBVIOUS
<1>. USE DEF Inv
<1>1. CASE Start \/ Project \/ Publish \/ Disrupt \/ FailReopen
  BY <1>1, IoStep, OthersKept
<1>2. ASSUME NEW r \in Readers, Supervise(r) \/ Read(r) PROVE Inv'
  <2>1. UNCHANGED <<fileVars, commitVars, desired, disruptions, ioVars, writerVars>>
    BY <1>2, Zenon DEF Supervise, Read, LoadTopology, OpenCandidate, DropCandidate, BeginPublish,
                EndPublish, Reattach, BeginRead, EndRead
  <2>2. (TopologyHeld' => lease' = {}) /\ ReaderInv'
    BY <1>2, LoadTopologyStep, OpenCandidateStep, DropCandidateStep, BeginPublishStep,
       EndPublishStep, ReattachStep, BeginReadStep, EndReadStep DEF Supervise, Read
  <2>3. CoreInv'
    BY <2>1, CoreFrame
  <2>4. (PlaneHeld("point")' => writing' = {}) /\ WriterInv'
    BY <2>1, WriterFrame
  <2>. QED
    BY <2>2, <2>3, <2>4 DEF LockInv
<1>3. ASSUME NEW w \in Writers, Write(w) PROVE Inv'
  <2>1. UNCHANGED <<fileVars, commitVars, desired, disruptions, ioVars, readerVars>>
    BY <1>3 DEF Write, MapPoint, BeginWrite, EndWrite
  <2>2. (PlaneHeld("point")' => writing' = {}) /\ WriterInv'
    BY <1>3, WriteStep
  <2>3. CoreInv'
    BY <2>1, CoreFrame
  <2>4. (TopologyHeld' => lease' = {}) /\ ReaderInv'
    BY <2>1, ReaderFrame
  <2>. QED
    BY <2>2, <2>3, <2>4 DEF LockInv
<1>4. CASE UNCHANGED vars
  <2>1. UNCHANGED <<fileVars, commitVars, desired, disruptions, ioVars, readerVars, writerVars>>
    BY <1>4 DEF vars
  <2>. QED
    BY <2>1, CoreFrame, ReaderFrame, WriterFrame DEF LockInv
<1>. QED
  BY <1>1, <1>2, <1>3, <1>4 DEF Next, NextReopens

-----------------------------------------------------------------------------
(* Every state of the publication protocol is well typed *)
THEOREM TypeCorrect == Spec => []TypeOK
<1>1. Inv => TypeOK
  BY DEF Inv, CoreInv, ReaderInv, WriterInv, TypeOK
<1>. QED
  BY InitInv, NextInv, <1>1, PTL DEF Spec

(* Whatever fails or crashes, and however many services read: data that passes *)
(* the second generation check comes from the canonical file.  A read that     *)
(* accepts a file keeps its plane (ReaderInv), and a file that was canonical   *)
(* once is stable only while it is canonical (StableInv).                      *)
THEOREM AcceptedReads == Spec => []AcceptedReadIsCanonical
<1>1. Inv => AcceptedReadIsCanonical
  <2>. SUFFICES ASSUME Inv, NEW r \in Readers, reading[r] # NoRead, Stable(reading[r].gen)
                PROVE  canon[reading[r].plane] = reading[r].gen
    BY DEF AcceptedReadIsCanonical
  <2>1. OfPlane(reading[r].gen, reading[r].plane)
    BY DEF Inv, ReaderInv, ReaderRefs
  <2>2. reading[r].gen \in 1 .. Top /\ header[reading[r].gen].plane = reading[r].plane
    <3>1. Top \in Nat
      BY CanonFacts DEF Inv
    <3>. QED
      BY <2>1, <3>1 DEF OfPlane, Stable
  <2>. QED
    BY <2>2, Zenon DEF Inv, CoreInv, StableInv, Stable
<1>. QED
  BY InitInv, NextInv, <1>1, PTL DEF Spec

(* A write transaction of acquisition or of a command stores into the          *)
(* canonical, stable point file for as long as it lasts.                       *)
THEOREM WritesReach == Spec => []WritesReachCanonical
<1>1. Inv => WritesReachCanonical
  BY DEF Inv, WriterInv
<1>. QED
  BY InitInv, NextInv, <1>1, PTL DEF Spec

(* Epochs of published witnesses increase across crashes, failed publications  *)
(* and lost witnesses: both canonical headers carry at least every committed   *)
(* epoch, and the allocated epoch is above the headers (EpochInv).             *)
THEOREM EpochsGrow == Spec => EpochsIncrease
<1>1. Inv /\ [Next]_vars => [EpochStep]_vars
  <2>. SUFFICES ASSUME Inv, Next, NEW c \in committed' \ committed, NEW d \in committed
                PROVE  d.epoch < c.epoch
    BY DEF vars, EpochStep
  <2>1. CommitWitness
    <3>1. ASSUME Start \/ Project \/ Publish \/ Disrupt \/ FailReopen, ~CommitWitness PROVE UNCHANGED committed
      BY <3>1, Zenon DEF Publish, Disrupt, Start, Project, Begin, Stage, Fence, Rename, Reopen, Refused, Fail,
                  Crash, LoseWitness, ChangeDesired, FailReopen
    <3>2. ASSUME NEW q \in Readers, Supervise(q) \/ Read(q) PROVE UNCHANGED committed
      BY <3>2, Zenon DEF Supervise, Read, LoadTopology, OpenCandidate, DropCandidate, BeginPublish, EndPublish,
                  Reattach, BeginRead, EndRead
    <3>3. ASSUME NEW w \in Writers, Write(w) PROVE UNCHANGED committed
      BY <3>3 DEF Write, MapPoint, BeginWrite, EndWrite
    <3>. QED
      BY <3>1, <3>2, <3>3 DEF Next, NextReopens
  <2>2. c.epoch = epoch
    <3>1. c = NewCommit
      BY <2>1 DEF CommitWitness
    <3>. QED
      BY <3>1, Zenon DEF NewCommit
  <2>. QED
    BY <2>1, <2>2 DEF Inv, CoreInv, EpochInv, TopologyHeld, CommitWitness
<1>. QED
  BY InitInv, NextInv, <1>1, PTL DEF Spec, EpochsIncrease

(* A service publishes a view only while its two files are canonical and       *)
(* stable: the shared leases it holds keep io from replacing them (ReaderInv). *)
THEOREM PublishedViews == Spec => PublishedViewIsCurrent
<1>1. Inv /\ [Next]_vars =>
        [\A r \in Readers : view'[r] # view[r]
             => \A p \in Planes : canon[p] = view'[r].gen[p] /\ Stable(canon[p])]_vars
  <2>. SUFFICES ASSUME Inv, Next, NEW r \in Readers, view'[r] # view[r], NEW p \in Planes
                PROVE  canon[p] = view'[r].gen[p] /\ Stable(canon[p])
    BY DEF vars
  <2>1. PICK q \in Readers : EndPublish(q)
    <3>1. ASSUME Start \/ Project \/ Publish \/ Disrupt \/ FailReopen PROVE UNCHANGED view
      BY <3>1, Zenon DEF Publish, Disrupt, Start, Project, Begin, Stage, Fence, Rename, Reopen, CommitWitness,
                  Refused, Fail, Crash, LoseWitness, ChangeDesired, FailReopen
    <3>2. ASSUME NEW q \in Readers, Supervise(q) \/ Read(q), ~EndPublish(q) PROVE UNCHANGED view
      BY <3>2, Zenon DEF Supervise, Read, LoadTopology, OpenCandidate, DropCandidate, BeginPublish, Reattach,
                  BeginRead, EndRead
    <3>3. ASSUME NEW w \in Writers, Write(w) PROVE UNCHANGED view
      BY <3>3 DEF Write, MapPoint, BeginWrite, EndWrite
    <3>. QED
      BY <3>1, <3>2, <3>3 DEF Next, NextReopens
  <2>2. q = r /\ view'[r] = cand[r] /\ r \in lease
    BY <2>1, Zenon DEF EndPublish, Inv, ReaderInv, ReaderTypeOK
  <2>. QED
    BY <2>2 DEF Inv, ReaderInv, LeaseInv
<1>. QED
  BY InitInv, NextInv, <1>1, PTL DEF Spec, PublishedViewIsCurrent
=============================================================================
