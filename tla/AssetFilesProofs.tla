-------------------------- MODULE AssetFilesProofs --------------------------
(***************************************************************************)
(* Proofs about the files of a project: about AssetFiles, for every set of *)
(* writers, shots and units, any number of crashes and any order of tasks, *)
(* uploads, restores and grids; and about the streams that tell of the     *)
(* files (ProjectEvents), for any streams, channels, rebuilds, deletions   *)
(* and failing scans.                                                      *)
(***************************************************************************)
EXTENDS ProjectEvents, AssetFiles, TLAPS

WriterState == [pc : Phase, kind : {"none", "make", "put", "back", "grid"},
                on : Asset \cup {Grid, None}, wrote : Asset \cup {None},
                flag : BOOLEAN, todo : SUBSET Shot, cells : SUBSET Shot]
Entry == [still : BOOLEAN, clip : BOOLEAN, poster : BOOLEAN, uri : Writer \cup {None}]

Unrecorded(r) == bytes[r] = Legacy /\ current[r] = 0

\* Where a writer stands tells what it works on: its own file, except for the
\* cells of a grid; what it has written and not recorded is there; whoever sets
\* out to write a file has had the old one tracked; and a grid has dealt with
\* every cell that is not on its list any more.
Placed(j) ==
    LET w == writer[j] IN
    /\ w.pc \in {"paid", "written", "recorded", "linked", "framed"} => w.kind \in {"make", "put"}
    /\ w.kind \in {"make", "put"} => /\ w.on \in Asset /\ ~Unrecorded(w.on)
                                     /\ w.wrote \in {None, w.on}
    /\ w.pc = "written" => w.wrote = w.on
    /\ w.pc \in {"restored", "synced"} => w.kind = "back"
    /\ w.kind = "back" => w.on \in Asset
    /\ w.pc \in {"linked", "framed", "synced"} => w.on \in {"clip"} \X Clips
    /\ w.pc \in {"imaging", "split", "cells", "saved"} => w.kind = "grid"
    /\ w.kind = "grid" => w.on = Grid
    /\ w.kind = "none" => w.on = None
    /\ w.pc \in {"idle", "listed"} => w.wrote = None /\ w.kind = "none"
    /\ w.wrote # None => bytes[w.wrote] # None
    /\ w.pc = "cells" => /\ present \subseteq w.cells
                         /\ \A s \in w.cells \ w.todo : bytes[<<"still", s>>] # None
PlacesInv == \A j \in Writer : Placed(j)

\* A file without a current version has none at all.
VersionsInv == \A r \in Asset : current[r] = 0 => history[r] = <<>>

LEMMA AssetShapes ==
    /\ \A r \in Asset : r[2] \in Shot
    /\ \A s \in Shot : <<"still", s>> \in Asset /\ <<"still", s>> \notin {"clip"} \X Clips
    /\ \A s \in Clips : <<"clip", s>> \in Asset
    /\ \A r \in {"clip"} \X Clips : r \in Asset /\ r[2] \in Clips /\ r = <<"clip", r[2]>>
    /\ Units \subseteq Clips /\ Clips \subseteq Shot
    /\ None \notin Asset /\ Grid \notin Asset /\ Grid # None
    /\ None \notin Content /\ None \notin Writer /\ Legacy \notin Writer /\ Legacy # None
BY AssetAssumption, GridAssumption DEF Asset, AssetAssumption, GridAssumption, Content

\* The record a writer is left with by the steps that change more than its place.
LEMMA WriterUpdates ==
    ASSUME writer \in [Writer -> WriterState], NEW j \in Writer
    PROVE  /\ \A pc \in Phase : Move(j, pc) =>
                 writer' = [writer EXCEPT ![j] = [writer[j] EXCEPT !.pc = pc]]
           /\ \A w \in WriterState : writer' = [writer EXCEPT ![j] = w] =>
                 /\ writer' \in [Writer -> WriterState]
                 /\ writer'[j] = w
                 /\ \A k \in Writer \ {j} : writer'[k] = writer[k]
BY DEF Move

\* Steps after which a writer only stands elsewhere.
Stepping(j) ==
    \/ Rejected(j) \/ BreakOff(j) \/ LinkStill(j) \/ LinkClip(j) \/ LinkAll(j) \/ LinkPoster(j)
    \/ Sync(j) \/ DropPoster(j) \/ (\E s \in Shot : RemoveShot(j, s))
    \/ GridImage(j) \/ CellsBreak(j) \/ LinkCells(j) \/ GridSettles(j)
    \/ Regenerate(j) \/ CleanGrids(j)

LEMMA SteppingMoves ==
    ASSUME AssetTypeOK, PlacesInv, NEW j \in Writer, Stepping(j)
    PROVE  /\ UNCHANGED <<bytes, versionVars>> /\ present' \subseteq present
           /\ \E pc \in Phase :
                 /\ Move(j, pc)
                 /\ \/ pc \in {"done", "failed"}
                    \/ pc = "linked" /\ writer[j].pc = "recorded" /\ IsClip(j)
                    \/ pc = "synced" /\ writer[j].pc = "restored" /\ IsClip(j)
                    \/ pc = "split" /\ writer[j].pc = "imaging"
                    \/ pc = "saved" /\ writer[j].pc = "cells"
<1> USE DEF Phase, Breaks, versionVars, scriptVars, gridVars
<1>1. CASE Rejected(j) \/ BreakOff(j)
  BY <1>1 DEF Rejected, BreakOff
<1>2. CASE LinkStill(j) \/ LinkClip(j) \/ LinkAll(j) \/ LinkPoster(j)
  BY <1>2 DEF LinkStill, LinkClip, LinkAll, LinkPoster, Link
<1>3. CASE Sync(j) \/ DropPoster(j) \/ \E s \in Shot : RemoveShot(j, s)
  BY <1>3 DEF Sync, DropPoster, RemoveShot
<1>4. CASE GridImage(j) \/ CellsBreak(j) \/ LinkCells(j)
  BY <1>4 DEF GridImage, CellsBreak, LinkCells, GridFails
<1>5. CASE GridSettles(j) \/ Regenerate(j) \/ CleanGrids(j)
  BY <1>5 DEF GridSettles, Regenerate, CleanGrids
<1> QED
  BY <1>1, <1>2, <1>3, <1>4, <1>5 DEF Stepping

\* No step takes a file away, forgets that it has versions or brings a shot back.
Persists ==
    /\ \A r \in Asset : /\ bytes[r] # None => bytes'[r] # None
                        /\ Unrecorded(r)' => Unrecorded(r)
    /\ present' \subseteq present

LEMMA PlacedKept ==
    ASSUME AssetTypeOK, Persists, NEW k \in Writer, Placed(k), writer'[k] = writer[k]
    PROVE  Placed(k)'
<1>1. /\ writer[k].wrote \in Asset \cup {None}
      /\ \A s \in writer[k].cells : <<"still", s>> \in Asset
  BY AssetShapes DEF AssetTypeOK
<1> QED
  BY <1>1 DEF Placed, Persists

LEMMA PlacedMoved ==
    ASSUME AssetTypeOK, PlacesInv, NEW j \in Writer, Stepping(j)
    PROVE  /\ PlacesInv' /\ writer' \in [Writer -> WriterState]
           /\ \A k \in Writer : writer'[k].wrote = writer[k].wrote
<1>1. writer \in [Writer -> WriterState]
  BY DEF AssetTypeOK, WriterState
<1>2. /\ UNCHANGED <<bytes, versionVars>> /\ present' \subseteq present
      /\ \E pc \in Phase :
            /\ Move(j, pc)
            /\ \/ pc \in {"done", "failed"}
               \/ pc = "linked" /\ writer[j].pc = "recorded" /\ IsClip(j)
               \/ pc = "synced" /\ writer[j].pc = "restored" /\ IsClip(j)
               \/ pc = "split" /\ writer[j].pc = "imaging"
               \/ pc = "saved" /\ writer[j].pc = "cells"
  BY SteppingMoves
<1>3. PICK pc \in Phase :
         /\ Move(j, pc)
         /\ \/ pc \in {"done", "failed"}
            \/ pc = "linked" /\ writer[j].pc = "recorded" /\ IsClip(j)
            \/ pc = "synced" /\ writer[j].pc = "restored" /\ IsClip(j)
            \/ pc = "split" /\ writer[j].pc = "imaging"
            \/ pc = "saved" /\ writer[j].pc = "cells"
  BY <1>2
<1>4. [writer[j] EXCEPT !.pc = pc] \in WriterState
  BY <1>1 DEF WriterState
<1>5. /\ writer' \in [Writer -> WriterState]
      /\ writer'[j] = [writer[j] EXCEPT !.pc = pc]
      /\ \A k \in Writer \ {j} : writer'[k] = writer[k]
  BY <1>1, <1>3, <1>4, WriterUpdates
<1>6. Persists
  BY <1>2 DEF Persists, versionVars, Unrecorded
<1>7. /\ writer'[j].pc = pc /\ writer'[j].kind = writer[j].kind /\ writer'[j].on = writer[j].on
      /\ writer'[j].wrote = writer[j].wrote
  BY <1>1, <1>5 DEF WriterState
<1>8. Placed(j)'
  BY <1>2, <1>3, <1>6, <1>7, AssetShapes DEF Placed, PlacesInv, IsClip, Persists, versionVars, AssetTypeOK
<1>9. \A k \in Writer \ {j} : Placed(k)'
  BY <1>5, <1>6, PlacedKept DEF PlacesInv
<1> QED
  BY <1>5, <1>7, <1>8, <1>9 DEF PlacesInv

\* Tracking a file changes nothing but its versions, and leaves it recorded.
LEMMA TrackFacts ==
    ASSUME AssetTypeOK, VersionsInv, NEW r \in Asset, Track(r)
    PROVE  /\ history' \in [Asset -> Seq(Content)] /\ current' \in [Asset -> Nat]
           /\ \A x \in Asset : /\ current'[x] <= Len(history'[x])
                               /\ current'[x] = 0 => history'[x] = <<>>
                               /\ current'[x] = 0 => current[x] = 0
                               /\ current[x] > 0 => /\ current'[x] = current[x]
                                                    /\ history'[x] = history[x]
                               /\ x # r => history'[x] = history[x] /\ current'[x] = current[x]
           /\ bytes[r] # None => current'[r] > 0
           /\ Untracked(r) => history'[r] = <<bytes[r]>> /\ current'[r] = 1
           /\ ~Untracked(r) => history' = history /\ current' = current
<1>1. /\ history \in [Asset -> Seq(Content)] /\ current \in [Asset -> Nat]
      /\ \A x \in Asset : current[x] <= Len(history[x])
      /\ bytes[r] # None => bytes[r] \in Content
  BY DEF AssetTypeOK
<1>2. CASE Untracked(r)
  <2>1. history[r] = <<>> /\ bytes[r] \in Content
    BY <1>1, <1>2 DEF Untracked, VersionsInv
  <2>2. history' = [history EXCEPT ![r] = <<bytes[r]>>] /\ current' = [current EXCEPT ![r] = 1]
    BY <1>1, <1>2, <2>1 DEF Track, Tracked
  <2> QED
    BY <1>1, <1>2, <2>1, <2>2 DEF Untracked, VersionsInv
<1>3. CASE ~Untracked(r)
  <2>1. history' = history /\ current' = current
    BY <1>1, <1>3 DEF Track, Tracked
  <2> QED
    BY <1>1, <1>3, <2>1 DEF Untracked, VersionsInv
<1> QED
  BY <1>2, <1>3

LEMMA AddVersionFacts ==
    ASSUME AssetTypeOK, NEW r \in Asset, bytes[r] # None, AddVersion(r)
    PROVE  /\ history' \in [Asset -> Seq(Content)] /\ current' \in [Asset -> Nat]
           /\ \A x \in Asset : /\ current'[x] <= Len(history'[x])
                               /\ x # r => history'[x] = history[x] /\ current'[x] = current[x]
           /\ current'[r] > 0 /\ history'[r][current'[r]] = bytes[r]
<1>1. /\ history \in [Asset -> Seq(Content)] /\ current \in [Asset -> Nat]
      /\ \A x \in Asset : current[x] <= Len(history[x])
      /\ bytes[r] \in Content
  BY DEF AssetTypeOK
<1> QED
  BY <1>1 DEF AddVersion

AssetInd == AssetTypeOK /\ PlacesInv /\ VersionsInv

\* What is left to show of a step of one writer: its own record, and the files.
LEMMA IndOf ==
    ASSUME AssetInd, Persists, NEW j \in Writer, NEW w \in WriterState,
           writer' = [writer EXCEPT ![j] = w], Placed(j)',
           bytes' \in [Asset -> Content \cup {None}],
           history' \in [Asset -> Seq(Content)], current' \in [Asset -> Nat],
           \A r \in Asset : /\ current'[r] <= Len(history'[r])
                            /\ current'[r] = 0 => history'[r] = <<>>,
           UNCHANGED <<torn, scriptVars, outages>>, crossed' \subseteq Units,
           poster' \in [Clips -> Content \cup {None}],
           gridFile' \in BOOLEAN, gridRow' \in BOOLEAN,
           grid' \in {"absent", "pending", "generating", "splitting", "completed", "failed"}
    PROVE  AssetInd'
<1>1. writer \in [Writer -> WriterState]
  BY DEF AssetInd, AssetTypeOK, WriterState
<1>2. /\ writer' \in [Writer -> WriterState]
      /\ \A k \in Writer \ {j} : writer'[k] = writer[k]
  BY <1>1, WriterUpdates
<1>3. PlacesInv'
  BY <1>2, PlacedKept DEF AssetInd, PlacesInv
<1>4. torn' \in BOOLEAN
  BY Zenon DEF AssetInd, AssetTypeOK
<1>5. /\ present' \subseteq Shot /\ outages' \in 0..MaxOutages
      /\ entry' \in [Shot -> [still : BOOLEAN, clip : BOOLEAN, poster : BOOLEAN,
                              uri : Writer \cup {None}]]
  BY Zenon DEF AssetInd, AssetTypeOK, scriptVars
<1>6. AssetTypeOK'
  BY <1>2, <1>4, <1>5 DEF AssetTypeOK, WriterState
<1>7. VersionsInv'
  BY DEF VersionsInv
<1> QED
  BY <1>3, <1>6, <1>7 DEF AssetInd

LEMMA IndBegin ==
    ASSUME AssetInd, NEW j \in Writer, NEW r \in Asset, NEW kind \in {"make", "put"},
           Begin(j, kind, r)
    PROVE  AssetInd' /\ Persists
<1>1. /\ writer \in [Writer -> WriterState] /\ writer[j].pc = "idle"
      /\ Placed(j) /\ crossed \subseteq Units /\ AssetTypeOK /\ VersionsInv
  BY DEF AssetInd, AssetTypeOK, WriterState, PlacesInv, Begin
<1> DEFINE w == [writer[j] EXCEPT !.pc = "paid", !.kind = kind, !.on = r]
<1>2. w \in WriterState /\ writer' = [writer EXCEPT ![j] = w]
  BY <1>1 DEF WriterState, Phase, Begin
<1>3. /\ UNCHANGED <<bytes, torn, scriptVars, poster, gridVars, outages>> /\ Track(r)
      /\ crossed' \subseteq Units
  BY <1>1 DEF Begin, Track, Crossing
<1>4. Persists
  BY <1>1, <1>3, TrackFacts DEF Persists, Unrecorded, scriptVars
<1>5. ~Unrecorded(r)'
  BY <1>1, <1>3, TrackFacts, AssetShapes DEF Unrecorded, AssetAssumption
<1>6. writer'[j] = w /\ w.wrote = None /\ w.kind = kind /\ w.on = r /\ w.pc = "paid"
  BY <1>1, <1>2, WriterUpdates DEF WriterState, Placed
<1>7. Placed(j)'
  BY <1>5, <1>6 DEF Placed
<1>8. /\ gridFile' \in BOOLEAN /\ gridRow' \in BOOLEAN
      /\ grid' \in {"absent", "pending", "generating", "splitting", "completed", "failed"}
      /\ poster' \in [Clips -> Content \cup {None}]
      /\ bytes' \in [Asset -> Content \cup {None}]
  BY <1>1, <1>3, Zenon DEF AssetTypeOK, gridVars
<1> HIDE DEF w
<1> QED
  BY <1>1, <1>2, <1>3, <1>4, <1>7, <1>8, TrackFacts, IndOf

LEMMA IndWriteFile ==
    ASSUME AssetInd, NEW j \in Writer, WriteFile(j)
    PROVE  AssetInd' /\ Persists
<1>1. /\ writer \in [Writer -> WriterState] /\ writer[j].pc = "paid" /\ Placed(j)
      /\ crossed \subseteq Units /\ AssetTypeOK /\ VersionsInv
      /\ bytes \in [Asset -> Content \cup {None}]
  BY DEF AssetInd, AssetTypeOK, WriterState, PlacesInv, WriteFile
<1> DEFINE r == writer[j].on
           w == [writer[j] EXCEPT !.pc = "written", !.wrote = r]
<1>2. r \in Asset /\ writer[j].kind \in {"make", "put"}
  BY <1>1 DEF Placed
<1>3. w \in WriterState /\ writer' = [writer EXCEPT ![j] = w]
  BY <1>1, <1>2 DEF WriterState, Phase, WriteFile
<1>4. /\ UNCHANGED <<versionVars, torn, scriptVars, poster, gridVars, outages, crossed>>
      /\ bytes' = [bytes EXCEPT ![r] = j]
  BY DEF WriteFile, versionVars
<1>5. Persists
  BY <1>1, <1>2, <1>4, AssetShapes DEF Persists, Unrecorded, scriptVars, versionVars
<1>6. writer'[j] = w /\ w.wrote = r /\ w.kind = writer[j].kind /\ w.on = r /\ w.pc = "written"
  BY <1>1, <1>3, WriterUpdates DEF WriterState
<1>7. bytes'[r] = j /\ j # Legacy /\ j # None
  BY <1>1, <1>2, <1>4, AssetShapes
<1>8. Placed(j)'
  <2> HIDE DEF w, r
  <2> QED
    BY <1>2, <1>6, <1>7, AssetShapes DEF Placed, Unrecorded
<1>9. /\ gridFile' \in BOOLEAN /\ gridRow' \in BOOLEAN
      /\ grid' \in {"absent", "pending", "generating", "splitting", "completed", "failed"}
      /\ poster' \in [Clips -> Content \cup {None}]
  BY <1>1, <1>4, Zenon DEF AssetTypeOK, gridVars
<1>10. bytes' \in [Asset -> Content \cup {None}]
  BY <1>1, <1>2, <1>4 DEF AssetTypeOK, Content
<1> HIDE DEF w
<1> QED
  BY <1>1, <1>3, <1>4, <1>5, <1>8, <1>9, <1>10, IndOf DEF versionVars, AssetTypeOK, VersionsInv

LEMMA IndRecord ==
    ASSUME AssetInd, NEW j \in Writer, Record(j) \/ RecordCell(j)
    PROVE  AssetInd' /\ Persists
<1>1. /\ writer \in [Writer -> WriterState] /\ Placed(j) /\ AssetTypeOK /\ VersionsInv
      /\ writer[j].pc = "written" => writer[j].on \in Asset /\ writer[j].on # None
      /\ writer[j].wrote \in Asset \cup {None}
  BY AssetShapes DEF AssetInd, AssetTypeOK, WriterState, PlacesInv, Placed
<1>2. PICK p \in {"recorded", "cells"} :
         /\ writer' = [writer EXCEPT ![j] = [writer[j] EXCEPT !.pc = p, !.wrote = None]]
         /\ p = "recorded" => writer[j].pc = "written"
         /\ p = "cells" => writer[j].pc = "cells"
  <2>1. CASE Record(j)
    BY <2>1 DEF Record
  <2>2. CASE RecordCell(j)
    <3>1. writer' = [writer EXCEPT ![j] = [writer[j] EXCEPT !.wrote = None]] /\ writer[j].pc = "cells"
      BY <2>2 DEF RecordCell
    <3>2. [writer[j] EXCEPT !.wrote = None] = [writer[j] EXCEPT !.pc = "cells", !.wrote = None]
      BY <1>1, <3>1 DEF WriterState
    <3> QED
      BY <3>1, <3>2
  <2> QED
    BY <2>1, <2>2
<1>3. PICK r \in Asset : AddVersion(r) /\ r = writer[j].wrote
  <2>1. CASE Record(j)
    BY <1>1, <2>1 DEF Record, Placed
  <2>2. CASE RecordCell(j)
    BY <1>1, <2>2 DEF RecordCell
  <2> QED
    BY <2>1, <2>2
<1>4. bytes[r] # None
  BY <1>1, <1>3, AssetShapes DEF Placed
<1> DEFINE w == [writer[j] EXCEPT !.pc = p, !.wrote = None]
<1>5. w \in WriterState
  BY <1>1 DEF WriterState, Phase
<1>6. /\ UNCHANGED <<bytes, torn, scriptVars, poster, gridVars, outages, crossed>>
  BY DEF Record, RecordCell, AddVersion
<1>7. Persists
  BY <1>3, <1>4, <1>6, <1>1, AddVersionFacts DEF Persists, Unrecorded, scriptVars
<1>8. /\ writer'[j].wrote = None /\ writer'[j].kind = writer[j].kind
      /\ writer'[j].on = writer[j].on /\ writer'[j].pc = p
      /\ writer'[j].todo = writer[j].todo /\ writer'[j].cells = writer[j].cells
  BY <1>1, <1>2 DEF WriterState
<1>9. Placed(j)'
  BY <1>1, <1>2, <1>6, <1>7, <1>8 DEF Placed, Persists, scriptVars
<1>10. /\ gridFile' \in BOOLEAN /\ gridRow' \in BOOLEAN
       /\ grid' \in {"absent", "pending", "generating", "splitting", "completed", "failed"}
       /\ poster' \in [Clips -> Content \cup {None}]
       /\ bytes' \in [Asset -> Content \cup {None}]
       /\ crossed' \subseteq Units
  BY <1>1, <1>6, Zenon DEF AssetTypeOK, gridVars
<1>11. \A x \in Asset : current'[x] = 0 => history'[x] = <<>>
  BY <1>1, <1>3, <1>4, AddVersionFacts DEF VersionsInv
<1> HIDE DEF w
<1> QED
  BY <1>1, <1>2, <1>3, <1>4, <1>5, <1>6, <1>7, <1>9, <1>10, <1>11, AddVersionFacts, IndOf DEF w

LEMMA IndExtract ==
    ASSUME AssetInd, NEW j \in Writer, NEW ok \in BOOLEAN, Extract(j, ok)
    PROVE  AssetInd' /\ Persists
<1>1. /\ writer \in [Writer -> WriterState] /\ Placed(j) /\ AssetTypeOK /\ VersionsInv
      /\ bytes \in [Asset -> Content \cup {None}] /\ poster \in [Clips -> Content \cup {None}]
  BY DEF AssetInd, AssetTypeOK, WriterState, PlacesInv
<1>2. /\ writer[j].on \in {"clip"} \X Clips /\ writer[j].pc \in {"linked", "recorded"}
      /\ UNCHANGED <<bytes, versionVars, scriptVars, gridVars, crossed, outages>>
  BY DEF Extract, IsClip
<1>3. PICK p \in {"done", "framed"} :
         writer' = [writer EXCEPT ![j] = [writer[j] EXCEPT !.pc = p, !.flag = ok]]
  BY DEF Extract
<1> DEFINE w == [writer[j] EXCEPT !.pc = p, !.flag = ok]
<1>4. w \in WriterState
  BY <1>1 DEF WriterState, Phase
<1>5. Persists
  BY <1>2 DEF Persists, Unrecorded, scriptVars, versionVars
<1>6. /\ writer'[j].wrote = writer[j].wrote /\ writer'[j].kind = writer[j].kind
      /\ writer'[j].on = writer[j].on /\ writer'[j].pc = p
  BY <1>1, <1>3 DEF WriterState
<1>7. Placed(j)'
  BY <1>1, <1>2, <1>3, <1>6 DEF Placed, versionVars, Unrecorded
<1>8. /\ gridFile' \in BOOLEAN /\ gridRow' \in BOOLEAN
      /\ grid' \in {"absent", "pending", "generating", "splitting", "completed", "failed"}
      /\ crossed' \subseteq Units
  BY <1>1, <1>2, Zenon DEF AssetTypeOK, gridVars
<1>9. poster' \in [Clips -> Content \cup {None}]
  <2>1. bytes[writer[j].on] \in Content \cup {None}
    BY <1>1, <1>2, AssetShapes
  <2> QED
    BY <1>1, <2>1 DEF Extract
<1>10. history' = history /\ current' = current /\ torn' = torn
  BY <1>2 DEF versionVars
<1> HIDE DEF w
<1> QED
  BY <1>1, <1>2, <1>3, <1>4, <1>5, <1>7, <1>8, <1>9, <1>10, IndOf DEF w, AssetTypeOK, VersionsInv

LEMMA IndRestore ==
    ASSUME AssetInd, NEW j \in Writer, NEW r \in Asset, NEW n \in 1..Len(history[r]), Restore(j, r, n)
    PROVE  AssetInd' /\ Persists
<1>1. /\ writer \in [Writer -> WriterState] /\ Placed(j) /\ AssetTypeOK /\ VersionsInv
      /\ bytes \in [Asset -> Content \cup {None}] /\ history \in [Asset -> Seq(Content)]
      /\ current \in [Asset -> Nat] /\ writer[j].pc = "idle" /\ crossed \subseteq Units
      /\ \A x \in Asset : current[x] <= Len(history[x])
  BY DEF AssetInd, AssetTypeOK, WriterState, PlacesInv, Restore
<1>2. /\ UNCHANGED <<history, torn, scriptVars, poster, gridVars, outages>>
      /\ bytes' = [bytes EXCEPT ![r] = history[r][n]] /\ current' = [current EXCEPT ![r] = n]
      /\ crossed' \subseteq Units
  BY <1>1 DEF Restore, Crossing
<1>3. history[r][n] \in Content
  BY <1>1
<1> DEFINE w == [writer[j] EXCEPT !.pc = "restored", !.kind = "back", !.on = r]
<1>4. w \in WriterState /\ writer' = [writer EXCEPT ![j] = w]
  <2>1. writer[j] \in WriterState
    BY <1>1
  <2>2. w \in WriterState
    BY <2>1 DEF WriterState, Phase
  <2> QED
    BY <2>2 DEF Restore
<1>5. Persists
  BY <1>1, <1>2, <1>3, AssetShapes DEF Persists, Unrecorded, scriptVars
<1>6. /\ writer'[j].wrote = None /\ writer'[j].kind = "back"
      /\ writer'[j].on = r /\ writer'[j].pc = "restored"
  BY <1>1, <1>4 DEF WriterState, Placed
<1>7. Placed(j)'
  BY <1>6 DEF Placed
<1>8. /\ gridFile' \in BOOLEAN /\ gridRow' \in BOOLEAN
      /\ grid' \in {"absent", "pending", "generating", "splitting", "completed", "failed"}
      /\ poster' \in [Clips -> Content \cup {None}]
  BY <1>1, <1>2, Zenon DEF AssetTypeOK, gridVars
<1>9. /\ bytes' \in [Asset -> Content \cup {None}] /\ current' \in [Asset -> Nat]
      /\ \A x \in Asset : /\ current'[x] <= Len(history'[x])
                          /\ current'[x] = 0 => history'[x] = <<>>
  BY <1>1, <1>2, <1>3 DEF VersionsInv
<1> HIDE DEF w
<1> QED
  BY <1>1, <1>2, <1>4, <1>5, <1>7, <1>8, <1>9, IndOf

LEMMA IndCell ==
    ASSUME AssetInd, NEW j \in Writer, NEW s \in Shot, Cell(j, s)
    PROVE  AssetInd' /\ Persists
<1> DEFINE r == <<"still", s>>
<1>1. /\ writer \in [Writer -> WriterState] /\ Placed(j) /\ AssetTypeOK /\ VersionsInv
      /\ bytes \in [Asset -> Content \cup {None}]
      /\ writer[j].pc = "cells" /\ writer[j].wrote = None
      /\ r \in Asset /\ r # None /\ \A x \in Shot : <<"still", x>> \in Asset
      /\ j # Legacy /\ j # None /\ writer[j].cells \subseteq Shot
  BY AssetShapes DEF AssetInd, AssetTypeOK, WriterState, PlacesInv, Cell
<1>2. /\ UNCHANGED <<torn, scriptVars, poster, gridVars, crossed, outages>>
      /\ Track(r) /\ bytes' = [bytes EXCEPT ![r] = j]
  BY DEF Cell, Track
<1> DEFINE w == [writer[j] EXCEPT !.wrote = r, !.todo = @ \ {s}]
<1>4. w \in WriterState /\ writer' = [writer EXCEPT ![j] = w]
  BY <1>1 DEF WriterState, Phase, Cell
<1>5. Persists
  BY <1>1, <1>2, TrackFacts DEF Persists, Unrecorded, scriptVars
<1>6. /\ writer'[j].wrote = r /\ writer'[j].kind = writer[j].kind /\ writer'[j].pc = "cells"
      /\ writer'[j].on = writer[j].on /\ writer'[j].cells = writer[j].cells
      /\ writer'[j].todo = writer[j].todo \ {s}
  BY <1>1, <1>4 DEF WriterState
<1>7. bytes'[r] = j /\ \A x \in Asset : x # r => bytes'[x] = bytes[x]
  BY <1>1, <1>2
<1>8. /\ present' \subseteq writer'[j].cells
      /\ \A x \in writer'[j].cells \ writer'[j].todo : bytes'[<<"still", x>>] # None
  BY <1>1, <1>2, <1>6, <1>7 DEF Placed, scriptVars
<1>9. Placed(j)'
  <2> HIDE DEF r, w
  <2> QED
    BY <1>1, <1>6, <1>7, <1>8 DEF Placed
<1>10. /\ gridFile' \in BOOLEAN /\ gridRow' \in BOOLEAN
      /\ grid' \in {"absent", "pending", "generating", "splitting", "completed", "failed"}
      /\ poster' \in [Clips -> Content \cup {None}] /\ crossed' \subseteq Units
  BY <1>1, <1>2, Zenon DEF AssetTypeOK, gridVars
<1>11. bytes' \in [Asset -> Content \cup {None}]
  BY <1>1, <1>2 DEF Content
<1> HIDE DEF w, r
<1> QED
  BY <1>1, <1>2, <1>4, <1>5, <1>9, <1>10, <1>11, TrackFacts, IndOf

LEMMA IndGrid ==
    ASSUME AssetInd, NEW j \in Writer, GridStart(j) \/ SplitLoad(j) \/ ListGrids(j)
    PROVE  AssetInd' /\ Persists
<1>1. /\ writer \in [Writer -> WriterState] /\ Placed(j) /\ AssetTypeOK /\ VersionsInv
      /\ present \subseteq Shot
  BY DEF AssetInd, AssetTypeOK, WriterState, PlacesInv
<1>2. UNCHANGED <<bytes, versionVars, scriptVars, poster, gridFile, crossed, outages>>
  BY DEF GridStart, SplitLoad, ListGrids, gridVars
<1>3. Persists
  BY <1>2 DEF Persists, Unrecorded, scriptVars, versionVars
<1>4. PICK w \in WriterState :
         /\ writer' = [writer EXCEPT ![j] = w] /\ w.wrote = writer[j].wrote
         /\ \/ w.pc = "failed" /\ w.kind = writer[j].kind /\ w.on = writer[j].on
            \/ w.pc = "imaging" /\ w.kind = "grid" /\ w.on = Grid
            \/ /\ w.pc = "listed" /\ w.kind = writer[j].kind /\ w.on = writer[j].on
               /\ writer[j].pc = "idle"
            \/ /\ w.pc = "cells" /\ w.kind = writer[j].kind /\ w.on = writer[j].on
               /\ writer[j].pc = "split" /\ w.todo = present /\ w.cells = present
  <2>1. CASE GridStart(j) /\ grid = "absent"
    <3>1. writer' = [writer EXCEPT ![j] = [writer[j] EXCEPT !.pc = "failed"]]
      BY <2>1 DEF GridStart, Move
    <3>2. [writer[j] EXCEPT !.pc = "failed"] \in WriterState
      BY <1>1 DEF WriterState, Phase
    <3> QED
      BY <1>1, <3>1, <3>2 DEF WriterState
  <2>2. CASE GridStart(j) /\ grid # "absent"
    <3>1. writer' = [writer EXCEPT ![j] = [writer[j] EXCEPT !.pc = "imaging", !.kind = "grid",
                                                             !.on = Grid]]
      BY <2>2 DEF GridStart
    <3>2. [writer[j] EXCEPT !.pc = "imaging", !.kind = "grid", !.on = Grid] \in WriterState
      BY <1>1 DEF WriterState, Phase
    <3> QED
      BY <1>1, <3>1, <3>2 DEF WriterState
  <2>3. CASE SplitLoad(j)
    <3>1. writer' = [writer EXCEPT ![j] = [writer[j] EXCEPT !.pc = "cells", !.todo = present,
                                                             !.cells = present]]
      BY <2>3 DEF SplitLoad
    <3>2. [writer[j] EXCEPT !.pc = "cells", !.todo = present, !.cells = present] \in WriterState
      BY <1>1 DEF WriterState, Phase
    <3> QED
      BY <1>1, <2>3, <3>1, <3>2 DEF WriterState, SplitLoad
  <2>4. CASE ListGrids(j)
    <3>1. PICK f \in BOOLEAN :
             writer' = [writer EXCEPT ![j] = [writer[j] EXCEPT !.pc = "listed", !.flag = f]]
      BY <2>4 DEF ListGrids
    <3>2. [writer[j] EXCEPT !.pc = "listed", !.flag = f] \in WriterState
      BY <1>1 DEF WriterState, Phase
    <3> QED
      BY <1>1, <2>4, <3>1, <3>2 DEF WriterState, ListGrids
  <2> QED
    BY <2>1, <2>2, <2>3, <2>4
<1>5. /\ writer'[j] = w
      /\ writer[j].pc = "idle" \/ writer[j].pc = "split"
  BY <1>1, <1>4 DEF GridStart, SplitLoad, ListGrids
<1>6. Placed(j)'
  BY <1>1, <1>2, <1>4, <1>5 DEF Placed, scriptVars, versionVars, Unrecorded
<1>7. /\ gridFile' \in BOOLEAN
      /\ grid' \in {"absent", "pending", "generating", "splitting", "completed", "failed"}
      /\ poster' \in [Clips -> Content \cup {None}]
      /\ bytes' \in [Asset -> Content \cup {None}] /\ crossed' \subseteq Units
  <2>1. grid' \in {grid, "generating"}
    BY DEF GridStart, SplitLoad, ListGrids, gridVars
  <2>2. gridFile' = gridFile /\ poster' = poster /\ bytes' = bytes /\ crossed' = crossed
    BY <1>2
  <2> QED
    BY <1>1, <2>1, <2>2, Zenon DEF AssetTypeOK
<1>8. gridRow' \in BOOLEAN
  <2>1. gridRow' = gridRow \/ gridRow' = FALSE
    BY DEF GridStart, SplitLoad, ListGrids, gridVars
  <2> QED
    BY <1>1, <2>1, Zenon DEF AssetTypeOK
<1>9. history' = history /\ current' = current /\ torn' = torn
  BY <1>2 DEF versionVars
<1> QED
  BY <1>1, <1>2, <1>3, <1>4, <1>6, <1>7, <1>8, <1>9, IndOf DEF AssetTypeOK, VersionsInv

LEMMA LinkTypes ==
    ASSUME AssetTypeOK, NEW j \in Writer, NEW pc, NEW new \in Entry, Link(j, pc, new)
    PROVE  entry' \in [Shot -> Entry] /\ crossed' \subseteq Units
BY DEF Link, Breaks, Crossing, AssetTypeOK, Entry

LEMMA EntryTypes ==
    ASSUME AssetTypeOK, PlacesInv, NEW j \in Writer, Stepping(j)
    PROVE  entry' \in [Shot -> Entry] /\ crossed' \subseteq Units
<1>1. /\ entry \in [Shot -> Entry] /\ crossed \subseteq Units
      /\ j \in Writer \cup {None} /\ Uri(j) \in Writer \cup {None}
      /\ writer[j].flag \in BOOLEAN
      /\ present \subseteq Shot /\ writer[j].cells \subseteq Shot
  BY DEF AssetTypeOK, Entry, Uri
<1>2. writer[j].pc \in {"recorded", "framed", "restored"} => ShotOf(j) \in Shot
  BY AssetShapes DEF PlacesInv, Placed, ShotOf
<1>3. CASE BreakOff(j) \/ Rejected(j) \/ DropPoster(j) \/ GridSettles(j) \/ Regenerate(j)
           \/ CleanGrids(j) \/ GridImage(j) \/ CellsBreak(j)
  <2>1. entry' = entry
    BY <1>3 DEF BreakOff, Rejected, DropPoster, GridSettles, Regenerate, CleanGrids, GridImage,
                CellsBreak, scriptVars
  <2>2. crossed' \subseteq Units
    BY <1>1, <1>3 DEF BreakOff, Breaks, Crossing, Rejected, DropPoster, GridSettles, Regenerate,
                      CleanGrids, GridImage, CellsBreak
  <2> QED
    BY <1>1, <2>1, <2>2
<1>4. CASE LinkStill(j)
  <2>1. [entry[ShotOf(j)] EXCEPT !.still = TRUE] \in Entry
    BY <1>1, <1>2, <1>4 DEF LinkStill, Entry
  <2> QED
    BY <1>4, <2>1, LinkTypes DEF LinkStill
<1>5. CASE LinkClip(j)
  <2>1. ShotOf(j) \in Shot
    BY <1>2, <1>5 DEF LinkClip
  <2>2. \A u \in Writer \cup {None} : [entry[ShotOf(j)] EXCEPT !.clip = TRUE, !.uri = u] \in Entry
    BY <1>1, <2>1 DEF Entry
  <2>3. (IF Uri(j) # None THEN Uri(j) ELSE entry[ShotOf(j)].uri) \in Writer \cup {None}
    BY <1>1, <2>1 DEF Entry
  <2> QED
    BY <1>5, <2>2, <2>3, LinkTypes DEF LinkClip
<1>6. CASE LinkAll(j) \/ LinkPoster(j)
  <2>1. ShotOf(j) \in Shot
    BY <1>2, <1>6 DEF LinkAll, LinkPoster
  <2>2. CASE LinkAll(j)
    <3>1. [entry[ShotOf(j)] EXCEPT !.clip = TRUE, !.uri = Uri(j), !.poster = writer[j].flag] \in Entry
      BY <1>1, <2>1 DEF Entry
    <3> QED
      BY <2>2, <3>1, LinkTypes DEF LinkAll
  <2>3. CASE LinkPoster(j)
    <3>1. [entry[ShotOf(j)] EXCEPT !.poster = TRUE] \in Entry
      BY <1>1, <2>1 DEF Entry
    <3> QED
      BY <2>3, <3>1, LinkTypes DEF LinkPoster
  <2> QED
    BY <1>6, <2>2, <2>3
<1>7. CASE Sync(j)
  <2>1. ShotOf(j) \in Shot
    BY <1>2, <1>7 DEF Sync
  <2>2. /\ [entry[ShotOf(j)] EXCEPT !.clip = TRUE, !.uri = None, !.poster = FALSE] \in Entry
        /\ [entry[ShotOf(j)] EXCEPT !.still = TRUE] \in Entry
    BY <1>1, <2>1 DEF Entry
  <2>3. entry' \in [Shot -> Entry]
    BY <1>1, <1>7, <2>1, <2>2 DEF Sync
  <2> QED
    BY <1>1, <1>7, <2>3 DEF Sync
<1>8. ASSUME NEW s \in Shot, RemoveShot(j, s)
      PROVE  entry' \in [Shot -> Entry] /\ crossed' \subseteq Units
  <2>1. Blank \in Entry
    BY DEF Blank, Entry
  <2> QED
    BY <1>1, <1>8, <2>1 DEF RemoveShot
<1>9. CASE LinkCells(j)
  <2>1. \A s \in Shot : [entry[s] EXCEPT !.still = TRUE] \in Entry /\ entry[s] \in Entry
    BY <1>1 DEF Entry
  <2>2. entry' \in [Shot -> Entry]
    BY <1>1, <1>9, <2>1 DEF LinkCells
  <2> QED
    BY <1>1, <1>9, <2>2 DEF LinkCells
<1> QED
  BY <1>3, <1>4, <1>5, <1>6, <1>7, <1>8, <1>9 DEF Stepping

LEMMA OtherTypes ==
    ASSUME AssetTypeOK, PlacesInv, NEW j \in Writer, Stepping(j)
    PROVE  /\ poster' \in [Clips -> Content \cup {None}]
           /\ gridFile' \in BOOLEAN /\ gridRow' \in BOOLEAN
           /\ grid' \in {"absent", "pending", "generating", "splitting", "completed", "failed"}
           /\ outages' = outages /\ torn' = torn
<1>1. /\ poster \in [Clips -> Content \cup {None}]
      /\ grid \in {"absent", "pending", "generating", "splitting", "completed", "failed"}
  BY DEF AssetTypeOK
<1>2. gridFile \in BOOLEAN /\ gridRow \in BOOLEAN
  BY Zenon DEF AssetTypeOK
<1>3. CASE Rejected(j) \/ BreakOff(j) \/ LinkStill(j) \/ LinkClip(j) \/ LinkAll(j) \/ LinkPoster(j)
           \/ Sync(j) \/ (\E s \in Shot : RemoveShot(j, s)) \/ GridSettles(j)
  <2>1. UNCHANGED <<poster, grid, gridFile, gridRow, outages, torn>>
    BY <1>3 DEF Rejected, BreakOff, LinkStill, LinkClip, LinkAll, LinkPoster, Link, Sync,
                RemoveShot, GridSettles, gridVars, versionVars
  <2> QED
    BY <1>1, <1>2, <2>1, Zenon
<1>4. CASE DropPoster(j)
  <2>1. poster' \in [Clips -> Content \cup {None}]
    BY <1>1, <1>4 DEF DropPoster
  <2>2. UNCHANGED <<grid, gridFile, gridRow, outages, torn>>
    BY <1>4 DEF DropPoster, gridVars, versionVars
  <2> QED
    BY <1>1, <1>2, <2>1, <2>2, Zenon
<1>5. CASE GridImage(j) \/ CellsBreak(j) \/ LinkCells(j) \/ Regenerate(j) \/ CleanGrids(j)
  <2>1. UNCHANGED <<poster, outages, torn>>
    BY <1>5 DEF GridImage, CellsBreak, LinkCells, Regenerate, CleanGrids, versionVars
  <2>2. grid' \in {grid, "splitting", "failed", "completed", "pending", "absent"}
    BY <1>5 DEF GridImage, GridFails, CellsBreak, LinkCells, Regenerate, CleanGrids
  <2>3. gridFile' \in {gridFile, TRUE, FALSE} /\ gridRow' \in {gridRow, gridRow \/ ~GridActive}
    BY <1>5 DEF GridImage, GridFails, CellsBreak, LinkCells, Regenerate, CleanGrids
  <2>4. gridFile' \in BOOLEAN /\ gridRow' \in BOOLEAN
    BY <1>2, <2>3, Zenon
  <2> QED
    BY <1>1, <2>1, <2>2, <2>4
<1> QED
  BY <1>3, <1>4, <1>5 DEF Stepping

LEMMA IndStepping ==
    ASSUME AssetInd, NEW j \in Writer, Stepping(j)
    PROVE  AssetInd' /\ Persists
<1>1. AssetTypeOK /\ PlacesInv /\ VersionsInv
  BY DEF AssetInd
<1>2. UNCHANGED <<bytes, versionVars>> /\ present' \subseteq present
  BY <1>1, SteppingMoves
<1>3. PlacesInv' /\ writer' \in [Writer -> WriterState]
  BY <1>1, PlacedMoved
<1>4. entry' \in [Shot -> Entry] /\ crossed' \subseteq Units
  BY <1>1, EntryTypes
<1>5. /\ poster' \in [Clips -> Content \cup {None}]
      /\ gridFile' \in BOOLEAN /\ gridRow' \in BOOLEAN
      /\ grid' \in {"absent", "pending", "generating", "splitting", "completed", "failed"}
      /\ outages' = outages /\ torn' = torn
  BY <1>1, OtherTypes
<1>6. torn' \in BOOLEAN
  BY <1>1, <1>5, Zenon DEF AssetTypeOK
<1>7. AssetTypeOK'
  BY <1>1, <1>2, <1>3, <1>4, <1>5, <1>6 DEF AssetTypeOK, WriterState, Entry, versionVars
<1>8. VersionsInv' /\ Persists
  BY <1>1, <1>2 DEF VersionsInv, versionVars, Persists, Unrecorded
<1> QED
  BY <1>3, <1>7, <1>8 DEF AssetInd

LEMMA IndOutage ==
    ASSUME AssetInd, Outage
    PROVE  /\ AssetInd' /\ Persists
           /\ \A j \in Writer : writer'[j].wrote = writer[j].wrote
<1>1. /\ writer \in [Writer -> WriterState] /\ AssetTypeOK /\ PlacesInv /\ VersionsInv
      /\ crossed \subseteq Units /\ outages \in Nat /\ MaxOutages \in Nat
  BY AssetAssumption DEF AssetInd, AssetTypeOK, WriterState, AssetAssumption
<1>2. /\ UNCHANGED <<bytes, history, current, scriptVars, poster, gridVars>>
      /\ crossed' \subseteq Units /\ outages' \in 0..MaxOutages
  BY <1>1 DEF Outage, Crossing
<1>3. torn' \in BOOLEAN
  <2>1. torn' \in {torn, torn \/ \E j \in {x \in Writer : Busy(x)} : writer[j].wrote # None}
    BY DEF Outage
  <2> QED
    BY <1>1, <2>1, Zenon DEF AssetTypeOK
<1>4. PICK S \in SUBSET {x \in Writer : Busy(x) /\ writer[x].kind = "make" /\ IsClip(x)} :
         writer' = [j \in Writer |->
                      IF j \notin {x \in Writer : Busy(x)} THEN writer[j]
                      ELSE [writer[j] EXCEPT !.pc = IF j \in S THEN "paid" ELSE "dead"]]
  BY DEF Outage
<1>5. \A j \in Writer :
         /\ writer'[j] \in WriterState
         /\ writer'[j] = writer[j]
            \/ /\ writer'[j].pc = "dead" \/ (writer'[j].pc = "paid" /\ writer[j].kind = "make")
               /\ writer'[j].on = writer[j].on /\ writer'[j].wrote = writer[j].wrote
               /\ writer'[j].kind = writer[j].kind
  <2> SUFFICES ASSUME NEW j \in Writer
               PROVE  /\ writer'[j] \in WriterState
                      /\ writer'[j] = writer[j]
                         \/ /\ writer'[j].pc = "dead"
                               \/ (writer'[j].pc = "paid" /\ writer[j].kind = "make")
                            /\ writer'[j].on = writer[j].on /\ writer'[j].wrote = writer[j].wrote
                            /\ writer'[j].kind = writer[j].kind
    OBVIOUS
  <2>1. CASE ~Busy(j)
    BY <1>1, <1>4, <2>1
  <2>2. CASE Busy(j)
    <3>1. PICK p \in {"paid", "dead"} : /\ writer'[j] = [writer[j] EXCEPT !.pc = p]
                                        /\ p = "paid" => writer[j].kind = "make"
      BY <1>4, <2>2
    <3> QED
      BY <1>1, <3>1 DEF WriterState, Phase
  <2> QED
    BY <2>1, <2>2
<1>6. Persists
  BY <1>2 DEF Persists, Unrecorded, scriptVars
<1>7. PlacesInv'
  <2> SUFFICES ASSUME NEW j \in Writer
               PROVE  Placed(j)'
    BY DEF PlacesInv
  <2>1. CASE writer'[j] = writer[j]
    BY <1>1, <1>6, <2>1, PlacedKept DEF PlacesInv
  <2>2. CASE writer'[j] # writer[j]
    BY <1>1, <1>2, <1>5, <2>2 DEF PlacesInv, Placed, Unrecorded
  <2> QED
    BY <2>1, <2>2
<1>8. writer' \in [Writer -> WriterState]
  BY <1>4, <1>5
<1>9. /\ gridFile' \in BOOLEAN /\ gridRow' \in BOOLEAN
      /\ grid' \in {"absent", "pending", "generating", "splitting", "completed", "failed"}
      /\ poster' \in [Clips -> Content \cup {None}] /\ present' \subseteq Shot
      /\ entry' \in [Shot -> Entry]
  BY <1>1, <1>2, Zenon DEF AssetTypeOK, gridVars, scriptVars, Entry
<1>10. AssetTypeOK' /\ VersionsInv'
  BY <1>1, <1>2, <1>3, <1>8, <1>9 DEF AssetTypeOK, VersionsInv, WriterState, Entry
<1> QED
  BY <1>1, <1>5, <1>6, <1>7, <1>10 DEF AssetInd

LEMMA IndStep ==
    ASSUME AssetInd, [AssetNext]_assetVars
    PROVE  AssetInd' /\ Persists
<1>1. ASSUME NEW j \in Writer, WriterNext(j)
      PROVE  AssetInd' /\ Persists
  <2>1. \/ \E r \in Asset, kind \in {"make", "put"} : Begin(j, kind, r)
        \/ WriteFile(j) \/ Record(j) \/ RecordCell(j)
        \/ \E ok \in BOOLEAN : Extract(j, ok)
        \/ \E r \in Asset : \E n \in 1..Len(history[r]) : Restore(j, r, n)
        \/ \E s \in Shot : Cell(j, s)
        \/ GridStart(j) \/ SplitLoad(j) \/ ListGrids(j)
        \/ Stepping(j)
    BY <1>1 DEF WriterNext, Stepping
  <2> QED
    BY <2>1, IndBegin, IndWriteFile, IndRecord, IndExtract, IndRestore, IndCell, IndGrid, IndStepping
<1>2. CASE Outage
  BY <1>2, IndOutage
<1>3. CASE UNCHANGED assetVars
  <2>1. UNCHANGED <<bytes, history, current, present, writer, crossed, outages, grid, entry, poster>>
    BY <1>3 DEF assetVars, versionVars, scriptVars, gridVars
  <2>2. torn' \in BOOLEAN /\ gridFile' \in BOOLEAN /\ gridRow' \in BOOLEAN
    BY <1>3, Zenon DEF assetVars, versionVars, gridVars, AssetInd, AssetTypeOK
  <2>3. Persists
    BY <2>1 DEF Persists, Unrecorded
  <2>4. PlacesInv'
    BY <2>1, <2>3, PlacedKept DEF AssetInd, PlacesInv
  <2>5. AssetTypeOK' /\ VersionsInv'
    BY <2>1, <2>2 DEF AssetInd, AssetTypeOK, VersionsInv
  <2> QED
    BY <2>3, <2>4, <2>5 DEF AssetInd
<1> QED
  BY <1>1, <1>2, <1>3 DEF AssetNext

LEMMA IndInit == AssetInit => AssetInd
<1> SUFFICES ASSUME AssetInit
             PROVE  AssetInd
  OBVIOUS
<1> DEFINE w == [pc |-> "idle", kind |-> "none", on |-> None, wrote |-> None,
                 flag |-> FALSE, todo |-> {}, cells |-> {}]
<1>1. w \in WriterState /\ \A j \in Writer : writer[j] = w
  BY DEF AssetInit, WriterState, Phase
<1>2. writer \in [Writer -> WriterState]
  BY <1>1 DEF AssetInit
<1>3. Blank \in Entry
  BY DEF Blank, Entry
<1>4. entry \in [Shot -> Entry]
  BY <1>3 DEF AssetInit
<1>5. torn \in BOOLEAN /\ gridFile \in BOOLEAN /\ gridRow \in BOOLEAN
  BY Zenon DEF AssetInit
<1>6. AssetTypeOK
  BY <1>2, <1>4, <1>5, AssetAssumption DEF AssetInit, AssetTypeOK, Content, WriterState, Entry,
     AssetAssumption
<1>7. PlacesInv
  BY <1>1 DEF PlacesInv, Placed
<1>8. VersionsInv
  BY DEF AssetInit, VersionsInv
<1> QED
  BY <1>6, <1>7, <1>8 DEF AssetInd

\* The variables of the files, their versions and their writers have their types.
THEOREM AssetTypesHold == AssetSpec => []AssetTypeOK
<1>1. AssetInd /\ [AssetNext]_assetVars => AssetInd'
  BY IndStep
<1>2. AssetInd => AssetTypeOK
  BY DEF AssetInd
<1> QED
  BY <1>1, <1>2, IndInit, PTL DEF AssetSpec

-----------------------------------------------------------------------------
(* The current version is what the file holds *)

\* The steps that take a file in hand, let go of it or turn it back.
Handling(j) ==
    \/ WriteFile(j) \/ Record(j) \/ RecordCell(j) \/ (\E s \in Shot : Cell(j, s))
    \/ \E r \in Asset : \E n \in 1..Len(history[r]) : Restore(j, r, n)

LEMMA HandsKept ==
    ASSUME AssetInd, NEW j \in Writer, WriterNext(j), ~Handling(j)
    PROVE  /\ bytes' = bytes
           /\ \A k \in Writer : writer'[k].wrote = writer[k].wrote
           /\ (history' = history /\ current' = current) \/ \E r \in Asset : Track(r)
<1>1. /\ writer \in [Writer -> WriterState] /\ AssetTypeOK /\ PlacesInv
  BY DEF AssetInd, AssetTypeOK, WriterState
<1>2. CASE Stepping(j)
  BY <1>1, <1>2, SteppingMoves, PlacedMoved DEF versionVars
<1>3. ASSUME NEW r \in Asset, NEW kind \in {"make", "put"}, Begin(j, kind, r)
      PROVE  /\ bytes' = bytes
             /\ \A k \in Writer : writer'[k].wrote = writer[k].wrote
             /\ Track(r)
  BY <1>1, <1>3 DEF Begin, WriterState
<1>4. ASSUME NEW ok \in BOOLEAN, Extract(j, ok)
      PROVE  /\ bytes' = bytes /\ history' = history /\ current' = current
             /\ \A k \in Writer : writer'[k].wrote = writer[k].wrote
  BY <1>1, <1>4 DEF Extract, WriterState, versionVars
<1>5. CASE GridStart(j) \/ SplitLoad(j) \/ ListGrids(j)
  BY <1>1, <1>5 DEF GridStart, SplitLoad, ListGrids, WriterState, versionVars, Move
<1> QED
  BY <1>2, <1>3, <1>4, <1>5 DEF WriterNext, Handling, Stepping

LEMMA ShownWrite ==
    ASSUME AssetInd, ShownIsCurrent, NEW j \in Writer, NEW r \in Asset,
           \/ WriteFile(j) /\ r = writer[j].on
           \/ \E s \in Shot : Cell(j, s) /\ r = <<"still", s>>
    PROVE  /\ ShownIsCurrent'
           /\ \A x \in Asset \ {r} : bytes'[x] = bytes[x]
<1>1. /\ writer \in [Writer -> WriterState] /\ AssetTypeOK /\ VersionsInv /\ Placed(j)
      /\ bytes \in [Asset -> Content \cup {None}]
  BY DEF AssetInd, AssetTypeOK, WriterState, PlacesInv
<1>2. /\ bytes' = [bytes EXCEPT ![r] = j] /\ writer'[j].wrote = r
      /\ \A k \in Writer \ {j} : writer'[k] = writer[k]
      /\ writer[j].wrote \in {None, r}
  <2>1. CASE WriteFile(j) /\ r = writer[j].on
    BY <1>1, <2>1 DEF WriteFile, WriterState, Placed
  <2>2. ASSUME NEW s \in Shot, Cell(j, s), r = <<"still", s>>
        PROVE  /\ bytes' = [bytes EXCEPT ![r] = j] /\ writer'[j].wrote = r
               /\ \A k \in Writer \ {j} : writer'[k] = writer[k]
               /\ writer[j].wrote \in {None, r}
    <3>1. /\ bytes' = [bytes EXCEPT ![r] = j] /\ writer[j].wrote = None
          /\ writer' = [writer EXCEPT ![j].wrote = r, ![j].todo = @ \ {s}]
      BY <2>2 DEF Cell
    <3> QED
      BY <1>1, <3>1 DEF WriterState
  <2> QED
    BY <2>1, <2>2
<1>3. \A x \in Asset \ {r} : history'[x] = history[x] /\ current'[x] = current[x]
  <2>1. CASE WriteFile(j)
    BY <2>1 DEF WriteFile, versionVars
  <2>2. CASE Track(r)
    BY <1>1, <2>2, TrackFacts
  <2> QED
    BY <2>1, <2>2 DEF Cell
<1>4. ASSUME NEW x \in Asset \ {r}
      PROVE  InHand(x) => InHand(x)'
  BY <1>1, <1>2, AssetShapes DEF InHand
<1>5. bytes'[r] = j /\ InHand(r)'
  BY <1>1, <1>2 DEF InHand
<1> QED
  BY <1>1, <1>2, <1>3, <1>4, <1>5 DEF ShownIsCurrent

LEMMA ShownStep ==
    ASSUME AssetInd, ShownIsCurrent, [AssetNext]_assetVars
    PROVE  ShownIsCurrent'
<1>1. /\ writer \in [Writer -> WriterState] /\ AssetTypeOK /\ VersionsInv /\ PlacesInv
      /\ bytes \in [Asset -> Content \cup {None}] /\ history \in [Asset -> Seq(Content)]
      /\ current \in [Asset -> Nat]
  BY DEF AssetInd, AssetTypeOK, WriterState
<1>2. ASSUME bytes' = bytes, \A k \in Writer : writer'[k].wrote = writer[k].wrote,
             (history' = history /\ current' = current) \/ \E r \in Asset : Track(r)
      PROVE  ShownIsCurrent'
  <2> SUFFICES ASSUME NEW x \in Asset
               PROVE  \/ bytes'[x] = None \/ InHand(x)'
                      \/ current'[x] = 0 /\ bytes'[x] = Legacy
                      \/ current'[x] > 0 /\ bytes'[x] = history'[x][current'[x]]
    BY DEF ShownIsCurrent
  <2>1. InHand(x)' <=> InHand(x)
    BY <1>2 DEF InHand
  <2>2. CASE history' = history /\ current' = current
    BY <1>1, <1>2, <2>1, <2>2 DEF ShownIsCurrent
  <2>3. ASSUME NEW r \in Asset, Track(r)
        PROVE  \/ bytes'[x] = None \/ InHand(x)'
               \/ current'[x] = 0 /\ bytes'[x] = Legacy
               \/ current'[x] > 0 /\ bytes'[x] = history'[x][current'[x]]
    <3>1. CASE x = r /\ Untracked(r)
      <4>1. history'[r] = <<bytes[r]>> /\ current'[r] = 1
        BY <1>1, <2>3, <3>1, TrackFacts
      <4> QED
        BY <1>2, <3>1, <4>1
    <3>2. CASE ~(x = r /\ Untracked(r))
      <4>1. history'[x] = history[x] /\ current'[x] = current[x]
        BY <1>1, <2>3, <3>2, TrackFacts
      <4> QED
        BY <1>2, <2>1, <4>1 DEF ShownIsCurrent
    <3> QED
      BY <3>1, <3>2
  <2> QED
    BY <1>2, <2>2, <2>3
<1>3. ASSUME NEW j \in Writer, WriteFile(j)
      PROVE  ShownIsCurrent'
  <2>1. writer[j].on \in Asset
    BY <1>1, <1>3 DEF PlacesInv, Placed, WriteFile
  <2> QED
    BY <1>3, <2>1, ShownWrite
<1>4. ASSUME NEW j \in Writer, NEW s \in Shot, Cell(j, s)
      PROVE  ShownIsCurrent'
  <2>1. <<"still", s>> \in Asset
    BY AssetShapes
  <2> QED
    BY <1>4, <2>1, ShownWrite
<1>5. ASSUME NEW j \in Writer, Record(j) \/ RecordCell(j)
      PROVE  ShownIsCurrent'
  <2>1. PICK r \in Asset : AddVersion(r) /\ r = writer[j].wrote
    BY <1>1, <1>5, AssetShapes DEF PlacesInv, Placed, Record, RecordCell, WriterState
  <2>2. bytes' = bytes /\ bytes[r] # None
    BY <1>1, <1>5, <2>1, AssetShapes DEF PlacesInv, Placed, Record, RecordCell
  <2>3. \A k \in Writer \ {j} : writer'[k] = writer[k]
    BY <1>1, <1>5 DEF Record, RecordCell
  <2>4. ASSUME NEW x \in Asset \ {r}
        PROVE  InHand(x) => InHand(x)'
    BY <2>1, <2>2, <2>3 DEF InHand
  <2> QED
    BY <1>1, <2>1, <2>2, <2>4, AddVersionFacts DEF ShownIsCurrent
<1>6. ASSUME NEW j \in Writer, NEW r \in Asset, NEW n \in 1..Len(history[r]), Restore(j, r, n)
      PROVE  ShownIsCurrent'
  <2>1. /\ bytes' = [bytes EXCEPT ![r] = history[r][n]] /\ current' = [current EXCEPT ![r] = n]
        /\ history' = history
    BY <1>6 DEF Restore
  <2>2. \A k \in Writer : writer'[k].wrote = writer[k].wrote
    BY <1>1, <1>6 DEF Restore, WriterState
  <2>3. \A x \in Asset \ {r} : InHand(x) => InHand(x)'
    BY <1>1, <2>1, <2>2 DEF InHand
  <2> QED
    BY <1>1, <2>1, <2>3 DEF ShownIsCurrent
<1>7. ASSUME NEW j \in Writer, WriterNext(j), ~Handling(j)
      PROVE  ShownIsCurrent'
  BY <1>2, <1>7, HandsKept
<1>8. CASE Outage
  <2>1. bytes' = bytes /\ history' = history /\ current' = current
    BY <1>8 DEF Outage
  <2> QED
    BY <1>2, <1>8, <2>1, IndOutage
<1>9. CASE UNCHANGED assetVars
  BY <1>2, <1>9 DEF assetVars, versionVars
<1> QED
  BY <1>3, <1>4, <1>5, <1>6, <1>7, <1>8, <1>9 DEF AssetNext, Handling

LEMMA ShownHolds == AssetSpec => [](AssetInd /\ ShownIsCurrent)
<1>1. AssetInit => ShownIsCurrent
  BY DEF AssetInit, ShownIsCurrent
<1>2. AssetInd /\ ShownIsCurrent /\ [AssetNext]_assetVars => AssetInd' /\ ShownIsCurrent'
  BY IndStep, ShownStep
<1> QED
  BY <1>1, <1>2, IndInit, PTL DEF AssetSpec

\* Whatever order tasks, uploads, restores and grids take their turns in, and
\* whenever a crash comes, the version called current is what the file holds as
\* soon as its last writer has recorded it.
THEOREM CurrentIsShown == AssetSpec => []ShownIsCurrent
<1> QED
  BY ShownHolds, PTL

LEMMA OverwriteStep ==
    ASSUME AssetInd, ShownIsCurrent, [AssetNext]_assetVars,
           NEW r \in Asset, bytes'[r] # bytes[r]
    PROVE  \/ bytes[r] \in ToSet(history[r]) \cup {None} \/ InHand(r)
           \/ bytes[r] \in ToSet(history'[r])
<1>1. /\ writer \in [Writer -> WriterState] /\ AssetTypeOK /\ VersionsInv /\ PlacesInv
      /\ bytes \in [Asset -> Content \cup {None}] /\ history \in [Asset -> Seq(Content)]
      /\ current \in [Asset -> Nat] /\ \A x \in Asset : current[x] <= Len(history[x])
  BY DEF AssetInd, AssetTypeOK, WriterState
<1>2. current[r] > 0 /\ bytes[r] = history[r][current[r]] => bytes[r] \in ToSet(history[r])
  BY <1>1 DEF ToSet
<1>3. SUFFICES ASSUME Unrecorded(r)
               PROVE  bytes[r] \in ToSet(history'[r])
  BY <1>2 DEF ShownIsCurrent, Unrecorded
<1>4. ASSUME NEW j \in Writer, WriteFile(j)
      PROVE  FALSE
  <2>1. writer[j].on \in Asset /\ ~Unrecorded(writer[j].on)
    BY <1>1, <1>4 DEF WriteFile, PlacesInv, Placed
  <2>2. r = writer[j].on
    BY <1>1, <1>4 DEF WriteFile
  <2> QED
    BY <1>3, <2>1, <2>2
<1>5. ASSUME NEW j \in Writer, NEW s \in Shot, Cell(j, s)
      PROVE  bytes[r] \in ToSet(history'[r])
  <2>1. r = <<"still", s>> /\ Track(r)
    BY <1>1, <1>5, AssetShapes DEF Cell
  <2>2. Untracked(r)
    BY <1>3, AssetShapes DEF Untracked, Unrecorded
  <2>3. history'[r] = <<bytes[r]>>
    BY <1>1, <2>1, <2>2, TrackFacts
  <2> QED
    BY <2>3 DEF ToSet
<1>6. ASSUME NEW j \in Writer, NEW x \in Asset, NEW n \in 1..Len(history[x]), Restore(j, x, n)
      PROVE  FALSE
  <2>1. x = r
    BY <1>1, <1>6 DEF Restore
  <2>2. history[r] = <<>>
    BY <1>1, <1>3 DEF VersionsInv, Unrecorded
  <2> QED
    BY <2>1, <2>2
<1>7. ASSUME NEW j \in Writer, Record(j) \/ RecordCell(j)
      PROVE  FALSE
  BY <1>7 DEF Record, RecordCell
<1>8. ASSUME NEW j \in Writer, WriterNext(j), ~Handling(j)
      PROVE  FALSE
  BY <1>8, HandsKept
<1>9. ~Outage /\ ~UNCHANGED assetVars
  BY DEF Outage, assetVars
<1> QED
  BY <1>4, <1>5, <1>6, <1>7, <1>8, <1>9 DEF AssetNext, Handling

\* Nothing is overwritten that is not among the versions of its file, but for
\* what its own writer has still to record.
THEOREM OverwritesAreRecorded == AssetSpec => OverwrittenIsRecorded
<1>1. AssetInd /\ ShownIsCurrent /\ [AssetNext]_assetVars =>
        [\A r \in Asset : bytes'[r] # bytes[r] =>
            bytes[r] \in ToSet(history[r]) \cup {None} \/ InHand(r)
            \/ bytes[r] \in ToSet(history'[r])]_assetVars
  BY OverwriteStep
<1> QED
  BY <1>1, ShownHolds, PTL DEF AssetSpec, OverwrittenIsRecorded

-----------------------------------------------------------------------------
(* The links of a unit *)

Fits(s) == /\ entry[s].uri \in {None, bytes[<<"clip", s>>]}
           /\ entry[s].poster => poster[s] = bytes[<<"clip", s>>]

\* What a writer of the clip of s may count on as long as it is the only one: it
\* finds links that fit when it sets out, and from then on the clip is its own.
Follows(j, s) ==
    LET w == writer[j] IN
    /\ w.pc # "linked"
    /\ w.pc = "paid" => Fits(s)
    /\ w.pc \in {"written", "recorded", "framed"} => bytes[<<"clip", s>>] = j
    /\ w.pc = "framed" /\ w.flag => poster[s] = j
    /\ w.pc = "synced" => entry[s].uri = None /\ ~entry[s].poster

UnitInv(s) ==
    /\ BusyOn(<<"clip", s>>) = {} => Fits(s)
    /\ \A j \in BusyOn(<<"clip", s>>) : BusyOn(<<"clip", s>>) = {j} /\ Follows(j, s)
LinksInv == \A s \in Units \ crossed : UnitInv(s)

\* A shot that was removed has no links.
GoneInv == \A s \in Shot \ present : entry[s] = Blank

\* A step of one writer leaves all others where they stand.
LEMMA OthersStay ==
    ASSUME AssetInd, NEW j \in Writer, WriterNext(j)
    PROVE  /\ writer' \in [Writer -> WriterState]
           /\ \A k \in Writer \ {j} : writer'[k] = writer[k]
           /\ writer'[j].on # writer[j].on => writer[j].pc = "idle"
<1>1. writer \in [Writer -> WriterState] /\ AssetTypeOK /\ PlacesInv
  BY DEF AssetInd, AssetTypeOK, WriterState
<1>2. AssetInd'
  BY IndStep DEF AssetNext
<1>3. writer' \in [Writer -> WriterState]
  BY <1>2 DEF AssetInd, AssetTypeOK, WriterState
<1>4. CASE Stepping(j)
  <2>1. PICK pc \in Phase : Move(j, pc)
    BY <1>1, <1>4, SteppingMoves
  <2> QED
    BY <1>1, <1>3, <2>1 DEF Move, WriterState
<1>5. CASE WriteFile(j) \/ Record(j) \/ RecordCell(j)
  BY <1>1, <1>3, <1>5 DEF WriteFile, Record, RecordCell, WriterState
<1>6. CASE \E ok \in BOOLEAN : Extract(j, ok)
  BY <1>1, <1>3, <1>6 DEF Extract, WriterState
<1>7. CASE \E s \in Shot : Cell(j, s)
  BY <1>1, <1>3, <1>7 DEF Cell, WriterState
<1>8. CASE SplitLoad(j) \/ ListGrids(j)
  BY <1>1, <1>3, <1>8 DEF SplitLoad, ListGrids, WriterState
<1>9. CASE GridStart(j)
  BY <1>1, <1>3, <1>9 DEF GridStart, Move, WriterState
<1>10. CASE \E r \in Asset, kind \in {"make", "put"} : Begin(j, kind, r)
  BY <1>1, <1>3, <1>10 DEF Begin, WriterState
<1>11. CASE \E r \in Asset : \E n \in 1..Len(history[r]) : Restore(j, r, n)
  BY <1>1, <1>3, <1>11 DEF Restore, WriterState
<1> QED
  BY <1>4, <1>5, <1>6, <1>7, <1>8, <1>9, <1>10, <1>11 DEF WriterNext, Stepping

\* A step that at most takes links away from a unit.
Leaves(s) ==
    /\ bytes'[<<"clip", s>>] = bytes[<<"clip", s>>] /\ poster'[s] = poster[s]
    /\ entry'[s].uri \in {None, entry[s].uri}
    /\ entry'[s].poster => entry[s].poster

LEMMA LeavesFit ==
    ASSUME NEW s \in Units, UnitInv(s), Leaves(s),
           BusyOn(<<"clip", s>>)' = BusyOn(<<"clip", s>>),
           \A k \in BusyOn(<<"clip", s>>) : writer'[k] = writer[k]
    PROVE  UnitInv(s)'
<1>1. Fits(s) => Fits(s)'
  BY DEF Fits, Leaves
<1>2. \A k \in BusyOn(<<"clip", s>>) : Follows(k, s) => Follows(k, s)'
  BY <1>1 DEF Follows, Leaves
<1> HIDE DEF Fits, Follows
<1> QED
  BY <1>1, <1>2 DEF UnitInv

\* A writer of something else.
LEMMA LeavesElsewhere ==
    ASSUME AssetInd, NEW j \in Writer, WriterNext(j), NEW s \in Units,
           writer[j].on # <<"clip", s>>, writer'[j].on # <<"clip", s>>
    PROVE  Leaves(s)
<1> DEFINE r == <<"clip", s>>
<1>1. /\ writer \in [Writer -> WriterState] /\ Placed(j) /\ s \in Shot /\ s \in Clips
      /\ bytes \in [Asset -> Content \cup {None}] /\ poster \in [Clips -> Content \cup {None}]
      /\ entry \in [Shot -> Entry] /\ r \in Asset /\ \A x \in Shot : r # <<"still", x>>
      /\ \A x \in Asset : x[1] = "clip" /\ x[2] = s => x = r
  BY AssetShapes DEF AssetInd, AssetTypeOK, WriterState, PlacesInv, Entry, Asset
<1>2. CASE Rejected(j) \/ BreakOff(j) \/ Record(j) \/ RecordCell(j) \/ GridStart(j) \/ GridImage(j)
           \/ SplitLoad(j) \/ CellsBreak(j) \/ GridSettles(j) \/ Regenerate(j) \/ ListGrids(j)
           \/ CleanGrids(j) \/ \E x \in Asset, kind \in {"make", "put"} : Begin(j, kind, x)
  <2>1. UNCHANGED <<bytes, entry, poster>>
    BY <1>2 DEF Rejected, BreakOff, Record, RecordCell, GridStart, GridImage, SplitLoad, CellsBreak,
                GridSettles, Regenerate, ListGrids, CleanGrids, Begin, scriptVars
  <2> QED
    BY <2>1 DEF Leaves
<1>3. CASE WriteFile(j)
  <2>1. UNCHANGED <<entry, poster>> /\ bytes' = [bytes EXCEPT ![writer[j].on] = j]
    BY <1>3 DEF WriteFile, scriptVars
  <2> QED
    BY <1>1, <2>1 DEF Leaves
<1>4. ASSUME NEW x \in Shot, Cell(j, x)
      PROVE  Leaves(s)
  <2>1. UNCHANGED <<entry, poster>> /\ bytes' = [bytes EXCEPT ![<<"still", x>>] = j]
    BY <1>4 DEF Cell, scriptVars
  <2> QED
    BY <1>1, <2>1 DEF Leaves
<1>5. ASSUME NEW x \in Asset, NEW n \in 1..Len(history[x]), Restore(j, x, n)
      PROVE  Leaves(s)
  <2>1. UNCHANGED <<entry, poster>> /\ bytes' = [bytes EXCEPT ![x] = history[x][n]]
    BY <1>5 DEF Restore, scriptVars
  <2>2. writer'[j].on = x
    BY <1>1, <1>5 DEF Restore, WriterState
  <2> QED
    BY <1>1, <2>1, <2>2 DEF Leaves
<1>6. CASE IsClip(j)
  <2>1. ShotOf(j) # s /\ ShotOf(j) \in Clips
    BY <1>1, <1>6, AssetShapes DEF IsClip, ShotOf
  <2>2. CASE LinkClip(j) \/ LinkAll(j) \/ LinkPoster(j) \/ Sync(j)
    BY <1>1, <2>1, <2>2 DEF LinkClip, LinkAll, LinkPoster, Link, Sync, Leaves, scriptVars
  <2>3. CASE DropPoster(j) \/ \E ok \in BOOLEAN : Extract(j, ok)
    <3>1. UNCHANGED <<entry, bytes>> /\ poster'[s] = poster[s]
      BY <1>1, <2>1, <2>3 DEF DropPoster, Extract, scriptVars
    <3> QED
      BY <3>1 DEF Leaves
  <2>4. CASE LinkStill(j)
    BY <1>6, <2>4 DEF LinkStill
  <2> HIDE DEF r
  <2>5. CASE LinkCells(j) \/ \E x \in Shot : RemoveShot(j, x)
    BY <1>1, <1>6, <2>5, AssetShapes DEF LinkCells, RemoveShot, Placed, IsClip
  <2> QED
    BY <1>2, <1>3, <1>4, <1>5, <2>2, <2>3, <2>4, <2>5 DEF WriterNext
<1>7. CASE ~IsClip(j)
  <2>1. CASE LinkStill(j) \/ Sync(j)
    <3>1. /\ bytes' = bytes /\ poster' = poster
          /\ \/ entry' = entry
             \/ entry' = [entry EXCEPT ![ShotOf(j)] = [entry[ShotOf(j)] EXCEPT !.still = TRUE]]
      BY <1>7, <2>1 DEF LinkStill, Link, Sync, scriptVars
    <3> QED
      BY <1>1, <3>1 DEF Leaves, Entry
  <2>2. CASE LinkCells(j)
    <3>1. /\ bytes' = bytes /\ poster' = poster
          /\ entry' = entry \/ entry'[s] = [entry[s] EXCEPT !.still = TRUE] \/ entry'[s] = entry[s]
      BY <1>1, <2>2 DEF LinkCells
    <3> QED
      BY <1>1, <3>1 DEF Leaves, Entry
  <2>3. ASSUME NEW x \in Shot, RemoveShot(j, x)
        PROVE  Leaves(s)
    BY <1>1, <2>3 DEF RemoveShot, Leaves, Blank, Entry
  <2>4. ~LinkClip(j) /\ ~(\E ok \in BOOLEAN : Extract(j, ok))
    BY <1>7 DEF LinkClip, Extract
  <2>5. ~LinkAll(j) /\ ~LinkPoster(j) /\ ~DropPoster(j)
    BY <1>1, <1>7 DEF LinkAll, LinkPoster, DropPoster, Placed, IsClip
  <2> QED
    BY <1>2, <1>3, <1>4, <1>5, <2>1, <2>2, <2>3, <2>4, <2>5 DEF WriterNext
<1> QED
  BY <1>6, <1>7

\* The only writer of a clip, one step on.
LEMMA OwnMoves ==
    ASSUME AssetInd, NEW j \in Writer, WriterNext(j), NEW s \in Units,
           BusyOn(<<"clip", s>>) \subseteq {j}, writer'[j].on = <<"clip", s>>,
           writer'[j].pc \in AtRest => Fits(s)',
           writer'[j].pc \notin AtRest => Follows(j, s)'
    PROVE  UnitInv(s)'
<1> DEFINE r == <<"clip", s>>
<1>1. \A k \in Writer \ {j} : writer'[k] = writer[k]
  BY OthersStay
<1>2. \A k \in Writer \ {j} : k \notin BusyOn(r)'
  BY <1>1 DEF BusyOn, Busy
<1>3. CASE writer'[j].pc \in AtRest
  <2>1. BusyOn(r)' = {}
    BY <1>2, <1>3 DEF BusyOn, Busy
  <2> QED
    BY <1>3, <2>1 DEF UnitInv
<1>4. CASE writer'[j].pc \notin AtRest
  <2>1. BusyOn(r)' = {j}
    BY <1>2, <1>4 DEF BusyOn, Busy
  <2> QED
    BY <1>4, <2>1 DEF UnitInv
<1> QED
  BY <1>3, <1>4

\* Whoever sets out on a unit whose clip nobody is at.
LEMMA UnitTaken ==
    ASSUME AssetInd, NEW j \in Writer, WriterNext(j), NEW s \in Units, UnitInv(s), s \notin crossed',
           writer[j].on # <<"clip", s>>, writer'[j].on = <<"clip", s>>
    PROVE  UnitInv(s)'
<1> DEFINE r == <<"clip", s>>
<1>1. /\ writer \in [Writer -> WriterState] /\ writer' \in [Writer -> WriterState]
      /\ writer[j].pc = "idle" /\ Placed(j) /\ Placed(j)' /\ r \in Asset /\ r # Grid
  BY OthersStay, IndStep, AssetShapes DEF AssetNext, AssetInd, AssetTypeOK, WriterState, PlacesInv
<1>2. ASSUME NEW kind \in {"make", "put"}, Begin(j, kind, r)
      PROVE  UnitInv(s)'
  <2>1. BusyOn(r) = {}
    BY <1>2 DEF Begin, Crossing
  <2>2. Fits(s)
    BY <2>1 DEF UnitInv
  <2>3. UNCHANGED <<bytes, entry, poster>>
    BY <1>2 DEF Begin, scriptVars
  <2>4. Fits(s)'
    BY <2>2, <2>3 DEF Fits
  <2>5. writer'[j].pc = "paid"
    BY <1>1, <1>2 DEF Begin, WriterState
  <2>6. Follows(j, s)'
    BY <2>4, <2>5 DEF Follows
  <2> QED
    BY <2>1, <2>4, <2>6, OwnMoves
<1>3. ASSUME NEW n \in 1..Len(history[r]), Restore(j, r, n)
      PROVE  UnitInv(s)'
  <2>1. BusyOn(r) = {}
    BY <1>3 DEF Restore, Crossing
  <2>2. writer'[j].pc = "restored"
    BY <1>1, <1>3 DEF Restore, WriterState
  <2>3. Follows(j, s)'
    BY <2>2 DEF Follows
  <2> QED
    BY <2>1, <2>2, <2>3, OwnMoves DEF AtRest
<1>4. ASSUME NEW x \in Asset, NEW kind \in {"make", "put"}, Begin(j, kind, x)
      PROVE  x = r
  BY <1>1, <1>4 DEF Begin, WriterState
<1>5. ASSUME NEW x \in Asset, NEW n \in 1..Len(history[x]), Restore(j, x, n)
      PROVE  x = r
  BY <1>1, <1>5 DEF Restore, WriterState
<1>6. ASSUME ~(\E x \in Asset, kind \in {"make", "put"} : Begin(j, kind, x)),
             ~(\E x \in Asset : \E n \in 1..Len(history[x]) : Restore(j, x, n))
      PROVE  FALSE
  <2>1. CASE Stepping(j)
    <3>1. PICK pc \in Phase : Move(j, pc)
      BY <2>1, SteppingMoves DEF AssetInd
    <3> QED
      BY <1>1, <3>1 DEF Move, WriterState
  <2>2. CASE GridStart(j)
    BY <1>1, <2>2 DEF GridStart, Move, WriterState
  <2>3. CASE ListGrids(j)
    BY <1>1, <2>3 DEF ListGrids, WriterState
  <2>4. ~WriteFile(j) /\ ~Record(j) /\ ~RecordCell(j) /\ ~SplitLoad(j)
    BY <1>1 DEF WriteFile, Record, RecordCell, SplitLoad
  <2>5. ~(\E s_1 \in Shot : Cell(j, s_1)) /\ ~(\E ok \in BOOLEAN : Extract(j, ok))
    BY <1>1 DEF Cell, Extract
  <2> QED
    BY <1>6, <2>1, <2>2, <2>3, <2>4, <2>5 DEF WriterNext, Stepping
<1> QED
  BY <1>2, <1>3, <1>4, <1>5, <1>6

\* The only writer of the clip of a unit leaves it with links that fit.
LEMMA UnitKept ==
    ASSUME AssetInd, GoneInv, NEW j \in Writer, WriterNext(j),
           NEW s \in Units, UnitInv(s), s \notin crossed', writer[j].on = <<"clip", s>>
    PROVE  UnitInv(s)'
<1> DEFINE r == <<"clip", s>>
<1>1. /\ writer \in [Writer -> WriterState] /\ writer' \in [Writer -> WriterState]
      /\ Placed(j) /\ r \in Asset /\ r # Grid /\ r # None /\ r \in {"clip"} \X Clips
      /\ s \in Shot /\ s \in Clips /\ ShotOf(j) = s
      /\ bytes \in [Asset -> Content \cup {None}] /\ poster \in [Clips -> Content \cup {None}]
      /\ entry \in [Shot -> Entry]
  BY OthersStay, AssetShapes DEF AssetInd, AssetTypeOK, WriterState, PlacesInv, Entry, ShotOf
<1>2. ~OneByOne(j) /\ IsClip(j) /\ writer[j].pc \notin {"idle", "listed"}
  BY <1>1 DEF OneByOne, IsClip, Placed
<1>3. writer'[j].on = r
  BY <1>2, OthersStay
<1>4. CASE ~Busy(j)
  <2>1. FALSE
    BY <1>1, <1>2, <1>4 DEF WriterNext, Busy, AtRest, Begin, Rejected, WriteFile, Record, BreakOff,
       LinkStill, LinkClip, LinkAll, LinkPoster, Extract, Restore, Sync, DropPoster, RemoveShot, Cell,
       GridStart, GridImage, SplitLoad, RecordCell, CellsBreak, LinkCells, GridSettles, Regenerate,
       ListGrids, CleanGrids
  <2> QED
    BY <2>1
<1>5. CASE Busy(j)
  <2>1. BusyOn(r) = {j} /\ Follows(j, s)
    BY <1>5 DEF UnitInv, BusyOn
  <2>2. SUFFICES ASSUME ~UnitInv(s)'
                 PROVE  FALSE
    OBVIOUS
  <2>3. CASE Rejected(j)
    <3>1. Fits(s) /\ UNCHANGED <<bytes, entry, poster>> /\ writer'[j].pc = "failed"
      BY <1>1, <2>1, <2>3 DEF Follows, Rejected, scriptVars, Move, WriterState
    <3>2. Fits(s)'
      BY <3>1 DEF Fits
    <3> QED
      BY <1>3, <2>1, <2>2, <3>1, <3>2, OwnMoves DEF AtRest
  <2>4. CASE WriteFile(j)
    <3>1. bytes'[r] = j /\ writer'[j].pc = "written"
      BY <1>1, <2>4 DEF WriteFile, WriterState
    <3>2. Follows(j, s)'
      BY <3>1 DEF Follows
    <3> QED
      BY <1>3, <2>1, <2>2, <3>1, <3>2, OwnMoves DEF AtRest
  <2>5. CASE Record(j)
    <3>1. bytes'[r] = j /\ writer'[j].pc = "recorded"
      BY <1>1, <2>1, <2>5 DEF Record, WriterState, Follows
    <3>2. Follows(j, s)'
      BY <3>1 DEF Follows
    <3> QED
      BY <1>3, <2>1, <2>2, <3>1, <3>2, OwnMoves DEF AtRest
  <2>6. CASE BreakOff(j)
    BY <1>1, <2>6 DEF BreakOff, Breaks, Crossing
  <2>7. CASE LinkAll(j)
    <3>1. s \in present
      BY <1>1, <2>7 DEF LinkAll, Link, Breaks, Crossing
    <3>2. /\ entry' = [entry EXCEPT ![s] = [entry[s] EXCEPT !.clip = TRUE, !.uri = Uri(j),
                                                            !.poster = writer[j].flag]]
          /\ UNCHANGED <<bytes, poster>> /\ writer'[j].pc = "done"
      BY <1>1, <2>7, <3>1 DEF LinkAll, Link, Move, WriterState
    <3>3. entry'[s].uri = Uri(j) /\ entry'[s].poster = writer[j].flag
      BY <1>1, <3>2 DEF Entry
    <3>4. bytes[r] = j /\ (writer[j].flag => poster[s] = j) /\ Uri(j) \in {None, j}
      BY <2>1, <2>7 DEF LinkAll, Follows, Uri
    <3>5. Fits(s)'
      BY <3>2, <3>3, <3>4 DEF Fits
    <3> QED
      BY <1>3, <2>1, <2>2, <3>2, <3>5, OwnMoves DEF AtRest
  <2>8. ASSUME NEW ok \in BOOLEAN, Extract(j, ok)
        PROVE  FALSE
    <3>1. bytes[r] = j /\ bytes' = bytes /\ writer'[j].pc = "framed" /\ writer'[j].flag = ok
      BY <1>1, <1>2, <2>1, <2>8 DEF Extract, Follows, WriterState
    <3>2. ok => poster'[s] = j
      BY <1>1, <2>8, <3>1 DEF Extract
    <3>3. Follows(j, s)'
      BY <3>1, <3>2 DEF Follows
    <3> QED
      BY <1>3, <2>1, <2>2, <3>1, <3>3, OwnMoves DEF AtRest
  <2>9. CASE Sync(j)
    <3>1. writer'[j].pc = "synced"
      BY <1>1, <1>2, <2>9 DEF Sync, Move, WriterState
    <3>2. entry'[s].uri = None /\ ~entry'[s].poster
      BY <1>1, <1>2, <2>9 DEF Sync, GoneInv, Blank, Entry
    <3>3. Follows(j, s)'
      BY <3>1, <3>2 DEF Follows
    <3> QED
      BY <1>3, <2>1, <2>2, <3>1, <3>3, OwnMoves DEF AtRest
  <2>10. CASE DropPoster(j)
    <3>1. /\ entry'[s].uri = None /\ ~entry'[s].poster /\ writer'[j].pc = "done"
      BY <1>1, <2>1, <2>10 DEF DropPoster, Follows, scriptVars, Move, WriterState
    <3>2. Fits(s)'
      BY <3>1 DEF Fits
    <3> QED
      BY <1>3, <2>1, <2>2, <3>1, <3>2, OwnMoves DEF AtRest
  <2>11. ~LinkStill(j) /\ ~LinkClip(j) /\ ~LinkPoster(j)
    BY <1>2 DEF LinkStill, LinkClip, LinkPoster
  <2>12. /\ ~GridImage(j) /\ ~SplitLoad(j) /\ ~RecordCell(j) /\ ~CellsBreak(j) /\ ~LinkCells(j)
         /\ ~GridSettles(j) /\ ~CleanGrids(j) /\ \A x \in Shot : ~Cell(j, x)
    BY <1>1, <1>2 DEF Placed, GridImage, SplitLoad, RecordCell, CellsBreak, LinkCells, GridSettles,
       CleanGrids, Cell
  <2>13. /\ ~GridStart(j) /\ ~Regenerate(j) /\ ~ListGrids(j) /\ \A x \in Shot : ~RemoveShot(j, x)
         /\ \A x \in Asset, kind \in {"make", "put"} : ~Begin(j, kind, x)
         /\ \A x \in Asset : \A n \in 1..Len(history[x]) : ~Restore(j, x, n)
    BY <1>2 DEF GridStart, Regenerate, ListGrids, RemoveShot, Begin, Restore
  <2> QED
    BY <2>3, <2>4, <2>5, <2>6, <2>7, <2>8, <2>9, <2>10, <2>11, <2>12, <2>13 DEF WriterNext
<1> QED
  BY <1>4, <1>5

LEMMA UnitsStep ==
    ASSUME AssetInd, LinksInv, GoneInv, [AssetNext]_assetVars
    PROVE  LinksInv'
<1> SUFFICES ASSUME NEW s \in Units \ crossed'
             PROVE  UnitInv(s)'
  BY DEF LinksInv
<1> DEFINE r == <<"clip", s>>
<1>1. s \in Units /\ s \notin crossed' /\ r \in Asset /\ writer \in [Writer -> WriterState]
  BY AssetShapes DEF AssetInd, AssetTypeOK, WriterState
<1>2. ASSUME NEW j \in Writer, WriterNext(j)
      PROVE  UnitInv(s)'
  <2>1. crossed \subseteq crossed'
    BY <1>2 DEF WriterNext, Begin, Rejected, WriteFile, Record, BreakOff,
       LinkStill, LinkClip, LinkAll, LinkPoster, Link, Breaks, Crossing, Extract, Restore, Sync,
       DropPoster, RemoveShot, Cell, GridStart, GridImage, SplitLoad, RecordCell, CellsBreak,
       LinkCells, GridSettles, Regenerate, ListGrids, CleanGrids
  <2>2. UnitInv(s)
    BY <1>1, <2>1 DEF LinksInv
  <2>3. CASE writer[j].on = r
    BY <1>1, <1>2, <2>2, <2>3, UnitKept
  <2>4. CASE writer[j].on # r /\ writer'[j].on = r
    BY <1>1, <1>2, <2>2, <2>4, UnitTaken
  <2>5. CASE writer[j].on # r /\ writer'[j].on # r
    <3>1. Leaves(s)
      BY <1>1, <1>2, <2>5, LeavesElsewhere
    <3>2. \A k \in Writer \ {j} : writer'[k] = writer[k]
      BY <1>2, OthersStay
    <3>3. BusyOn(r)' = BusyOn(r) /\ j \notin BusyOn(r)
      BY <2>5, <3>2 DEF BusyOn, Busy
    <3>4. \A k \in BusyOn(r) : writer'[k] = writer[k]
      BY <3>2, <3>3 DEF BusyOn
    <3> QED
      BY <1>1, <2>2, <3>1, <3>3, <3>4, LeavesFit
  <2> QED
    BY <2>3, <2>4, <2>5
<1>3. CASE Outage
  <2>1. /\ UNCHANGED <<bytes, entry, poster>>
        /\ crossed' = crossed \cup {x \in Units :
                                       <<"clip", x>> \in {writer[j].on : j \in {k \in Writer : Busy(k)}}}
    BY <1>3 DEF Outage, Crossing, scriptVars
  <2>2. UnitInv(s) /\ BusyOn(r) = {}
    BY <1>1, <2>1 DEF LinksInv, BusyOn
  <2>3. \A j \in Writer : writer'[j] = writer[j] \/ (Busy(j) /\ writer'[j].on = writer[j].on)
    <3>1. PICK S : writer' = [j \in Writer |->
                      IF j \notin {x \in Writer : Busy(x)} THEN writer[j]
                      ELSE [writer[j] EXCEPT !.pc = IF j \in S THEN "paid" ELSE "dead"]]
      BY <1>3 DEF Outage
    <3> QED
      BY <1>1, <3>1 DEF WriterState
  <2>4. BusyOn(r)' = {}
    BY <2>2, <2>3 DEF BusyOn, Busy
  <2>5. Fits(s)'
    BY <2>1, <2>2 DEF UnitInv, Fits
  <2> QED
    BY <2>4, <2>5 DEF UnitInv
<1>4. CASE UNCHANGED assetVars
  <2>1. UNCHANGED <<bytes, entry, poster, writer, crossed>>
    BY <1>4 DEF assetVars, scriptVars
  <2>2. UnitInv(s)
    BY <1>1, <2>1 DEF LinksInv
  <2>3. Leaves(s) /\ BusyOn(r)' = BusyOn(r) /\ \A k \in BusyOn(r) : writer'[k] = writer[k]
    BY <2>1 DEF Leaves, BusyOn, Busy
  <2> QED
    BY <1>1, <2>2, <2>3, LeavesFit
<1> QED
  BY <1>2, <1>3, <1>4 DEF AssetNext

\* What a step does to the entry of a shot: none of a shot that is left loses
\* its still, and none of a shot that is gone changes.
LEMMA EntryMoves ==
    ASSUME AssetInd, NEW j \in Writer, WriterNext(j), NEW s \in Shot
    PROVE  /\ s \notin present /\ entry[s] = Blank => entry'[s] = Blank
           /\ s \in present /\ s \notin present' => entry'[s] = Blank
           /\ s \in present' /\ entry[s].still => entry'[s].still
<1>1. entry \in [Shot -> Entry]
  BY DEF AssetInd, AssetTypeOK, Entry
<1>2. CASE LinkStill(j) \/ LinkClip(j) \/ LinkAll(j) \/ LinkPoster(j)
  <2>1. present' = present
    BY <1>2 DEF LinkStill, LinkClip, LinkAll, LinkPoster, Link
  <2>2. \/ entry' = entry
        \/ /\ ShotOf(j) \in present
           /\ \E new : /\ entry' = [entry EXCEPT ![ShotOf(j)] = new]
                       /\ entry[ShotOf(j)].still => new.still
    <3> DEFINE e == entry[ShotOf(j)]
    <3>a. ASSUME NEW pc, NEW new, Link(j, pc, new),
                 ShotOf(j) \in present => (e.still => new.still)
          PROVE  \/ entry' = entry
                 \/ /\ ShotOf(j) \in present
                    /\ \E new_1 : /\ entry' = [entry EXCEPT ![ShotOf(j)] = new_1]
                                  /\ e.still => new_1.still
      BY <3>a DEF Link
    <3>b. ShotOf(j) \in present => e \in Entry
      BY <1>1 DEF AssetInd, AssetTypeOK
    <3> HIDE DEF e
    <3>1. CASE LinkStill(j)
      <4>1. ShotOf(j) \in present => [e EXCEPT !.still = TRUE].still
        BY <3>b DEF Entry
      <4> QED
        BY <3>1, <3>a, <4>1 DEF LinkStill, e
    <3>2. CASE LinkClip(j)
      <4> DEFINE u == IF Uri(j) # None THEN Uri(j) ELSE e.uri
                 new == [e EXCEPT !.clip = TRUE, !.uri = u]
      <4>1. Link(j, "linked", new)
        BY <3>2 DEF LinkClip, e
      <4>2. ShotOf(j) \in present => (e.still => new.still)
        BY <3>b DEF Entry
      <4> HIDE DEF new
      <4> QED
        BY <4>1, <4>2 DEF Link, e
    <3>3. CASE LinkAll(j)
      <4>1. \A u, f : ShotOf(j) \in present
                => (e.still => [e EXCEPT !.clip = TRUE, !.uri = u, !.poster = f].still)
        BY <3>b DEF Entry
      <4> QED
        BY <3>3, <3>a, <4>1 DEF LinkAll, e
    <3>4. CASE LinkPoster(j)
      <4>1. ShotOf(j) \in present => (e.still => [e EXCEPT !.poster = TRUE].still)
        BY <3>b DEF Entry
      <4> QED
        BY <3>4, <3>a, <4>1 DEF LinkPoster, e
    <3> QED
      BY <1>2, <3>1, <3>2, <3>3, <3>4 DEF e
  <2>3. entry'[s] = entry[s] \/ (s \in present /\ (entry[s].still => entry'[s].still))
    BY <1>1, <2>2
  <2> QED
    BY <2>1, <2>3
<1>3. CASE Sync(j)
  BY <1>1, <1>3 DEF Sync, Entry
<1>4. ASSUME NEW x \in Shot, RemoveShot(j, x)
      PROVE  /\ s \notin present /\ entry[s] = Blank => entry'[s] = Blank
             /\ s \in present /\ s \notin present' => entry'[s] = Blank
             /\ s \in present' /\ entry[s].still => entry'[s].still
  BY <1>1, <1>4 DEF RemoveShot
<1>5. CASE LinkCells(j)
  BY <1>1, <1>5 DEF LinkCells, Entry
<1>6. CASE \/ Rejected(j) \/ BreakOff(j) \/ Record(j) \/ RecordCell(j) \/ GridStart(j) \/ GridImage(j)
           \/ SplitLoad(j) \/ CellsBreak(j) \/ GridSettles(j) \/ Regenerate(j) \/ ListGrids(j)
           \/ CleanGrids(j) \/ WriteFile(j) \/ DropPoster(j)
           \/ (\E x \in Asset, kind \in {"make", "put"} : Begin(j, kind, x))
           \/ (\E x \in Shot : Cell(j, x)) \/ (\E ok \in BOOLEAN : Extract(j, ok))
           \/ \E x \in Asset : \E n \in 1..Len(history[x]) : Restore(j, x, n)
  BY <1>6 DEF Rejected, BreakOff, Record, RecordCell, GridStart, GridImage, SplitLoad, CellsBreak,
     GridSettles, Regenerate, ListGrids, CleanGrids, WriteFile, DropPoster, Begin, Cell, Extract,
     Restore, scriptVars
<1> QED
  BY <1>2, <1>3, <1>4, <1>5, <1>6 DEF WriterNext

LEMMA GoneStep ==
    ASSUME AssetInd, GoneInv, [AssetNext]_assetVars
    PROVE  GoneInv'
<1>1. ASSUME NEW j \in Writer, WriterNext(j)
      PROVE  GoneInv'
  BY <1>1, EntryMoves DEF GoneInv
<1>2. CASE Outage \/ UNCHANGED assetVars
  BY <1>2 DEF Outage, assetVars, scriptVars, GoneInv
<1> QED
  BY <1>1, <1>2 DEF AssetNext

\* A grid that is called completed by this step gives every shot its still.
LEMMA GridCompletes ==
    ASSUME AssetInd, NEW j \in Writer, LinkCells(j), grid' = "completed", grid # "completed"
    PROVE  \A s \in present' : entry'[s].still /\ bytes'[<<"still", s>>] # None
<1>1. Placed(j) /\ entry \in [Shot -> Entry] /\ present \subseteq Shot
  BY DEF AssetInd, AssetTypeOK, PlacesInv, Entry
<1>2. /\ writer[j].pc = "cells" /\ writer[j].todo = {} /\ writer[j].cells \subseteq present
      /\ bytes' = bytes /\ present' = present
      /\ entry' = [s \in Shot |-> IF s \in writer[j].cells
                                  THEN [entry[s] EXCEPT !.still = TRUE] ELSE entry[s]]
  BY DEF LinkCells, GridFails
<1> QED
  BY <1>1, <1>2 DEF Placed, Entry

LEMMA GridStep ==
    ASSUME AssetInd, GridDelivers, [AssetNext]_assetVars
    PROVE  GridDelivers'
<1>1. Persists /\ \A s \in Shot : <<"still", s>> \in Asset
  BY IndStep, AssetShapes
<1>2. present \subseteq Shot /\ present' \subseteq present
  BY <1>1 DEF AssetInd, AssetTypeOK, Persists
<1>3. CASE grid' # "completed"
  BY <1>3 DEF GridDelivers
<1>4. CASE grid = "completed"
  <2>1. \A s \in present' : entry[s].still /\ bytes[<<"still", s>>] # None
    BY <1>2, <1>4 DEF GridDelivers
  <2>2. \A s \in present' : bytes'[<<"still", s>>] # None
    BY <1>1, <1>2, <2>1 DEF Persists
  <2>3. ASSUME NEW j \in Writer, WriterNext(j)
        PROVE  \A s \in present' : entry'[s].still
    <3> SUFFICES ASSUME NEW s \in present'
                 PROVE  entry'[s].still
      OBVIOUS
    <3>1. s \in Shot /\ entry[s].still
      BY <1>2, <2>1
    <3>2. s \in present' /\ entry[s].still => entry'[s].still
      BY <2>3, <3>1, EntryMoves
    <3> QED
      BY <3>1, <3>2
  <2>4. ASSUME Outage \/ UNCHANGED assetVars
        PROVE  \A s \in present' : entry'[s].still
    <3>1. entry' = entry
      BY <2>4 DEF Outage, assetVars, scriptVars
    <3> QED
      BY <2>1, <3>1
  <2>5. \A s \in present' : entry'[s].still
    BY <2>3, <2>4 DEF AssetNext
  <2> QED
    BY <2>2, <2>5 DEF GridDelivers
<1>5. CASE grid # "completed" /\ grid' = "completed"
  <2>1. PICK j \in Writer : WriterNext(j)
    BY <1>5 DEF AssetNext, Outage, assetVars, gridVars
  <2>2. LinkCells(j)
    BY <1>5, <2>1 DEF WriterNext, Begin, Rejected, WriteFile, Record, BreakOff,
       LinkStill, LinkClip, LinkAll, LinkPoster, Link, Extract, Restore, Sync,
       DropPoster, RemoveShot, Cell, GridStart, GridImage, GridFails, SplitLoad, RecordCell, CellsBreak,
       GridSettles, Regenerate, ListGrids, CleanGrids, gridVars
  <2> QED
    BY <1>5, <2>2, GridCompletes DEF GridDelivers
<1> QED
  BY <1>3, <1>4, <1>5

LEMMA LinksInit == AssetInit => LinksInv /\ GoneInv /\ GridDelivers
<1> SUFFICES ASSUME AssetInit
             PROVE  LinksInv /\ GoneInv /\ GridDelivers
  OBVIOUS
<1>1. \A s \in Units : BusyOn(<<"clip", s>>) = {}
  BY DEF AssetInit, BusyOn, Busy, AtRest
<1>2. \A s \in Units : Fits(s)
  BY AssetShapes DEF AssetInit, Fits, Blank
<1> QED
  BY <1>1, <1>2 DEF LinksInv, UnitInv, GoneInv, GridDelivers, AssetInit

\* The files of the shots, their versions and their links agree: besides
\* CurrentIsShown, a unit's URI and poster are of the clip it has, unless two
\* writers of it met or one broke off, and a completed grid has a still for
\* every shot that is left.
THEOREM FilesAgree == AssetSpec => []AssetInv
<1>1. AssetInd /\ LinksInv /\ GoneInv /\ GridDelivers /\ [AssetNext]_assetVars
        => LinksInv' /\ GoneInv' /\ GridDelivers'
  BY UnitsStep, GoneStep, GridStep
<1>2. AssetInd /\ ShownIsCurrent /\ LinksInv /\ GridDelivers => AssetInv
  BY DEF AssetInd, AssetInv, LinksInv, UnitInv, LinksFit, Fits
<1> QED
  BY <1>1, <1>2, LinksInit, ShownHolds, PTL DEF AssetSpec

-----------------------------------------------------------------------------
(* The event streams, ProjectEvents. *)

Message == Version \cup {Deleted}
Joined == {"waiting", "woken", "streaming"}
BatchState == [pc : {"none", "scan", "read", "gone", "done"},
               on : Channel \cup {NULL}, seen : Version \cup {NULL}]

\* Streams and batches are for channels that were made; the others are as at first.
ChannelsMade ==
    /\ queue \in [Client -> Seq(Message)]
    /\ registry # NULL => registry <= made
    /\ \A s \in Client : client[s] \in Joined => on[s] \in 1..made
    /\ \A b \in Batch : batch[b].pc \in {"scan", "read", "gone"} => batch[b].on \in 1..made
    /\ \A c \in Channel : c > made => subs[c] = {} /\ watch[c] = "none" /\ ~cancelled[c]

\* A channel whose watch was cancelled is no longer the one of the key, and the
\* one of the key is watched while it has subscribers.
KeyIsWatched ==
    /\ \A c \in Channel : cancelled[c] => c # registry
    /\ registry # NULL /\ subs[registry] # {} => Working(registry)

EventsInd == EventsTypeOK /\ ChannelsMade /\ KeyIsWatched /\ WatchedOrTold /\ OneWatch

LEMMA NoneOfThese ==
    /\ QueueMax \in Nat \ {0} /\ MaxChannels \in Nat \ {0} /\ MaxChanges \in Nat /\ MaxBatches \in Nat
    /\ MaxTroubles \in Nat /\ NULL \notin Int /\ Deleted \notin Int /\ NULL # Deleted
    /\ Channel \subseteq Nat \ {0} /\ Batch \subseteq Nat /\ Version \subseteq Nat /\ 0 \in Version
BY ProjectEventsAssumption DEF ProjectEventsAssumption, Channel, Batch, Version

LEMMA EventsParts ==
    ASSUME EventsInd
    PROVE  /\ exists \in BOOLEAN /\ version \in Version /\ troubles \in 0..MaxTroubles
           /\ registry \in Channel \cup {NULL} /\ made \in 0..MaxChannels
           /\ subs \in [Channel -> SUBSET Client]
           /\ snapshot \in [Channel -> Version \cup {NULL}] /\ untold \in [Channel -> BOOLEAN]
           /\ ready \in [Channel -> BOOLEAN]
           /\ watch \in [Channel -> {"none", "new", "scan", "read", "look", "gone", "poll", "done"}]
           /\ cancelled \in [Channel -> BOOLEAN] /\ seen \in [Channel -> Version \cup {NULL}]
           /\ batch \in [Batch -> BatchState]
           /\ client \in [Client -> {"out", "entering", "waiting", "woken", "streaming", "leaving", "left"}]
           /\ on \in [Client -> Channel \cup {NULL}]
           /\ queue \in [Client -> Seq(Message)] /\ \A s \in Client : Len(queue[s]) <= QueueMax
           /\ told \in [Client -> Version \cup {NULL}]
           /\ OnDisk \in Version \cup {NULL}
BY DEF EventsInd, EventsTypeOK, ChannelsMade, BatchState, OnDisk

\* A step that makes and drops no channel: subscribers are only lost, what was
\* told stays told, and a watch that ends was cancelled or has no subscriber left.
LEMMA Harmless ==
    ASSUME EventsInd, EventsTypeOK', queue' \in [Client -> Seq(Message)],
           UNCHANGED <<registry, made, on, cancelled, stray>>,
           \A c \in Channel : subs'[c] \subseteq subs[c],
           \A s \in Client : client'[s] \in Joined =>
               client[s] \in Joined /\ (ToldOfTheEnd(s) => ToldOfTheEnd(s)'),
           \A c \in Channel : \/ watch'[c] = watch[c]
                              \/ cancelled[c]
                              \/ /\ watch[c] \notin {"none", "done"}
                                 /\ watch'[c] \notin {"none", "done"} \/ subs'[c] = {},
           \A b \in Batch : batch'[b].pc \in {"scan", "read", "gone"} => batch'[b].on \in 1..made
    PROVE  EventsInd'
<1> USE EventsParts, NoneOfThese
<1>1. \A c \in Channel : Working(c)' => Working(c)
  BY DEF Working
<1>2. \A c \in Channel : Working(c) => Working(c)' \/ subs'[c] = {}
  BY DEF Working
<1>3. ChannelsMade'
  <2>1. \A c \in Channel : c > made => subs'[c] = {} /\ watch'[c] = "none" /\ ~cancelled[c]
    BY DEF EventsInd, ChannelsMade
  <2> QED
    BY <2>1 DEF EventsInd, ChannelsMade
<1>4. KeyIsWatched'
  BY <1>2 DEF EventsInd, KeyIsWatched
<1>5. WatchedOrTold'
  <2> SUFFICES ASSUME ~stray, NEW s \in Client, Registered(s)'
               PROVE  Working(on[s])' \/ ToldOfTheEnd(s)'
    BY DEF WatchedOrTold
  <2>1. client'[s] \in Joined /\ s \in subs'[on[s]] /\ client[s] \in Joined /\ on[s] \in Channel
    BY DEF Registered, Joined, EventsInd, ChannelsMade, Channel
  <2>2. Registered(s)
    BY <2>1 DEF Registered, Joined
  <2>3. Working(on[s]) \/ ToldOfTheEnd(s)
    BY <2>2 DEF EventsInd, WatchedOrTold
  <2> QED
    BY <1>2, <2>1, <2>3
<1>6. OneWatch'
  BY <1>1 DEF EventsInd, OneWatch
<1> QED
  BY <1>3, <1>4, <1>5, <1>6 DEF EventsInd

\* What a broadcast does to the queues and to their registration.
Broadcasts(c, m) ==
    /\ UNCHANGED <<client, on, told, stray>>
    /\ queue' \in [Client -> Seq(Message)] /\ \A s \in Client : Len(queue'[s]) <= QueueMax
    /\ subs' \in [Channel -> SUBSET Client] /\ subs'[c] \subseteq subs[c]
    /\ \A d \in Channel : d # c => subs'[d] = subs[d]
    /\ \A s \in Client : ToldOfTheEnd(s) => ToldOfTheEnd(s)'
    /\ m = Deleted => \A s \in subs'[c] : ToldOfTheEnd(s)'

LEMMA Broadcasting ==
    ASSUME EventsInd, NEW c \in Channel, NEW m \in Message, Broadcast(c, m)
    PROVE  Broadcasts(c, m)
<1> USE EventsParts, NoneOfThese
<1> DEFINE kept == {s \in subs[c] : ~(Len(queue[s]) >= QueueMax)}
<1>1. /\ UNCHANGED <<client, on, told, stray>>
      /\ queue' = [s \in DOMAIN queue |-> IF s \in kept THEN Append(queue[s], m) ELSE queue[s]]
      /\ subs' = [subs EXCEPT ![c] = kept]
  BY DEF Broadcast, Sse!DeliveredDrop, Sse!KeptDrop, Sse!Full
<1>2. kept \subseteq subs[c] /\ subs[c] \subseteq Client
  OBVIOUS
<1>3. \A s \in Client : queue'[s] = IF s \in kept THEN Append(queue[s], m) ELSE queue[s]
  BY <1>1
<1>4. \A s \in Client : queue'[s] \in Seq(Message) /\ Len(queue'[s]) <= QueueMax
  <2>1. ASSUME NEW s \in Client PROVE queue'[s] \in Seq(Message) /\ Len(queue'[s]) <= QueueMax
    <3>1. CASE s \in kept
      <4>1. Len(queue[s]) < QueueMax /\ Len(queue[s]) \in Nat
        BY <3>1
      <4>2. Append(queue[s], m) \in Seq(Message) /\ Len(Append(queue[s], m)) = Len(queue[s]) + 1
        OBVIOUS
      <4>3. queue'[s] = Append(queue[s], m)
        BY <1>3, <3>1
      <4>4. Len(queue[s]) + 1 <= QueueMax
        BY <4>1
      <4> QED
        BY <4>2, <4>3, <4>4
    <3>2. CASE s \notin kept
      BY <1>3, <3>2
    <3> QED
      BY <3>1, <3>2
  <2> QED
    BY <2>1
<1>5. queue' \in [Client -> Seq(Message)]
  <2>1. DOMAIN queue = Client
    OBVIOUS
  <2> QED
    BY <1>1, <1>4, <2>1
<1>6. subs' \in [Channel -> SUBSET Client] /\ subs'[c] = kept /\ \A d \in Channel : d # c => subs'[d] = subs[d]
  BY <1>1, <1>2
<1>7. \A s \in Client : ToldOfTheEnd(s) => ToldOfTheEnd(s)'
  <2>1. ASSUME NEW s \in Client, NEW i \in 1..Len(queue[s]), queue[s][i] = Deleted
        PROVE  i \in 1..Len(queue'[s]) /\ queue'[s][i] = Deleted
    <3>1. queue'[s] = queue[s] \/ queue'[s] = Append(queue[s], m)
      BY <1>3
    <3>2. queue[s] \in Seq(Message)
      OBVIOUS
    <3>3. /\ Len(Append(queue[s], m)) = Len(queue[s]) + 1 /\ Len(queue[s]) \in Nat
          /\ Append(queue[s], m)[i] = queue[s][i]
      BY <3>2
    <3>4. CASE queue'[s] = queue[s]
      BY <2>1, <3>4
    <3>5. CASE queue'[s] = Append(queue[s], m)
      <4>1. i \in 1..(Len(queue[s]) + 1)
        BY <3>3
      <4> QED
        BY <2>1, <3>3, <3>5, <4>1
    <3> QED
      BY <3>1, <3>4, <3>5
  <2> QED
    BY <2>1 DEF ToldOfTheEnd
<1>8. ASSUME m = Deleted, NEW s \in kept PROVE ToldOfTheEnd(s)'
  <2>1. s \in Client /\ queue'[s] = Append(queue[s], Deleted)
    BY <1>2, <1>3, <1>8
  <2>2. Len(queue'[s]) \in 1..Len(queue'[s]) /\ queue'[s][Len(queue'[s])] = Deleted
    BY <2>1
  <2> QED
    BY <2>2 DEF ToldOfTheEnd
<1> QED
  BY <1>1, <1>2, <1>4, <1>5, <1>6, <1>7, <1>8 DEF Broadcasts

-----------------------------------------------------------------------------
LEMMA DiskSteps == ASSUME EventsInd, Change \/ DeleteProject \/ Recreate PROVE EventsInd'
<1> USE EventsParts, NoneOfThese
<1>1. UNCHANGED <<registry, made, subs, snapshot, untold, ready, watch, cancelled, seen, batch, client, on, queue,
                  told, stray>>
  BY DEF Change, DeleteProject, Recreate, channels, streams
<1>2. exists' \in BOOLEAN /\ version' \in Version /\ troubles' \in 0..MaxTroubles
  <2>1. CASE Change \/ Recreate
    <3>1. version \in 0..MaxChanges /\ version < MaxChanges /\ version' = version + 1
          /\ exists' \in {exists, TRUE} /\ troubles' = troubles
      BY <2>1 DEF Change, Recreate, Version
    <3>2. version + 1 \in 0..MaxChanges
      BY <3>1
    <3> QED
      BY <3>1, <3>2 DEF Version
  <2>2. CASE DeleteProject
    <3>1. /\ troubles < MaxTroubles /\ troubles' = troubles + 1 /\ troubles \in 0..MaxTroubles
          /\ exists' = FALSE /\ version' = version
      BY <2>2 DEF DeleteProject
    <3>2. troubles + 1 \in 0..MaxTroubles
      BY <3>1
    <3> QED
      BY <3>1, <3>2
  <2> QED
    BY <2>1, <2>2
<1>3. EventsTypeOK'
  BY <1>1, <1>2 DEF EventsInd, EventsTypeOK
<1>4. \A s \in Client : ToldOfTheEnd(s) => ToldOfTheEnd(s)'
  BY <1>1 DEF ToldOfTheEnd
<1> QED
  BY <1>1, <1>3, <1>4, Harmless DEF EventsInd, ChannelsMade

\* The steps of a watch that tell nobody.
LEMMA WatchSteps ==
    ASSUME EventsInd, NEW c \in Channel,
           \/ WatchStarts(c) \/ Scan(c) \/ ScanFails(c) \/ Missing(c) \/ Look(c) \/ PollEnds(c)
           \/ WatchCancelled(c)
    PROVE  EventsInd'
<1> USE EventsParts, NoneOfThese
<1>1. /\ UNCHANGED <<exists, version, registry, made, subs, snapshot, untold, cancelled, batch, client, on, queue,
                     told, stray>>
      /\ troubles' \in 0..MaxTroubles
      /\ ready' = ready \/ ready' = [ready EXCEPT ![c] = TRUE]
      /\ seen' = seen \/ \E v \in Version \cup {NULL} : seen' = [seen EXCEPT ![c] = v]
      /\ \E pc \in {"scan", "read", "look", "gone", "poll", "done"} :
           /\ watch' = [watch EXCEPT ![c] = pc]
           /\ cancelled[c] \/ (watch[c] \notin {"none", "done"} /\ (pc = "done" => subs[c] = {}))
  <2>1. CASE WatchStarts(c) \/ PollEnds(c)
    BY <2>1 DEF WatchStarts, PollEnds, Round, Stands, Runs, disk, streams
  <2>2. CASE Scan(c)
    <3>1. /\ seen' = [seen EXCEPT ![c] = OnDisk] /\ watch' = [watch EXCEPT ![c] = "read"]
          /\ UNCHANGED <<exists, version, troubles, registry, made, subs, snapshot, untold, ready, cancelled,
                         batch, client, on, queue, told, stray>>
          /\ watch[c] = "scan"
      BY <2>2 DEF Scan, Stands, Runs, disk, streams
    <3> QED
      BY <3>1
  <2>3. CASE ScanFails(c)
    BY <2>3 DEF ScanFails, Polls, Readied, Stands, Runs, streams
  <2>4. CASE Missing(c)
    BY <2>4 DEF Missing, Stands, Runs, disk, streams
  <2>5. CASE Look(c)
    BY <2>5 DEF Look, Polls, Readied, Stands, Runs, disk, streams
  <2>6. CASE WatchCancelled(c)
    BY <2>6 DEF WatchCancelled, Readied, Forgets, Stands, disk, streams
  <2> QED
    BY <2>1, <2>2, <2>3, <2>4, <2>5, <2>6
<1>2. EventsTypeOK'
  <2>1. /\ watch' \in [Channel -> {"none", "new", "scan", "read", "look", "gone", "poll", "done"}]
        /\ ready' \in [Channel -> BOOLEAN] /\ seen' \in [Channel -> Version \cup {NULL}]
    <3>1. watch' \in [Channel -> {"none", "new", "scan", "read", "look", "gone", "poll", "done"}]
      BY <1>1
    <3>2. ready' \in [Channel -> BOOLEAN]
      BY <1>1
    <3>3. seen' \in [Channel -> Version \cup {NULL}]
      BY <1>1
    <3> QED
      BY <3>1, <3>2, <3>3
  <2>2. UNCHANGED <<exists, version, registry, made, subs, snapshot, untold, cancelled, batch, client, on, queue,
                    told>> /\ troubles' \in 0..MaxTroubles
    BY <1>1
  <2> QED
    BY <2>1, <2>2 DEF EventsInd, EventsTypeOK
<1>3. \A s \in Client : ToldOfTheEnd(s) => ToldOfTheEnd(s)'
  BY <1>1 DEF ToldOfTheEnd
<1> QED
  BY <1>1, <1>2, <1>3, Harmless DEF EventsInd, ChannelsMade

LEMMA ApplyStep == ASSUME EventsInd, NEW c \in Channel, ApplyScan(c) PROVE EventsInd'
<1> USE EventsParts, NoneOfThese
<1>1. /\ UNCHANGED <<exists, version, troubles, registry, made, cancelled, batch>>
      /\ watch[c] = "read" /\ seen[c] \in Version
      /\ snapshot' = [snapshot EXCEPT ![c] = seen[c]]
      /\ ready' = [ready EXCEPT ![c] = TRUE] /\ watch' = [watch EXCEPT ![c] = "poll"]
      /\ seen' = [seen EXCEPT ![c] = NULL]
      /\ untold' \in [Channel -> BOOLEAN]
      /\ (UNCHANGED <<subs, client, on, queue, told, stray>>) \/ Broadcast(c, seen[c])
  BY DEF ApplyScan, Runs, Polls, Readied, Stands, Forgets, Silent, disk, streams
<1>2. CASE UNCHANGED <<subs, client, on, queue, told, stray>>
  <2>1. EventsTypeOK'
    BY <1>1, <1>2 DEF EventsInd, EventsTypeOK
  <2>2. \A s \in Client : ToldOfTheEnd(s) => ToldOfTheEnd(s)'
    BY <1>2 DEF ToldOfTheEnd
  <2> QED
    BY <1>1, <1>2, <2>1, <2>2, Harmless DEF EventsInd, ChannelsMade
<1>3. CASE Broadcast(c, seen[c])
  <2>1. Broadcasts(c, seen[c])
    BY <1>1, <1>3, Broadcasting DEF Message
  <2>2. EventsTypeOK'
    BY <1>1, <2>1 DEF EventsInd, EventsTypeOK, Broadcasts, Message
  <2> QED
    BY <1>1, <2>1, <2>2, Harmless DEF EventsInd, ChannelsMade, Broadcasts
<1> QED
  BY <1>1, <1>2, <1>3

\* The end of the channel of the key: who is left there has been told.
LEMMA Ending ==
    ASSUME EventsInd, NEW c \in Channel, registry = c, registry' = NULL, Broadcasts(c, Deleted),
           EventsTypeOK', made' = made,
           \A d \in Channel : d # c => cancelled'[d] = cancelled[d] /\ watch'[d] = watch[d],
           watch'[c] \in {"none", "done"} \/ cancelled'[c],
           \A b \in Batch : batch'[b].pc \in {"scan", "read", "gone"} => batch'[b].on \in 1..made
    PROVE  EventsInd'
<1> USE EventsParts, NoneOfThese
<1>1. \A d \in Channel : d # c => subs'[d] = subs[d] /\ (Working(d)' <=> Working(d))
  BY DEF Broadcasts, Working
<1>2. ~Working(c)' /\ c <= made
  BY DEF Working, EventsInd, ChannelsMade
<1>3. ChannelsMade'
  <2>1. \A d \in Channel : d > made => subs'[d] = {} /\ watch'[d] = "none" /\ ~cancelled'[d]
    BY <1>1, <1>2 DEF EventsInd, ChannelsMade
  <2> QED
    BY <2>1 DEF EventsInd, ChannelsMade, Broadcasts
<1>4. KeyIsWatched'
  BY DEF KeyIsWatched
<1>5. WatchedOrTold'
  <2> SUFFICES ASSUME ~stray, NEW s \in Client, Registered(s)'
               PROVE  Working(on[s])' \/ ToldOfTheEnd(s)'
    BY DEF WatchedOrTold, Broadcasts
  <2>1. client[s] \in Joined /\ s \in subs'[on[s]] /\ on[s] \in Channel
    BY DEF Registered, Joined, EventsInd, ChannelsMade, Channel, Broadcasts
  <2>2. CASE on[s] = c
    BY <2>1, <2>2 DEF Broadcasts
  <2>3. CASE on[s] # c
    <3>1. Registered(s)
      BY <1>1, <2>1, <2>3 DEF Registered, Joined
    <3> QED
      BY <1>1, <2>1, <2>3, <3>1 DEF EventsInd, WatchedOrTold, Broadcasts
  <2> QED
    BY <2>2, <2>3
<1>6. OneWatch'
  BY <1>1, <1>2 DEF EventsInd, OneWatch, Broadcasts
<1> QED
  BY <1>3, <1>4, <1>5, <1>6 DEF EventsInd

\* A watch that finds no project: unless it is of another channel than that of
\* the key, and then a request has strayed.
LEMMA ChannelGoneStep == ASSUME EventsInd, NEW c \in Channel, Gone(c) PROVE EventsInd'
<1> USE EventsParts, NoneOfThese
<1>1. /\ UNCHANGED <<exists, version, troubles, made, snapshot, untold, seen, batch>>
      /\ watch[c] = "gone" /\ ~cancelled[c] /\ watch' = [watch EXCEPT ![c] = "done"]
      /\ ready' = [ready EXCEPT ![c] = TRUE] /\ HandleDeleted(c, TRUE)
  BY DEF Gone, Runs, Readied, Stands, disk
<1>2. /\ watch' \in [Channel -> {"none", "new", "scan", "read", "look", "gone", "poll", "done"}]
      /\ ready' \in [Channel -> BOOLEAN] /\ watch'[c] = "done"
      /\ \A d \in Channel : d # c => watch'[d] = watch[d]
  BY <1>1
<1>3. Working(c)
  BY <1>1 DEF Working
<1>4. CASE registry = c
  <2>1. registry' = NULL /\ cancelled' = cancelled /\ Broadcast(c, Deleted)
    BY <1>1, <1>4 DEF HandleDeleted, Current
  <2>2. Broadcasts(c, Deleted)
    BY <2>1, Broadcasting DEF Message
  <2>3. EventsTypeOK'
    BY <1>1, <1>2, <2>1, <2>2 DEF EventsInd, EventsTypeOK, Broadcasts, Message
  <2> QED
    BY <1>1, <1>2, <1>4, <2>1, <2>2, <2>3, Ending DEF EventsInd, ChannelsMade
<1>5. CASE registry # c
  <2>1. stray /\ UNCHANGED <<registry, subs, cancelled, client, on, queue, told, stray>>
    BY <1>1, <1>3, <1>5 DEF HandleDeleted, Current, Silent, streams, EventsInd, OneWatch
  <2>2. EventsTypeOK'
    BY <1>1, <1>2, <2>1 DEF EventsInd, EventsTypeOK
  <2>3. ChannelsMade'
    <3>1. \A d \in Channel : d > made => watch'[d] = "none"
      BY <1>1, <1>2 DEF EventsInd, ChannelsMade
    <3> QED
      BY <1>1, <2>1, <3>1 DEF EventsInd, ChannelsMade
  <2>4. KeyIsWatched'
    BY <1>2, <1>5, <2>1 DEF EventsInd, KeyIsWatched, Working
  <2>5. WatchedOrTold' /\ OneWatch'
    BY <2>1 DEF WatchedOrTold, OneWatch
  <2> QED
    BY <2>2, <2>3, <2>4, <2>5 DEF EventsInd
<1> QED
  BY <1>4, <1>5

\* A batch that goes on or ends.
LEMMA BatchMoves ==
    ASSUME EventsInd, NEW b \in Batch, NEW r \in BatchState, batch' = [batch EXCEPT ![b] = r],
           r.pc \in {"scan", "read", "gone"} => r.on \in 1..made
    PROVE  /\ batch' \in [Batch -> BatchState]
           /\ \A x \in Batch : batch'[x].pc \in {"scan", "read", "gone"} => batch'[x].on \in 1..made
BY EventsParts DEF EventsInd, ChannelsMade

LEMMA BatchSteps ==
    ASSUME EventsInd, NEW b \in Batch, Emitted(b) \/ BatchScan(b) \/ BatchLook(b) \/ BatchApply(b)
    PROVE  EventsInd'
<1> USE EventsParts, NoneOfThese
<1>1. Over \in BatchState /\ Over.pc = "done"
  BY DEF Over, BatchState
<1>2. batch[b] \in BatchState
  OBVIOUS
<1>3. ASSUME NEW r \in BatchState, batch' = [batch EXCEPT ![b] = r],
             r.pc \in {"scan", "read", "gone"} => r.on \in 1..made,
             UNCHANGED <<disk, channels, streams>>
      PROVE  EventsInd'
  <2>1. /\ batch' \in [Batch -> BatchState]
        /\ \A x \in Batch : batch'[x].pc \in {"scan", "read", "gone"} => batch'[x].on \in 1..made
    BY <1>3, BatchMoves
  <2>2. UNCHANGED <<exists, version, troubles, registry, made, subs, snapshot, untold, ready, watch, cancelled, seen,
                    client, on, queue, told, stray>>
    BY <1>3 DEF disk, channels, streams
  <2>3. EventsTypeOK'
    BY <2>1, <2>2 DEF EventsInd, EventsTypeOK, BatchState
  <2>4. \A s \in Client : ToldOfTheEnd(s) => ToldOfTheEnd(s)'
    BY <2>2 DEF ToldOfTheEnd
  <2> QED
    BY <2>1, <2>2, <2>3, <2>4, Harmless DEF EventsInd, ChannelsMade
<1>4. CASE Emitted(b)
  <2> DEFINE r == [pc |-> "scan", on |-> registry, seen |-> NULL]
  <2>1. r \in BatchState /\ r.on \in 1..made
    <3>1. registry \in Channel /\ registry <= made
      BY <1>4 DEF Emitted, EventsInd, ChannelsMade
    <3> QED
      BY <3>1 DEF BatchState
  <2> QED
    BY <1>3, <1>4, <2>1 DEF Emitted
<1>5. CASE BatchScan(b)
  <2> DEFINE r == [batch[b] EXCEPT !.pc = "read", !.seen = OnDisk]
  <2>1. batch' = [batch EXCEPT ![b] = r] /\ UNCHANGED <<disk, channels, streams>> /\ batch[b].pc = "scan"
    BY <1>5 DEF BatchScan
  <2>2. r \in BatchState /\ r.on = batch[b].on
    BY <1>2 DEF BatchState
  <2>3. r.on \in 1..made
    BY <2>1, <2>2 DEF EventsInd, ChannelsMade
  <2> HIDE DEF r
  <2> QED
    BY <1>3, <2>1, <2>2, <2>3
<1>6. CASE BatchLook(b)
  <2> DEFINE r == IF exists THEN Over ELSE [batch[b] EXCEPT !.pc = "gone"]
  <2>1. batch' = [batch EXCEPT ![b] = r] /\ UNCHANGED <<disk, channels, streams>> /\ batch[b].pc = "read"
    BY <1>6 DEF BatchLook
  <2>2. r \in BatchState /\ (r.pc = "done" \/ r.on = batch[b].on)
    BY <1>1, <1>2 DEF BatchState
  <2>3. r.pc \in {"scan", "read", "gone"} => r.on \in 1..made
    BY <2>1, <2>2 DEF EventsInd, ChannelsMade
  <2> HIDE DEF r
  <2> QED
    BY <1>3, <2>1, <2>2, <2>3
<1>7. CASE BatchApply(b)
  <2> DEFINE c == batch[b].on
             m == batch[b].seen
  <2>1. /\ batch[b].pc = "read" /\ m # NULL
        /\ snapshot' = [snapshot EXCEPT ![c] = m] /\ Broadcast(c, m)
        /\ batch' = [batch EXCEPT ![b] = Over] /\ untold' = [untold EXCEPT ![c] = FALSE]
        /\ UNCHANGED <<exists, version, troubles, registry, made, ready, watch, cancelled, seen>>
    BY <1>7 DEF BatchApply, disk
  <2>2. c \in Channel /\ m \in Version
    <3>1. c \in 1..made /\ c \in Channel \cup {NULL}
      BY <1>2, <2>1 DEF BatchState, EventsInd, ChannelsMade
    <3>2. m \in Version
      BY <1>2, <2>1 DEF BatchState
    <3> QED
      BY <3>1, <3>2
  <2> HIDE DEF c, m
  <2>3. Broadcasts(c, m)
    BY <2>1, <2>2, Broadcasting DEF Message
  <2>4. /\ batch' \in [Batch -> BatchState]
        /\ \A x \in Batch : batch'[x].pc \in {"scan", "read", "gone"} => batch'[x].on \in 1..made
    BY <1>1, <2>1, BatchMoves
  <2>5. EventsTypeOK'
    BY <2>1, <2>2, <2>3, <2>4 DEF EventsInd, EventsTypeOK, Broadcasts, Message, BatchState
  <2> QED
    BY <2>1, <2>2, <2>3, <2>4, <2>5, Harmless DEF Broadcasts
<1> QED
  BY <1>4, <1>5, <1>6, <1>7

LEMMA BatchGoneStep == ASSUME EventsInd, NEW b \in Batch, BatchGone(b) PROVE EventsInd'
<1> USE EventsParts, NoneOfThese
<1> DEFINE c == batch[b].on
<1>1. /\ batch[b].pc = "gone" /\ HandleDeleted(c, FALSE) /\ batch' = [batch EXCEPT ![b] = Over]
      /\ UNCHANGED <<exists, version, troubles, made, snapshot, untold, ready, watch, seen>>
  BY DEF BatchGone, disk
<1>2. c \in Channel
  <2>1. batch[b] \in BatchState
    OBVIOUS
  <2>2. c \in 1..made /\ c \in Channel \cup {NULL}
    BY <1>1, <2>1 DEF BatchState, EventsInd, ChannelsMade
  <2> QED
    BY <2>2
<1>3. /\ batch' \in [Batch -> BatchState]
      /\ \A x \in Batch : batch'[x].pc \in {"scan", "read", "gone"} => batch'[x].on \in 1..made
  <2>1. Over \in BatchState /\ Over.pc = "done"
    BY DEF Over, BatchState
  <2> QED
    BY <1>1, <2>1, BatchMoves
<1> HIDE DEF c
<1>4. CASE registry = c
  <2>1. /\ registry' = NULL /\ Broadcast(c, Deleted)
        /\ cancelled' = IF watch[c] \in {"none", "done"} THEN cancelled ELSE [cancelled EXCEPT ![c] = TRUE]
    BY <1>1, <1>4 DEF HandleDeleted, Current
  <2>2. Broadcasts(c, Deleted)
    BY <1>2, <2>1, Broadcasting DEF Message
  <2>3. /\ cancelled' \in [Channel -> BOOLEAN] /\ (watch[c] \in {"none", "done"} \/ cancelled'[c])
        /\ \A d \in Channel : d # c => cancelled'[d] = cancelled[d]
    BY <1>2, <2>1
  <2>4. EventsTypeOK'
    BY <1>1, <1>3, <2>1, <2>2, <2>3 DEF EventsInd, EventsTypeOK, Broadcasts, Message, BatchState
  <2> QED
    BY <1>1, <1>2, <1>3, <1>4, <2>1, <2>2, <2>3, <2>4, Ending
<1>5. CASE registry # c
  <2>1. UNCHANGED <<registry, subs, cancelled, client, on, queue, told, stray>>
    BY <1>1, <1>5 DEF HandleDeleted, Current, Silent, streams
  <2>2. EventsTypeOK'
    BY <1>1, <1>3, <2>1 DEF EventsInd, EventsTypeOK, BatchState
  <2>3. \A s \in Client : ToldOfTheEnd(s) => ToldOfTheEnd(s)'
    BY <2>1 DEF ToldOfTheEnd
  <2> QED
    BY <1>1, <1>3, <2>1, <2>2, <2>3, Harmless
<1> QED
  BY <1>4, <1>5

-----------------------------------------------------------------------------
\* The steps of a stream that joins and leaves no channel.
LEMMA StreamSteps ==
    ASSUME EventsInd, NEW s \in Client, Enter(s) \/ Opens(s) \/ Receive(s) \/ Disconnect(s)
    PROVE  EventsInd'
<1> USE EventsParts, NoneOfThese
<1>1. UNCHANGED <<exists, version, troubles, registry, made, subs, snapshot, untold, ready, watch, cancelled, seen,
                  batch, on, stray>>
  BY DEF Enter, Opens, Receive, Disconnect, disk, channels
<1>2. CASE Enter(s) \/ Opens(s) \/ Disconnect(s)
  <2>1. /\ queue' = queue
        /\ \E pc \in {"entering", "streaming", "leaving"} :
             /\ client' = [client EXCEPT ![s] = pc]
             /\ pc = "streaming" => client[s] \in {"waiting", "woken"}
        /\ told' = told \/ (told' = [told EXCEPT ![s] = snapshot[on[s]]] /\ client[s] \in Joined)
    BY <1>2 DEF Enter, Opens, Disconnect, Woken, Joined
  <2>2. client[s] \in Joined => on[s] \in Channel
    BY DEF EventsInd, ChannelsMade, Channel
  <2>3. told' \in [Client -> Version \cup {NULL}]
    <3>1. client[s] \in Joined => snapshot[on[s]] \in Version \cup {NULL}
      BY <2>2
    <3> QED
      BY <2>1, <3>1
  <2>4. client' \in [Client -> {"out", "entering", "waiting", "woken", "streaming", "leaving", "left"}]
    BY <2>1
  <2>5. \A x \in Client : client'[x] \in Joined => client[x] \in Joined
    BY <2>1 DEF Joined
  <2>6. EventsTypeOK'
    BY <1>1, <2>1, <2>3, <2>4 DEF EventsInd, EventsTypeOK
  <2>7. \A x \in Client : ToldOfTheEnd(x) => ToldOfTheEnd(x)'
    BY <2>1 DEF ToldOfTheEnd
  <2> QED
    BY <1>1, <2>1, <2>5, <2>6, <2>7, Harmless DEF EventsInd, ChannelsMade
<1>3. CASE Receive(s)
  <2> DEFINE m == Head(queue[s])
  <2>1. /\ client[s] = "streaming" /\ queue[s] # <<>>
        /\ queue' = [queue EXCEPT ![s] = Tail(queue[s])]
        /\ \/ m = Deleted /\ client' = [client EXCEPT ![s] = "leaving"] /\ told' = told
           \/ m # Deleted /\ told' = [told EXCEPT ![s] = m] /\ client' = client
    BY <1>3 DEF Receive
  <2>2. /\ queue[s] \in Seq(Message) /\ Len(queue[s]) \in Nat /\ m \in Message
        /\ Tail(queue[s]) \in Seq(Message) /\ Len(Tail(queue[s])) = Len(queue[s]) - 1
        /\ \A i \in 1..(Len(queue[s]) - 1) : Tail(queue[s])[i] = queue[s][i + 1]
        /\ m = queue[s][1]
    <3>1. queue[s] \in Seq(Message)
      OBVIOUS
    <3> QED
      BY <2>1, <3>1
  <2> HIDE DEF m
  <2>3. /\ queue' \in [Client -> Seq(Message)] /\ \A x \in Client : Len(queue'[x]) <= QueueMax
        /\ queue'[s] = Tail(queue[s]) /\ \A x \in Client : x # s => queue'[x] = queue[x]
    <3>1. Len(Tail(queue[s])) <= QueueMax
      BY <2>2
    <3> QED
      BY <2>1, <2>2, <3>1
  <2>4. /\ client' \in [Client -> {"out", "entering", "waiting", "woken", "streaming", "leaving", "left"}]
        /\ told' \in [Client -> Version \cup {NULL}]
        /\ \A x \in Client : client'[x] \in Joined => client[x] \in Joined
    <3>1. CASE m = Deleted
      BY <2>1, <3>1 DEF Joined
    <3>2. CASE m # Deleted
      BY <2>1, <2>2, <3>2 DEF Message
    <3> QED
      BY <3>1, <3>2
  <2>5. EventsTypeOK'
    BY <1>1, <2>3, <2>4 DEF EventsInd, EventsTypeOK, Message
  <2>6. ASSUME NEW x \in Client, client'[x] \in Joined, ToldOfTheEnd(x) PROVE ToldOfTheEnd(x)'
    <3>1. CASE x = s
      <4>1. m # Deleted
        BY <2>1, <2>6, <3>1 DEF Joined
      <4>2. PICK i \in 1..Len(queue[s]) : queue[s][i] = Deleted
        BY <2>6, <3>1 DEF ToldOfTheEnd
      <4>3. i # 1
        BY <2>2, <4>1, <4>2
      <4>4. i - 1 \in 1..(Len(queue[s]) - 1) /\ (i - 1) + 1 = i
        BY <2>2, <4>2, <4>3
      <4>5. i - 1 \in 1..Len(queue'[s]) /\ queue'[s][i - 1] = Deleted
        BY <2>2, <2>3, <4>2, <4>4
      <4> QED
        BY <3>1, <4>5 DEF ToldOfTheEnd
    <3>2. CASE x # s
      BY <2>3, <2>6, <3>2 DEF ToldOfTheEnd
    <3> QED
      BY <3>1, <3>2
  <2> QED
    BY <1>1, <2>3, <2>4, <2>5, <2>6, Harmless DEF EventsInd, ChannelsMade
<1> QED
  BY <1>2, <1>3

LEMMA JoinStep == ASSUME EventsInd, NEW s \in Client, Join(s) PROVE EventsInd'
<1> USE EventsParts, NoneOfThese
<1>0. PICK c \in Channel : c = IF registry = NULL THEN made + 1 ELSE registry
  BY DEF Join
<1> DEFINE starts == subs[c] = {} /\ watch[c] \in {"none", "done"}
<1>1. /\ registry' = c /\ made' = IF registry = NULL THEN made + 1 ELSE made
      /\ subs' = [subs EXCEPT ![c] = subs[c] \cup {s}]
      /\ watch' = IF starts THEN [watch EXCEPT ![c] = "new"] ELSE watch
      /\ ready' = IF starts THEN [ready EXCEPT ![c] = FALSE] ELSE ready
      /\ on' = [on EXCEPT ![s] = c]
      /\ client' = [x \in Client |-> IF x = s THEN "waiting"
                                     ELSE IF starts /\ Woken(x) /\ on[x] = c THEN "woken"
                                     ELSE client[x]]
      /\ UNCHANGED <<exists, version, troubles, snapshot, untold, cancelled, seen, batch, queue, told, stray>>
  BY <1>0 DEF Join, disk
<1>2. /\ made' \in 0..MaxChannels /\ made <= made' /\ c <= made' /\ c \in 1..made'
      /\ registry # NULL => c = registry
      /\ registry = NULL => c > made /\ subs[c] = {} /\ watch[c] = "none" /\ ~cancelled[c]
      /\ \A d \in Channel : d > made' => d > made /\ d # c
  <2>1. registry = NULL => c > made
    BY <1>0
  <2>2. c <= MaxChannels /\ c >= 1
    BY <1>1 DEF Channel
  <2>3. registry # NULL => registry <= made
    BY DEF EventsInd, ChannelsMade
  <2>4. /\ registry # NULL => c = registry /\ made' = made
        /\ registry = NULL => c = made + 1 /\ made' = made + 1
    BY <1>0, <1>1
  <2>5. /\ made' \in 0..MaxChannels /\ made <= made' /\ c <= made' /\ c \in 1..made'
        /\ \A d \in Channel : d > made' => d > made /\ d # c
    BY <1>1, <2>2, <2>3, <2>4
  <2> QED
    BY <1>1, <2>1, <2>4, <2>5 DEF EventsInd, ChannelsMade
<1>3. ~cancelled[c] /\ c # NULL
  <2>1. registry # NULL => ~cancelled[c]
    BY <1>1, <1>2 DEF EventsInd, KeyIsWatched
  <2> QED
    BY <1>1, <1>2, <2>1
<1>4. Working(c)'
  <2>1. CASE starts
    BY <1>1, <1>3, <2>1 DEF Working
  <2>2. CASE ~starts
    <3>1. registry # NULL /\ c = registry
      BY <1>2, <2>2
    <3>2. Working(c)
      BY <1>3, <2>2, <3>1 DEF EventsInd, KeyIsWatched, Working
    <3> QED
      BY <1>1, <2>2, <3>2 DEF Working
  <2> QED
    BY <2>1, <2>2
<1>5. \A d \in Channel : d # c => /\ subs'[d] = subs[d] /\ watch'[d] = watch[d] /\ (Working(d)' <=> Working(d))
  BY <1>1 DEF Working
<1>6. /\ client'[s] = "waiting" /\ on'[s] = c
      /\ \A x \in Client : x # s => on'[x] = on[x] /\ (client'[x] = client[x]
                                        \/ (client'[x] = "woken" /\ client[x] \in Joined))
  BY <1>1 DEF Woken, Joined
<1>7. EventsTypeOK'
  <2>1. subs' \in [Channel -> SUBSET Client] /\ on' \in [Client -> Channel \cup {NULL}]
    BY <1>1
  <2>2. watch' \in [Channel -> {"none", "new", "scan", "read", "look", "gone", "poll", "done"}]
    BY <1>1
  <2>3. ready' \in [Channel -> BOOLEAN]
    BY <1>1
  <2>4. client' \in [Client -> {"out", "entering", "waiting", "woken", "streaming", "leaving", "left"}]
    BY <1>1
  <2> QED
    BY <1>1, <1>2, <2>1, <2>2, <2>3, <2>4 DEF EventsInd, EventsTypeOK
<1>8. ChannelsMade'
  <2>1. \A x \in Client : client'[x] \in Joined => on'[x] \in 1..made'
    <3>1. ASSUME NEW x \in Client, client'[x] \in Joined PROVE on'[x] \in 1..made'
      <4>1. CASE x = s
        BY <1>2, <1>6, <4>1
      <4>2. CASE x # s
        <5>1. client[x] \in Joined /\ on'[x] = on[x]
          BY <1>6, <3>1, <4>2
        <5>2. on[x] \in 1..made
          BY <5>1 DEF EventsInd, ChannelsMade
        <5> QED
          BY <1>2, <5>1, <5>2
      <4> QED
        BY <4>1, <4>2
    <3> QED
      BY <3>1
  <2>2. \A b \in Batch : batch'[b].pc \in {"scan", "read", "gone"} => batch'[b].on \in 1..made'
    BY <1>1, <1>2 DEF EventsInd, ChannelsMade
  <2>3. \A d \in Channel : d > made' => subs'[d] = {} /\ watch'[d] = "none" /\ ~cancelled'[d]
    BY <1>1, <1>2, <1>5 DEF EventsInd, ChannelsMade
  <2> QED
    BY <1>1, <1>2, <2>1, <2>2, <2>3 DEF EventsInd, ChannelsMade
<1>9. KeyIsWatched'
  BY <1>1, <1>3, <1>4 DEF KeyIsWatched
<1>10. WatchedOrTold'
  <2> SUFFICES ASSUME ~stray, NEW x \in Client, x # s, Registered(x)'
               PROVE  Working(on[x])' \/ ToldOfTheEnd(x)'
    BY <1>1, <1>4, <1>6 DEF WatchedOrTold
  <2>1. client[x] \in Joined /\ on'[x] = on[x] /\ on[x] \in Channel /\ x \in subs'[on[x]]
    BY <1>6 DEF Registered, Joined, EventsInd, ChannelsMade, Channel
  <2>2. Registered(x)
    BY <1>1, <2>1 DEF Registered, Joined
  <2>3. Working(on[x]) \/ ToldOfTheEnd(x)
    BY <2>2 DEF EventsInd, WatchedOrTold
  <2>4. ToldOfTheEnd(x) => ToldOfTheEnd(x)'
    BY <1>1 DEF ToldOfTheEnd
  <2> QED
    BY <1>4, <1>5, <2>1, <2>3, <2>4
<1>11. OneWatch'
  BY <1>1, <1>2, <1>5 DEF EventsInd, OneWatch
<1> QED
  BY <1>7, <1>8, <1>9, <1>10, <1>11 DEF EventsInd

\* A stream goes: what it was subscribed to loses it, and the channel of the
\* key may go with its last one.
LEMMA Parting ==
    ASSUME EventsInd, NEW s \in Client, EventsTypeOK', queue' \in [Client -> Seq(Message)],
           UNCHANGED <<made, watch, batch>>, stray => stray',
           client'[s] \notin Joined,
           \A x \in Client : x # s => UNCHANGED <<client[x], on[x], queue[x]>>,
           \A d \in Channel : subs'[d] \subseteq subs[d],
           \/ registry' = registry /\ cancelled' = cancelled
           \/ /\ registry' = NULL
              /\ \E c \in 1..made : /\ subs[c] \subseteq {s} /\ (cancelled'[c] \/ watch[c] = "done")
                                    /\ \A d \in Channel : d # c => cancelled'[d] = cancelled[d]
                                    /\ stray' \/ registry \in {NULL, c}
    PROVE  EventsInd'
<1> USE EventsParts, NoneOfThese
<1>1. ASSUME NEW x \in Client, Registered(x)'
      PROVE  /\ x # s /\ Registered(x) /\ on'[x] = on[x] /\ on[x] \in Channel
             /\ ToldOfTheEnd(x) => ToldOfTheEnd(x)'
  <2>1. x # s /\ client[x] \in Joined /\ on'[x] = on[x] /\ queue'[x] = queue[x]
    BY <1>1 DEF Registered, Joined
  <2>2. on[x] \in Channel
    BY <2>1 DEF EventsInd, ChannelsMade, Channel
  <2> QED
    BY <1>1, <2>1, <2>2 DEF Registered, ToldOfTheEnd, Joined
<1>2. \A x \in Client : client'[x] \in Joined => on'[x] \in 1..made
  BY DEF EventsInd, ChannelsMade
<1>3. CASE registry' = registry /\ cancelled' = cancelled
  <2>1. \A d \in Channel : Working(d)' <=> Working(d)
    BY <1>3 DEF Working
  <2>2. ChannelsMade'
    BY <1>2, <1>3 DEF EventsInd, ChannelsMade
  <2>3. KeyIsWatched'
    BY <1>3, <2>1 DEF EventsInd, KeyIsWatched
  <2>4. WatchedOrTold' /\ OneWatch'
    BY <1>1, <1>3, <2>1 DEF EventsInd, WatchedOrTold, OneWatch
  <2> QED
    BY <2>2, <2>3, <2>4 DEF EventsInd
<1>4. CASE /\ registry' = NULL
           /\ \E c \in 1..made : /\ subs[c] \subseteq {s} /\ (cancelled'[c] \/ watch[c] = "done")
                                 /\ \A d \in Channel : d # c => cancelled'[d] = cancelled[d]
                                 /\ stray' \/ registry \in {NULL, c}
  <2>1. PICK c \in 1..made : /\ subs[c] \subseteq {s} /\ (cancelled'[c] \/ watch[c] = "done")
                             /\ \A d \in Channel : d # c => cancelled'[d] = cancelled[d]
                             /\ stray' \/ registry \in {NULL, c}
    BY <1>4
  <2>2. c \in Channel /\ c <= made
    BY DEF Channel
  <2>3. ~Working(c)' /\ \A d \in Channel : d # c => (Working(d)' <=> Working(d))
    BY <2>1, <2>2 DEF Working
  <2>4. ChannelsMade'
    <3>1. \A d \in Channel : d > made => subs'[d] = {} /\ watch'[d] = "none" /\ ~cancelled'[d]
      BY <2>1, <2>2 DEF EventsInd, ChannelsMade
    <3> QED
      BY <1>2, <1>4, <3>1 DEF EventsInd, ChannelsMade
  <2>5. KeyIsWatched'
    BY <1>4 DEF KeyIsWatched
  <2>6. WatchedOrTold'
    <3> SUFFICES ASSUME ~stray', NEW x \in Client, Registered(x)'
                 PROVE  Working(on[x])' \/ ToldOfTheEnd(x)'
      BY DEF WatchedOrTold
    <3>1. x # s /\ Registered(x) /\ on'[x] = on[x] /\ on[x] \in Channel /\ (ToldOfTheEnd(x) => ToldOfTheEnd(x)')
      BY <1>1
    <3>2. Working(on[x]) \/ ToldOfTheEnd(x)
      BY <3>1 DEF EventsInd, WatchedOrTold
    <3>3. on[x] # c
      BY <2>1, <3>1 DEF Registered
    <3> QED
      BY <2>3, <3>1, <3>2, <3>3
  <2>7. OneWatch'
    <3>1. ASSUME ~stray', NEW d \in Channel, Working(d)' PROVE FALSE
      <4>1. d # c /\ Working(d)
        BY <2>3, <3>1
      <4>2. d = registry
        BY <3>1, <4>1 DEF EventsInd, OneWatch
      <4> QED
        BY <2>1, <3>1, <4>1, <4>2
    <3> QED
      BY <3>1 DEF OneWatch
  <2> QED
    BY <2>4, <2>5, <2>6, <2>7 DEF EventsInd
<1> QED
  BY <1>3, <1>4

LEMMA PartSteps == ASSUME EventsInd, NEW s \in Client, GiveUp(s) \/ Leave(s) PROVE EventsInd'
<1> USE EventsParts, NoneOfThese
<1>1. <<>> \in Seq(Message) /\ Len(<<>>) = 0
  OBVIOUS
<1>2. /\ UNCHANGED <<exists, version, troubles, made, snapshot, untold, ready, watch, seen, batch>>
      /\ client' = [client EXCEPT ![s] = "left"]
      /\ queue' = [queue EXCEPT ![s] = <<>>] /\ on' = [on EXCEPT ![s] = NULL]
      /\ told' = told \/ told' = [told EXCEPT ![s] = NULL]
  BY DEF GiveUp, Leave, disk
<1>3. /\ client' \in [Client -> {"out", "entering", "waiting", "woken", "streaming", "leaving", "left"}]
      /\ on' \in [Client -> Channel \cup {NULL}]
      /\ told' \in [Client -> Version \cup {NULL}]
      /\ queue' \in [Client -> Seq(Message)]
  <2>1. queue' \in [Client -> Seq(Message)]
    BY <1>1, <1>2
  <2>2. told' \in [Client -> Version \cup {NULL}]
    BY <1>2
  <2> QED
    BY <1>2, <2>1, <2>2
<1>4. /\ client'[s] \notin Joined
      /\ \A x \in Client : x # s => UNCHANGED <<client[x], on[x], queue[x]>>
      /\ \A x \in Client : Len(queue'[x]) <= QueueMax
  BY <1>1, <1>2 DEF Joined
<1>5. CASE GiveUp(s)
  <2>1. on[s] \in 1..made
    BY <1>5 DEF GiveUp, EventsInd, ChannelsMade, Joined
  <2>2. PICK c \in 1..made : c = on[s]
    BY <2>1
  <2>3. c \in Channel
    BY <2>2 DEF Channel
  <2> DEFINE last == subs[c] \subseteq {s} /\ watch[c] # "none"
  <2>4. /\ subs' = [subs EXCEPT ![c] = subs[c] \ {s}]
        /\ cancelled' = IF last /\ watch[c] # "done" THEN [cancelled EXCEPT ![c] = TRUE] ELSE cancelled
        /\ registry' = IF last THEN NULL ELSE registry
        /\ stray' = (stray \/ (last /\ registry \notin {NULL, c}))
    BY <1>5, <2>2 DEF GiveUp
  <2>5. /\ subs' \in [Channel -> SUBSET Client] /\ \A d \in Channel : subs'[d] \subseteq subs[d]
        /\ cancelled' \in [Channel -> BOOLEAN] /\ registry' \in Channel \cup {NULL}
    BY <2>3, <2>4
  <2>6. EventsTypeOK'
    BY <1>2, <1>3, <1>4, <2>5 DEF EventsInd, EventsTypeOK, Message
  <2>7. \/ registry' = registry /\ cancelled' = cancelled
        \/ /\ registry' = NULL /\ subs[c] \subseteq {s} /\ (cancelled'[c] \/ watch[c] = "done")
           /\ \A d \in Channel : d # c => cancelled'[d] = cancelled[d]
           /\ stray' \/ registry \in {NULL, c}
    BY <2>3, <2>4
  <2> QED
    BY <1>2, <1>3, <1>4, <2>4, <2>5, <2>6, <2>7, Parting
<1>6. CASE Leave(s)
  <2>1. CASE registry = NULL
    <3>1. UNCHANGED <<registry, subs, cancelled, stray>>
      BY <1>6, <2>1 DEF Leave
    <3>2. EventsTypeOK'
      BY <1>2, <1>3, <1>4, <3>1 DEF EventsInd, EventsTypeOK, Message
    <3> QED
      BY <1>2, <1>3, <1>4, <3>1, <3>2, Parting
  <2>2. CASE registry # NULL
    <3>1. PICK c \in 1..made : c = registry
      BY <2>2 DEF EventsInd, ChannelsMade, Channel
    <3>2. c \in Channel
      BY <3>1 DEF Channel
    <3>3. /\ stray' = stray /\ subs' = [subs EXCEPT ![c] = subs[c] \ {s}]
          /\ IF subs[c] \subseteq {s}
             THEN /\ registry' = NULL
                  /\ cancelled' = IF watch[c] = "done" THEN cancelled ELSE [cancelled EXCEPT ![c] = TRUE]
             ELSE registry' = registry /\ cancelled' = cancelled
      BY <1>6, <2>2, <3>1 DEF Leave
    <3>4. /\ subs' \in [Channel -> SUBSET Client] /\ \A d \in Channel : subs'[d] \subseteq subs[d]
          /\ cancelled' \in [Channel -> BOOLEAN] /\ registry' \in Channel \cup {NULL}
      BY <3>2, <3>3
    <3>5. EventsTypeOK'
      BY <1>2, <1>3, <1>4, <3>4 DEF EventsInd, EventsTypeOK, Message
    <3>6. \/ registry' = registry /\ cancelled' = cancelled
          \/ /\ registry' = NULL /\ subs[c] \subseteq {s} /\ (cancelled'[c] \/ watch[c] = "done")
             /\ \A d \in Channel : d # c => cancelled'[d] = cancelled[d]
             /\ stray' \/ registry \in {NULL, c}
      BY <3>1, <3>2, <3>3
    <3> QED
      BY <1>2, <1>3, <1>4, <3>3, <3>4, <3>5, <3>6, Parting
  <2> QED
    BY <2>1, <2>2
<1> QED
  BY <1>5, <1>6

-----------------------------------------------------------------------------
LEMMA EventsStart == Init => EventsInd
<1> SUFFICES ASSUME Init PROVE EventsInd
  OBVIOUS
<1> USE NoneOfThese
<1>1. <<>> \in Seq(Message) /\ Len(<<>>) = 0 /\ <<>> \in Seq(Version \cup {Deleted})
  BY DEF Message
<1>2. EventsTypeOK
  BY <1>1 DEF Init, EventsTypeOK
<1>3. ChannelsMade /\ KeyIsWatched
  BY <1>1 DEF Init, ChannelsMade, KeyIsWatched, Joined
<1>4. WatchedOrTold /\ OneWatch
  BY DEF Init, WatchedOrTold, OneWatch, Registered, Working
<1> QED
  BY <1>2, <1>3, <1>4 DEF EventsInd

LEMMA EventsStep == EventsInd /\ [Next]_vars => EventsInd'
<1> SUFFICES ASSUME EventsInd, [Next]_vars PROVE EventsInd'
  OBVIOUS
<1>1. CASE Change \/ DeleteProject \/ Recreate
  BY <1>1, DiskSteps
<1>2. ASSUME NEW c \in Channel, WatchStep(c) \/ ScanFails(c) PROVE EventsInd'
  BY <1>2, WatchSteps, ApplyStep, ChannelGoneStep DEF WatchStep
<1>3. ASSUME NEW b \in Batch, Emitted(b) \/ BatchStep(b) PROVE EventsInd'
  BY <1>3, BatchSteps, BatchGoneStep DEF BatchStep
<1>4. ASSUME NEW s \in Client, Enter(s) \/ ClientStep(s) \/ GiveUp(s) \/ Disconnect(s) PROVE EventsInd'
  BY <1>4, StreamSteps, JoinStep, PartSteps DEF ClientStep
<1>5. CASE UNCHANGED vars
  <2>1. UNCHANGED <<exists, version, troubles, registry, made, subs, snapshot, untold, ready, watch, cancelled, seen,
                    batch, client, on, queue, told, stray>>
    BY <1>5 DEF vars, disk, channels, streams
  <2>2. EventsTypeOK' /\ ChannelsMade' /\ KeyIsWatched'
    BY <2>1 DEF EventsInd, EventsTypeOK, ChannelsMade, KeyIsWatched, Working
  <2>3. WatchedOrTold' /\ OneWatch'
    BY <2>1 DEF EventsInd, WatchedOrTold, OneWatch, Registered, Working, ToldOfTheEnd
  <2> QED
    BY <2>2, <2>3 DEF EventsInd
<1> QED
  BY <1>1, <1>2, <1>3, <1>4, <1>5 DEF Next

\* A stream whose queue is registered has a running watch on its channel or
\* the end of the project in its queue, and only the channel of the key is
\* watched: for any number of streams, channels and rebuilds, however a
\* project is deleted and made again, as long as no cancelled request has taken
\* out the entry of a channel that was not its own.
THEOREM SubscribersAreServed == Spec => []ChannelInv
<1>1. EventsInd => ChannelInv
  BY DEF EventsInd, ChannelInv
<1> QED
  BY <1>1, EventsStart, EventsStep, PTL DEF Spec
=============================================================================
