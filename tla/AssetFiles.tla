----------------------------- MODULE AssetFiles -----------------------------
(***************************************************************************)
(* The stills and clips of the shots of one script, and everybody who      *)
(* writes them: the generation tasks of server/services/generation_tasks,  *)
(* reference_video_tasks and image_edit_tasks, the uploads, the restoring  *)
(* of an old version, the splitting of a grid image into stills, and the   *)
(* edits that remove a shot.  lib/version_manager.py keeps the versions of *)
(* each file under a lock of its own, but the files are written outside    *)
(* it, and so are the links and posters a script has for its clips.        *)
(*                                                                         *)
(* The content of a file is named after the writer that made it.  Writing  *)
(* a file is one step.  The grids have one record, and its image is not    *)
(* followed through the versions.                                          *)
(***************************************************************************)
EXTENDS Integers, Sequences, FiniteSets, SequencesExt

CONSTANTS Writer,      \* tasks, uploads and other requests
          Shot,        \* shots and units of the script
          Clips,       \* those whose clip somebody writes
          Units,       \* those of them that are video units
          WithUri,     \* tasks of a backend that answers with a video_uri
          Legacy,      \* what was there before versions were kept
          None, Grid,  \* nothing; what a writer of the grid writes to
          MaxOutages   \* bound on crashes

ASSUME AssetAssumption ==
    /\ Units \subseteq Clips /\ Clips \subseteq Shot
    /\ WithUri \subseteq Writer
    /\ {Legacy, None} \cap Writer = {} /\ Legacy # None
    /\ MaxOutages \in Nat

Asset == ({"still"} \X Shot) \cup ({"clip"} \X Clips)
Content == Writer \cup {Legacy}

ASSUME GridAssumption == Grid \notin Asset /\ None \notin Asset \cup {Grid}

VARIABLES bytes,   \* per asset: what the file holds, or None
          history, \* per asset: versions.json and the copies it names
          current, \* per asset: current_version, 0 if it has none
          torn,    \* a crash has cut versions.json off
          present, \* the shots the script has
          entry,   \* generated_assets per shot
          poster,  \* per clip: the content its thumbnail was taken from, or None
          writer,  \* where each writer stands
          grid,    \* status of the grid record, or "absent"
          gridFile, gridRow, \* whether its image is there; a queued task
          crossed, \* units where two writers met or one broke off (history)
          outages

scriptVars == <<present, entry>>
versionVars == <<history, current, torn>>
gridVars == <<grid, gridFile, gridRow>>
assetVars == <<bytes, versionVars, scriptVars, poster, writer, gridVars, crossed, outages>>

Blank == [still |-> FALSE, clip |-> FALSE, uri |-> None, poster |-> FALSE]
Phase == {"idle", "paid", "written", "recorded", "linked", "framed", "restored", "synced",
          "imaging", "split", "cells", "saved", "listed", "done", "failed", "dead"}
AtRest == {"idle", "done", "failed", "dead"}

AssetInit ==
    /\ bytes \in [Asset -> {Legacy, None}]
    /\ history = [r \in Asset |-> <<>>]
    /\ current = [r \in Asset |-> 0]
    /\ torn = FALSE
    /\ present = Shot
    /\ entry = [s \in Shot |-> Blank]
    /\ poster = [s \in Clips |-> None]
    /\ writer = [j \in Writer |-> [pc |-> "idle", kind |-> "none", on |-> None, wrote |-> None,
                                   flag |-> FALSE, todo |-> {}, cells |-> {}]]
    /\ grid = "pending" /\ gridFile = FALSE /\ gridRow = TRUE
    /\ crossed = {}
    /\ outages = 0

ShotOf(j) == writer[j].on[2]
IsClip(j) == writer[j].on \in {"clip"} \X Clips
Busy(j) == writer[j].pc \notin AtRest
BusyOn(r) == {j \in Writer : Busy(j) /\ writer[j].on = r}
Move(j, pc) == writer' = [writer EXCEPT ![j].pc = pc]

\* A unit that its writer leaves half written.
Crossing(S) == crossed' = crossed \cup {s \in Units : <<"clip", s>> \in S}
Breaks(j) == Move(j, "failed") /\ Crossing({writer[j].on})

-----------------------------------------------------------------------------
(* VersionManager: each operation under the lock of versions.json *)

\* mutant: nothing is tracked before it is overwritten
UntrackedNever(r) == FALSE

\* ensure_current_tracked
Untracked(r) == bytes[r] # None /\ current[r] = 0
Tracked(r) == IF Untracked(r) THEN [history EXCEPT ![r] = Append(@, bytes[r])] ELSE history
Track(r) == /\ history' = Tracked(r)
            /\ current' = [current EXCEPT ![r] = IF Untracked(r) THEN 1 ELSE @]
            /\ UNCHANGED torn

\* mutant: the version is recorded, and the old one stays the current one
AddVersionBehind(r) == /\ history' = [history EXCEPT ![r] = Append(@, bytes[r])]
                       /\ current' = [current EXCEPT ![r] = IF @ = 0 THEN 1 ELSE @]
                       /\ UNCHANGED torn

\* add_version copies the file as it finds it.
AddVersion(r) == /\ history' = [history EXCEPT ![r] = Append(@, bytes[r])]
                 /\ current' = [current EXCEPT ![r] = Len(history[r]) + 1]
                 /\ UNCHANGED torn

\* Loading a file that was cut off raises.
Readable(r) == torn => bytes[r] = None

-----------------------------------------------------------------------------
(* Tasks and uploads that write one file *)

\* The checks before the backend is called, or before the upload is stored: a
\* video task needs the still, the others need the shot.
MayWrite(kind, r) ==
    IF kind = "make" /\ r \in {"clip"} \X (Clips \ Units) THEN bytes[<<"still", r[2]>>] # None
    ELSE r[2] \in present

Begin(j, kind, r) ==
    /\ writer[j].pc = "idle" /\ MayWrite(kind, r) /\ Readable(r)
    /\ writer' = [writer EXCEPT ![j].pc = "paid", ![j].kind = kind, ![j].on = r]
    /\ Track(r)
    /\ Crossing(IF BusyOn(r) = {} THEN {} ELSE {r})
    /\ UNCHANGED <<bytes, scriptVars, poster, gridVars, outages>>

\* The backend or the upload fails; nothing was touched.
Rejected(j) ==
    /\ writer[j].pc = "paid" /\ Move(j, "failed")
    /\ UNCHANGED <<bytes, versionVars, scriptVars, poster, gridVars, crossed, outages>>

WriteFile(j) ==
    LET r == writer[j].on IN
    /\ writer[j].pc = "paid"
    /\ bytes' = [bytes EXCEPT ![r] = j]
    /\ writer' = [writer EXCEPT ![j].pc = "written", ![j].wrote = r]
    /\ UNCHANGED <<versionVars, scriptVars, poster, gridVars, crossed, outages>>

Record(j) ==
    /\ writer[j].pc = "written" /\ ~torn
    /\ AddVersion(writer[j].on)
    /\ writer' = [writer EXCEPT ![j].pc = "recorded", ![j].wrote = None]
    /\ UNCHANGED <<bytes, scriptVars, poster, gridVars, crossed, outages>>

\* add_version cannot read versions.json, an uploaded unit is gone (looked up
\* again before it is recorded), or the publishing of a recorded clip fails.
BreakOff(j) ==
    /\ \/ writer[j].pc = "written" /\ torn
       \/ writer[j].pc = "written" /\ writer[j].kind = "put"
          /\ writer[j].on \in {"clip"} \X (Units \ present)
       \/ writer[j].pc = "recorded" /\ writer[j].kind = "make" /\ IsClip(j)
    /\ Breaks(j)
    /\ UNCHANGED <<bytes, versionVars, scriptVars, poster, gridVars, outages>>

\* A write-back into the script finds the shot, or raises KeyError.
Link(j, pc, new) ==
    /\ IF ShotOf(j) \in present
       THEN /\ entry' = [entry EXCEPT ![ShotOf(j)] = new]
            /\ Move(j, pc) /\ UNCHANGED crossed
       ELSE Breaks(j) /\ UNCHANGED entry
    /\ UNCHANGED <<bytes, versionVars, present, poster, gridVars, outages>>

LinkStill(j) ==
    /\ writer[j].pc = "recorded" /\ ~IsClip(j)
    /\ Link(j, "done", [entry[ShotOf(j)] EXCEPT !.still = TRUE])

\* _finalize_video_task takes the fields one by one; the finalizers of uploads
\* and of units write them together, after the thumbnail is extracted.
OneByOne(j) == writer[j].kind = "make" /\ ShotOf(j) \notin Units

Uri(j) == IF writer[j].kind = "make" /\ j \in WithUri THEN j ELSE None

\* With a URI these are two updates of the script in a row, taken as one.
LinkClip(j) ==
    LET e == entry[ShotOf(j)] IN
    /\ writer[j].pc = "recorded" /\ IsClip(j) /\ OneByOne(j)
    /\ Link(j, "linked", [e EXCEPT !.clip = TRUE,
                                   !.uri = IF Uri(j) # None THEN Uri(j) ELSE @])

\* extract_video_thumbnail from the file as it is now, or the thumbnail removed
Extract(j, ok) ==
    LET s == ShotOf(j) IN
    /\ IsClip(j) /\ writer[j].pc = (IF OneByOne(j) THEN "linked" ELSE "recorded")
    /\ poster' = [poster EXCEPT ![s] = IF ok THEN bytes[writer[j].on] ELSE None]
    /\ writer' = [writer EXCEPT ![j].pc = IF OneByOne(j) /\ ~ok THEN "done" ELSE "framed",
                                ![j].flag = ok]
    /\ UNCHANGED <<bytes, versionVars, scriptVars, gridVars, crossed, outages>>

\* mutant: what the new result lacks is left as it was
LinkAllKeeping(j) ==
    LET e == entry[ShotOf(j)] IN
    /\ writer[j].pc = "framed" /\ ~OneByOne(j)
    /\ Link(j, "done", [e EXCEPT !.clip = TRUE, !.poster = @ \/ writer[j].flag,
                                 !.uri = IF Uri(j) # None THEN Uri(j) ELSE @])

\* apply_unit_video_assets, and the one batch of an uploaded clip
LinkAll(j) ==
    /\ writer[j].pc = "framed" /\ ~OneByOne(j)
    /\ Link(j, "done", [entry[ShotOf(j)] EXCEPT !.clip = TRUE, !.uri = Uri(j),
                                               !.poster = writer[j].flag])

LinkPoster(j) ==
    /\ writer[j].pc = "framed" /\ OneByOne(j)
    /\ Link(j, "done", [entry[ShotOf(j)] EXCEPT !.poster = TRUE])

-----------------------------------------------------------------------------
(* Restoring a version; removing a shot *)

Restore(j, r, n) ==
    /\ writer[j].pc = "idle" /\ ~torn
    /\ bytes' = [bytes EXCEPT ![r] = history[r][n]]
    /\ current' = [current EXCEPT ![r] = n]
    /\ writer' = [writer EXCEPT ![j].pc = "restored", ![j].kind = "back", ![j].on = r]
    /\ Crossing(IF BusyOn(r) = {} THEN {} ELSE {r})
    /\ UNCHANGED <<history, torn, scriptVars, poster, gridVars, outages>>

\* _sync_metadata; a script without the shot is passed over
Sync(j) ==
    LET s == ShotOf(j) IN
    /\ writer[j].pc = "restored"
    /\ entry' = IF s \notin present THEN entry
                ELSE [entry EXCEPT ![s] = IF IsClip(j)
                                          THEN [@ EXCEPT !.clip = TRUE, !.uri = None, !.poster = FALSE]
                                          ELSE [@ EXCEPT !.still = TRUE]]
    /\ Move(j, IF IsClip(j) THEN "synced" ELSE "done")
    /\ UNCHANGED <<bytes, versionVars, present, poster, gridVars, crossed, outages>>

DropPoster(j) ==
    /\ writer[j].pc = "synced"
    /\ poster' = [poster EXCEPT ![ShotOf(j)] = None]
    /\ Move(j, "done")
    /\ UNCHANGED <<bytes, versionVars, scriptVars, gridVars, crossed, outages>>

RemoveShot(j, s) ==
    /\ writer[j].pc = "idle" /\ s \in present
    /\ present' = present \ {s}
    /\ entry' = [entry EXCEPT ![s] = Blank]
    /\ Move(j, "done")
    /\ UNCHANGED <<bytes, versionVars, poster, gridVars, crossed, outages>>

-----------------------------------------------------------------------------
(* The grid: execute_grid_task and the routes of server/routers/grids.py *)

GridActive == gridRow \/ \E j \in Writer : Busy(j) /\ writer[j].kind = "grid"

GridStart(j) ==
    /\ writer[j].pc = "idle" /\ gridRow
    /\ gridRow' = FALSE
    /\ IF grid = "absent" THEN Move(j, "failed") /\ UNCHANGED grid
       ELSE /\ grid' = "generating"
            /\ writer' = [writer EXCEPT ![j].pc = "imaging", ![j].kind = "grid", ![j].on = Grid]
    /\ UNCHANGED <<bytes, versionVars, scriptVars, poster, gridFile, crossed, outages>>

\* The one except clause: the record says so, and the task fails.
GridFails(j) == Move(j, "failed") /\ grid' = "failed" /\ UNCHANGED <<gridFile, gridRow>>

GridImage(j) ==
    /\ writer[j].pc = "imaging"
    /\ \/ /\ gridFile' = TRUE /\ grid' = "splitting" /\ UNCHANGED gridRow
          /\ Move(j, "split")
       \/ GridFails(j)
    /\ UNCHANGED <<bytes, versionVars, scriptVars, poster, crossed, outages>>

\* _assign_cells looks up the shots that are left.
SplitLoad(j) ==
    /\ writer[j].pc = "split"
    /\ writer' = [writer EXCEPT ![j].pc = "cells", ![j].todo = present, ![j].cells = present]
    /\ UNCHANGED <<bytes, versionVars, scriptVars, poster, gridVars, crossed, outages>>

\* One cell: the old still tracked, the file written, then recorded.
Cell(j, s) ==
    LET r == <<"still", s>> IN
    /\ writer[j].pc = "cells" /\ writer[j].wrote = None /\ s \in writer[j].todo
    /\ Readable(r) /\ Track(r)
    /\ bytes' = [bytes EXCEPT ![r] = j]
    /\ writer' = [writer EXCEPT ![j].wrote = r, ![j].todo = @ \ {s}]
    /\ UNCHANGED <<scriptVars, poster, gridVars, crossed, outages>>

RecordCell(j) ==
    /\ writer[j].pc = "cells" /\ writer[j].wrote # None /\ ~torn
    /\ AddVersion(writer[j].wrote)
    /\ writer' = [writer EXCEPT ![j].wrote = None]
    /\ UNCHANGED <<bytes, scriptVars, poster, gridVars, crossed, outages>>

CellsBreak(j) ==
    /\ writer[j].pc = "cells" /\ torn
    /\ writer[j].wrote # None \/ \E s \in writer[j].todo : bytes[<<"still", s>>] # None
    /\ GridFails(j)
    /\ UNCHANGED <<bytes, versionVars, scriptVars, poster, crossed, outages>>

\* mutant: shots that have gone are passed over in the batch too
LinkCellsLeft(j) ==
    /\ writer[j].pc = "cells" /\ writer[j].wrote = None /\ writer[j].todo = {}
    /\ grid' = "completed"
    /\ Move(j, "saved")
    /\ UNCHANGED <<bytes, versionVars, scriptVars, poster, gridFile, gridRow, crossed, outages>>

\* batch_update_scene_assets: all, or nothing if one of them has gone
LinkCells(j) ==
    /\ writer[j].pc = "cells" /\ writer[j].wrote = None /\ writer[j].todo = {}
    /\ IF writer[j].cells \subseteq present
       THEN /\ entry' = [s \in Shot |-> IF s \in writer[j].cells
                                        THEN [entry[s] EXCEPT !.still = TRUE] ELSE entry[s]]
            /\ grid' = "completed"
            /\ Move(j, "saved") /\ UNCHANGED <<gridFile, gridRow>>
       ELSE GridFails(j) /\ UNCHANGED entry
    /\ UNCHANGED <<bytes, versionVars, present, poster, crossed, outages>>

\* The worker settles the row.
GridSettles(j) ==
    /\ writer[j].pc = "saved" /\ Move(j, "done")
    /\ UNCHANGED <<bytes, versionVars, scriptVars, poster, gridVars, crossed, outages>>

\* regenerate_grid; enqueue_task finds an active task, or makes one
Regenerate(j) ==
    /\ writer[j].pc = "idle" /\ grid # "absent"
    /\ grid' = "pending" /\ gridRow' = (gridRow \/ ~GridActive)
    /\ Move(j, "done")
    /\ UNCHANGED <<bytes, versionVars, scriptVars, poster, gridFile, crossed, outages>>

\* generate_grid reads all records first, and then takes out, group by group,
\* those that were neither pending nor generating.
ListGrids(j) ==
    /\ writer[j].pc = "idle"
    /\ writer' = [writer EXCEPT ![j].pc = "listed",
                                ![j].flag = grid \notin {"absent", "pending", "generating"}]
    /\ UNCHANGED <<bytes, versionVars, scriptVars, poster, gridVars, crossed, outages>>

CleanGrids(j) ==
    /\ writer[j].pc = "listed"
    /\ IF writer[j].flag THEN grid' = "absent" /\ gridFile' = FALSE ELSE UNCHANGED <<grid, gridFile>>
    /\ Move(j, "done")
    /\ UNCHANGED <<bytes, versionVars, scriptVars, poster, gridRow, crossed, outages>>

-----------------------------------------------------------------------------
\* The process ends.  A video task may be resumed, and then polls and downloads
\* once more; whoever was about to save versions.json may leave it cut off.
Outage ==
    LET busy == {j \in Writer : Busy(j)}
        resumable == {j \in busy : writer[j].kind = "make" /\ IsClip(j)}
    IN /\ outages < MaxOutages /\ busy # {}
       /\ outages' = outages + 1
       /\ \E S \in SUBSET resumable :
            writer' = [j \in Writer |-> IF j \notin busy THEN writer[j]
                                        ELSE [writer[j] EXCEPT !.pc = IF j \in S THEN "paid" ELSE "dead"]]
       /\ torn' \in {torn, torn \/ \E j \in busy : writer[j].wrote # None}
       /\ Crossing({writer[j].on : j \in busy})
       /\ UNCHANGED <<bytes, history, current, scriptVars, poster, gridVars>>

WriterNext(j) ==
    \/ \E r \in Asset, kind \in {"make", "put"} : Begin(j, kind, r)
    \/ Rejected(j) \/ WriteFile(j) \/ Record(j) \/ BreakOff(j)
    \/ LinkStill(j) \/ LinkClip(j) \/ LinkAll(j) \/ LinkPoster(j)
    \/ \E ok \in BOOLEAN : Extract(j, ok)
    \/ \E r \in Asset : \E n \in 1..Len(history[r]) : Restore(j, r, n)
    \/ Sync(j) \/ DropPoster(j)
    \/ \E s \in Shot : RemoveShot(j, s) \/ Cell(j, s)
    \/ GridStart(j) \/ GridImage(j) \/ SplitLoad(j)
    \/ RecordCell(j) \/ CellsBreak(j) \/ LinkCells(j) \/ GridSettles(j)
    \/ Regenerate(j) \/ ListGrids(j) \/ CleanGrids(j)

AssetNext == (\E j \in Writer : WriterNext(j)) \/ Outage

AssetSpec == AssetInit /\ [][AssetNext]_assetVars

-----------------------------------------------------------------------------
(* Properties *)

AssetTypeOK ==
    /\ bytes \in [Asset -> Content \cup {None}]
    /\ history \in [Asset -> Seq(Content)]
    /\ current \in [Asset -> Nat]
    /\ \A r \in Asset : current[r] <= Len(history[r])
    /\ torn \in BOOLEAN /\ gridFile \in BOOLEAN /\ gridRow \in BOOLEAN
    /\ present \subseteq Shot
    /\ entry \in [Shot -> [still : BOOLEAN, clip : BOOLEAN, poster : BOOLEAN,
                           uri : Writer \cup {None}]]
    /\ poster \in [Clips -> Content \cup {None}]
    /\ writer \in [Writer -> [pc : Phase, kind : {"none", "make", "put", "back", "grid"},
                              on : Asset \cup {Grid, None}, wrote : Asset \cup {None},
                              flag : BOOLEAN, todo : SUBSET Shot, cells : SUBSET Shot]]
    /\ grid \in {"absent", "pending", "generating", "splitting", "completed", "failed"}
    /\ crossed \subseteq Units
    /\ outages \in 0..MaxOutages

\* Whatever the order in which tasks, uploads and restores of one file take
\* their turns, the version that is called current is what the file holds, as
\* soon as who wrote the file last has recorded it.
InHand(r) == bytes[r] \in Writer /\ writer[bytes[r]].wrote = r
ShownIsCurrent == \A r \in Asset :
    \/ bytes[r] = None \/ InHand(r)
    \/ current[r] = 0 /\ bytes[r] = Legacy
    \/ current[r] > 0 /\ bytes[r] = history[r][current[r]]

\* The links of a video unit: what its entry names as URI and poster belongs to
\* the clip that is there, unless two writers met or one broke off.
LinksFit == \A s \in Units \ crossed :
    BusyOn(<<"clip", s>>) = {} =>
        /\ entry[s].uri \in {None, bytes[<<"clip", s>>]}
        /\ entry[s].poster => poster[s] = bytes[<<"clip", s>>]

\* A grid that is called completed has given every shot that is left a still.
GridDelivers ==
    grid = "completed" => \A s \in present : entry[s].still /\ bytes[<<"still", s>>] # None

\* The files of the shots, their versions and their links agree.
AssetInv == AssetTypeOK /\ ShownIsCurrent /\ LinksFit /\ GridDelivers

\* Nothing is overwritten that is not among the versions, except a file whose
\* writer has yet to record it or broke off before it did.
OverwrittenIsRecorded ==
    [][\A r \in Asset : bytes'[r] # bytes[r] =>
          bytes[r] \in ToSet(history[r]) \cup {None} \/ InHand(r)
          \/ bytes[r] \in ToSet(history'[r])]_assetVars

-----------------------------------------------------------------------------
(* Properties the repository states and the code does not have *)

\* upload_finalize.py, finalize_shot_video_upload: a video_uri is of the result
\* of its own generation, so the new file of a clip must not be left with an
\* old one ("旧 video_uri 指向上一次生成的 provider 端产物，与本地新文件不再对应，必须清空").
UriFollowsClip == \A s \in Clips :
    (\A j \in Writer : writer[j].pc \in {"idle", "done"}) => entry[s].uri \in {None, bytes[<<"clip", s>>]}

\* grids.py, generate_grid: records with a task at work are passed over, so that
\* the worker does not miss what it works on.
CompletedHasImage == grid = "completed" => gridFile

\* grids.py, regenerate_grid: the record is reset and its task is queued again.
PendingIsQueued == grid = "pending" => GridActive

=============================================================================
