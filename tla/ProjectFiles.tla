---------------------------- MODULE ProjectFiles ----------------------------
(***************************************************************************)
(* The files of one project (lib/project_manager.py) and the threads that  *)
(* read, change and write them back: scripts under one lock file each,     *)
(* project.json with its index of episodes under another, always taken in  *)
(* the order script, project; and the scan of                              *)
(* server/services/project_events.py, which reads scripts without a lock   *)
(* and repairs the index.  A script is the set of edits it contains and    *)
(* the edit its title is from; project.json is the index (episode to       *)
(* script and title) and the other changes it contains.                    *)
(***************************************************************************)
EXTENDS Integers, Sequences, FiniteSets, SequencesExt

CONSTANTS Op,         \* calls of the project manager, a thread each
          Files,      \* the script files, in the order of sorted(glob)
          EpisodeOf,  \* the episode each script claims
          Draft,      \* the title before any edit
          Absent,     \* no such file
          NULL, Scan, \* no holder of a lock; the scan as its holder
          MaxCrashes

Script == ToSet(Files)
Episode == {EpisodeOf[s] : s \in Script}

ASSUME ProjectFilesAssumption ==
    /\ IsFiniteSet(Op)
    /\ Files \in Seq(Script)
    /\ EpisodeOf \in [Script -> Episode]
    /\ MaxCrashes \in Nat
    /\ NULL \notin Op /\ Scan \notin Op /\ Scan # NULL /\ Draft \notin Op
    /\ Absent \notin [title : Op \cup {Draft}, edits : SUBSET Op]

VARIABLES script,   \* scripts/*.json
          index,    \* project.json: episodes[].script_file and title
          marks,    \* project.json: the other changes
          slock, plock, \* who holds .<script>.lock and .project.json.lock
          op,       \* where each call stands and what it has read
          scan,     \* the same for the scan
          crashes

vars == <<script, index, marks, slock, plock, op, scan, crashes>>

Title == Op \cup {Draft}
Entry == [file : Script, title : Title]
Content == [title : Title, edits : SUBSET Op] \cup {Absent}
Idle == [pc |-> "idle", kind |-> "none", file |-> NULL, copy |-> Absent,
         index |-> <<>>, marks |-> {}]
Resting == [pc |-> "rest", at |-> 1, known |-> <<>>, first |-> Draft,
            title |-> Draft, index |-> <<>>, marks |-> {}]

\* Each episode is written once, by one of the scripts that claim it.
Init ==
    \E bound \in [Episode -> Script] :
       /\ \A e \in Episode : EpisodeOf[bound[e]] = e
       /\ script = [s \in Script |-> IF s = bound[EpisodeOf[s]]
                                     THEN [title |-> Draft, edits |-> {}] ELSE Absent]
       /\ index = [e \in Episode |-> [file |-> bound[e], title |-> Draft]]
       /\ marks = {}
       /\ slock = [s \in Script |-> NULL] /\ plock = NULL
       /\ op = [o \in Op |-> Idle]
       /\ scan = Resting
       /\ crashes = 0

\* _apply_episode_sync
Synced(idx, s, title) == [idx EXCEPT ![EpisodeOf[s]] = [file |-> s, title |-> title]]

Goto(o, pc) == op' = [op EXCEPT ![o].pc = pc]
Release(o) == /\ slock' = [s \in Script |-> IF slock[s] = o THEN NULL ELSE slock[s]]
              /\ plock' = IF plock = o THEN NULL ELSE plock
Ends(o, pc) == Release(o) /\ Goto(o, pc)

-----------------------------------------------------------------------------
(* The calls *)

Begin(o, kind, s, pc) ==
    /\ op[o].pc = "idle"
    /\ op' = [op EXCEPT ![o] = [Idle EXCEPT !.pc = pc, !.kind = kind, !.file = s]]
    /\ UNCHANGED <<script, index, marks, slock, plock, scan, crashes>>

StartEdit(o, s) == script[s] # Absent /\ Begin(o, "edit", s, "script")
StartSave(o, s) == Begin(o, "save", s, "script")
StartUpdate(o)  == Begin(o, "update", NULL, "project")

\* mutant: the project lock of that read is kept
StartEpisodeHolding(o, e) ==
    /\ plock = NULL /\ op[o].pc = "idle"
    /\ plock' = o
    /\ op' = [op EXCEPT ![o] = [Idle EXCEPT !.pc = "script", !.kind = "episode",
                                            !.file = index[e].file]]
    /\ UNCHANGED <<script, index, marks, slock, scan, crashes>>

\* locked_episode_script: the candidate, from a read under the project lock.
StartEpisode(o, e) == plock = NULL /\ Begin(o, "episode", index[e].file, "script")

\* mutant: the lock file is not waited for
TakeScriptAnyway(o) ==
    LET s == op[o].file IN
    /\ op[o].pc = "script"
    /\ slock' = [slock EXCEPT ![s] = o]
    /\ op' = [op EXCEPT ![o].pc = IF op[o].kind = "episode" THEN "project" ELSE "write",
                        ![o].copy = IF op[o].kind = "edit" THEN script[s] ELSE Absent]
    /\ UNCHANGED <<script, index, marks, plock, scan, crashes>>

\* The script lock; locked_script loads the script under it.
TakeScript(o) ==
    LET s == op[o].file IN
    /\ op[o].pc = "script" /\ slock[s] = NULL
    /\ slock' = [slock EXCEPT ![s] = o]
    /\ op' = [op EXCEPT ![o].pc = IF op[o].kind = "episode" THEN "project" ELSE "write",
                        ![o].copy = IF op[o].kind = "edit" THEN script[s] ELSE Absent]
    /\ UNCHANGED <<script, index, marks, plock, scan, crashes>>

\* mutant: the binding is not read again under the locks
NeverRebound(o) == FALSE

Rebound(o) == index[EpisodeOf[op[o].file]].file # op[o].file

\* The project lock, and project.json read under it.  locked_episode_script
\* looks at the binding again and loads the script.
TakeProject(o) ==
    /\ op[o].pc = "project" /\ plock = NULL
    /\ op[o].kind = "episode" => ~Rebound(o)
    /\ plock' = o
    /\ op' = [op EXCEPT ![o].pc = IF op[o].kind = "episode" THEN "write" ELSE "commit",
                        ![o].copy = IF op[o].kind = "episode" THEN script[op[o].file] ELSE @,
                        ![o].index = index, ![o].marks = marks]
    /\ UNCHANGED <<script, index, marks, slock, scan, crashes>>

\* EpisodeScriptReboundError
GiveUp(o) ==
    /\ op[o].pc = "project" /\ plock = NULL
    /\ op[o].kind = "episode" /\ Rebound(o)
    /\ Ends(o, "refused")
    /\ UNCHANGED <<script, index, marks, scan, crashes>>

\* _write_script_unlocked, up to the atomic write
WriteScript(o) ==
    LET old == IF op[o].kind = "save" THEN {} ELSE op[o].copy.edits IN
    /\ op[o].pc = "write"
    /\ script' = [script EXCEPT ![op[o].file] = [title |-> o, edits |-> old \cup {o}]]
    /\ Goto(o, IF op[o].kind = "episode" THEN "commit" ELSE "project")
    /\ UNCHANGED <<index, marks, slock, plock, scan, crashes>>

\* The caller's change or the structure check raises: nothing is written.
Refuse(o) ==
    /\ op[o].pc = "write"
    /\ Ends(o, "refused")
    /\ UNCHANGED <<script, index, marks, scan, crashes>>

\* project.json is written back with the change, and the locks are left:
\* update_project, sync_episode_from_script, the end of locked_episode_script.
Commit(o) ==
    /\ op[o].pc = "commit"
    /\ IF op[o].kind = "update"
       THEN index' = op[o].index /\ marks' = op[o].marks \cup {o}
       ELSE /\ index' = Synced(op[o].index, op[o].file, script[op[o].file].title)
            /\ marks' = op[o].marks
    /\ Ends(o, "done")
    /\ UNCHANGED <<script, scan, crashes>>

-----------------------------------------------------------------------------
(* _ensure_script_index_synced, in the thread of the project's watch *)

At == Files[scan.at]

\* load_project, whose lock is held for the read alone
ScanBegin ==
    /\ scan.pc = "rest" /\ plock = NULL
    /\ scan' = [Resting EXCEPT !.pc = "look", !.known = index]
    /\ UNCHANGED <<script, index, marks, slock, plock, op, crashes>>

\* mutant: an entry is compared by its file only
AgreesOnFile(s) == scan.known[EpisodeOf[s]].file = s

Agrees(s) == scan.known[EpisodeOf[s]] = [file |-> s, title |-> script[s].title]

\* The next script, as it is now; one that agrees with the index is passed.
ScanPass ==
    /\ scan.pc = "look" /\ scan.at <= Len(Files)
    /\ script[At] # Absent => Agrees(At)
    /\ scan' = [scan EXCEPT !.at = @ + 1]
    /\ UNCHANGED <<script, index, marks, slock, plock, op, crashes>>

ScanDiffers ==
    /\ scan.pc = "look" /\ scan.at <= Len(Files)
    /\ script[At] # Absent /\ ~Agrees(At)
    /\ scan' = [scan EXCEPT !.pc = "load", !.first = script[At].title]
    /\ UNCHANGED <<script, index, marks, slock, plock, op, crashes>>

\* sync_episode_from_script loads it again, without the script lock.
ScanLoad ==
    /\ scan.pc = "load"
    /\ scan' = [scan EXCEPT !.pc = "lock", !.title = script[At].title]
    /\ UNCHANGED <<script, index, marks, slock, plock, op, crashes>>

\* mutant: the scan writes beside the lock
ScanLockAnyway ==
    /\ scan.pc = "lock"
    /\ plock' = Scan
    /\ scan' = [scan EXCEPT !.pc = "commit", !.index = index, !.marks = marks]
    /\ UNCHANGED <<script, index, marks, slock, op, crashes>>

ScanLock ==
    /\ scan.pc = "lock" /\ plock = NULL
    /\ plock' = Scan
    /\ scan' = [scan EXCEPT !.pc = "commit", !.index = index, !.marks = marks]
    /\ UNCHANGED <<script, index, marks, slock, op, crashes>>

ScanCommit ==
    /\ scan.pc = "commit"
    /\ index' = Synced(scan.index, At, scan.title)
    /\ marks' = scan.marks
    /\ plock' = NULL
    /\ scan' = [scan EXCEPT !.pc = "look", !.at = @ + 1,
                            !.known = Synced(scan.known, At, scan.first),
                            !.first = Draft, !.title = Draft, !.index = <<>>, !.marks = {}]
    /\ UNCHANGED <<script, slock, op, crashes>>

ScanEnd ==
    /\ scan.pc = "look" /\ scan.at > Len(Files)
    /\ scan' = Resting
    /\ UNCHANGED <<script, index, marks, slock, plock, op, crashes>>

ScanStep == ScanBegin \/ ScanPass \/ ScanDiffers \/ ScanLoad \/ ScanLock \/ ScanCommit \/ ScanEnd

-----------------------------------------------------------------------------
\* The process dies: the kernel drops its locks, the files stay.
Crash ==
    /\ crashes < MaxCrashes
    /\ crashes' = crashes + 1
    /\ slock' = [s \in Script |-> NULL] /\ plock' = NULL
    /\ op' = [o \in Op |-> IF op[o].pc \in {"idle", "done", "refused"} THEN op[o]
                           ELSE [op[o] EXCEPT !.pc = "refused"]]
    /\ scan' = Resting
    /\ UNCHANGED <<script, index, marks>>

Start(o) == \/ \E s \in Script : StartEdit(o, s) \/ StartSave(o, s)
            \/ StartUpdate(o)
            \/ \E e \in Episode : StartEpisode(o, e)
Takes(o) == TakeScript(o) \/ TakeProject(o) \/ GiveUp(o)
Works(o) == WriteScript(o) \/ Refuse(o) \/ Commit(o)

Next == \/ \E o \in Op : Start(o) \/ Takes(o) \/ Works(o)
        \/ ScanStep
        \/ Crash

Spec == Init /\ [][Next]_vars

\* Threads go on.  Whoever waits for a lock gets it some time: the scan rests
\* between two rounds, and the kernel wakes the waiters of a lock file.
FairSpec ==
    /\ Spec
    /\ \A o \in Op : WF_vars(Works(o)) /\ SF_vars(Takes(o))
    /\ WF_vars(ScanPass \/ ScanDiffers \/ ScanLoad \/ ScanCommit \/ ScanEnd)
    /\ SF_vars(ScanBegin \/ ScanLock)

-----------------------------------------------------------------------------
(* Properties *)

Read == [Episode -> Entry] \cup {<<>>}

\* The variables keep their ranges, and who is past a lock holds it.
FilesTypeOK ==
    /\ script \in [Script -> Content]
    /\ index \in [Episode -> Entry]
    /\ marks \subseteq Op
    /\ slock \in [Script -> Op \cup {NULL}] /\ plock \in Op \cup {NULL, Scan}
    /\ op \in [Op -> [pc : {"idle", "script", "write", "project", "commit", "done", "refused"},
                      kind : {"none", "edit", "save", "update", "episode"},
                      file : Script \cup {NULL}, copy : Content,
                      index : Read, marks : SUBSET Op]]
    /\ scan \in [pc : {"rest", "look", "load", "lock", "commit"}, at : 1..(Len(Files) + 1),
                 known : Read, first : Title, title : Title, index : Read, marks : SUBSET Op]
    /\ crashes \in 0..MaxCrashes
    /\ \A o \in Op : /\ op[o].pc = "commit" => plock = o
                     /\ op[o].pc \in {"write", "commit"} /\ op[o].file # NULL => slock[op[o].file] = o

\* No change is lost: what one call wrote into a script or into project.json
\* stays there whatever other calls, the scan or a crash do; only save_script
\* replaces a script as a whole.
EditsSurvive ==
    [][/\ marks \subseteq marks'
       /\ \A s \in Script : script[s] # Absent =>
              \/ script'[s] # Absent /\ script[s].edits \subseteq script'[s].edits
              \/ \E o \in Op : op[o] = [op[o] EXCEPT !.kind = "save", !.file = s, !.pc = "write"]]_vars

\* From its second look at the binding to its end, an edit addressed to an
\* episode works on the script the episode is bound to: nobody, the scan
\* included, binds the episode to another script meanwhile.
EpisodeEditHitsBound ==
    \A o \in Op : op[o].kind = "episode" /\ op[o].pc \in {"write", "commit"} =>
                      index[EpisodeOf[op[o].file]].file = op[o].file

\* The files are well formed, and a call that asked for an episode writes the
\* script the episode is bound to.
BindingInv == FilesTypeOK /\ EpisodeEditHitsBound

\* Every call ends: the two locks are never waited for in a circle.
CallsEnd ==
    \A o \in Op : (op[o].pc # "idle") ~> (op[o].pc \in {"done", "refused"})

Alone(s) == \A r \in Script \ {s} : script[r] # Absent => EpisodeOf[r] # EpisodeOf[s]

\* The index follows the scripts: whatever a crash cut off and whatever old
\* title a scan wrote back, a script that is the only one of its episode ends
\* up in project.json with its title.
IndexSettles ==
    \A s \in Script :
        <>[](script[s] # Absent /\ Alone(s) =>
                 index[EpisodeOf[s]] = [file |-> s, title |-> script[s].title])

\* No call waits for ever, and what calls, scan and crashes leave is put right.
FilesSettle == CallsEnd /\ IndexSettles

\* When the calls have ended, the scan stops writing to project.json.
ScanComesToRest == <>[](plock # Scan)

=============================================================================
