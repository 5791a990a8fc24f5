------------------------- MODULE ProjectFilesProofs -------------------------
(***************************************************************************)
(* Proofs about ProjectFiles, for any calls, scripts and episodes, and any *)
(* number of crashes: the inductive invariant says that what a call or the *)
(* scan has read under a lock is what the file holds until the lock goes.  *)
(***************************************************************************)
EXTENDS ProjectFiles, TLAPS

CallState == [pc : {"idle", "script", "write", "project", "commit", "done", "refused"},
              kind : {"none", "edit", "save", "update", "episode"},
              file : Script \cup {NULL}, copy : Content,
              index : Read, marks : SUBSET Op]
ScanState == [pc : {"rest", "look", "load", "lock", "commit"}, at : 1..(Len(Files) + 1),
              known : Read, first : Title, title : Title, index : Read, marks : SUBSET Op]

Ranges ==
    /\ script \in [Script -> Content]
    /\ index \in [Episode -> Entry]
    /\ marks \subseteq Op
    /\ slock \in [Script -> Op \cup {NULL}] /\ plock \in Op \cup {NULL, Scan}
    /\ op \in [Op -> CallState]
    /\ scan \in ScanState
    /\ crashes \in 0..MaxCrashes

\* Every episode is bound to a script that is there and claims it.
Bound == \A e \in Episode : /\ EpisodeOf[index[e].file] = e
                            /\ script[index[e].file] # Absent

\* A call, by what it does and how far it is: the locks it holds, and that its
\* copies are the files as they are.
Holds(c, o) ==
    /\ c.pc \in {"script", "write"} => c.kind \in {"edit", "save", "episode"}
    /\ c.pc \in {"project", "commit"} => c.kind \in {"edit", "save", "update", "episode"}
    /\ c.kind = "update" => c.file = NULL
    /\ c.kind \in {"edit", "save", "episode"} => c.file \in Script
    /\ c.kind \in {"edit", "episode"} => script[c.file] # Absent
    /\ c.pc \in {"write", "project", "commit"} /\ c.kind # "update" => slock[c.file] = o
    /\ c.pc \in {"project", "commit"} /\ c.kind = "save" => script[c.file] # Absent
    /\ c.pc = "write" /\ c.kind \in {"edit", "episode"} => c.copy = script[c.file]
    /\ c.pc = "commit" \/ (c.pc = "write" /\ c.kind = "episode") =>
         plock = o /\ c.index = index /\ c.marks = marks
    /\ c.pc \in {"write", "commit"} /\ c.kind = "episode" => index[EpisodeOf[c.file]].file = c.file
CallsInv == \A o \in Op : Holds(op[o], o)

ScanHolds(c) ==
    /\ c.pc \in {"look", "load", "lock", "commit"} => c.known \in [Episode -> Entry]
    /\ c.pc \in {"load", "lock", "commit"} => c.at <= Len(Files) /\ script[Files[c.at]] # Absent
    /\ c.pc = "commit" => plock = Scan /\ c.index = index /\ c.marks = marks

FilesInd == Ranges /\ Bound /\ CallsInv /\ ScanHolds(scan)

LEMMA FileShapes ==
    /\ Len(Files) \in Nat /\ \A i \in 1..Len(Files) : Files[i] \in Script
    /\ \A s \in Script : EpisodeOf[s] \in Episode
    /\ NULL \notin Op /\ Scan \notin Op /\ Scan # NULL
    /\ MaxCrashes \in Nat
    /\ Absent \notin [title : Title, edits : SUBSET Op]
BY ProjectFilesAssumption DEF ProjectFilesAssumption, Title

\* What a step leaves to a call that it is not a step of.
Spares(o) ==
    /\ \A s \in Script : slock[s] = o => slock'[s] = o /\ script'[s] = script[s]
    /\ plock = o => plock' = o /\ index' = index /\ marks' = marks

ScriptsStay == \A s \in Script : script[s] # Absent => script'[s] # Absent

LEMMA ScanKept ==
    ASSUME Ranges, ScriptsStay, ScanHolds(scan), Spares(Scan), scan' = scan
    PROVE  ScanHolds(scan)'
<1>1. \A i \in 1..Len(Files) : Files[i] \in Script
  BY FileShapes
<1> QED
  BY <1>1 DEF ScanHolds, Spares, ScriptsStay, Ranges, ScanState

LEMMA CallUpdates ==
    ASSUME op \in [Op -> CallState], NEW o \in Op, NEW c \in CallState, op' = [op EXCEPT ![o] = c]
    PROVE  /\ op' \in [Op -> CallState] /\ op'[o] = c
           /\ \A k \in Op \ {o} : op'[k] = op[k]
OBVIOUS

\* What is left to show of a step of one call.
LEMMA IndOf ==
    ASSUME FilesInd, NEW o \in Op, op' \in [Op -> CallState], \A k \in Op \ {o} : op'[k] = op[k],
           Holds(op[o], o)',
           ScriptsStay, \A k \in (Op \ {o}) \cup {Scan} : Spares(k),
           script' \in [Script -> Content], index' \in [Episode -> Entry], Bound', marks' \subseteq Op,
           slock' \in [Script -> Op \cup {NULL}], plock' \in Op \cup {NULL, Scan},
           UNCHANGED <<scan, crashes>>
    PROVE  FilesInd'
<1>2. \A k \in Op \ {o} : Holds(op[k], k)'
  <2> SUFFICES ASSUME NEW k \in Op \ {o}
               PROVE  Holds(op[k], k)'
    OBVIOUS
  <2>1. Holds(op[k], k) /\ op[k] \in CallState /\ op'[k] = op[k]
    BY DEF FilesInd, CallsInv, Ranges
  <2>2. Spares(k) /\ k \in Op /\ Ranges
    BY DEF FilesInd
  <2> QED
    BY <2>1, <2>2 DEF Holds, Spares, ScriptsStay, CallState
<1>3. CallsInv'
  BY <1>2 DEF CallsInv
<1>4. ScanHolds(scan)'
  BY ScanKept DEF FilesInd
<1>5. Ranges'
  BY DEF FilesInd, Ranges
<1> QED
  BY <1>3, <1>4, <1>5 DEF FilesInd

LEMMA IndBegin ==
    ASSUME FilesInd, NEW o \in Op, Start(o)
    PROVE  FilesInd'
<1>1. /\ op \in [Op -> CallState] /\ Bound /\ index \in [Episode -> Entry]
  BY DEF FilesInd, Ranges
<1>2. PICK kind \in {"edit", "save", "update", "episode"}, s \in Script \cup {NULL},
           pc \in {"script", "project"} :
         /\ Begin(o, kind, s, pc)
         /\ kind = "update" => s = NULL /\ pc = "project"
         /\ kind # "update" => s \in Script /\ pc = "script"
         /\ kind \in {"edit", "episode"} => script[s] # Absent
  <2>1. ASSUME NEW s \in Script, StartEdit(o, s)
        PROVE  Begin(o, "edit", s, "script") /\ script[s] # Absent
    BY <2>1 DEF StartEdit
  <2>2. ASSUME NEW s \in Script, StartSave(o, s)
        PROVE  Begin(o, "save", s, "script")
    BY <2>2 DEF StartSave
  <2>3. ASSUME StartUpdate(o)
        PROVE  Begin(o, "update", NULL, "project")
    BY <2>3 DEF StartUpdate
  <2>4. ASSUME NEW e \in Episode, StartEpisode(o, e)
        PROVE  /\ Begin(o, "episode", index[e].file, "script")
               /\ index[e].file \in Script /\ script[index[e].file] # Absent
    BY <1>1, <2>4 DEF StartEpisode, Bound, Entry
  <2> QED
    BY <2>1, <2>2, <2>3, <2>4 DEF Start
<1> DEFINE c == [Idle EXCEPT !.pc = pc, !.kind = kind, !.file = s]
<1>3. c \in CallState /\ c.pc = pc /\ c.kind = kind /\ c.file = s
  BY DEF Idle, CallState, Content, Read
<1>4. op' = [op EXCEPT ![o] = c] /\ UNCHANGED <<script, index, marks, slock, plock, scan, crashes>>
  BY <1>2 DEF Begin
<1> HIDE DEF c
<1>5. /\ op' \in [Op -> CallState] /\ op'[o] = c /\ \A k \in Op \ {o} : op'[k] = op[k]
  BY <1>1, <1>3, <1>4, CallUpdates
<1>6. Holds(op[o], o)'
  BY <1>2, <1>3, <1>4, <1>5 DEF Holds
<1>7. ScriptsStay /\ Bound' /\ \A k \in Op \cup {Scan} : Spares(k)
  BY <1>1, <1>4 DEF ScriptsStay, Spares, Bound
<1> QED
  BY <1>4, <1>5, <1>6, <1>7, IndOf DEF FilesInd, Ranges

LEMMA IndTakes ==
    ASSUME FilesInd, NEW o \in Op, TakeScript(o) \/ TakeProject(o)
    PROVE  FilesInd'
<1>1. /\ op \in [Op -> CallState] /\ Bound /\ index \in [Episode -> Entry] /\ Holds(op[o], o)
      /\ script \in [Script -> Content] /\ marks \subseteq Op
      /\ slock \in [Script -> Op \cup {NULL}]
  BY DEF FilesInd, Ranges, CallsInv
<1>2. CASE TakeScript(o)
  <2> DEFINE s == op[o].file
             pc == IF op[o].kind = "episode" THEN "project" ELSE "write"
             copy == IF op[o].kind = "edit" THEN script[s] ELSE Absent
             c == [op[o] EXCEPT !.pc = pc, !.copy = copy]
  <2>1. s \in Script /\ slock[s] = NULL /\ op[o].kind \in {"edit", "save", "episode"}
    BY <1>1, <1>2 DEF TakeScript, Holds
  <2>2. /\ op' = [op EXCEPT ![o] = c] /\ slock' = [slock EXCEPT ![s] = o]
        /\ UNCHANGED <<script, index, marks, plock, scan, crashes>>
    BY <1>2 DEF TakeScript
  <2>3. copy \in Content /\ pc \in {"project", "write"}
    BY <1>1, <2>1 DEF Content
  <2>4. /\ c \in CallState /\ c.pc = pc /\ c.kind = op[o].kind /\ c.file = s /\ c.copy = copy
    <3>1. op[o] \in CallState /\ marks \in SUBSET Op
      BY <1>1
    <3> HIDE DEF copy, pc
    <3> QED
      BY <2>3, <3>1 DEF CallState
  <2>5. /\ op' \in [Op -> CallState] /\ op'[o] = c /\ \A k \in Op \ {o} : op'[k] = op[k]
    <3> HIDE DEF c
    <3> QED
      BY <1>1, <2>2, <2>4, CallUpdates
  <2>6. slock' \in [Script -> Op \cup {NULL}] /\ slock'[s] = o
    BY <1>1, <2>1, <2>2
  <2>7. Holds(op[o], o)'
    <3> HIDE DEF c, copy, pc
    <3>1. /\ op'[o].pc = pc /\ op'[o].kind = op[o].kind /\ op'[o].file = s /\ op'[o].copy = copy
      BY <2>4, <2>5
    <3>2. UNCHANGED <<script, index, marks, plock>>
      BY <2>2
    <3>3. /\ op'[o].kind = "episode" => op'[o].pc = "project"
          /\ op'[o].kind # "episode" => op'[o].pc = "write"
          /\ op'[o].kind = "edit" => op'[o].copy = script[s]
      BY <2>1, <3>1 DEF pc, copy
    <3> HIDE DEF s
    <3> QED
      BY <1>1, <2>1, <2>6, <3>1, <3>2, <3>3 DEF Holds, s
  <2>8. ScriptsStay /\ Bound'
    BY <1>1, <2>2 DEF ScriptsStay, Bound
  <2>9. \A k \in (Op \ {o}) \cup {Scan} : Spares(k)
    BY <1>1, <2>1, <2>2, FileShapes DEF Spares
  <2> QED
    BY <2>2, <2>5, <2>6, <2>7, <2>8, <2>9, IndOf DEF FilesInd, Ranges
<1>3. CASE TakeProject(o)
  <2> DEFINE s == op[o].file
             pc == IF op[o].kind = "episode" THEN "write" ELSE "commit"
             copy == IF op[o].kind = "episode" THEN script[s] ELSE op[o].copy
             c == [op[o] EXCEPT !.pc = pc, !.copy = copy, !.index = index, !.marks = marks]
  <2>1. /\ plock = NULL /\ op[o].kind \in {"edit", "save", "update", "episode"} /\ op[o].pc = "project"
        /\ op[o].kind # "update" => s \in Script /\ slock[s] = o /\ script[s] # Absent
        /\ op[o].kind = "episode" => index[EpisodeOf[s]].file = s
    BY <1>1, <1>3 DEF TakeProject, Holds, Rebound
  <2>2. /\ op' = [op EXCEPT ![o] = c] /\ plock' = o
        /\ UNCHANGED <<script, index, marks, slock, scan, crashes>>
    BY <1>3 DEF TakeProject
  <2>3. copy \in Content /\ index \in Read /\ pc \in {"write", "commit"}
    BY <1>1, <2>1 DEF CallState, Read
  <2>4. /\ c \in CallState /\ c.pc = pc /\ c.kind = op[o].kind /\ c.file = s /\ c.copy = copy
        /\ c.index = index /\ c.marks = marks
    <3>1. op[o] \in CallState /\ marks \in SUBSET Op
      BY <1>1
    <3> HIDE DEF copy, pc
    <3> QED
      BY <2>3, <3>1 DEF CallState
  <2>5. /\ op' \in [Op -> CallState] /\ op'[o] = c /\ \A k \in Op \ {o} : op'[k] = op[k]
    <3> HIDE DEF c
    <3> QED
      BY <1>1, <2>2, <2>4, CallUpdates
  <2>6. Holds(op[o], o)'
    <3> HIDE DEF c, copy, pc
    <3>1. /\ op'[o].pc = pc /\ op'[o].kind = op[o].kind /\ op'[o].file = s /\ op'[o].copy = copy
          /\ op'[o].index = index /\ op'[o].marks = marks
      BY <2>4, <2>5
    <3>2. UNCHANGED <<script, index, marks, slock>> /\ plock' = o
      BY <2>2
    <3>3. /\ op'[o].kind = "episode" => op'[o].pc = "write" /\ op'[o].copy = script[s]
          /\ op'[o].kind # "episode" => op'[o].pc = "commit"
      BY <2>1, <3>1 DEF pc, copy
    <3> HIDE DEF s
    <3> QED
      BY <1>1, <2>1, <3>1, <3>2, <3>3 DEF Holds, s
  <2>7. ScriptsStay /\ Bound'
    BY <1>1, <2>2 DEF ScriptsStay, Bound
  <2>8. \A k \in (Op \ {o}) \cup {Scan} : Spares(k)
    BY <1>1, <2>1, <2>2, FileShapes DEF Spares
  <2> QED
    BY <2>2, <2>5, <2>6, <2>7, <2>8, IndOf DEF FilesInd, Ranges
<1> QED
  BY <1>2, <1>3

\* Letting go of the locks, as the end of a call.
LEMMA Released ==
    ASSUME FilesInd, NEW o \in Op, NEW pc \in {"refused", "done"}, Ends(o, pc)
    PROVE  /\ op' \in [Op -> CallState] /\ \A k \in Op \ {o} : op'[k] = op[k]
           /\ op'[o].pc = pc /\ op'[o].kind = op[o].kind /\ op'[o].file = op[o].file
           /\ slock' \in [Script -> Op \cup {NULL}] /\ plock' \in Op \cup {NULL, Scan}
           /\ \A k \in (Op \ {o}) \cup {Scan} : /\ \A s \in Script : slock[s] = k => slock'[s] = k
                                                /\ plock = k => plock' = k
<1>1. /\ op \in [Op -> CallState] /\ slock \in [Script -> Op \cup {NULL}]
      /\ plock \in Op \cup {NULL, Scan}
  BY DEF FilesInd, Ranges
<1>2. /\ op' = [op EXCEPT ![o] = [op[o] EXCEPT !.pc = pc]]
      /\ slock' = [s \in Script |-> IF slock[s] = o THEN NULL ELSE slock[s]]
      /\ plock' = IF plock = o THEN NULL ELSE plock
  BY DEF Ends, Release, Goto
<1>3. [op[o] EXCEPT !.pc = pc] \in CallState
  BY <1>1 DEF CallState
<1>4. op' \in [Op -> CallState] /\ op'[o] = [op[o] EXCEPT !.pc = pc] /\ \A k \in Op \ {o} : op'[k] = op[k]
  BY <1>1, <1>2, <1>3, CallUpdates
<1>5. op'[o].pc = pc /\ op'[o].kind = op[o].kind /\ op'[o].file = op[o].file
  BY <1>1, <1>4 DEF CallState
<1> QED
  BY <1>1, <1>2, <1>4, <1>5, FileShapes

LEMMA IndRefused ==
    ASSUME FilesInd, NEW o \in Op, GiveUp(o) \/ Refuse(o)
    PROVE  FilesInd'
<1>1. Ends(o, "refused") /\ UNCHANGED <<script, index, marks, scan, crashes>>
  BY DEF GiveUp, Refuse
<1>2. /\ op' \in [Op -> CallState] /\ \A k \in Op \ {o} : op'[k] = op[k]
      /\ op'[o].pc = "refused" /\ op'[o].kind = op[o].kind /\ op'[o].file = op[o].file
      /\ slock' \in [Script -> Op \cup {NULL}] /\ plock' \in Op \cup {NULL, Scan}
      /\ \A k \in (Op \ {o}) \cup {Scan} : /\ \A s \in Script : slock[s] = k => slock'[s] = k
                                           /\ plock = k => plock' = k
  BY <1>1, Released
<1>3. Holds(op[o], o)'
  BY <1>1, <1>2 DEF FilesInd, CallsInv, Holds
<1>4. ScriptsStay /\ Bound' /\ \A k \in (Op \ {o}) \cup {Scan} : Spares(k)
  BY <1>1, <1>2 DEF ScriptsStay, Bound, Spares, FilesInd
<1> QED
  BY <1>1, <1>2, <1>3, <1>4, IndOf DEF FilesInd, Ranges

LEMMA IndWrite ==
    ASSUME FilesInd, NEW o \in Op, WriteScript(o)
    PROVE  FilesInd'
<1> DEFINE s == op[o].file
           old == IF op[o].kind = "save" THEN {} ELSE op[o].copy.edits
           new == [title |-> o, edits |-> old \cup {o}]
           pc == IF op[o].kind = "episode" THEN "commit" ELSE "project"
           c == [op[o] EXCEPT !.pc = pc]
<1>1. /\ op \in [Op -> CallState] /\ Bound /\ index \in [Episode -> Entry] /\ Holds(op[o], o)
      /\ script \in [Script -> Content] /\ slock \in [Script -> Op \cup {NULL}]
  BY DEF FilesInd, Ranges, CallsInv
<1>2. /\ op[o].pc = "write" /\ s \in Script /\ slock[s] = o
      /\ op[o].kind \in {"edit", "save", "episode"}
      /\ op[o].kind # "save" => op[o].copy = script[s] /\ script[s] # Absent
  BY <1>1 DEF WriteScript, Holds
<1>3. /\ op' = [op EXCEPT ![o] = c] /\ script' = [script EXCEPT ![s] = new]
      /\ UNCHANGED <<index, marks, slock, plock, scan, crashes>>
  BY DEF WriteScript, Goto
<1>4. old \in SUBSET Op
  <2>1. op[o].kind # "save" => op[o].copy \in [title : Title, edits : SUBSET Op]
    BY <1>1, <1>2 DEF Content
  <2> QED
    BY <2>1
<1>5. new \in [title : Title, edits : SUBSET Op]
  <2> HIDE DEF old
  <2> QED
    BY <1>4 DEF Title
<1>6. new \in Content /\ new # Absent
  <2> HIDE DEF new
  <2> QED
    BY <1>5, FileShapes DEF Content
<1>7. /\ script' \in [Script -> Content] /\ script'[s] # Absent
      /\ \A x \in Script : x # s => script'[x] = script[x]
  <2> HIDE DEF new
  <2> QED
    BY <1>1, <1>2, <1>3, <1>6
<1>8. c \in CallState /\ c.pc = pc /\ c.kind = op[o].kind /\ c.file = s
      /\ c.index = op[o].index /\ c.marks = op[o].marks
  BY <1>1 DEF CallState
<1>9. /\ op' \in [Op -> CallState] /\ op'[o] = c /\ \A k \in Op \ {o} : op'[k] = op[k]
  <2> HIDE DEF c
  <2> QED
    BY <1>1, <1>3, <1>8, CallUpdates
<1>10. Holds(op[o], o)'
  <2>1. /\ op'[o].pc = pc /\ op'[o].kind = op[o].kind /\ op'[o].file = s
        /\ op'[o].index = op[o].index /\ op'[o].marks = op[o].marks
    BY <1>8, <1>9
  <2>2. UNCHANGED <<index, marks, slock, plock>>
    BY <1>3
  <2> HIDE DEF c, new, s
  <2> QED
    BY <1>1, <1>2, <1>7, <2>1, <2>2 DEF Holds, s
<1>11. ScriptsStay /\ Bound'
  <2>1. \A e \in Episode : index[e].file \in Script
    BY <1>1 DEF Entry
  <2> HIDE DEF new, s
  <2> QED
    BY <1>1, <1>3, <1>7, <2>1 DEF ScriptsStay, Bound
<1>12. \A k \in (Op \ {o}) \cup {Scan} : Spares(k)
  <2> HIDE DEF new, s
  <2> QED
    BY <1>2, <1>3, <1>7, FileShapes DEF Spares
<1> HIDE DEF c, new
<1> QED
  BY <1>3, <1>7, <1>9, <1>10, <1>11, <1>12, IndOf DEF FilesInd, Ranges

\* Binding an episode to a script that is there and claims it.
LEMMA SyncedBinds ==
    ASSUME index \in [Episode -> Entry], script \in [Script -> Content], Bound,
           NEW s \in Script, NEW title \in Title, script[s] # Absent,
           index' = Synced(index, s, title), script' = script
    PROVE  /\ index' \in [Episode -> Entry] /\ Bound'
           /\ index'[EpisodeOf[s]].file = s
<1>1. EpisodeOf[s] \in Episode /\ [file |-> s, title |-> title] \in Entry
  BY FileShapes DEF Entry
<1>2. index' = [index EXCEPT ![EpisodeOf[s]] = [file |-> s, title |-> title]]
  BY DEF Synced
<1> QED
  BY <1>1, <1>2 DEF Bound

LEMMA IndCommit ==
    ASSUME FilesInd, NEW o \in Op, Commit(o)
    PROVE  FilesInd'
<1> DEFINE s == op[o].file
<1>1. /\ op \in [Op -> CallState] /\ Bound /\ index \in [Episode -> Entry] /\ Holds(op[o], o)
      /\ script \in [Script -> Content] /\ marks \subseteq Op
  BY DEF FilesInd, Ranges, CallsInv
<1>2. /\ op[o].pc = "commit" /\ plock = o /\ op[o].index = index /\ op[o].marks = marks
      /\ op[o].kind \in {"edit", "save", "update", "episode"}
      /\ op[o].kind # "update" => s \in Script /\ script[s] # Absent /\ script[s].title \in Title
  BY <1>1 DEF Commit, Holds, Content
<1>3. Ends(o, "done") /\ UNCHANGED <<script, scan, crashes>>
  BY DEF Commit
<1>4. /\ op' \in [Op -> CallState] /\ \A k \in Op \ {o} : op'[k] = op[k]
      /\ op'[o].pc = "done" /\ op'[o].kind = op[o].kind /\ op'[o].file = op[o].file
      /\ slock' \in [Script -> Op \cup {NULL}] /\ plock' \in Op \cup {NULL, Scan}
      /\ \A k \in (Op \ {o}) \cup {Scan} : /\ \A x \in Script : slock[x] = k => slock'[x] = k
                                           /\ plock = k => plock' = k
  BY <1>3, Released
<1>5. index' \in [Episode -> Entry] /\ Bound' /\ marks' \subseteq Op
  <2>1. CASE op[o].kind = "update"
    BY <1>1, <1>2, <1>3, <2>1 DEF Commit, Bound
  <2>2. CASE op[o].kind # "update"
    <3>1. index' = Synced(index, s, script[s].title) /\ marks' = marks
      BY <1>2, <2>2 DEF Commit
    <3> HIDE DEF s
    <3> QED
      BY <1>1, <1>2, <1>3, <2>2, <3>1, SyncedBinds
  <2> QED
    BY <2>1, <2>2
<1>6. Holds(op[o], o)'
  BY <1>1, <1>3, <1>4 DEF Holds
<1>7. ScriptsStay /\ \A k \in (Op \ {o}) \cup {Scan} : Spares(k)
  BY <1>2, <1>3, <1>4, FileShapes DEF ScriptsStay, Spares
<1> QED
  BY <1>1, <1>3, <1>4, <1>5, <1>6, <1>7, IndOf

-----------------------------------------------------------------------------
(* The scan and the end of the process *)

\* What is left to show of a step of the scan.
LEMMA IndOfScan ==
    ASSUME FilesInd, UNCHANGED <<script, slock, op, crashes>>,
           scan' \in ScanState, ScanHolds(scan)',
           index' \in [Episode -> Entry], Bound', marks' \subseteq Op, plock' \in {NULL, Scan, plock},
           plock \in Op => UNCHANGED <<plock, index, marks>>
    PROVE  FilesInd'
<1>1. ScriptsStay /\ \A k \in Op : Spares(k)
  BY FileShapes DEF ScriptsStay, Spares
<1>2. CallsInv'
  <2> SUFFICES ASSUME NEW k \in Op
               PROVE  Holds(op[k], k)'
    BY DEF CallsInv
  <2>1. Holds(op[k], k) /\ op[k] \in CallState /\ op' = op /\ Spares(k)
    BY <1>1 DEF FilesInd, CallsInv, Ranges
  <2> QED
    BY <1>1, <2>1 DEF Holds, Spares, ScriptsStay, CallState
<1>3. Ranges'
  BY DEF FilesInd, Ranges
<1> QED
  BY <1>2, <1>3 DEF FilesInd

LEMMA IndScan ==
    ASSUME FilesInd, ScanStep
    PROVE  FilesInd'
<1>1. /\ scan \in ScanState /\ ScanHolds(scan) /\ Bound /\ index \in [Episode -> Entry]
      /\ script \in [Script -> Content] /\ marks \subseteq Op /\ plock \in Op \cup {NULL, Scan}
  BY DEF FilesInd, Ranges
<1>2. /\ Len(Files) \in Nat /\ \A i \in 1..Len(Files) : Files[i] \in Script
      /\ NULL \notin Op /\ Scan \notin Op /\ Scan # NULL
  BY FileShapes
<1>3. \A s \in Script : script[s] # Absent => script[s].title \in Title
  BY <1>1 DEF Content
<1>4. UNCHANGED <<script, slock, op, crashes>>
  BY DEF ScanStep, ScanBegin, ScanPass, ScanDiffers, ScanLoad, ScanLock, ScanCommit, ScanEnd
<1>5. Resting \in ScanState /\ Resting.pc = "rest"
  BY <1>2 DEF Resting, ScanState, Read, Title
<1>6. CASE ScanBegin
  <2>1. /\ scan' = [Resting EXCEPT !.pc = "look", !.known = index]
        /\ UNCHANGED <<plock, index, marks>>
    BY <1>6 DEF ScanBegin
  <2>2. scan' \in ScanState /\ scan'.pc = "look" /\ scan'.known = index
    BY <1>1, <1>5, <2>1 DEF ScanState, Read
  <2>3. ScanHolds(scan)'
    BY <1>1, <2>1, <2>2 DEF ScanHolds
  <2> QED
    BY <1>1, <1>4, <2>1, <2>2, <2>3, IndOfScan DEF Bound
<1>7. CASE ScanPass
  <2>1. /\ scan.pc = "look" /\ scan.at <= Len(Files) /\ UNCHANGED <<plock, index, marks>>
        /\ scan' = [scan EXCEPT !.at = scan.at + 1]
    BY <1>7 DEF ScanPass
  <2>2. scan' \in ScanState /\ scan'.pc = "look" /\ scan'.known = scan.known
    BY <1>1, <1>2, <2>1 DEF ScanState
  <2>3. ScanHolds(scan)'
    BY <1>1, <2>1, <2>2 DEF ScanHolds
  <2> QED
    BY <1>1, <1>4, <2>1, <2>2, <2>3, IndOfScan DEF Bound
<1>8. CASE ScanDiffers
  <2>1. /\ scan.pc = "look" /\ scan.at <= Len(Files) /\ UNCHANGED <<plock, index, marks>>
        /\ script[Files[scan.at]] # Absent
        /\ scan' = [scan EXCEPT !.pc = "load", !.first = script[Files[scan.at]].title]
    BY <1>8 DEF ScanDiffers, At
  <2>2. Files[scan.at] \in Script /\ script[Files[scan.at]].title \in Title
    BY <1>1, <1>2, <1>3, <2>1 DEF ScanState
  <2>3. scan' \in ScanState /\ scan'.pc = "load" /\ scan'.known = scan.known /\ scan'.at = scan.at
    BY <1>1, <2>1, <2>2 DEF ScanState
  <2>4. ScanHolds(scan)'
    BY <1>1, <1>4, <2>1, <2>3 DEF ScanHolds
  <2> QED
    BY <1>1, <1>4, <2>1, <2>3, <2>4, IndOfScan DEF Bound
<1>9. CASE ScanLoad
  <2>1. /\ scan.pc = "load" /\ UNCHANGED <<plock, index, marks>>
        /\ scan' = [scan EXCEPT !.pc = "lock", !.title = script[Files[scan.at]].title]
    BY <1>9 DEF ScanLoad, At
  <2>2. script[Files[scan.at]].title \in Title
    BY <1>1, <1>2, <1>3, <2>1 DEF ScanState, ScanHolds
  <2>3. scan' \in ScanState /\ scan'.pc = "lock" /\ scan'.known = scan.known /\ scan'.at = scan.at
    BY <1>1, <2>1, <2>2 DEF ScanState
  <2>4. ScanHolds(scan)'
    BY <1>1, <1>4, <2>1, <2>3 DEF ScanHolds
  <2> QED
    BY <1>1, <1>4, <2>1, <2>3, <2>4, IndOfScan DEF Bound
<1>10. CASE ScanLock
  <2>1. /\ scan.pc = "lock" /\ plock = NULL /\ plock' = Scan /\ UNCHANGED <<index, marks>>
        /\ scan' = [scan EXCEPT !.pc = "commit", !.index = index, !.marks = marks]
    BY <1>10 DEF ScanLock
  <2>2. /\ scan' \in ScanState /\ scan'.pc = "commit" /\ scan'.known = scan.known
        /\ scan'.at = scan.at /\ scan'.index = index /\ scan'.marks = marks
    BY <1>1, <2>1 DEF ScanState, Read
  <2>3. ScanHolds(scan)'
    BY <1>1, <1>4, <2>1, <2>2 DEF ScanHolds
  <2> QED
    BY <1>1, <1>2, <1>4, <2>1, <2>2, <2>3, IndOfScan DEF Bound
<1>11. CASE ScanCommit
  <2> DEFINE s == Files[scan.at]
  <2>1. /\ scan.pc = "commit" /\ plock = Scan /\ scan.index = index /\ scan.marks = marks
        /\ s \in Script /\ script[s] # Absent /\ scan.at <= Len(Files)
        /\ scan.known \in [Episode -> Entry] /\ scan.title \in Title /\ scan.first \in Title
    BY <1>1, <1>2, <1>11 DEF ScanCommit, ScanHolds, ScanState
  <2>2. /\ index' = Synced(index, s, scan.title) /\ marks' = marks /\ plock' = NULL
        /\ scan' = [scan EXCEPT !.pc = "look", !.at = scan.at + 1,
                                !.known = Synced(scan.known, s, scan.first),
                                !.first = Draft, !.title = Draft, !.index = <<>>, !.marks = {}]
    BY <1>11, <2>1 DEF ScanCommit, At
  <2>3. Synced(scan.known, s, scan.first) \in [Episode -> Entry]
    BY <2>1, FileShapes DEF Synced, Entry
  <2> HIDE DEF s
  <2>4. scan' \in ScanState /\ scan'.pc = "look" /\ scan'.known = Synced(scan.known, s, scan.first)
    <3>1. scan.at + 1 \in 1..(Len(Files) + 1)
      BY <1>1, <1>2, <2>1 DEF ScanState
    <3>2. Synced(scan.known, s, scan.first) \in Read /\ <<>> \in Read /\ Draft \in Title
      BY <2>3 DEF Read, Title
    <3> QED
      BY <1>1, <2>2, <3>1, <3>2 DEF ScanState
  <2>5. ScanHolds(scan)'
    BY <2>3, <2>4 DEF ScanHolds
  <2>6. index' \in [Episode -> Entry] /\ Bound'
    BY <1>1, <1>4, <2>1, <2>2, SyncedBinds
  <2> QED
    BY <1>1, <1>2, <1>4, <2>1, <2>2, <2>4, <2>5, <2>6, IndOfScan
<1>12. CASE ScanEnd
  <2>1. scan' = Resting /\ UNCHANGED <<plock, index, marks>>
    BY <1>12 DEF ScanEnd
  <2>2. ScanHolds(scan)'
    BY <1>5, <2>1 DEF ScanHolds
  <2> QED
    BY <1>1, <1>4, <1>5, <2>1, <2>2, IndOfScan DEF Bound
<1> QED
  BY <1>6, <1>7, <1>8, <1>9, <1>10, <1>11, <1>12 DEF ScanStep

LEMMA IndCrash ==
    ASSUME FilesInd, Crash
    PROVE  FilesInd'
<1>1. Ranges /\ Bound /\ CallsInv /\ op \in [Op -> CallState] /\ crashes \in Nat /\ MaxCrashes \in Nat
  BY FileShapes DEF FilesInd, Ranges
<1>2. /\ UNCHANGED <<script, index, marks>> /\ scan' = Resting
      /\ slock' = [s \in Script |-> NULL] /\ plock' = NULL /\ crashes' \in 0..MaxCrashes
      /\ op' = [o \in Op |-> IF op[o].pc \in {"idle", "done", "refused"} THEN op[o]
                             ELSE [op[o] EXCEPT !.pc = "refused"]]
  BY <1>1 DEF Crash
<1>3. \A o \in Op : /\ op'[o] \in CallState
                    /\ op'[o].kind = op[o].kind /\ op'[o].file = op[o].file
                    /\ op'[o].pc \in {"idle", "done", "refused"}
  BY <1>1, <1>2 DEF CallState
<1>4. op' \in [Op -> CallState]
  BY <1>2, <1>3
<1>5. CallsInv'
  BY <1>1, <1>2, <1>3 DEF CallsInv, Holds
<1>6. Resting \in ScanState /\ Resting.pc = "rest"
  BY FileShapes DEF Resting, ScanState, Read, Title
<1>7. ScanHolds(scan)'
  BY <1>2, <1>6 DEF ScanHolds
<1>8. Ranges' /\ Bound'
  BY <1>1, <1>2, <1>4, <1>6 DEF Ranges, Bound
<1> QED
  BY <1>5, <1>7, <1>8 DEF FilesInd

LEMMA IndStep == FilesInd /\ [Next]_vars => FilesInd'
<1> SUFFICES ASSUME FilesInd, [Next]_vars
             PROVE  FilesInd'
  OBVIOUS
<1>1. CASE UNCHANGED vars
  BY <1>1 DEF vars, FilesInd, Ranges, Bound, CallsInv, Holds, ScanHolds
<1> QED
  BY <1>1, IndBegin, IndTakes, IndRefused, IndWrite, IndCommit, IndScan, IndCrash
     DEF Next, Takes, Works

LEMMA IndInit == Init => FilesInd
<1> SUFFICES ASSUME Init
             PROVE  FilesInd
  OBVIOUS
<1>1. PICK bound \in [Episode -> Script] :
         /\ \A e \in Episode : EpisodeOf[bound[e]] = e
         /\ script = [s \in Script |-> IF s = bound[EpisodeOf[s]]
                                       THEN [title |-> Draft, edits |-> {}] ELSE Absent]
         /\ index = [e \in Episode |-> [file |-> bound[e], title |-> Draft]]
  BY DEF Init
<1>2. /\ marks = {} /\ slock = [s \in Script |-> NULL] /\ plock = NULL
      /\ op = [o \in Op |-> Idle] /\ scan = Resting /\ crashes = 0
  BY DEF Init
<1> DEFINE new == [title |-> Draft, edits |-> {}]
<1>3. new \in [title : Title, edits : SUBSET Op]
  BY DEF Title
<1>4. new \in Content /\ new # Absent /\ Absent \in Content
  <2> HIDE DEF new
  <2> QED
    BY <1>3, FileShapes DEF Content
<1>5. script \in [Script -> Content]
  BY <1>1, <1>4
<1>6. index \in [Episode -> Entry]
  BY <1>1 DEF Entry, Title
<1>7. Bound
  <2> SUFFICES ASSUME NEW e \in Episode
               PROVE  EpisodeOf[index[e].file] = e /\ script[index[e].file] # Absent
    BY DEF Bound
  <2>1. index[e].file = bound[e] /\ bound[e] \in Script /\ EpisodeOf[bound[e]] = e
    BY <1>1
  <2>2. script[bound[e]] = new
    BY <1>1, <2>1
  <2> HIDE DEF new
  <2> QED
    BY <1>4, <2>1, <2>2
<1>8. Idle \in CallState /\ Idle.pc = "idle" /\ Idle.kind = "none"
  BY DEF Idle, CallState, Content, Read
<1>9. Resting \in ScanState /\ Resting.pc = "rest"
  BY FileShapes DEF Resting, ScanState, Read, Title
<1>10. CallsInv
  BY <1>2, <1>8 DEF CallsInv, Holds
<1>11. ScanHolds(scan)
  BY <1>2, <1>9 DEF ScanHolds
<1>12. Ranges
  BY <1>2, <1>5, <1>6, <1>8, <1>9, FileShapes DEF Ranges
<1> QED
  BY <1>7, <1>10, <1>11, <1>12 DEF FilesInd

-----------------------------------------------------------------------------
(* The theorems *)

LEMMA IndHolds == Spec => []FilesInd
BY IndInit, IndStep, PTL DEF Spec

\* Whatever calls, scan and crashes do, the files stay well formed, who is past
\* a lock holds it, and an edit addressed to an episode works on the script the
\* episode is bound to.
THEOREM BindingHolds == Spec => []BindingInv
<1>1. FilesInd => BindingInv
  <2> SUFFICES ASSUME FilesInd
               PROVE  BindingInv
    OBVIOUS
  <2>1. \A o \in Op : /\ op[o].pc = "commit" => plock = o
                      /\ op[o].pc \in {"write", "commit"} /\ op[o].file # NULL => slock[op[o].file] = o
    BY DEF FilesInd, CallsInv, Holds
  <2>2. FilesTypeOK
    BY <2>1 DEF FilesInd, Ranges, FilesTypeOK, CallState, ScanState
  <2>3. EpisodeEditHitsBound
    BY DEF FilesInd, CallsInv, Holds, EpisodeEditHitsBound
  <2> QED
    BY <2>2, <2>3 DEF BindingInv
<1> QED
  BY <1>1, IndHolds, PTL

LEMMA EditsStep ==
    ASSUME FilesInd, [Next]_vars
    PROVE  /\ marks \subseteq marks'
           /\ \A s \in Script : script[s] # Absent =>
                  \/ script'[s] # Absent /\ script[s].edits \subseteq script'[s].edits
                  \/ \E o \in Op : op[o] = [op[o] EXCEPT !.kind = "save", !.file = s, !.pc = "write"]
<1>1. /\ op \in [Op -> CallState] /\ script \in [Script -> Content] /\ \A o \in Op : Holds(op[o], o)
      /\ ScanHolds(scan)
  BY DEF FilesInd, Ranges, CallsInv
<1>2. ASSUME NEW o \in Op, WriteScript(o), NEW s \in Script, script[s] # Absent
      PROVE  \/ script'[s] # Absent /\ script[s].edits \subseteq script'[s].edits
             \/ \E k \in Op : op[k] = [op[k] EXCEPT !.kind = "save", !.file = s, !.pc = "write"]
  <2>1. CASE s # op[o].file
    BY <1>1, <1>2, <2>1 DEF WriteScript
  <2>2. CASE s = op[o].file /\ op[o].kind = "save"
    <3>1. op[o] = [op[o] EXCEPT !.kind = "save", !.file = s, !.pc = "write"]
      BY <1>1, <1>2, <2>2 DEF WriteScript, CallState
    <3> QED
      BY <3>1
  <2>3. CASE s = op[o].file /\ op[o].kind # "save"
    <3>1. op[o].copy = script[s]
      BY <1>1, <1>2, <2>3 DEF WriteScript, Holds
    <3>2. script'[s] = [title |-> o, edits |-> script[s].edits \cup {o}]
      BY <1>1, <1>2, <2>3, <3>1 DEF WriteScript
    <3>3. script'[s] # Absent
      <4>1. script[s] \in [title : Title, edits : SUBSET Op]
        BY <1>1, <1>2 DEF Content
      <4>2. script'[s] \in [title : Title, edits : SUBSET Op]
        BY <3>2, <4>1 DEF Title
      <4> QED
        BY <4>2, FileShapes
    <3>4. script[s].edits \subseteq script'[s].edits
      BY <3>2
    <3> QED
      BY <3>3, <3>4, Zenon
  <2> QED
    BY <2>1, <2>2, <2>3
<1>3. ASSUME NEW o \in Op, WriteScript(o)
      PROVE  marks \subseteq marks'
  BY <1>3 DEF WriteScript
<1>4. CASE UNCHANGED <<script, marks>>
  BY <1>4
<1>5. ASSUME NEW o \in Op, Commit(o)
      PROVE  script' = script /\ marks \subseteq marks'
  BY <1>1, <1>5 DEF Commit, Holds
<1>6. CASE ScanCommit
  <2>1. script' = script /\ marks' = marks
    BY <1>1, <1>6 DEF ScanCommit, ScanHolds
  <2> QED
    BY <2>1
<1>7. ASSUME ~(\E o \in Op : WriteScript(o) \/ Commit(o)), ~ScanCommit
      PROVE  UNCHANGED <<script, marks>>
  BY <1>7 DEF Next, vars, Start, Takes, Works, StartEdit, StartSave, StartUpdate, StartEpisode, Begin,
     TakeScript, TakeProject, GiveUp, Refuse, ScanStep, ScanBegin, ScanPass, ScanDiffers, ScanLoad,
     ScanLock, ScanEnd, Crash
<1> QED
  BY <1>2, <1>3, <1>4, <1>5, <1>6, <1>7

\* No change is lost, in a script or in project.json, whoever reads, changes and
\* writes back beside it; only save_script replaces a script as a whole.
THEOREM NoEditIsLost == Spec => EditsSurvive
<1>1. FilesInd /\ [Next]_vars =>
        [/\ marks \subseteq marks'
         /\ \A s \in Script : script[s] # Absent =>
              \/ script'[s] # Absent /\ script[s].edits \subseteq script'[s].edits
              \/ \E o \in Op : op[o] = [op[o] EXCEPT !.kind = "save", !.file = s, !.pc = "write"]]_vars
  BY EditsStep
<1> QED
  BY <1>1, IndHolds, PTL DEF Spec, EditsSurvive

=============================================================================
