--------------------------- MODULE AssistantClient ---------------------------
(***************************************************************************)
(* The chat pane of one browser tab (useAssistantSession.ts over           *)
(* assistant-store.ts): it lists the sessions of a project, loads one,     *)
(* follows its stream and posts to it.  Every answer comes later, when the *)
(* user may have gone on; what protects the pane are the checks of the     *)
(* current session, the version of a send and the seq of an entry.         *)
(*                                                                         *)
(* Of the server there is what the pane asks it for: how many entries a    *)
(* session has and whether it is running (Timeline models how they come).  *)
(***************************************************************************)
EXTENDS Integers, Sequences, FiniteSets, SequencesExt

CONSTANTS Session, Project, Home,  \* Home[s]: the project of session s
          Unborn,                  \* sessions that do not exist at first
          NULL,
          MaxEntries,              \* bound on the entries of all sessions
          MaxMoves,                \* bound on what the user opens
          MaxLoads, MaxPosts,      \* calls in flight at a time
          MaxFaults                \* bound on lost answers and connections

\* null is no session, no project and no stream.
ASSUME AssistantClientAssumption ==
    /\ Home \in [Session -> Project] /\ Unborn \subseteq Session
    /\ NULL \notin Session /\ NULL \notin Project
    /\ NULL \notin [on : Session, cursor : Int, state : {"open", "lost", "dead"}]
    /\ MaxLoads \in Nat /\ MaxPosts \in Nat

VARIABLES size, running, born,     \* the server
          project, cur,            \* the hook's project and currentSessionId
          entries,                 \* seq -> the session the entry is from
          shown, sending,          \* sessionStatus (and statusRef), sending
          stream, timer,           \* the EventSource, the reconnect timer
          listing,                 \* init() waits for the list of sessions
          load, post,              \* loadSession and sendMessage in flight
          failedSend,              \* failedSendRef: the message whose answer was lost
          strayed,                 \* history: what the user did meanwhile
          moves, faults

vars == <<size, running, born, project, cur, entries, shown, sending, stream, timer,
          listing, load, post, failedSend, strayed, moves, faults>>
server == <<size, running, born>>
pane == <<project, cur, entries, shown, sending>>
source == <<stream, timer>>
bounds == <<moves, faults>>

Load == 1..MaxLoads
Post == 1..MaxPosts
NoLoad == [pc |-> "off", on |-> NULL, was |-> NULL]
NoPost == [pc |-> "off", was |-> NULL, to |-> NULL, live |-> FALSE, seq |-> -1, from |-> -1]
Empty == [n \in {} |-> NULL]

Init ==
    /\ born = Session \ Unborn
    /\ size = [s \in Session |-> IF s \in born THEN 1 ELSE 0]
    /\ running = [s \in Session |-> FALSE]
    /\ project \in Project /\ cur = NULL /\ entries = Empty
    /\ shown = "idle" /\ sending = FALSE
    /\ stream = NULL /\ timer = NULL
    /\ listing = TRUE
    /\ load = [i \in Load |-> NoLoad] /\ post = [i \in Post |-> NoPost] /\ failedSend = NULL
    /\ strayed = {} /\ moves = 0 /\ faults = 0

-----------------------------------------------------------------------------
(* The server and other tabs *)

Grow(s) == FoldFunction(+, 0, size) < MaxEntries /\ size' = [size EXCEPT ![s] = @ + 1]

OtherTabPosts(s) ==
    /\ s \in born /\ ~running[s] /\ Grow(s)
    /\ running' = [running EXCEPT ![s] = TRUE]
    /\ UNCHANGED <<born, pane, source, listing, load, post, strayed, failedSend, bounds>>

TurnGoesOn(s) ==
    /\ running[s] /\ Grow(s)
    /\ UNCHANGED <<running, born, pane, source, listing, load, post, strayed, failedSend, bounds>>

TurnEnds(s) ==
    /\ running[s]
    /\ running' = [running EXCEPT ![s] = FALSE]
    /\ UNCHANGED <<size, born, pane, source, listing, load, post, strayed, failedSend, bounds>>

-----------------------------------------------------------------------------
(* The store, and the stream of the pane *)

LastSeq(es) == IF DOMAIN es = {} THEN -1 ELSE Max(DOMAIN es)

\* appendEntry
AppendEntry(es, s, n) ==
    IF n <= LastSeq(es) THEN es ELSE [m \in DOMAIN es \cup {n} |-> IF m = n THEN s ELSE es[m]]

\* mutant: the frame replaces what is there
Replace(es, s, ns) == [n \in ns |-> s]

\* setEntries: mergeEntriesBySeq
Merge(es, s, ns) == [n \in DOMAIN es \cup ns |-> IF n \in DOMAIN es THEN es[n] ELSE s]

\* closeStream
CloseStream == stream' = NULL /\ timer' = NULL

\* connectStream, when the store holds es: a healthy stream of s is kept.
Connect(s, es) ==
    IF stream # NULL /\ stream.on = s /\ stream.state # "dead" THEN UNCHANGED source
    ELSE stream' = [on |-> s, cursor |-> LastSeq(es), state |-> "open"] /\ timer' = NULL

Streams(state) == stream # NULL /\ stream.state = state
Turned(state) == stream' = [stream EXCEPT !.state = state]

\* mutant: the events of any stream are taken
ActiveAnyway == TRUE

\* isActiveStream (a source that has been closed fires no events)
Active == cur = stream.on

StreamEntry ==
    /\ Streams("open") /\ stream.cursor + 1 < size[stream.on]
    /\ stream' = [stream EXCEPT !.cursor = @ + 1]
    /\ entries' = IF Active THEN AppendEntry(entries, stream.on, stream.cursor + 1) ELSE entries
    /\ UNCHANGED <<server, project, cur, shown, sending, timer, listing, load, post, strayed, failedSend, bounds>>

\* The status event behind the last entry; the server ends the stream, and the
\* browser opens it again unless the pane has closed it.
StreamStatus ==
    /\ Streams("open") /\ stream.cursor + 1 >= size[stream.on] /\ ~running[stream.on]
    /\ IF Active THEN shown' = "ended" /\ sending' = FALSE /\ CloseStream
       ELSE Turned("lost") /\ UNCHANGED <<shown, sending, timer>>
    /\ UNCHANGED <<server, project, cur, entries, listing, load, post, strayed, failedSend, bounds>>

\* The connection breaks; the browser reconnects with Last-Event-ID.
StreamLost ==
    /\ Streams("open") /\ faults < MaxFaults /\ faults' = faults + 1
    /\ Turned("lost")
    /\ UNCHANGED <<server, pane, timer, listing, load, post, strayed, failedSend, moves>>

BrowserReconnects ==
    /\ Streams("lost") /\ Turned("open")
    /\ UNCHANGED <<server, pane, timer, listing, load, post, strayed, failedSend, bounds>>

\* mutant: onerror waits for the browser
OnErrorIdle ==
    /\ Streams("open") /\ faults < MaxFaults /\ faults' = faults + 1
    /\ Turned("dead") /\ timer' = timer
    /\ UNCHANGED <<server, pane, listing, load, post, strayed, failedSend, moves>>

\* The connection is given up: onerror starts the timer if it matters.
OnError ==
    /\ Streams("open") /\ faults < MaxFaults /\ faults' = faults + 1
    /\ Turned("dead")
    /\ timer' = IF Active /\ (shown = "running" \/ sending) THEN stream.on ELSE timer
    /\ UNCHANGED <<server, pane, listing, load, post, strayed, failedSend, moves>>

TimerFires ==
    /\ timer # NULL
    /\ Connect(timer, entries)
    /\ UNCHANGED <<server, pane, listing, load, post, strayed, failedSend, bounds>>

-----------------------------------------------------------------------------
(* loadSession *)

LoadAt(i, pc) == load[i].pc = pc
Begin(s) ==
    \E i \in Load : /\ LoadAt(i, "off") /\ \A j \in Load : LoadAt(j, "off") => i <= j
                    /\ load' = [load EXCEPT ![i] = [NoLoad EXCEPT !.pc = "get", !.on = s]]
EndLoad(i) == load' = [load EXCEPT ![i] = NoLoad]

\* getAssistantSession is answered: the status as it is now, used later.
ServerGets(i) ==
    /\ LoadAt(i, "get")
    /\ load' = [load EXCEPT ![i].pc = "got", ![i].was = running[load[i].on]]
    /\ UNCHANGED <<server, pane, source, listing, post, strayed, failedSend, bounds>>

\* Any failure of the two calls is silent.
LoadFails(i) ==
    /\ load[i].pc \in {"get", "list"} /\ faults < MaxFaults /\ faults' = faults + 1
    /\ EndLoad(i) /\ strayed' = strayed \cup {"load"}
    /\ UNCHANGED <<server, pane, source, listing, post, failedSend, moves>>

\* mutant: the status is shown, the stream left to the next event
LoadStatusOnly(i) ==
    /\ LoadAt(i, "got")
    /\ shown' = (IF load[i].was THEN "running" ELSE "ended")
    /\ IF load[i].was THEN EndLoad(i) ELSE load' = [load EXCEPT ![i].pc = "list"]
    /\ UNCHANGED <<server, project, cur, entries, sending, source, listing, post, strayed, failedSend, bounds>>

\* The current session is not looked at here.
LoadStatus(i) ==
    /\ LoadAt(i, "got")
    /\ IF load[i].was
         THEN shown' = "running" /\ Connect(load[i].on, entries) /\ EndLoad(i)
         ELSE /\ shown' = "ended" /\ UNCHANGED source
              /\ load' = [load EXCEPT ![i].pc = "list"]
    /\ UNCHANGED <<server, project, cur, entries, sending, listing, post, strayed, failedSend, bounds>>

\* mutant: the current session is not looked at here either
LoadAnyEntries(i) ==
    /\ LoadAt(i, "list")
    /\ entries' = Merge(entries, load[i].on, 0..(size[load[i].on] - 1))
    /\ EndLoad(i)
    /\ UNCHANGED <<server, project, cur, shown, sending, source, listing, post, strayed, failedSend, bounds>>

\* listAssistantEntries
LoadEntries(i) ==
    /\ LoadAt(i, "list")
    /\ entries' = IF cur = load[i].on THEN Merge(entries, cur, 0..(size[cur] - 1)) ELSE entries
    /\ EndLoad(i)
    /\ UNCHANGED <<server, project, cur, shown, sending, source, listing, post, strayed, failedSend, bounds>>

-----------------------------------------------------------------------------
(* sendMessage *)

PostAt(i, pc) == post[i].pc = pc
EndPost(i) == post' = [post EXCEPT ![i] = NoPost]
\* invalidatePendingSend: sends in flight have an older version.
Invalidate == /\ post' = [i \in Post |-> [post[i] EXCEPT !.live = FALSE]]
              /\ sending' = FALSE

\* What is sent, and the same message again: its key is that of the entry the
\* server has, if the answer was lost.
Message == [NoPost EXCEPT !.pc = "sent", !.was = cur, !.to = cur, !.live = TRUE, !.from = project]
Again == [Message EXCEPT !.to = failedSend.to, !.seq = failedSend.seq]
SameSignature == failedSend # NULL /\ failedSend.was = cur /\ failedSend.from = project

\* The input is disabled while the pane shows a running session.  A send is of
\* a version of its own: the answers to the earlier ones no longer count.
Send(i) ==
    /\ project # NULL /\ PostAt(i, "off") /\ ~sending /\ shown # "running"
    /\ sending' = TRUE
    /\ \E m \in {Message} \cup (IF SameSignature THEN {Again} ELSE {}) :
         post' = [j \in Post |-> IF j = i THEN m ELSE [post[j] EXCEPT !.live = FALSE]]
    /\ strayed' = strayed \cup (IF listing THEN {"early"} ELSE {})
    /\ UNCHANGED <<server, project, cur, entries, shown, source, listing, load, failedSend, bounds>>

\* send_or_create: refused for a session of another project and a busy one.
ServerRefuses(i) ==
    /\ PostAt(i, "sent") /\ post[i].to # NULL /\ post[i].seq = -1
    /\ Home[post[i].to] # post[i].from \/ running[post[i].to]
    /\ post' = [post EXCEPT ![i].pc = "failed"]
    /\ UNCHANGED <<server, pane, source, listing, load, strayed, failedSend, bounds>>

\* A key the server knows brings the entry that is there, whether or not the
\* session is running.
ServerRepeats(i) ==
    /\ PostAt(i, "sent") /\ post[i].seq # -1
    /\ post' = [post EXCEPT ![i].pc = IF post[i].was = NULL THEN "created" ELSE "accepted"]
    /\ UNCHANGED <<server, pane, source, listing, load, strayed, failedSend, bounds>>

ServerAccepts(i) ==
    /\ PostAt(i, "sent") /\ post[i].seq = -1
    /\ \E s \in Session :
         /\ IF post[i].was = NULL THEN s \in Session \ born ELSE s = post[i].was /\ ~running[s]
         /\ Home[s] = post[i].from
         /\ Grow(s) /\ running' = [running EXCEPT ![s] = TRUE] /\ born' = born \cup {s}
         /\ post' = [post EXCEPT ![i].pc = IF post[i].was = NULL THEN "created" ELSE "accepted",
                                 ![i].to = s, ![i].seq = size[s]]
    /\ UNCHANGED <<pane, source, listing, load, strayed, failedSend, bounds>>

AnswerLost(i) ==
    /\ post[i].pc \in {"created", "accepted"} /\ faults < MaxFaults /\ faults' = faults + 1
    /\ post' = [post EXCEPT ![i].pc = "failed"]
    /\ UNCHANGED <<server, pane, source, listing, load, strayed, failedSend, moves>>

\* failedSendRef: what a repetition has to name, if the server took the message.
Missed(m) == IF m.seq = -1 THEN NULL ELSE [was |-> m.was, from |-> m.from, to |-> m.to, seq |-> m.seq]

\* An error, or an answer to a send of an older version.
SendEnds(i) ==
    /\ PostAt(i, "failed") \/ (post[i].pc \in {"created", "accepted"} /\ ~post[i].live)
    /\ sending' = (sending /\ ~post[i].live)
    /\ failedSend' = IF post[i].live THEN Missed(post[i]) ELSE failedSend
    /\ EndPost(i)
    /\ UNCHANGED <<server, project, cur, entries, shown, source, listing, load, strayed, bounds>>

\* The entry is shown and the pane follows the session.
Follow(i, s, es) ==
    /\ entries' = AppendEntry(es, s, post[i].seq)
    /\ shown' = "running" /\ sending' = FALSE
    /\ Connect(s, entries')
    /\ EndPost(i)

\* mutant: an answer is taken whatever the user has done since
SendIgnoresVersion(i) == TRUE
Current(i) == post[i].live

\* mutant: the missing entries are not fetched
SendOverGap(i) ==
    /\ post[i].pc \in {"created", "accepted"} /\ Current(i)
    /\ cur' = post[i].to /\ Follow(i, post[i].to, entries)
    /\ failedSend' = NULL
    /\ UNCHANGED <<server, project, listing, load, strayed, bounds>>

\* A new session becomes the current one; a seq that leaves out entries asks
\* for them first.
SendAnswered(i) ==
    LET s == post[i].to IN
    /\ post[i].pc \in {"created", "accepted"} /\ Current(i)
    /\ cur' = IF PostAt(i, "created") THEN s ELSE cur
    /\ \/ /\ cur' # s /\ EndPost(i)
          /\ UNCHANGED <<entries, shown, sending, source>>
       \/ /\ cur' = s /\ post[i].seq <= LastSeq(entries) + 1
          /\ Follow(i, s, entries)
       \/ /\ cur' = s /\ post[i].seq > LastSeq(entries) + 1
          /\ post' = [post EXCEPT ![i].pc = "gap", ![i].from = LastSeq(entries)]
          /\ sending' = (sending /\ ~PostAt(i, "created"))
          /\ UNCHANGED <<entries, shown, source>>
    /\ failedSend' = NULL
    /\ UNCHANGED <<server, project, listing, load, strayed, bounds>>

\* What lies between is merged, unless the session is no longer the current one.
GapAnswered(i) ==
    LET s == post[i].to IN
    /\ PostAt(i, "gap")
    /\ IF cur = s THEN Follow(i, s, Merge(entries, s, (post[i].from + 1)..(size[s] - 1)))
       ELSE EndPost(i) /\ UNCHANGED <<entries, shown, sending, source>>
    /\ UNCHANGED <<server, project, cur, listing, load, strayed, failedSend, bounds>>

\* A failure here is silent, and the entry is shown all the same.
GapFails(i) ==
    /\ PostAt(i, "gap") /\ faults < MaxFaults /\ faults' = faults + 1
    /\ Follow(i, post[i].to, entries)
    /\ strayed' = strayed \cup {"gap"}
    /\ UNCHANGED <<server, project, cur, listing, load, failedSend, moves>>

-----------------------------------------------------------------------------
(* What the user opens *)

InFlight == (\E i \in Load : ~LoadAt(i, "off")) \/ (\E i \in Post : PostAt(i, "gap"))
Moves(where) ==
    /\ moves < MaxMoves /\ moves' = moves + 1
    /\ strayed' = strayed \cup (IF InFlight THEN {where} ELSE {})
    /\ UNCHANGED <<server, failedSend, faults>>

\* mutant: the timeline is kept
SwitchKeeping(s) ==
    /\ s \in born /\ Home[s] = project /\ cur # s /\ ~listing
    /\ Invalidate /\ CloseStream
    /\ cur' = s /\ Begin(s)
    /\ Moves("session")
    /\ UNCHANGED <<project, entries, shown, listing>>

\* switchSession; what is shown of the status changes when it is loaded.
SwitchSession(s) ==
    /\ s \in born /\ Home[s] = project /\ cur # s /\ ~listing
    /\ Invalidate /\ CloseStream
    /\ cur' = s /\ entries' = Empty /\ Begin(s)
    /\ Moves("session")
    /\ UNCHANGED <<project, shown, listing>>

\* createNewSession: nothing is created before the first message.
NewSession ==
    /\ project # NULL
    /\ Invalidate /\ CloseStream
    /\ cur' = NULL /\ entries' = Empty /\ shown' = "idle"
    /\ Moves("session")
    /\ UNCHANGED <<project, listing, load>>

\* The router goes on to another project: the cleanup of the one and the effect of
\* the next, which empties the store, run in one commit.  (Without a next one the
\* pane is unmounted, and the store is emptied when it is mounted again.)
LeaveProject ==
    /\ project # NULL
    /\ Invalidate /\ CloseStream
    /\ project' = NULL /\ cur' = NULL /\ entries' = Empty /\ shown' = "idle"
    /\ listing' = FALSE
    /\ Moves("session")
    /\ UNCHANGED load

\* The hook is given another project, by the router or by a refresh of one that
\* was left: cleanup, then init().  The current session stays what it is until
\* the list has come.
EnterProject(p) ==
    /\ p # project
    /\ Invalidate /\ CloseStream
    /\ project' = p /\ entries' = Empty /\ listing' = TRUE
    /\ Moves("project")
    /\ UNCHANGED <<cur, shown, load>>

\* The list of sessions: the last one chosen, or the first.
OpenListed ==
    /\ listing /\ listing' = FALSE
    /\ \/ \E s \in born : Home[s] = project /\ cur' = s /\ Begin(s)
       \/ (\A s \in born : Home[s] # project) /\ cur' = NULL /\ UNCHANGED load
    /\ UNCHANGED <<server, project, entries, shown, sending, source, post, strayed, failedSend, bounds>>

ListFails ==
    /\ listing /\ listing' = FALSE /\ faults < MaxFaults /\ faults' = faults + 1
    /\ strayed' = strayed \cup {"load"}
    /\ UNCHANGED <<server, pane, source, load, post, failedSend, moves>>

-----------------------------------------------------------------------------
LoadStep(i) == ServerGets(i) \/ LoadStatus(i) \/ LoadEntries(i)
PostStep(i) == \/ ServerRefuses(i) \/ ServerRepeats(i) \/ ServerAccepts(i)
               \/ SendEnds(i) \/ SendAnswered(i) \/ GapAnswered(i)
Work == \/ StreamEntry \/ StreamStatus \/ BrowserReconnects \/ TimerFires
        \/ (\E i \in Load : LoadStep(i)) \/ (\E i \in Post : PostStep(i)) \/ OpenListed

Next == \/ Work
        \/ StreamLost \/ OnError \/ ListFails
        \/ \E i \in Load : LoadFails(i)
        \/ \E i \in Post : Send(i) \/ AnswerLost(i) \/ GapFails(i)
        \/ \E s \in Session : OtherTabPosts(s) \/ TurnGoesOn(s) \/ TurnEnds(s) \/ SwitchSession(s)
        \/ NewSession \/ LeaveProject
        \/ \E p \in Project : EnterProject(p)

Spec == Init /\ [][Next]_vars

\* Calls are answered, the browser reconnects, timers fire, and turns end.
FairSpec == Spec /\ WF_vars(Work) /\ \A s \in Session : WF_vars(TurnEnds(s))

-----------------------------------------------------------------------------
PaneTypeOK ==
    /\ size \in [Session -> Nat] /\ running \in [Session -> BOOLEAN]
    /\ born \subseteq Session
    /\ project \in Project \cup {NULL} /\ cur \in Session \cup {NULL}
    /\ DOMAIN entries \subseteq Nat /\ entries \in [DOMAIN entries -> Session]
    /\ shown \in {"idle", "running", "ended"} /\ sending \in BOOLEAN
    /\ stream = NULL
         \/ stream \in [on : Session, cursor : Nat \cup {-1}, state : {"open", "lost", "dead"}]
    /\ timer \in Session \cup {NULL} /\ listing \in BOOLEAN
    /\ load \in [Load -> [pc : {"off", "get", "got", "list"}, on : Session \cup {NULL},
                          was : BOOLEAN \cup {NULL}]]
    /\ post \in [Post -> [pc : {"off", "sent", "failed", "created", "accepted", "gap"},
                          was : Session \cup {NULL}, to : Session \cup {NULL}, live : BOOLEAN,
                          seq : Nat \cup {-1}, from : Project \cup Nat \cup {-1}]]
    /\ failedSend = NULL
         \/ failedSend \in [was : Session \cup {NULL}, from : Project \cup Nat \cup {-1},
                             to : Session \cup {NULL}, seq : Nat]
    /\ strayed \subseteq {"session", "project", "early", "gap", "load"}

\* The pane shows the entries of the session it names and of no other, as
\* long as the project does not change under a load, nobody sends before the
\* sessions are listed and no gap fails to be filled.
OwnEntries ==
    strayed \subseteq {"session", "load"} => \A n \in DOMAIN entries : entries[n] = cur

\* No entry is left out in between, from whichever of the three sources
\* (list, stream, answer to a send) the others came.
NoGap == strayed \subseteq {"load"} => DOMAIN entries = 0..LastSeq(entries)

PaneInv == PaneTypeOK /\ OwnEntries /\ NoGap

\* When the stream tells that the turn has ended, the pane has shown all of it.
EndShownComplete ==
    [][(strayed' = {} /\ shown = "running" /\ shown' = "ended" /\ stream # NULL /\ stream' = NULL)
         => DOMAIN entries' = 0..(size[cur] - 1)]_vars

\* A pane that shows a running session (and therefore takes no input) does so
\* until it has heard of the end or the user moves on.
EndIsShown == \A s \in Session :
    (strayed = {} /\ cur = s /\ shown = "running") ~> (strayed # {} \/ cur # s \/ shown # "running")

\* A pane shows that a turn has ended, and then all of it.
EndsShown == EndShownComplete /\ EndIsShown

-----------------------------------------------------------------------------
(* Properties the repository states and the code does not have *)

\* useAssistantSession.ts, init(): "两个分支都从干净状态出发 ... 不被上一个项目的残留
\* 条目污染，也不会把旧项目条目混排进新会话时间线".
NoForeignEntries == \A n \in DOMAIN entries : entries[n] = cur

=============================================================================
