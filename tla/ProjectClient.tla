---------------------------- MODULE ProjectClient ----------------------------
(***************************************************************************)
(* How a browser tab keeps its copy of the project it shows:               *)
(* projects-store.ts (refreshProject, one fetch at a time), the first      *)
(* fetch of router.tsx, and useProjectEventsSSE.ts, which hears of changes *)
(* and has to notice what happened while it was not connected.             *)
(*                                                                         *)
(* A project is its version.  Of the server's stream there is what         *)
(* ProjectEvents shows of it: a snapshot first, then word of the later     *)
(* changes in which _diff_snapshots finds something to tell.               *)
(***************************************************************************)
EXTENDS Integers, FiniteSets, Functions

CONSTANTS ProjectName, Caller, None,
          MaxVersion,    \* bound on the changes of all projects
          MaxTrips,      \* bound on the changes of the route
          MaxBreaks      \* bound on failed fetches and broken connections

\* null is none of the records that stand in its place.
ASSUME ProjectClientAssumption ==
    /\ None \notin [on : ProjectName, pc : {"get", "got"}, at : Int, by : SUBSET Caller]
    /\ None \notin [on : ProjectName, by : SUBSET Caller]
    /\ None \notin [on : ProjectName, pc : {"get", "got"}, at : Int]
    /\ None \notin [on : ProjectName, told : Int, state : {"open", "deaf", "closed"}]

VARIABLES version,       \* the server: ProjectName -> version
          covered,       \* the last change of a field that the fingerprint covers
          loud,          \* the last change that the scan of the files tells of
          route,         \* the project of the URL
          name, data,    \* currentProjectName, currentProjectData (-1: null)
          opening,       \* the router's getProject, not cancelled
          round,         \* the refresh in flight: runRefresh's cur* variables
          queued,        \* queuedName and queuedResolvers
          caller,        \* who saves a change and awaits a refresh
          events,        \* the EventSource, and what it has told
          fingerprint,   \* lastFingerprintRef
          gaps,          \* history: what the client cannot notice
          trips, breaks

projectVars == <<version, covered, loud, route, name, data, opening, round, queued, caller,
                 events, fingerprint, gaps, trips, breaks>>
backend == <<version, covered, loud>>
copy == <<name, data>>
refresh == <<round, queued>>

NoCaller == [pc |-> "idle", on |-> None, since |-> 0]

ProjectInit ==
    /\ version = [p \in ProjectName |-> 0] /\ covered = version /\ loud = version
    /\ route = None /\ name = None /\ data = -1
    /\ opening = None /\ round = None /\ queued = None
    /\ caller = [c \in Caller |-> NoCaller]
    /\ events = None /\ fingerprint = -1
    /\ gaps = {} /\ trips = 0 /\ breaks = 0

Fault == breaks < MaxBreaks /\ breaks' = breaks + 1

-----------------------------------------------------------------------------
(* The store *)

\* The hook of the events (under StudioLayout, so only with a route) opens a
\* source for the name it is given.
Opened(p, r) == IF p = None \/ r = None THEN None ELSE [on |-> p, told |-> -1, state |-> "open"]

\* mutant: the events go on with the fingerprint of the project before
SetProjectKeeping(p, v) ==
    /\ name' = p /\ data' = v
    /\ IF p = name THEN UNCHANGED <<events, fingerprint>>
       ELSE events' = Opened(p, route) /\ UNCHANGED fingerprint

\* setCurrentProject; the hook of the events starts anew for another name.
SetProject(p, v) ==
    /\ name' = p /\ data' = v
    /\ IF p = name THEN UNCHANGED <<events, fingerprint>>
       ELSE events' = Opened(p, route) /\ fingerprint' = -1

Answer(cs, ok) ==
    [c \in Caller |-> IF c \in cs THEN [caller[c] EXCEPT !.pc = IF ok THEN "true" ELSE "false"]
                      ELSE caller[c]]

\* mutant: who comes during a round gets the result of that round
RefreshJoining(p, cs, callers) ==
    /\ caller' = callers
    /\ IF round # None /\ round.on = p
         THEN round' = [round EXCEPT !.by = @ \cup cs] /\ UNCHANGED queued
         ELSE IF round # None
         THEN queued' = [on |-> p, by |-> cs] /\ UNCHANGED round
         ELSE round' = [on |-> p, pc |-> "get", at |-> -1, by |-> cs] /\ UNCHANGED queued

\* mutant: those who wait for another project are forgotten
RefreshForgetting(p, cs, callers) ==
    IF round = None
      THEN round' = [on |-> p, pc |-> "get", at |-> -1, by |-> cs] /\ UNCHANGED queued /\ caller' = callers
      ELSE /\ queued' = [on |-> p, by |-> IF queued # None /\ queued.on = p THEN queued.by \cup cs ELSE cs]
           /\ caller' = callers /\ UNCHANGED round

\* refreshProject(p) for the callers cs, who are then as in `callers`: one
\* round at a time and one behind it, which the last project asked for has;
\* those who wait for another one are told that they are not served.
Refresh(p, cs, callers) ==
    LET other == queued # None /\ queued.on # p
        same == queued # None /\ queued.on = p
    IN IF round = None
         THEN /\ round' = [on |-> p, pc |-> "get", at |-> -1, by |-> cs]
              /\ caller' = callers /\ UNCHANGED queued
         ELSE /\ queued' = [on |-> p, by |-> cs \cup IF same THEN queued.by ELSE {}]
              /\ caller' = [c \in Caller |-> IF other /\ c \in queued.by
                                               THEN [callers[c] EXCEPT !.pc = "false"] ELSE callers[c]]
              /\ UNCHANGED round

\* The server answers getProject; the answer travels on.
RoundGets ==
    /\ round # None /\ round.pc = "get"
    /\ round' = [round EXCEPT !.pc = "got", !.at = version[round.on]]
    /\ UNCHANGED <<backend, route, copy, opening, queued, caller, events, fingerprint, gaps, trips, breaks>>

NextRound == /\ queued' = None
             /\ round' = IF queued = None THEN None
                         ELSE [on |-> queued.on, pc |-> "get", at |-> -1, by |-> queued.by]

\* supersededByOtherProject
Superseded == queued # None /\ queued.on # round.on

\* Those of this round are answered, then the queued one is run.
RoundEnds ==
    /\ round # None /\ round.pc = "got"
    /\ IF Superseded THEN UNCHANGED <<copy, events, fingerprint>> ELSE SetProject(round.on, round.at)
    /\ caller' = Answer(round.by, ~Superseded)
    /\ NextRound
    /\ UNCHANGED <<backend, route, opening, gaps, trips, breaks>>

\* A failed fetch leaves what there is; nobody repeats it.
RoundFails ==
    /\ round # None /\ round.pc = "get" /\ Fault
    /\ caller' = Answer(round.by, FALSE)
    /\ NextRound
    /\ gaps' = gaps \cup {"failed"}
    /\ UNCHANGED <<backend, route, copy, opening, events, fingerprint, trips>>

-----------------------------------------------------------------------------
(* The router *)

\* The cleanup of one project and the effect of the next.  Who comes from a page
\* of no project still has in the store what a late refresh has put there.
Go(p) ==
    /\ p # route /\ trips < MaxTrips /\ trips' = trips + 1
    /\ route' = p
    /\ IF route = None THEN UNCHANGED copy ELSE name' = None /\ data' = -1
    /\ events' = Opened(name', p) /\ fingerprint' = -1
    /\ opening' = IF p = None THEN None ELSE [on |-> p, pc |-> "get", at |-> -1]
    /\ UNCHANGED <<backend, refresh, caller, gaps, breaks>>

RouterGets ==
    /\ opening # None /\ opening.pc = "get"
    /\ opening' = [opening EXCEPT !.pc = "got", !.at = version[opening.on]]
    /\ UNCHANGED <<backend, route, copy, refresh, caller, events, fingerprint, gaps, trips, breaks>>

\* The first fetch does not go through refreshProject: beside a refresh the
\* older of two answers may come last.
Beside == \/ round # None /\ round.pc = "got" /\ round.on = opening.on /\ round.at < opening.at
          \/ name = opening.on /\ data > opening.at
RouterOpens ==
    /\ opening # None /\ opening.pc = "got"
    /\ SetProject(opening.on, opening.at)
    /\ opening' = None
    /\ gaps' = gaps \cup IF Beside THEN {"beside"} ELSE {}
    /\ UNCHANGED <<backend, route, refresh, caller, trips, breaks>>

RouterFails ==
    /\ opening # None /\ opening.pc = "get" /\ Fault
    /\ SetProject(opening.on, -1)
    /\ opening' = None
    /\ gaps' = gaps \cup {"failed"}
    /\ UNCHANGED <<backend, route, refresh, caller, trips>>

-----------------------------------------------------------------------------
(* The events *)

Heard(v) == /\ events' = [events EXCEPT !.told = v] /\ fingerprint' = v

\* mutant: a snapshot only sets the fingerprint
SnapshotOnly ==
    /\ events # None /\ events.state # "closed" /\ events.told = -1
    /\ Heard(covered[events.on])
    /\ gaps' = gaps \cup (IF fingerprint = -1 /\ data < loud[events.on] THEN {"first"} ELSE {})
    /\ UNCHANGED <<refresh, caller, backend, route, copy, opening, trips, breaks>>

\* onSnapshot: the first one is taken for what the router has fetched.
Snapshot ==
    /\ events # None /\ events.state # "closed" /\ events.told = -1
    /\ Heard(covered[events.on])
    /\ gaps' = gaps \cup (IF fingerprint = -1 /\ data < loud[events.on] THEN {"first"} ELSE {})
    /\ IF fingerprint \notin {-1, covered[events.on]} THEN Refresh(events.on, {}, caller)
       ELSE UNCHANGED <<refresh, caller>>
    /\ UNCHANGED <<backend, route, copy, opening, trips, breaks>>

\* onChanges: a change that is told of brings the fingerprint of all that are covered.
Changes ==
    /\ events # None /\ events.state = "open" /\ events.told \in 0..(loud[events.on] - 1)
    /\ Heard(covered[events.on])
    /\ Refresh(events.on, {}, caller)
    /\ UNCHANGED <<backend, route, copy, opening, gaps, trips, breaks>>

\* DropSubscriber: the queue was full; the stream idles on and tells nothing more.
Dropped ==
    /\ events # None /\ events.state = "open" /\ Fault
    /\ events' = [events EXCEPT !.state = "deaf"]
    /\ UNCHANGED <<backend, route, copy, opening, refresh, caller, fingerprint, gaps, trips>>

\* onError: the source is closed and a timer set.
EventsBreak ==
    /\ events # None /\ events.state # "closed" /\ Fault
    /\ events' = [events EXCEPT !.state = "closed"]
    /\ UNCHANGED <<backend, route, copy, opening, refresh, caller, fingerprint, gaps, trips>>

EventsReconnect ==
    /\ events # None /\ events.state = "closed"
    /\ events' = [events EXCEPT !.state = "open", !.told = -1]
    /\ UNCHANGED <<backend, route, copy, opening, refresh, caller, fingerprint, gaps, trips, breaks>>

-----------------------------------------------------------------------------
(* Callers, and everyone else who changes the project *)

Bumped(f, p) == [f EXCEPT ![p] = version[p] + 1]

\* A change is of a field that _build_snapshot leaves out, or covered by the
\* fingerprint but not in the diff (an episode removed, another path of a still),
\* or told of.
Bump(p) ==
    /\ FoldFunction(+, 0, version) < MaxVersion /\ version' = Bumped(version, p)
    /\ \/ UNCHANGED <<covered, loud>>
       \/ covered' = Bumped(covered, p) /\ UNCHANGED loud
       \/ covered' = Bumped(covered, p) /\ loud' = Bumped(loud, p)

OthersChange(p) ==
    /\ Bump(p)
    /\ UNCHANGED <<route, copy, opening, refresh, caller, events, fingerprint, gaps, trips, breaks>>

\* A handler of the canvas saves a change of the project it was made for ...
Save(c) ==
    /\ caller[c].pc = "idle" /\ route # None /\ name # None /\ data # -1
    /\ caller' = [caller EXCEPT ![c] = [pc |-> "saving", on |-> name, since |-> 0]]
    /\ UNCHANGED <<backend, route, copy, opening, refresh, events, fingerprint, gaps, trips, breaks>>

\* ... and, when that is done, awaits a refresh of that project.
Saved(c) ==
    /\ caller[c].pc = "saving"
    /\ Bump(caller[c].on)
    /\ Refresh(caller[c].on, {c},
               [caller EXCEPT ![c].pc = "waiting", ![c].since = version'[caller[c].on]])
    /\ UNCHANGED <<route, copy, opening, events, fingerprint, gaps, trips, breaks>>

Finish(c) ==
    /\ caller[c].pc \in {"true", "false"}
    /\ caller' = [caller EXCEPT ![c] = NoCaller]
    /\ UNCHANGED <<backend, route, copy, opening, refresh, events, fingerprint, gaps, trips, breaks>>

-----------------------------------------------------------------------------
Fetching == RoundGets \/ RoundEnds \/ RouterGets \/ RouterOpens
Listening == Snapshot \/ Changes \/ EventsReconnect

ProjectNext ==
    \/ Fetching \/ Listening
    \/ RoundFails \/ RouterFails \/ Dropped \/ EventsBreak
    \/ \E p \in ProjectName \cup {None} : Go(p)
    \/ \E p \in ProjectName : OthersChange(p)
    \/ \E c \in Caller : Save(c) \/ Saved(c) \/ Finish(c)

ProjectSpec == ProjectInit /\ [][ProjectNext]_projectVars

\* Fetches are answered, timers fire and the server tells what it has to.
ProjectFairSpec == ProjectSpec /\ WF_projectVars(Fetching) /\ WF_projectVars(Listening)

-----------------------------------------------------------------------------
Version == Nat \cup {-1}

CopyTypeOK ==
    /\ {version, covered, loud} \subseteq [ProjectName -> Nat]
    /\ {route, name} \subseteq ProjectName \cup {None} /\ data \in Version
    /\ opening = None \/ opening \in [on : ProjectName, pc : {"get", "got"}, at : Version]
    /\ round = None
         \/ round \in [on : ProjectName, pc : {"get", "got"}, at : Version, by : SUBSET Caller]
    /\ queued = None \/ (round # None /\ queued \in [on : ProjectName, by : SUBSET Caller])
    /\ caller \in [Caller -> [pc : {"idle", "saving", "waiting", "true", "false"},
                              on : ProjectName \cup {None}, since : Nat]]
    /\ events = None \/ events \in [on : ProjectName, told : Version, state : {"open", "deaf", "closed"}]
    /\ (events = None) = (name = None \/ route = None)
    /\ fingerprint \in Version

\* Nobody who awaits a refresh is lost: each waits in exactly one of the two
\* rounds, the running one or the one behind it.
WaitsSomewhere ==
    \A c \in Caller :
        caller[c].pc = "waiting" <=>
            \/ round # None /\ c \in round.by
            \/ queued # None /\ c \in queued.by

\* A caller waits for its own project, and the callers of the running round
\* saved before that round's answer was read.
WaitsForItsOwn ==
    /\ round # None =>
         \A c \in round.by : caller[c].on = round.on /\ (round.pc = "got" => round.at >= caller[c].since)
    /\ queued # None => \A c \in queued.by : caller[c].on = queued.on

CopyInv == CopyTypeOK /\ WaitsSomewhere /\ WaitsForItsOwn

\* projects-store.ts, refreshProject: whoever is told true finds its project
\* in the store, with what it saved; the rest of the queue has no say in it.
ToldTruly ==
    [][\A c \in Caller :
         caller[c].pc = "waiting" /\ caller'[c].pc = "true"
         => name' = caller[c].on /\ data' >= caller[c].since]_projectVars

\* In the end what a project's page shows has every change that the scan tells
\* of, through lost connections, merged refreshes and changes of the project:
\* unless a fetch failed, an older answer came last, or the change fell between
\* the router's fetch and the first snapshot, or as long as the server has
\* dropped the subscriber and the connection stays.  Of these the client does
\* not learn.
CopyCatchesUp ==
    []<>(\/ gaps # {} \/ route = None \/ name = None \/ data >= loud[name]
         \/ events # None /\ events.state = "deaf")

-----------------------------------------------------------------------------
(* Properties the repository states and the code does not have *)

\* projects-store.ts, runRefresh: "本轮响应针对的是即将切走的旧项目——跳过写入".
\* The code looks at the queue alone, not at the route.
ShowsItsRoute == name \in {None, route}

=============================================================================
