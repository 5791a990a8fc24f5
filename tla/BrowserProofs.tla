---------------------------- MODULE BrowserProofs ----------------------------
(***************************************************************************)
(* Proofs about one browser tab: about the copy it keeps of the project it *)
(* shows (ProjectClient), for any projects, any number of callers and      *)
(* changes, failed fetches and broken connections; and about its chat pane *)
(* (AssistantClient), for any sessions and projects, any number of calls   *)
(* in flight, moves and faults.                                            *)
(***************************************************************************)
EXTENDS AssistantClient, ProjectClient, TLAPS

RoundState == [on : ProjectName, pc : {"get", "got"}, at : Version, by : SUBSET Caller]
QueueState == [on : ProjectName, by : SUBSET Caller]
OpeningState == [on : ProjectName, pc : {"get", "got"}, at : Version]
EventsState == [on : ProjectName, told : Version, state : {"open", "deaf", "closed"}]
CallerState == [pc : {"idle", "saving", "waiting", "true", "false"},
                on : ProjectName \cup {None}, since : Nat]

\* The two rounds r and q serve exactly those of the callers cs who wait, each
\* once, for its own project; nobody waits for a version that is not there yet,
\* and who waits for a round that has its answer saved before it.
Serves(cs, r, q, cl, v) ==
    /\ r # None => r.by \subseteq cs
    /\ q # None => r # None /\ q.by \subseteq cs /\ r.by \cap q.by = {}
    /\ \A c \in cs :
          /\ cl[c].pc = "waiting" => \/ r # None /\ c \in r.by
                                     \/ q # None /\ c \in q.by
          /\ r # None /\ c \in r.by => /\ cl[c].pc = "waiting" /\ cl[c].on = r.on
                                       /\ r.pc = "got" => r.at >= cl[c].since
          /\ q # None /\ c \in q.by => cl[c].pc = "waiting" /\ cl[c].on = q.on
          /\ cl[c].pc = "waiting" => cl[c].since <= v[cl[c].on]

\* Who has saved knows for which project.
CallersKnow == \A c \in Caller : caller[c].pc \in {"saving", "waiting"} => caller[c].on \in ProjectName

CopyInd == CopyTypeOK /\ CallersKnow /\ Serves(Caller, round, queued, caller, version)

LEMMA ClientShapes ==
    /\ None \notin RoundState /\ None \notin QueueState /\ None \notin OpeningState
    /\ None \notin EventsState
BY ProjectClientAssumption DEF ProjectClientAssumption, RoundState, QueueState, OpeningState,
   EventsState, Version

LEMMA NewRound ==
    ASSUME NEW p \in ProjectName, NEW cs \in SUBSET Caller
    PROVE  LET r == [on |-> p, pc |-> "get", at |-> -1, by |-> cs]
           IN r \in RoundState /\ r # None
<1>1. [on |-> p, pc |-> "get", at |-> -1, by |-> cs] \in RoundState
  BY DEF RoundState, Version
<1> QED
  BY <1>1, ClientShapes

LEMMA NewQueue ==
    ASSUME NEW p \in ProjectName, NEW cs \in SUBSET Caller
    PROVE  LET q == [on |-> p, by |-> cs]
           IN q \in QueueState /\ q # None
<1>1. [on |-> p, by |-> cs] \in QueueState
  BY DEF QueueState
<1> QED
  BY <1>1, ClientShapes

\* setCurrentProject keeps what the hook of the events has in step with the name.
LEMMA SetProjectTypes ==
    ASSUME CopyTypeOK, NEW p \in ProjectName \cup {None}, NEW v \in Version, SetProject(p, v), route' = route
    PROVE  /\ name' \in ProjectName \cup {None} /\ data' \in Version
           /\ events' = None \/ events' \in EventsState
           /\ (events' = None) = (name' = None \/ route' = None)
           /\ fingerprint' \in Version
<1> DEFINE new == [on |-> p, told |-> -1, state |-> "open"]
<1>1. p # None => new \in EventsState /\ new # None
  <2>1. p # None => new \in EventsState
    BY DEF EventsState, Version
  <2> HIDE DEF new
  <2> QED
    BY <2>1, ClientShapes
<1>2. /\ name' = p /\ data' = v
      /\ \/ p = name /\ events' = events /\ fingerprint' = fingerprint
         \/ p # None /\ route # None /\ events' = new /\ fingerprint' = -1
         \/ (p = None \/ route = None) /\ events' = None /\ fingerprint' = -1
  BY DEF SetProject, Opened
<1> HIDE DEF new
<1> QED
  BY <1>1, <1>2 DEF CopyTypeOK, EventsState, Version

\* A refresh asked for by the callers cs, who wait from now on.
LEMMA RefreshServes ==
    ASSUME CopyTypeOK, NEW p \in ProjectName, NEW cs \in SUBSET Caller,
           NEW callers \in [Caller -> CallerState], NEW v,
           Serves(Caller \ cs, round, queued, callers, v),
           \A c \in cs : callers[c].pc = "waiting" /\ callers[c].on = p /\ callers[c].since <= v[p],
           Refresh(p, cs, callers)
    PROVE  /\ round' = None \/ round' \in RoundState
           /\ queued' = None \/ (round' # None /\ queued' \in QueueState)
           /\ caller' \in [Caller -> CallerState]
           /\ \A c \in Caller : /\ caller'[c].on = callers[c].on
                                /\ caller'[c].pc \in {callers[c].pc, "false"}
           /\ Serves(Caller, round', queued', caller', v)
<1>1. /\ round = None \/ round \in RoundState
      /\ queued = None \/ (round # None /\ queued \in QueueState)
  BY DEF CopyTypeOK, RoundState, QueueState
<1>2. CASE round = None
  <2> DEFINE r == [on |-> p, pc |-> "get", at |-> -1, by |-> cs]
  <2>1. round' = r /\ caller' = callers /\ queued' = queued
    BY <1>2 DEF Refresh
  <2>2. r \in RoundState /\ r # None /\ r.by = cs /\ r.pc = "get" /\ r.on = p
    BY NewRound
  <2>3. queued = None
    BY <1>1, <1>2
  <2> HIDE DEF r
  <2>4. \A c \in Caller \ cs : callers[c].pc # "waiting"
    BY <1>2, <2>3 DEF Serves
  <2>5. Serves(Caller, r, None, callers, v)
    BY <2>2, <2>4 DEF Serves
  <2> QED
    BY <2>1, <2>2, <2>3, <2>5
<1>3. CASE round # None
  <2> DEFINE same == queued # None /\ queued.on = p
             other == queued # None /\ queued.on # p
             by == cs \cup IF same THEN queued.by ELSE {}
             q == [on |-> p, by |-> by]
  <2>1. /\ queued' = q /\ round' = round
        /\ caller' = [c \in Caller |-> IF other /\ c \in queued.by
                                       THEN [callers[c] EXCEPT !.pc = "false"] ELSE callers[c]]
    BY <1>3 DEF Refresh
  <2>2. by \in SUBSET Caller
    BY <1>1 DEF QueueState
  <2>3. q \in QueueState /\ q # None /\ q.on = p /\ q.by = by
    <3> HIDE DEF by
    <3> QED
      BY <2>2, NewQueue
  <2>4. \A c \in Caller : /\ caller'[c] \in CallerState /\ caller'[c].on = callers[c].on
                          /\ caller'[c].since = callers[c].since
                          /\ other /\ c \in queued.by => caller'[c].pc = "false"
                          /\ ~(other /\ c \in queued.by) => caller'[c].pc = callers[c].pc
    BY <2>1 DEF CallerState
  <2>5. caller' \in [Caller -> CallerState]
    BY <2>1, <2>4
  <2> HIDE DEF q
  <2>6. Serves(Caller, round, q, caller', v)
    <3>1. round.by \subseteq Caller \ cs
      BY <1>3 DEF Serves
    <3>2. queued # None => queued.by \subseteq Caller \ cs /\ round.by \cap queued.by = {}
      BY DEF Serves
    <3>3. round.by \cap q.by = {} /\ q.by \subseteq Caller
      BY <2>2, <2>3, <3>1, <3>2
    <3> SUFFICES ASSUME NEW c \in Caller
                 PROVE  /\ caller'[c].pc = "waiting" => c \in round.by \/ c \in q.by
                        /\ c \in round.by =>
                              /\ caller'[c].pc = "waiting" /\ caller'[c].on = round.on
                              /\ round.pc = "got" => round.at >= caller'[c].since
                        /\ c \in q.by => caller'[c].pc = "waiting" /\ caller'[c].on = p
                        /\ caller'[c].pc = "waiting" => caller'[c].since <= v[caller'[c].on]
      BY <1>3, <2>3, <3>1, <3>3 DEF Serves
    <3>4. CASE c \in cs
      BY <2>3, <2>4, <3>1, <3>2, <3>4
    <3>5. CASE c \notin cs
      <4>1. /\ callers[c].pc = "waiting" =>
                 c \in round.by \/ (queued # None /\ c \in queued.by)
            /\ c \in round.by =>
                  /\ callers[c].pc = "waiting" /\ callers[c].on = round.on
                  /\ round.pc = "got" => round.at >= callers[c].since
            /\ queued # None /\ c \in queued.by =>
                 callers[c].pc = "waiting" /\ callers[c].on = queued.on
            /\ callers[c].pc = "waiting" => callers[c].since <= v[callers[c].on]
        BY <1>3, <3>5 DEF Serves
      <4> QED
        BY <2>3, <2>4, <3>2, <3>5, <4>1
    <3> QED
      BY <3>4, <3>5
  <2> QED
    BY <1>1, <1>3, <2>1, <2>3, <2>4, <2>5, <2>6
<1> QED
  BY <1>2, <1>3

\* The end of a round: its callers are answered, and the queued round begins.
LEMMA RoundAnswered ==
    ASSUME CopyInd, round # None, NEW ok \in BOOLEAN, caller' = Answer(round.by, ok), NextRound
    PROVE  /\ round' = None \/ round' \in RoundState
           /\ queued' = None
           /\ caller' \in [Caller -> CallerState]
           /\ \A c \in Caller : /\ caller'[c].on = caller[c].on
                                /\ caller'[c].since = caller[c].since
                                /\ c \in round.by => caller'[c].pc = IF ok THEN "true" ELSE "false"
                                /\ c \notin round.by => caller'[c].pc = caller[c].pc
           /\ Serves(Caller, round', queued', caller', version)
<1>1. /\ round \in RoundState
      /\ queued = None \/ queued \in QueueState
      /\ caller \in [Caller -> CallerState]
      /\ Serves(Caller, round, queued, caller, version)
  BY DEF CopyInd, CopyTypeOK, RoundState, QueueState, CallerState
<1>2. \A c \in Caller : /\ caller'[c] \in CallerState
                        /\ caller'[c].on = caller[c].on
                        /\ caller'[c].since = caller[c].since
                        /\ c \in round.by => caller'[c].pc = IF ok THEN "true" ELSE "false"
                        /\ c \notin round.by => caller'[c].pc = caller[c].pc
  BY <1>1 DEF Answer, CallerState
<1>3. caller' \in [Caller -> CallerState]
  BY <1>2 DEF Answer
<1>4. \A c \in Caller : caller'[c].pc = "waiting" =>
         c \notin round.by /\ caller[c].pc = "waiting"
  BY <1>2
<1>5. CASE queued = None
  <2>1. round' = None /\ queued' = None
    BY <1>5 DEF NextRound
  <2>2. \A c \in Caller : caller'[c].pc # "waiting"
    BY <1>1, <1>4, <1>5 DEF Serves
  <2>3. Serves(Caller, None, None, caller', version)
    BY <2>2 DEF Serves
  <2> QED
    BY <1>2, <1>3, <2>1, <2>3
<1>6. CASE queued # None
  <2> DEFINE r == [on |-> queued.on, pc |-> "get", at |-> -1, by |-> queued.by]
  <2>1. round' = r /\ queued' = None
    BY <1>6 DEF NextRound
  <2>2. queued.on \in ProjectName /\ queued.by \in SUBSET Caller
    BY <1>1, <1>6 DEF QueueState
  <2>3. r \in RoundState /\ r # None /\ r.on = queued.on /\ r.pc = "get" /\ r.by = queued.by
    BY <2>2, NewRound
  <2> HIDE DEF r
  <2>4. Serves(Caller, r, None, caller', version)
    <3> SUFFICES ASSUME NEW c \in Caller
                 PROVE  /\ caller'[c].pc = "waiting" => c \in queued.by
                        /\ c \in queued.by => caller'[c].pc = "waiting" /\ caller'[c].on = queued.on
                        /\ caller'[c].pc = "waiting" => caller'[c].since <= version[caller'[c].on]
      BY <2>2, <2>3 DEF Serves
    <3>1. /\ caller[c].pc = "waiting" => c \in round.by \/ c \in queued.by
          /\ c \in queued.by => caller[c].pc = "waiting" /\ caller[c].on = queued.on
          /\ c \in queued.by => c \notin round.by
          /\ caller[c].pc = "waiting" => caller[c].since <= version[caller[c].on]
      BY <1>1, <1>6 DEF Serves
    <3> QED
      BY <1>2, <1>4, <3>1
  <2> QED
    BY <1>2, <1>3, <2>1, <2>3, <2>4
<1> QED
  BY <1>5, <1>6

\* Serves does not look at what else a step does.
LEMMA ServesLater ==
    ASSUME CopyInd, NEW v, \A p \in ProjectName : v[p] \in Nat /\ version[p] <= v[p]
    PROVE  Serves(Caller, round, queued, caller, v)
<1>1. \A c \in Caller : caller[c].pc = "waiting" =>
          caller[c].since \in Nat /\ caller[c].since <= v[caller[c].on]
  <2> SUFFICES ASSUME NEW c \in Caller, caller[c].pc = "waiting"
               PROVE  caller[c].since \in Nat /\ caller[c].since <= v[caller[c].on]
    OBVIOUS
  <2>1. caller[c].on \in ProjectName /\ caller[c].since \in Nat
    BY DEF CopyInd, CallersKnow, CopyTypeOK
  <2>2. caller[c].since <= version[caller[c].on] /\ version[caller[c].on] \in Nat
    BY <2>1 DEF CopyInd, Serves, CopyTypeOK
  <2>3. version[caller[c].on] <= v[caller[c].on] /\ v[caller[c].on] \in Nat
    BY <2>1
  <2> QED
    BY <2>1, <2>2, <2>3
<1> QED
  BY <1>1 DEF CopyInd, Serves

\* What the steps of the store, the router and the events leave together.
LEMMA CopyIndFrom ==
    ASSUME version' \in [ProjectName -> Nat], covered' \in [ProjectName -> Nat], loud' \in [ProjectName -> Nat],
           {route', name'} \subseteq ProjectName \cup {None}, data' \in Version,
           opening' = None \/ opening' \in OpeningState,
           round' = None \/ round' \in RoundState,
           queued' = None \/ (round' # None /\ queued' \in QueueState),
           caller' \in [Caller -> CallerState],
           events' = None \/ events' \in EventsState,
           (events' = None) = (name' = None \/ route' = None),
           fingerprint' \in Version,
           CallersKnow',
           Serves(Caller, round', queued', caller', version')
    PROVE  CopyInd'
<1>1. CopyTypeOK'
  BY DEF CopyTypeOK, OpeningState, RoundState, QueueState, CallerState, EventsState
<1> QED
  BY <1>1 DEF CopyInd

\* The invariant, with the parts a step leaves alone at hand.
LEMMA CopyParts ==
    ASSUME CopyInd
    PROVE  /\ version \in [ProjectName -> Nat] /\ covered \in [ProjectName -> Nat] /\ loud \in [ProjectName -> Nat]
           /\ route \in ProjectName \cup {None} /\ name \in ProjectName \cup {None} /\ data \in Version
           /\ opening = None \/ opening \in OpeningState
           /\ round = None \/ round \in RoundState
           /\ queued = None \/ (round # None /\ queued \in QueueState)
           /\ caller \in [Caller -> CallerState]
           /\ events = None \/ events \in EventsState
           /\ (events = None) = (name = None \/ route = None)
           /\ fingerprint \in Version
           /\ CallersKnow
           /\ Serves(Caller, round, queued, caller, version)
BY DEF CopyInd, CopyTypeOK, OpeningState, RoundState, QueueState, CallerState, EventsState

\* The steps of a round of the store.
LEMMA RoundSteps == CopyInd /\ (RoundGets \/ RoundEnds \/ RoundFails) => CopyInd'
<1> SUFFICES ASSUME CopyInd, RoundGets \/ RoundEnds \/ RoundFails PROVE CopyInd'
  OBVIOUS
<1> USE CopyParts
<1>1. CASE RoundGets
  <2> DEFINE r == [round EXCEPT !.pc = "got", !.at = version[round.on]]
  <2>1. round \in RoundState /\ version[round.on] \in Nat
    BY <1>1 DEF RoundGets, RoundState
  <2>2. r \in RoundState /\ r.by = round.by /\ r.on = round.on /\ r.pc = "got" /\ r.at = version[round.on]
    BY <2>1 DEF RoundState, Version
  <2>3. round' = r /\ round # None
    BY <1>1 DEF RoundGets
  <2> HIDE DEF r
  <2>4. r # None
    BY <2>2, ClientShapes
  <2>5. Serves(Caller, r, queued, caller, version)
    <3>1. \A c \in Caller : c \in round.by =>
             caller[c].on = round.on /\ caller[c].since <= version[caller[c].on]
      BY <2>3 DEF Serves
    <3>2. \A c \in Caller : caller[c].since \in Nat
      BY DEF CallerState
    <3> QED
      BY <2>1, <2>2, <2>3, <2>4, <3>1, <3>2 DEF Serves
  <2>6. UNCHANGED <<version, covered, loud, route, name, data, opening, queued, caller, events, fingerprint>>
    BY <1>1 DEF RoundGets, copy, backend
  <2> QED
    BY <2>2, <2>3, <2>4, <2>5, <2>6, CopyIndFrom DEF CallersKnow
<1>2. CASE RoundEnds
  <2>1. round # None /\ UNCHANGED <<version, covered, loud, route, opening>>
    BY <1>2 DEF RoundEnds, backend
  <2>2. \E ok \in BOOLEAN : caller' = Answer(round.by, ok) /\ NextRound
    BY <1>2 DEF RoundEnds
  <2>3. PICK ok \in BOOLEAN : caller' = Answer(round.by, ok) /\ NextRound
    BY <2>2
  <2>4. /\ name' \in ProjectName \cup {None} /\ data' \in Version
        /\ events' = None \/ events' \in EventsState
        /\ (events' = None) = (name' = None \/ route' = None)
        /\ fingerprint' \in Version
    <3>1. CASE Superseded
      BY <1>2, <2>1, <3>1 DEF RoundEnds, copy
    <3>2. CASE ~Superseded
      <4>1. SetProject(round.on, round.at)
        BY <1>2, <3>2 DEF RoundEnds
      <4>2. round.on \in ProjectName \cup {None} /\ round.at \in Version
        BY <2>1 DEF RoundState
      <4> QED
        BY <2>1, <4>1, <4>2, SetProjectTypes DEF CopyInd
    <3> QED
      BY <3>1, <3>2
  <2>5. CallersKnow'
    BY <2>1, <2>3, RoundAnswered DEF CallersKnow
  <2> QED
    BY <2>1, <2>3, <2>4, <2>5, RoundAnswered, CopyIndFrom
<1>3. CASE RoundFails
  <2>1. /\ round # None /\ caller' = Answer(round.by, FALSE) /\ NextRound
        /\ UNCHANGED <<version, covered, loud, route, name, data, opening, events, fingerprint>>
    BY <1>3 DEF RoundFails, copy, backend
  <2>2. CallersKnow'
    BY <2>1, RoundAnswered DEF CallersKnow
  <2> QED
    BY <2>1, <2>2, RoundAnswered, CopyIndFrom
<1> QED
  BY <1>1, <1>2, <1>3

\* The steps of the router.
LEMMA RouterSteps ==
    CopyInd /\ (RouterGets \/ RouterOpens \/ RouterFails \/ \E p \in ProjectName \cup {None} : Go(p))
    => CopyInd'
<1> SUFFICES ASSUME CopyInd,
                    RouterGets \/ RouterOpens \/ RouterFails \/ \E p \in ProjectName \cup {None} : Go(p)
             PROVE  CopyInd'
  OBVIOUS
<1> USE CopyParts
<1>1. CASE RouterGets
  <2>1. opening \in OpeningState /\ version[opening.on] \in Nat
    BY <1>1 DEF RouterGets, OpeningState
  <2>2. opening' \in OpeningState
    BY <1>1, <2>1 DEF RouterGets, OpeningState, Version
  <2>3. UNCHANGED <<version, covered, loud, route, name, data, round, queued, caller, events, fingerprint>>
    BY <1>1 DEF RouterGets, copy, refresh, backend
  <2> QED
    BY <2>2, <2>3, CopyIndFrom DEF CallersKnow
<1>2. CASE RouterOpens
  <2>1. /\ SetProject(opening.on, opening.at) /\ opening' = None /\ opening # None
        /\ UNCHANGED <<version, covered, loud, route, round, queued, caller>>
    BY <1>2 DEF RouterOpens, refresh, backend
  <2>2. opening.on \in ProjectName \cup {None} /\ opening.at \in Version
    BY <2>1 DEF OpeningState
  <2> QED
    BY <2>1, <2>2, SetProjectTypes, CopyIndFrom DEF CallersKnow, CopyInd
<1>3. CASE RouterFails
  <2>1. /\ SetProject(opening.on, -1) /\ opening' = None /\ opening # None
        /\ UNCHANGED <<version, covered, loud, route, round, queued, caller>>
    BY <1>3 DEF RouterFails, refresh, backend
  <2>2. opening.on \in ProjectName \cup {None} /\ -1 \in Version
    BY <2>1 DEF OpeningState, Version
  <2> QED
    BY <2>1, <2>2, SetProjectTypes, CopyIndFrom DEF CallersKnow, CopyInd
<1>4. ASSUME NEW p \in ProjectName \cup {None}, Go(p)
      PROVE  CopyInd'
  <2> DEFINE o == [on |-> p, pc |-> "get", at |-> -1]
  <2>1. /\ opening' = IF p = None THEN None ELSE o
        /\ (name' = None /\ data' = -1) \/ UNCHANGED <<name, data>>
        /\ events' = Opened(name', p) /\ fingerprint' = -1
        /\ route' = p /\ UNCHANGED <<version, covered, loud, round, queued, caller>>
    BY <1>4 DEF Go, copy, refresh, backend
  <2>2. p # None => o \in OpeningState
    BY DEF OpeningState, Version
  <2>3. opening' = None \/ opening' \in OpeningState
    BY <2>1, <2>2
  <2>4. name' \in ProjectName \cup {None} /\ data' \in Version /\ -1 \in Version
    BY <2>1 DEF Version
  <2> DEFINE new == [on |-> name', told |-> -1, state |-> "open"]
  <2>5. name' # None => new \in EventsState /\ new # None
    <3>1. name' # None => new \in EventsState
      BY <2>4 DEF EventsState
    <3> HIDE DEF new
    <3> QED
      BY <3>1, ClientShapes
  <2>6. events' = IF name' = None \/ p = None THEN None ELSE new
    BY <2>1 DEF Opened
  <2> HIDE DEF new, o
  <2>7. /\ events' = None \/ events' \in EventsState
        /\ (events' = None) = (name' = None \/ route' = None)
    BY <2>1, <2>5, <2>6
  <2> QED
    BY <2>1, <2>3, <2>4, <2>7, CopyIndFrom DEF CallersKnow
<1> QED
  BY <1>1, <1>2, <1>3, <1>4

\* The steps of the event source.
LEMMA EventSteps ==
    CopyInd /\ (Snapshot \/ Changes \/ Dropped \/ EventsBreak \/ EventsReconnect) => CopyInd'
<1> SUFFICES ASSUME CopyInd, Snapshot \/ Changes \/ Dropped \/ EventsBreak \/ EventsReconnect
             PROVE  CopyInd'
  OBVIOUS
<1> USE CopyParts
<1>1. CASE Snapshot \/ Changes
  <2>1. /\ events # None /\ Heard(covered[events.on])
        /\ UNCHANGED <<version, covered, loud, route, name, data, opening>>
        /\ Refresh(events.on, {}, caller) \/ UNCHANGED <<round, queued, caller>>
    BY <1>1 DEF Snapshot, Changes, copy, refresh, backend
  <2>2. events \in EventsState /\ events.on \in ProjectName /\ covered[events.on] \in Nat
    BY <2>1 DEF EventsState
  <2>3. events' \in EventsState /\ fingerprint' \in Version
    BY <2>1, <2>2 DEF Heard, EventsState, Version
  <2>4. (events' = None) = (name' = None \/ route' = None)
    BY <2>1, <2>3, ClientShapes
  <2>5. CASE Refresh(events.on, {}, caller)
    <3>1. Serves(Caller \ {}, round, queued, caller, version)
      BY Caller \ {} = Caller
    <3>2. /\ round' = None \/ round' \in RoundState
          /\ queued' = None \/ (round' # None /\ queued' \in QueueState)
          /\ caller' \in [Caller -> CallerState]
          /\ \A c \in Caller : /\ caller'[c].on = caller[c].on
                               /\ caller'[c].pc \in {caller[c].pc, "false"}
          /\ Serves(Caller, round', queued', caller', version)
      BY <2>2, <2>5, <3>1, RefreshServes, {} \in SUBSET Caller DEF CopyInd
    <3>3. CallersKnow'
      BY <3>2 DEF CallersKnow
    <3> QED
      BY <2>1, <2>3, <2>4, <3>2, <3>3, CopyIndFrom
  <2>6. CASE UNCHANGED <<round, queued, caller>>
    BY <2>1, <2>3, <2>4, <2>6, CopyIndFrom DEF CallersKnow
  <2> QED
    BY <2>1, <2>5, <2>6
<1>2. CASE Dropped \/ EventsBreak \/ EventsReconnect
  <2>1. /\ events # None
        /\ \/ \E s \in {"deaf", "closed"} : events' = [events EXCEPT !.state = s]
           \/ events' = [events EXCEPT !.state = "open", !.told = -1]
        /\ UNCHANGED <<version, covered, loud, route, name, data, opening, round, queued, caller, fingerprint>>
    BY <1>2 DEF Dropped, EventsBreak, EventsReconnect, copy, refresh, backend
  <2>2. events' \in EventsState
    BY <2>1 DEF EventsState, Version
  <2>3. (events' = None) = (name' = None \/ route' = None)
    BY <2>1, <2>2, ClientShapes
  <2> QED
    BY <2>1, <2>2, <2>3, CopyIndFrom DEF CallersKnow
<1> QED
  BY <1>1, <1>2

\* The steps of the callers, and the changes of everyone else.
LEMMA CallerSteps ==
    CopyInd /\ (\/ \E p \in ProjectName : OthersChange(p)
                \/ \E c \in Caller : Save(c) \/ Saved(c) \/ Finish(c))
    => CopyInd'
<1> SUFFICES ASSUME CopyInd,
                    \/ \E p \in ProjectName : OthersChange(p)
                    \/ \E c \in Caller : Save(c) \/ Saved(c) \/ Finish(c)
             PROVE  CopyInd'
  OBVIOUS
<1> USE CopyParts
<1>1. ASSUME NEW p \in ProjectName, Bump(p)
      PROVE  /\ version' \in [ProjectName -> Nat]
             /\ version'[p] = version[p] + 1
             /\ \A x \in ProjectName : version'[x] \in Nat /\ version[x] <= version'[x]
             /\ covered' \in [ProjectName -> Nat] /\ loud' \in [ProjectName -> Nat]
  <2>1. /\ version' = Bumped(version, p)
        /\ covered' \in {covered, Bumped(covered, p)} /\ loud' \in {loud, Bumped(loud, p)}
    BY <1>1, Zenon DEF Bump
  <2>2. \A f \in [ProjectName -> Nat] : Bumped(f, p) \in [ProjectName -> Nat]
    BY DEF Bumped
  <2> QED
    BY <2>1, <2>2 DEF Bumped
<1>2. ASSUME NEW p \in ProjectName, OthersChange(p)
      PROVE  CopyInd'
  <2>1. /\ Bump(p)
        /\ UNCHANGED <<route, name, data, opening, round, queued, caller, events, fingerprint>>
    BY <1>2 DEF OthersChange, copy, refresh
  <2>2. /\ version' \in [ProjectName -> Nat]
        /\ \A x \in ProjectName : version'[x] \in Nat /\ version[x] <= version'[x]
        /\ covered' \in [ProjectName -> Nat] /\ loud' \in [ProjectName -> Nat]
    BY <1>1, <2>1
  <2>3. Serves(Caller, round, queued, caller, version')
    BY <2>2, ServesLater
  <2> QED
    BY <2>1, <2>2, <2>3, CopyIndFrom DEF CallersKnow
<1>3. ASSUME NEW c \in Caller, Save(c)
      PROVE  CopyInd'
  <2> DEFINE s == [pc |-> "saving", on |-> name, since |-> 0]
  <2>1. /\ caller[c].pc = "idle" /\ name # None /\ caller' = [caller EXCEPT ![c] = s]
        /\ UNCHANGED <<version, covered, loud, route, name, data, opening, round, queued, events, fingerprint>>
    BY <1>3 DEF Save, copy, refresh, backend
  <2>2. s \in CallerState /\ s.pc = "saving" /\ s.on \in ProjectName
    BY <2>1 DEF CallerState
  <2> HIDE DEF s
  <2>3. /\ caller' \in [Caller -> CallerState] /\ caller'[c] = s
        /\ \A d \in Caller \ {c} : caller'[d] = caller[d]
    BY <2>1, <2>2
  <2>4. CallersKnow'
    BY <2>2, <2>3 DEF CallersKnow
  <2>5. Serves(Caller, round, queued, caller', version)
    BY <2>1, <2>2, <2>3 DEF Serves
  <2> QED
    BY <2>1, <2>3, <2>4, <2>5, CopyIndFrom
<1>4. ASSUME NEW c \in Caller, Saved(c)
      PROVE  CopyInd'
  <2> DEFINE p == caller[c].on
             callers == [caller EXCEPT ![c].pc = "waiting", ![c].since = version'[p]]
  <2>1. /\ caller[c].pc = "saving" /\ Bump(p) /\ Refresh(p, {c}, callers)
        /\ UNCHANGED <<route, name, data, opening, events, fingerprint>>
    BY <1>4 DEF Saved, copy
  <2>2. p \in ProjectName
    BY <2>1 DEF CallersKnow
  <2>3. /\ version' \in [ProjectName -> Nat] /\ version'[p] \in Nat
        /\ \A x \in ProjectName : version'[x] \in Nat /\ version[x] <= version'[x]
        /\ covered' \in [ProjectName -> Nat] /\ loud' \in [ProjectName -> Nat]
    BY <1>1, <2>1, <2>2
  <2>4. /\ callers \in [Caller -> CallerState]
        /\ callers[c].pc = "waiting" /\ callers[c].on = p /\ callers[c].since = version'[p]
        /\ \A d \in Caller \ {c} : callers[d] = caller[d]
    BY <2>3 DEF CallerState
  <2>5. Serves(Caller, round, queued, caller, version')
    BY <2>3, ServesLater
  <2>6. c \notin (IF round = None THEN {} ELSE round.by) /\ c \notin (IF queued = None THEN {} ELSE queued.by)
    BY <2>1, <2>5 DEF Serves
  <2> HIDE DEF callers
  <2>7. Serves(Caller \ {c}, round, queued, callers, version')
    BY <2>4, <2>5, <2>6 DEF Serves
  <2>8. \A d \in {c} : /\ callers[d].pc = "waiting" /\ callers[d].on = p
                       /\ callers[d].since <= version'[p]
    BY <2>3, <2>4
  <2>9. {c} \in SUBSET Caller
    OBVIOUS
  <2> HIDE DEF p
  <2>10. /\ round' = None \/ round' \in RoundState
         /\ queued' = None \/ (round' # None /\ queued' \in QueueState)
         /\ caller' \in [Caller -> CallerState]
         /\ \A d \in Caller : /\ caller'[d].on = callers[d].on
                              /\ caller'[d].pc \in {callers[d].pc, "false"}
         /\ Serves(Caller, round', queued', caller', version')
    BY <2>1, <2>2, <2>4, <2>7, <2>8, <2>9, RefreshServes DEF CopyInd
  <2>11. CallersKnow'
    BY <2>2, <2>4, <2>10 DEF CallersKnow
  <2> QED
    BY <2>1, <2>3, <2>10, <2>11, CopyIndFrom
<1>5. ASSUME NEW c \in Caller, Finish(c)
      PROVE  CopyInd'
  <2>1. /\ caller[c].pc \in {"true", "false"} /\ caller' = [caller EXCEPT ![c] = NoCaller]
        /\ UNCHANGED <<version, covered, loud, route, name, data, opening, round, queued, events, fingerprint>>
    BY <1>5 DEF Finish, copy, refresh, backend
  <2>2. NoCaller \in CallerState /\ NoCaller.pc = "idle"
    BY DEF NoCaller, CallerState
  <2>3. /\ caller' \in [Caller -> CallerState] /\ caller'[c] = NoCaller
        /\ \A d \in Caller \ {c} : caller'[d] = caller[d]
    BY <2>1, <2>2
  <2>4. CallersKnow'
    BY <2>2, <2>3 DEF CallersKnow
  <2>5. Serves(Caller, round, queued, caller', version)
    BY <2>1, <2>2, <2>3 DEF Serves
  <2> QED
    BY <2>1, <2>3, <2>4, <2>5, CopyIndFrom
<1> QED
  BY <1>2, <1>3, <1>4, <1>5

LEMMA CopyIndStart == ProjectInit => CopyInd
<1> SUFFICES ASSUME ProjectInit PROVE CopyInd
  OBVIOUS
<1>1. CopyTypeOK /\ \A c \in Caller : caller[c].pc = "idle"
  BY DEF ProjectInit, CopyTypeOK, NoCaller, Version
<1> QED
  BY <1>1 DEF ProjectInit, CopyInd, CallersKnow, Serves

LEMMA CopyIndStep == CopyInd /\ [ProjectNext]_projectVars => CopyInd'
<1> SUFFICES ASSUME CopyInd, [ProjectNext]_projectVars PROVE CopyInd'
  OBVIOUS
<1>1. CASE UNCHANGED projectVars
  BY <1>1 DEF projectVars, CopyInd, CopyTypeOK, CallersKnow, Serves
<1>2. CASE ProjectNext
  BY <1>2, RoundSteps, RouterSteps, EventSteps, CallerSteps DEF ProjectNext, Fetching, Listening
<1> QED
  BY <1>1, <1>2

LEMMA CopyIndHolds == ProjectSpec => []CopyInd
<1> QED
  BY CopyIndStart, CopyIndStep, PTL DEF ProjectSpec

\* projects-store.ts: nobody who awaits a refresh is lost, each waits for its
\* own project, and no round serves a caller who saved after its answer was read.
THEOREM NobodyIsForgotten == ProjectSpec => []CopyInv
<1>1. CopyInd => CopyInv
  <2> SUFFICES ASSUME CopyInd PROVE CopyInv
    OBVIOUS
  <2>1. CopyTypeOK
    BY DEF CopyInd
  <2>2. WaitsSomewhere
    BY DEF CopyInd, Serves, WaitsSomewhere
  <2>3. WaitsForItsOwn
    BY DEF CopyInd, Serves, WaitsForItsOwn
  <2> QED
    BY <2>1, <2>2, <2>3 DEF CopyInv
<1> QED
  BY <1>1, CopyIndHolds, PTL

\* Whoever is told true was served by the round that ended, which was for its
\* project, wrote it to the store and was read after the save.
LEMMA ToldTrulyStep ==
    ASSUME CopyInd, [ProjectNext]_projectVars, NEW c \in Caller,
           caller[c].pc = "waiting", caller'[c].pc = "true"
    PROVE  name' = caller[c].on /\ data' >= caller[c].since
<1> USE CopyParts
<1>1. ASSUME NEW p \in ProjectName, NEW cs \in SUBSET Caller,
             NEW callers \in [Caller -> CallerState], Refresh(p, cs, callers),
             callers[c].pc = "waiting"
      PROVE  FALSE
  <2>1. caller'[c] = callers[c] \/ caller'[c] = [callers[c] EXCEPT !.pc = "false"]
    BY <1>1 DEF Refresh
  <2>2. [callers[c] EXCEPT !.pc = "false"].pc = "false"
    BY <1>1 DEF CallerState
  <2> QED
    BY <1>1, <2>1, <2>2
<1>2. CASE RoundEnds
  <2>1. round # None /\ round.pc = "got" /\ caller' = Answer(round.by, ~Superseded) /\ NextRound
    BY <1>2 DEF RoundEnds
  <2>2. (~Superseded) \in BOOLEAN
    BY DEF Superseded
  <2>3. c \in round.by /\ ~Superseded
    BY <2>1, <2>2, RoundAnswered
  <2>4. name' = round.on /\ data' = round.at
    BY <1>2, <2>3 DEF RoundEnds, SetProject
  <2> QED
    BY <2>1, <2>3, <2>4 DEF Serves
<1>3. CASE RoundFails
  BY <1>3, RoundAnswered DEF RoundFails
<1>4. CASE Snapshot \/ Changes
  <2>1. events # None /\ (Refresh(events.on, {}, caller) \/ UNCHANGED caller)
    BY <1>4 DEF Snapshot, Changes, refresh
  <2>2. events.on \in ProjectName /\ {} \in SUBSET Caller
    BY <2>1 DEF EventsState
  <2> QED
    BY <1>1, <2>1, <2>2
<1>5. ASSUME NEW d \in Caller, Saved(d)
      PROVE  FALSE
  <2> DEFINE p == caller[d].on
             callers == [caller EXCEPT ![d].pc = "waiting", ![d].since = version'[p]]
  <2>1. caller[d].pc = "saving" /\ Bump(p) /\ Refresh(p, {d}, callers)
    BY <1>5 DEF Saved
  <2>2. p \in ProjectName /\ {d} \in SUBSET Caller
    BY <2>1 DEF CallersKnow
  <2>3. version'[p] \in Nat
    <3>1. version' = Bumped(version, p)
      BY <2>1, Zenon DEF Bump
    <3> QED
      BY <2>2, <3>1 DEF Bumped
  <2>4. callers \in [Caller -> CallerState] /\ callers[c].pc = "waiting"
    BY <2>1, <2>3 DEF CallerState
  <2> QED
    BY <1>1, <2>1, <2>2, <2>4
<1>6. ASSUME NEW d \in Caller, Save(d) \/ Finish(d)
      PROVE  FALSE
  BY <1>6 DEF Save, Finish, NoCaller, CallerState
<1>7. CASE UNCHANGED caller
  BY <1>7
<1> QED
  <2>1. \/ RoundEnds \/ RoundFails \/ Snapshot \/ Changes
        \/ \E d \in Caller : Save(d) \/ Saved(d) \/ Finish(d)
        \/ UNCHANGED caller
    BY DEF ProjectNext, Fetching, Listening, projectVars, RoundGets, RouterGets, RouterOpens,
       EventsReconnect, RouterFails, Dropped, EventsBreak, Go, OthersChange
  <2> QED
    BY <2>1, <1>2, <1>3, <1>4, <1>5, <1>6, <1>7

\* projects-store.ts, refreshProject: whoever is told true finds its project in
\* the store, with what it saved.
THEOREM RefreshToldTruly == ProjectSpec => ToldTruly
<1>1. CopyInd /\ [ProjectNext]_projectVars =>
        [\A c \in Caller :
           caller[c].pc = "waiting" /\ caller'[c].pc = "true"
           => name' = caller[c].on /\ data' >= caller[c].since]_projectVars
  BY ToldTrulyStep
<1> QED
  BY <1>1, CopyIndHolds, PTL DEF ProjectSpec, ToldTruly

-----------------------------------------------------------------------------
(* The chat pane, AssistantClient. *)

LoadState == [pc : {"off", "get", "got", "list"}, on : Session \cup {NULL}, was : BOOLEAN \cup {NULL}]
PostState == [pc : {"off", "sent", "failed", "created", "accepted", "gap"},
              was : Session \cup {NULL}, to : Session \cup {NULL}, live : BOOLEAN,
              seq : Nat \cup {-1}, from : Project \cup Nat \cup {-1}]
FailedState == [was : Session \cup {NULL}, from : Project \cup Nat \cup {-1},
                to : Session \cup {NULL}, seq : Nat]
StreamState == [on : Session, cursor : Nat \cup {-1}, state : {"open", "lost", "dead"}]

\* The calls know what they are about: an entry that was accepted is there.
CallsKnow ==
    /\ \A i \in Load : load[i].pc # "off" => load[i].on \in Session
    /\ \A i \in Post :
          /\ post[i].live => post[i].pc # "off"
          /\ post[i].pc \in {"created", "accepted", "gap"} => post[i].seq # -1
          /\ post[i].seq # -1 =>
               post[i].to \in Session /\ post[i].seq \in 0..(size[post[i].to] - 1)
          /\ post[i].pc = "gap" => post[i].from \in Nat \cup {-1}
    /\ failedSend # NULL =>
          failedSend.to \in Session /\ failedSend.seq \in 0..(size[failedSend.to] - 1)

\* What the pane can hold: entries of sessions, with a last one.
Timeline(es) ==
    /\ DOMAIN es \subseteq Nat /\ es \in [DOMAIN es -> Session]
    /\ DOMAIN es = {} \/ \E m \in DOMAIN es : \A n \in DOMAIN es : n <= m

\* Until the sessions are listed nothing is in flight and nothing is shown.
Quiet ==
    listing /\ strayed \subseteq {"session", "load"} =>
        /\ DOMAIN entries = {} /\ stream = NULL /\ timer = NULL
        /\ \A i \in Load : load[i].pc = "off"
        /\ \A i \in Post : ~post[i].live /\ post[i].pc # "gap"

\* A message without a session is alone, and was sent from a pane without one.
Alone ==
    strayed \subseteq {"session", "load"} =>
        \A i \in Post : post[i].live =>
            /\ post[i].pc = "created" \/ (post[i].pc = "sent" /\ post[i].was = NULL) => cur = NULL
            /\ cur = NULL => sending /\ \A j \in Post : post[j].live => j = i

\* What is in flight is for the session shown, unless the user has moved on.
InStep ==
    strayed \subseteq {"load"} =>
        /\ \A i \in Load : load[i].pc # "off" => load[i].on = cur
        /\ \A i \in Post : post[i].pc = "gap" => post[i].to = cur /\ post[i].from <= LastSeq(entries)
        /\ stream # NULL => stream.on = cur /\ stream.cursor <= LastSeq(entries)
        /\ timer # NULL => timer = cur

PaneInd == PaneTypeOK /\ CallsKnow /\ Timeline(entries) /\ Quiet /\ Alone /\ InStep /\ OwnEntries /\ NoGap

LEMMA NoneElse ==
    /\ NULL \notin Session /\ NULL \notin Project /\ NULL \notin StreamState
    /\ Load \subseteq Nat /\ Post \subseteq Nat
    /\ Home \in [Session -> Project] /\ Unborn \subseteq Session
BY AssistantClientAssumption DEF AssistantClientAssumption, StreamState, Load, Post

-----------------------------------------------------------------------------
(* Timelines *)

LEMMA LastIs ==
    ASSUME NEW es, DOMAIN es \subseteq Nat, NEW m \in DOMAIN es, \A n \in DOMAIN es : n <= m
    PROVE  LastSeq(es) = m
<1>1. \A x \in DOMAIN es : (\A y \in DOMAIN es : x >= y) => x = m
  OBVIOUS
<1>2. Max(DOMAIN es) = m
  <2>1. \A y \in DOMAIN es : m >= y
    OBVIOUS
  <2> QED
    BY <1>1, <2>1 DEF Max
<1> QED
  BY <1>2 DEF LastSeq

LEMMA LastKnown ==
    ASSUME NEW es, Timeline(es)
    PROVE  /\ LastSeq(es) \in Nat \cup {-1}
           /\ \A n \in DOMAIN es : n <= LastSeq(es)
           /\ DOMAIN es = {} => LastSeq(es) = -1
           /\ DOMAIN es # {} => LastSeq(es) \in DOMAIN es
<1>1. CASE DOMAIN es = {}
  BY <1>1 DEF LastSeq
<1>2. CASE DOMAIN es # {}
  <2>1. PICK m \in DOMAIN es : \A n \in DOMAIN es : n <= m
    BY <1>2 DEF Timeline
  <2>2. LastSeq(es) = m /\ m \in Nat
    BY <2>1, LastIs DEF Timeline
  <2> QED
    BY <1>2, <2>1, <2>2
<1> QED
  BY <1>1, <1>2

LEMMA Appending ==
    ASSUME NEW es, Timeline(es), NEW s \in Session, NEW n \in Nat
    PROVE  LET new == AppendEntry(es, s, n)
           IN /\ Timeline(new)
              /\ LastSeq(new) >= LastSeq(es) /\ LastSeq(new) >= n
              /\ \A m \in DOMAIN new : new[m] = s \/ (m \in DOMAIN es /\ new[m] = es[m])
              /\ DOMAIN es = 0..LastSeq(es) /\ n <= LastSeq(es) + 1 => DOMAIN new = 0..LastSeq(new)
<1> DEFINE new == AppendEntry(es, s, n)
<1>1. /\ LastSeq(es) \in Nat \cup {-1} /\ \A m \in DOMAIN es : m <= LastSeq(es)
      /\ DOMAIN es \subseteq Nat /\ es \in [DOMAIN es -> Session]
  BY LastKnown DEF Timeline
<1>2. CASE n <= LastSeq(es)
  BY <1>1, <1>2 DEF AppendEntry
<1>3. CASE n > LastSeq(es)
  <2>1. /\ DOMAIN new = DOMAIN es \cup {n}
        /\ \A m \in DOMAIN new : new[m] = IF m = n THEN s ELSE es[m]
        /\ new = [m \in DOMAIN new |-> new[m]]
    BY <1>1, <1>3 DEF AppendEntry
  <2> HIDE DEF new
  <2>2. DOMAIN new \subseteq Nat /\ n \in DOMAIN new /\ \A m \in DOMAIN new : m <= n
    BY <1>1, <1>3, <2>1
  <2>3. new \in [DOMAIN new -> Session]
    BY <1>1, <2>1
  <2>4. LastSeq(new) = n
    BY <2>2, LastIs
  <2>5. Timeline(new)
    BY <2>2, <2>3 DEF Timeline
  <2>6. DOMAIN es = 0..LastSeq(es) /\ n <= LastSeq(es) + 1 => DOMAIN new = 0..n
    BY <1>1, <1>3, <2>1
  <2> QED
    BY <1>1, <1>3, <2>1, <2>4, <2>5, <2>6 DEF new
<1> QED
  BY <1>1, <1>2, <1>3

\* Merging the entries a..b of s into es gives new.
Merges(es, new, s, a, b) ==
    /\ Timeline(new)
    /\ LastSeq(new) >= LastSeq(es)
    /\ \A m \in DOMAIN new : new[m] = s \/ (m \in DOMAIN es /\ new[m] = es[m])
    /\ a <= LastSeq(es) + 1 => LastSeq(new) >= b
    /\ DOMAIN es = 0..LastSeq(es) /\ a <= LastSeq(es) + 1 => DOMAIN new = 0..LastSeq(new)

LEMMA Merging ==
    ASSUME NEW es, Timeline(es), NEW s \in Session, NEW a \in Nat, NEW b \in Nat \cup {-1}
    PROVE  Merges(es, Merge(es, s, a..b), s, a, b)
<1> USE DEF Merges
<1> DEFINE new == Merge(es, s, a..b)
<1>1. /\ LastSeq(es) \in Nat \cup {-1} /\ \A m \in DOMAIN es : m <= LastSeq(es)
      /\ DOMAIN es \subseteq Nat /\ es \in [DOMAIN es -> Session]
      /\ DOMAIN es = {} => LastSeq(es) = -1
      /\ DOMAIN es # {} => LastSeq(es) \in DOMAIN es
  BY LastKnown DEF Timeline
<1>2. /\ DOMAIN new = DOMAIN es \cup (a..b)
      /\ \A m \in DOMAIN new : new[m] = IF m \in DOMAIN es THEN es[m] ELSE s
      /\ new = [m \in DOMAIN new |-> new[m]]
  BY DEF Merge
<1> HIDE DEF new
<1>3. DOMAIN new \subseteq Nat
  BY <1>1, <1>2
<1>4. new \in [DOMAIN new -> Session]
  BY <1>1, <1>2
<1>5. CASE a <= b /\ b > LastSeq(es)
  <2>1. b \in DOMAIN new /\ \A m \in DOMAIN new : m <= b
    BY <1>1, <1>2, <1>5
  <2>2. LastSeq(new) = b
    BY <1>3, <2>1, LastIs
  <2>3. Timeline(new)
    BY <1>3, <1>4, <2>1 DEF Timeline
  <2>4. DOMAIN es = 0..LastSeq(es) /\ a <= LastSeq(es) + 1 => DOMAIN new = 0..b
    BY <1>1, <1>2, <1>5
  <2> QED
    BY <1>1, <1>2, <1>5, <2>2, <2>3, <2>4 DEF new
<1>6. CASE ~(a <= b /\ b > LastSeq(es)) /\ DOMAIN es # {}
  <2>1. LastSeq(es) \in DOMAIN new /\ \A m \in DOMAIN new : m <= LastSeq(es)
    BY <1>1, <1>2, <1>6
  <2>2. LastSeq(new) = LastSeq(es)
    BY <1>3, <2>1, LastIs
  <2>3. Timeline(new)
    BY <1>3, <1>4, <2>1 DEF Timeline
  <2>4. DOMAIN es = 0..LastSeq(es) /\ a <= LastSeq(es) + 1 => DOMAIN new = 0..LastSeq(es)
    BY <1>1, <1>2, <1>6
  <2> QED
    BY <1>1, <1>2, <1>6, <2>2, <2>3, <2>4 DEF new
<1>7. CASE ~(a <= b /\ b > LastSeq(es)) /\ DOMAIN es = {}
  <2>1. DOMAIN new = {}
    BY <1>1, <1>2, <1>7
  <2>2. Timeline(new)
    BY <1>3, <1>4, <2>1 DEF Timeline
  <2>3. LastSeq(new) = -1
    BY <2>1, <2>2, LastKnown
  <2> QED
    BY <1>1, <1>2, <1>7, <2>1, <2>2, <2>3 DEF new
<1> QED
  BY <1>5, <1>6, <1>7

-----------------------------------------------------------------------------
(* The steps *)

\* The invariant, with the parts a step leaves alone at hand.
LEMMA PaneParts ==
    ASSUME PaneInd
    PROVE  /\ size \in [Session -> Nat] /\ running \in [Session -> BOOLEAN] /\ born \subseteq Session
           /\ project \in Project \cup {NULL} /\ cur \in Session \cup {NULL}
           /\ shown \in {"idle", "running", "ended"} /\ sending \in BOOLEAN
           /\ stream = NULL \/ stream \in StreamState
           /\ timer \in Session \cup {NULL} /\ listing \in BOOLEAN
           /\ load \in [Load -> LoadState] /\ post \in [Post -> PostState]
           /\ failedSend = NULL \/ failedSend \in FailedState
           /\ strayed \subseteq {"session", "project", "early", "gap", "load"}
           /\ Timeline(entries)
BY DEF PaneInd, PaneTypeOK, StreamState, LoadState, PostState, FailedState

LEMMA PaneFrom ==
    ASSUME size' \in [Session -> Nat], running' \in [Session -> BOOLEAN], born' \subseteq Session,
           project' \in Project \cup {NULL}, cur' \in Session \cup {NULL},
           shown' \in {"idle", "running", "ended"}, sending' \in BOOLEAN,
           stream' = NULL \/ stream' \in StreamState,
           timer' \in Session \cup {NULL}, listing' \in BOOLEAN,
           load' \in [Load -> LoadState], post' \in [Post -> PostState],
           failedSend' = NULL \/ failedSend' \in FailedState,
           strayed' \subseteq {"session", "project", "early", "gap", "load"},
           Timeline(entries'), CallsKnow', Quiet', Alone', InStep', OwnEntries', NoGap'
    PROVE  PaneInd'
<1>1. DOMAIN entries' \subseteq Nat /\ entries' \in [DOMAIN entries' -> Session]
  BY DEF Timeline
<1>2. PaneTypeOK'
  BY <1>1 DEF PaneTypeOK, StreamState, LoadState, PostState, FailedState
<1> QED
  BY <1>2 DEF PaneInd

LEMMA ServerSteps ==
    PaneInd /\ (\E s \in Session : OtherTabPosts(s) \/ TurnGoesOn(s) \/ TurnEnds(s)) => PaneInd'
<1> SUFFICES ASSUME PaneInd, NEW s \in Session, OtherTabPosts(s) \/ TurnGoesOn(s) \/ TurnEnds(s)
             PROVE  PaneInd'
  OBVIOUS
<1> USE PaneParts
<1>1. /\ UNCHANGED <<born, project, cur, entries, shown, sending, stream, timer, listing, load,
                     post, failedSend, strayed>>
      /\ Grow(s) \/ size' = size
      /\ running' = running \/ \E b \in BOOLEAN : running' = [running EXCEPT ![s] = b]
  BY DEF OtherTabPosts, TurnGoesOn, TurnEnds, pane, source
<1>2. Grow(s) => size' = [size EXCEPT ![s] = size[s] + 1]
  BY Zenon DEF Grow
<1>3. size' \in [Session -> Nat] /\ \A x \in Session : size'[x] >= size[x]
  BY <1>1, <1>2
<1>4. running' \in [Session -> BOOLEAN]
  BY <1>1
<1>5. CallsKnow'
  <2>1. /\ \A i \in Post : post[i].seq # -1 =>
             post[i].to \in Session /\ post[i].seq \in 0..(size'[post[i].to] - 1)
        /\ failedSend # NULL =>
             failedSend.to \in Session /\ failedSend.seq \in 0..(size'[failedSend.to] - 1)
    BY <1>3 DEF PaneInd, CallsKnow
  <2> QED
    BY <1>1, <2>1 DEF PaneInd, CallsKnow
<1>6. Quiet' /\ Alone' /\ InStep' /\ OwnEntries' /\ NoGap'
  BY <1>1 DEF PaneInd, Quiet, Alone, InStep, OwnEntries, NoGap
<1> QED
  BY <1>1, <1>3, <1>4, <1>5, <1>6, PaneFrom

\* Connect keeps a stream of the session or opens one behind the last entry.
LEMMA Connected ==
    ASSUME PaneInd, NEW s \in Session, NEW es, Timeline(es), Connect(s, es)
    PROVE  /\ stream' = NULL \/ stream' \in StreamState
           /\ timer' \in Session \cup {NULL}
           /\ \/ stream # NULL /\ stream.on = s /\ UNCHANGED <<stream, timer>>
              \/ stream' \in StreamState /\ stream'.on = s /\ stream'.cursor = LastSeq(es) /\ timer' = NULL
<1> USE PaneParts
<1>1. CASE stream # NULL /\ stream.on = s /\ stream.state # "dead"
  BY <1>1 DEF Connect, source
<1>2. CASE ~(stream # NULL /\ stream.on = s /\ stream.state # "dead")
  <2> DEFINE new == [on |-> s, cursor |-> LastSeq(es), state |-> "open"]
  <2>1. stream' = new /\ timer' = NULL
    BY <1>2 DEF Connect
  <2>2. new \in StreamState
    BY LastKnown DEF StreamState
  <2> QED
    BY <2>1, <2>2
<1> QED
  BY <1>1, <1>2

LEMMA StreamSteps ==
    PaneInd /\ (StreamStatus \/ StreamLost \/ BrowserReconnects \/ OnError \/ TimerFires) => PaneInd'
<1> SUFFICES ASSUME PaneInd,
                    StreamStatus \/ StreamLost \/ BrowserReconnects \/ OnError \/ TimerFires
             PROVE  PaneInd'
  OBVIOUS
<1> USE PaneParts
<1>1. UNCHANGED <<size, running, born, project, cur, entries, listing, load, post, failedSend, strayed>>
  BY DEF StreamStatus, StreamLost, BrowserReconnects, OnError, TimerFires, server, pane
<1>2. /\ shown' \in {"idle", "running", "ended"} /\ sending' \in BOOLEAN
      /\ sending' = sending \/ cur # NULL
      /\ stream' = NULL \/ stream' \in StreamState
      /\ timer' \in Session \cup {NULL}
      /\ stream = NULL /\ timer = NULL => FALSE
      /\ stream' # NULL => \/ stream # NULL /\ stream'.on = stream.on /\ stream'.cursor = stream.cursor
                           \/ timer # NULL /\ stream'.on = timer /\ stream'.cursor = LastSeq(entries)
      /\ timer' # NULL => timer' = timer \/ (stream # NULL /\ timer' = stream.on)
  <2>1. CASE StreamStatus
    <3>1. stream \in StreamState
      BY <2>1 DEF StreamStatus, Streams
    <3>2. CASE Active
      BY <2>1, <3>1, <3>2, NoneElse DEF StreamStatus, Active, CloseStream, StreamState
    <3>3. CASE ~Active
      <4>1. stream' = [stream EXCEPT !.state = "lost"] /\ UNCHANGED <<shown, sending, timer>>
        BY <2>1, <3>3 DEF StreamStatus, Turned
      <4> QED
        BY <3>1, <4>1, NoneElse DEF StreamState
    <3> QED
      BY <3>2, <3>3
  <2>2. CASE StreamLost \/ BrowserReconnects \/ OnError
    <3>1. stream \in StreamState
      BY <2>2 DEF StreamLost, BrowserReconnects, OnError, Streams
    <3>2. /\ \E st \in {"open", "lost", "dead"} : stream' = [stream EXCEPT !.state = st]
          /\ UNCHANGED <<shown, sending>>
          /\ timer' \in {timer, stream.on}
      BY <2>2 DEF StreamLost, BrowserReconnects, OnError, Turned, pane
    <3> QED
      BY <3>1, <3>2, NoneElse DEF StreamState
  <2>3. CASE TimerFires
    <3>1. timer \in Session /\ Connect(timer, entries) /\ UNCHANGED <<shown, sending>>
      BY <2>3 DEF TimerFires, pane
    <3> QED
      BY <3>1, Connected, NoneElse
  <2> QED
    BY <2>1, <2>2, <2>3
<1>3. CallsKnow' /\ Quiet' /\ OwnEntries' /\ NoGap'
  BY <1>1, <1>2 DEF PaneInd, CallsKnow, Quiet, OwnEntries, NoGap
<1>4. Alone'
  BY <1>1, <1>2 DEF PaneInd, Alone
<1>5. InStep'
  <2>1. strayed \subseteq {"load"} =>
          /\ stream' # NULL => stream'.on = cur /\ stream'.cursor <= LastSeq(entries)
          /\ timer' # NULL => timer' = cur
    <3>1. LastSeq(entries) <= LastSeq(entries)
      BY LastKnown
    <3> QED
      BY <1>2, <3>1 DEF PaneInd, InStep
  <2> QED
    BY <1>1, <2>1 DEF PaneInd, InStep
<1> QED
  BY <1>1, <1>2, <1>3, <1>4, <1>5, PaneFrom

LEMMA EntryStep == PaneInd /\ StreamEntry => PaneInd'
<1> SUFFICES ASSUME PaneInd, StreamEntry PROVE PaneInd'
  OBVIOUS
<1> USE PaneParts
<1>1. /\ stream \in StreamState /\ stream # NULL
      /\ stream' = [stream EXCEPT !.cursor = stream.cursor + 1]
      /\ entries' = IF Active THEN AppendEntry(entries, stream.on, stream.cursor + 1) ELSE entries
      /\ UNCHANGED <<size, running, born, project, cur, shown, sending, timer, listing, load, post, failedSend, strayed>>
  BY DEF StreamEntry, Streams, server
<1>2. /\ stream' \in StreamState /\ stream'.on = stream.on /\ stream'.cursor = stream.cursor + 1
      /\ stream.on \in Session /\ stream.cursor + 1 \in Nat /\ stream.cursor \in Nat \cup {-1}
  BY <1>1 DEF StreamState
<1>3. /\ Timeline(entries')
      /\ LastSeq(entries') >= LastSeq(entries)
      /\ Active => LastSeq(entries') >= stream.cursor + 1
      /\ \A m \in DOMAIN entries' :
            entries'[m] = cur \/ (m \in DOMAIN entries /\ entries'[m] = entries[m])
      /\ DOMAIN entries = 0..LastSeq(entries) /\ (Active => stream.cursor <= LastSeq(entries))
           => DOMAIN entries' = 0..LastSeq(entries')
  <2>1. LastSeq(entries) \in Nat \cup {-1}
    BY LastKnown
  <2>2. CASE Active
    BY <1>1, <1>2, <2>1, <2>2, Appending DEF Active
  <2>3. CASE ~Active
    BY <1>1, <2>1, <2>3
  <2> QED
    BY <2>2, <2>3
<1>4. CallsKnow' /\ Quiet' /\ Alone'
  BY <1>1 DEF PaneInd, CallsKnow, Quiet, Alone
<1>5. InStep'
  <2>1. LastSeq(entries) \in Nat \cup {-1} /\ LastSeq(entries') \in Nat \cup {-1}
    BY <1>3, LastKnown
  <2>2. ASSUME strayed \subseteq {"load"}
        PROVE  /\ stream'.on = cur /\ stream'.cursor <= LastSeq(entries')
               /\ timer' # NULL => timer' = cur
               /\ \A i \in Load : load[i].pc # "off" => load[i].on = cur
    BY <1>1, <1>2, <1>3, <2>2 DEF PaneInd, InStep, Active
  <2>3. ASSUME strayed \subseteq {"load"}, NEW i \in Post, post[i].pc = "gap"
        PROVE  post[i].to = cur /\ post[i].from <= LastSeq(entries')
    <3>1. post[i].to = cur /\ post[i].from <= LastSeq(entries) /\ post[i].from \in Nat \cup {-1}
      BY <2>3 DEF PaneInd, InStep, CallsKnow
    <3> QED
      BY <1>3, <2>1, <3>1
  <2> QED
    BY <1>1, <2>2, <2>3 DEF InStep
<1>6. OwnEntries' /\ NoGap'
  BY <1>1, <1>3 DEF PaneInd, OwnEntries, NoGap, InStep
<1> QED
  BY <1>1, <1>2, <1>3, <1>4, <1>5, <1>6, PaneFrom

\* A load that goes on or ends.
LEMMA LoadMoves ==
    ASSUME PaneInd, NEW i \in Load, load[i].pc # "off", NEW l \in LoadState, load' = [load EXCEPT ![i] = l],
           l.pc = "off" \/ l.on = load[i].on
    PROVE  /\ load' \in [Load -> LoadState]
           /\ \A j \in Load : load'[j].pc # "off" => load[j].pc # "off" /\ load'[j].on = load[j].on
BY PaneParts

LEMMA LoadSteps ==
    PaneInd /\ (\E i \in Load : ServerGets(i) \/ LoadFails(i) \/ LoadStatus(i) \/ LoadEntries(i))
    => PaneInd'
<1> SUFFICES ASSUME PaneInd, NEW i \in Load,
                    ServerGets(i) \/ LoadFails(i) \/ LoadStatus(i) \/ LoadEntries(i)
             PROVE  PaneInd'
  OBVIOUS
<1> USE PaneParts
<1>1. /\ load[i].pc # "off" /\ load[i] \in LoadState /\ load[i].on \in Session
      /\ UNCHANGED <<size, running, born, project, cur, sending, listing, post, failedSend>>
  <2>1. load[i].pc # "off" /\ UNCHANGED <<size, running, born, project, cur, sending, listing, post, failedSend>>
    BY DEF ServerGets, LoadFails, LoadStatus, LoadEntries, LoadAt, server, pane
  <2> QED
    BY <2>1 DEF PaneInd, CallsKnow
<1>2. NoLoad \in LoadState /\ NoLoad.pc = "off"
  BY DEF NoLoad, LoadState
<1>3. ~(listing /\ strayed \subseteq {"session", "load"})
  BY <1>1 DEF PaneInd, Quiet
<1>4. CASE ServerGets(i)
  <2> DEFINE l == [load[i] EXCEPT !.pc = "got", !.was = running[load[i].on]]
  <2>1. running[load[i].on] \in BOOLEAN
    BY <1>1
  <2>2. load' = [load EXCEPT ![i] = l] /\ UNCHANGED <<entries, shown, stream, timer, strayed>>
    BY <1>4 DEF ServerGets, pane, source
  <2>3. l \in LoadState /\ l.on = load[i].on
    BY <1>1, <2>1 DEF LoadState
  <2> HIDE DEF l
  <2>4. /\ load' \in [Load -> LoadState]
        /\ \A j \in Load : load'[j].pc # "off" => load[j].pc # "off" /\ load'[j].on = load[j].on
    BY <1>1, <2>2, <2>3, LoadMoves
  <2>5. CallsKnow' /\ Quiet' /\ Alone' /\ InStep' /\ OwnEntries' /\ NoGap'
    BY <1>1, <1>3, <2>2, <2>4 DEF PaneInd, CallsKnow, Quiet, Alone, InStep, OwnEntries, NoGap
  <2> QED
    BY <1>1, <2>2, <2>4, <2>5, PaneFrom
<1>5. CASE LoadFails(i)
  <2>1. /\ load' = [load EXCEPT ![i] = NoLoad] /\ UNCHANGED <<entries, shown, stream, timer>>
        /\ strayed' = strayed \cup {"load"}
    BY <1>5 DEF LoadFails, EndLoad, pane, source
  <2>2. /\ load' \in [Load -> LoadState]
        /\ \A j \in Load : load'[j].pc # "off" => load[j].pc # "off" /\ load'[j].on = load[j].on
    BY <1>1, <1>2, <2>1, LoadMoves
  <2>3. CallsKnow' /\ Quiet' /\ Alone' /\ InStep' /\ OwnEntries' /\ NoGap'
    BY <1>1, <1>3, <2>1, <2>2 DEF PaneInd, CallsKnow, Quiet, Alone, InStep, OwnEntries, NoGap
  <2> QED
    BY <1>1, <2>1, <2>2, <2>3, PaneFrom
<1>6. CASE LoadStatus(i)
  <2>1. /\ UNCHANGED <<entries, strayed>> /\ shown' \in {"running", "ended"}
        /\ \/ Connect(load[i].on, entries) /\ load' = [load EXCEPT ![i] = NoLoad]
           \/ /\ UNCHANGED <<stream, timer>>
              /\ load' = [load EXCEPT ![i] = [load[i] EXCEPT !.pc = "list"]]
    BY <1>6 DEF LoadStatus, EndLoad, source
  <2>2. [load[i] EXCEPT !.pc = "list"] \in LoadState /\ [load[i] EXCEPT !.pc = "list"].on = load[i].on
    BY <1>1 DEF LoadState
  <2>3. /\ load' \in [Load -> LoadState]
        /\ \A j \in Load : load'[j].pc # "off" => load[j].pc # "off" /\ load'[j].on = load[j].on
    BY <1>1, <1>2, <2>1, <2>2, LoadMoves
  <2>4. /\ stream' = NULL \/ stream' \in StreamState
        /\ timer' \in Session \cup {NULL}
        /\ \/ UNCHANGED <<stream, timer>>
           \/ stream' \in StreamState /\ stream'.on = load[i].on /\ stream'.cursor = LastSeq(entries) /\ timer' = NULL
    BY <1>1, <2>1, Connected
  <2>5. CallsKnow' /\ Quiet' /\ Alone' /\ OwnEntries' /\ NoGap'
    BY <1>1, <1>3, <2>1, <2>3 DEF PaneInd, CallsKnow, Quiet, Alone, OwnEntries, NoGap
  <2>6. InStep'
    <3>1. LastSeq(entries) <= LastSeq(entries)
      BY LastKnown
    <3> QED
      BY <1>1, <2>1, <2>3, <2>4, <3>1, NoneElse DEF PaneInd, InStep
  <2> QED
    BY <1>1, <2>1, <2>3, <2>4, <2>5, <2>6, PaneFrom
<1>7. CASE LoadEntries(i)
  <2>1. /\ load' = [load EXCEPT ![i] = NoLoad] /\ UNCHANGED <<shown, stream, timer, strayed>>
        /\ entries' = IF cur = load[i].on THEN Merge(entries, cur, 0..(size[cur] - 1)) ELSE entries
    BY <1>7 DEF LoadEntries, EndLoad, source
  <2>2. /\ load' \in [Load -> LoadState]
        /\ \A j \in Load : load'[j].pc # "off" => load[j].pc # "off" /\ load'[j].on = load[j].on
    BY <1>1, <1>2, <2>1, LoadMoves
  <2>3. LastSeq(entries) \in Nat \cup {-1}
    BY LastKnown
  <2>4. /\ Timeline(entries')
        /\ LastSeq(entries') >= LastSeq(entries)
        /\ \A m \in DOMAIN entries' :
              entries'[m] = cur \/ (m \in DOMAIN entries /\ entries'[m] = entries[m])
        /\ DOMAIN entries = 0..LastSeq(entries) => DOMAIN entries' = 0..LastSeq(entries')
    <3>1. CASE cur = load[i].on
      <4>1. cur \in Session /\ size[cur] - 1 \in Nat \cup {-1} /\ 0 <= LastSeq(entries) + 1
        BY <1>1, <2>3, <3>1
      <4>2. Merges(entries, Merge(entries, cur, 0..(size[cur] - 1)), cur, 0, size[cur] - 1)
        BY <4>1, Merging
      <4> QED
        BY <2>1, <3>1, <4>1, <4>2 DEF Merges
    <3>2. CASE cur # load[i].on
      BY <2>1, <2>3, <3>2
    <3> QED
      BY <3>1, <3>2
  <2>5. LastSeq(entries') \in Nat \cup {-1}
    BY <2>4, LastKnown
  <2>6. CallsKnow' /\ Quiet' /\ Alone' /\ OwnEntries' /\ NoGap'
    BY <1>1, <1>3, <2>1, <2>2, <2>4 DEF PaneInd, CallsKnow, Quiet, Alone, OwnEntries, NoGap
  <2>7. InStep'
    <3>1. ASSUME strayed \subseteq {"load"}, NEW j \in Post, post[j].pc = "gap"
          PROVE  post[j].to = cur /\ post[j].from <= LastSeq(entries')
      <4>1. post[j].to = cur /\ post[j].from <= LastSeq(entries) /\ post[j].from \in Nat \cup {-1}
        BY <3>1 DEF PaneInd, InStep, CallsKnow
      <4> QED
        BY <2>3, <2>4, <2>5, <4>1
    <3>2. ASSUME strayed \subseteq {"load"}, stream # NULL
          PROVE  stream.on = cur /\ stream.cursor <= LastSeq(entries')
      <4>1. stream.on = cur /\ stream.cursor <= LastSeq(entries) /\ stream.cursor \in Nat \cup {-1}
        BY <3>2 DEF PaneInd, InStep, StreamState
      <4> QED
        BY <2>3, <2>4, <2>5, <4>1
    <3> QED
      BY <1>1, <2>1, <2>2, <3>1, <3>2 DEF PaneInd, InStep
  <2> QED
    BY <1>1, <2>1, <2>2, <2>4, <2>6, <2>7, PaneFrom
<1> QED
  BY <1>4, <1>5, <1>6, <1>7

\* A post that goes on or ends, and the others.
LEMMA PostMoves ==
    ASSUME PaneInd, NEW i \in Post, NEW p \in PostState, post' = [post EXCEPT ![i] = p]
    PROVE  /\ post' \in [Post -> PostState]
           /\ post'[i] = p /\ \A j \in Post : j # i => post'[j] = post[j]
BY PaneParts

LEMMA NoPostOff == NoPost \in PostState /\ NoPost.pc = "off" /\ NoPost.live = FALSE /\ NoPost.seq = -1
BY DEF NoPost, PostState

\* A post of an older version is the same, but for that.
LEMMA Retired ==
    ASSUME PaneInd, NEW j \in Post, post'[j] = [post[j] EXCEPT !.live = FALSE]
    PROVE  /\ ~post'[j].live /\ post'[j].pc = post[j].pc
           /\ post'[j].to = post[j].to /\ post'[j].seq = post[j].seq
           /\ post'[j].from = post[j].from
<1> DEFINE r == post[j]
           p == [r EXCEPT !.live = FALSE]
<1>1. post'[j] = p /\ r \in PostState
  BY PaneParts
<1> HIDE DEF r
<1>2. ~p.live /\ p.pc = r.pc /\ p.to = r.to /\ p.seq = r.seq /\ p.from = r.from
  BY <1>1 DEF PostState
<1> HIDE DEF p
<1> QED
  BY <1>1, <1>2 DEF r

\* Of the sends only the last one counts.
LEMMA SendStep == ASSUME PaneInd, NEW i \in Post, Send(i) PROVE PaneInd'
<1> USE PaneParts
<1>1. /\ project # NULL /\ post[i].pc = "off" /\ sending' = TRUE
      /\ strayed' = strayed \cup (IF listing THEN {"early"} ELSE {})
      /\ UNCHANGED <<size, running, born, project, cur, entries, shown, stream, timer, listing, load,
                     failedSend>>
  BY DEF Send, PostAt, server, source
<1>2. PICK m \in {Message} \cup (IF SameSignature THEN {Again} ELSE {}) :
         post' = [j \in Post |-> IF j = i THEN m ELSE [post[j] EXCEPT !.live = FALSE]]
  BY DEF Send
<1>3. /\ m \in PostState /\ m.pc = "sent" /\ m.live /\ m.was = cur
      /\ m.seq # -1 => m.to \in Session /\ m.seq \in 0..(size[m.to] - 1)
  <2>1. /\ Message \in PostState /\ Message.pc = "sent" /\ Message.live /\ Message.was = cur
        /\ Message.seq = -1
    BY <1>1 DEF Message, NoPost, PostState
  <2>2. CASE m = Message
    BY <2>1, <2>2
  <2>3. CASE SameSignature /\ m = Again
    <3>1. /\ failedSend \in FailedState
          /\ failedSend.to \in Session /\ failedSend.seq \in 0..(size[failedSend.to] - 1)
      BY <2>3 DEF SameSignature, PaneInd, CallsKnow
    <3>2. failedSend.seq \in Nat /\ m = [Message EXCEPT !.to = failedSend.to, !.seq = failedSend.seq]
      BY <2>3, <3>1 DEF Again, FailedState
    <3> HIDE DEF Message
    <3>3. /\ m \in PostState /\ m.pc = "sent" /\ m.live /\ m.was = cur
          /\ m.to = failedSend.to /\ m.seq = failedSend.seq
      BY <2>1, <3>1, <3>2 DEF PostState
    <3> QED
      BY <3>1, <3>3
  <2> QED
    BY <1>2, <2>2, <2>3
<1>4. \A j \in Post : j # i => post'[j] = [post[j] EXCEPT !.live = FALSE]
  BY <1>2
<1>5. post'[i] = m
  BY <1>2
<1>6. \A j \in Post : [post[j] EXCEPT !.live = FALSE] \in PostState
  BY DEF PostState
<1>7. post' \in [Post -> PostState]
  BY <1>2, <1>3, <1>6
<1>8. \A j \in Post : j # i =>
         /\ ~post'[j].live /\ post'[j].pc = post[j].pc /\ post'[j].to = post[j].to
         /\ post'[j].seq = post[j].seq /\ post'[j].from = post[j].from
  BY <1>4, Retired
<1>9. strayed \subseteq strayed' /\ strayed' \subseteq {"session", "project", "early", "gap", "load"}
      /\ (listing => "early" \in strayed')
  BY <1>1
<1>10. CallsKnow'
  BY <1>1, <1>3, <1>5, <1>8 DEF PaneInd, CallsKnow
<1>11. Quiet'
  BY <1>1, <1>9 DEF Quiet
<1>12. Alone'
  BY <1>1, <1>3, <1>5, <1>8 DEF Alone
<1>13. InStep' /\ OwnEntries' /\ NoGap'
  BY <1>1, <1>3, <1>5, <1>8, <1>9 DEF PaneInd, InStep, OwnEntries, NoGap
<1> QED
  BY <1>1, <1>7, <1>9, <1>10, <1>11, <1>12, <1>13, PaneFrom

\* The send fails, at the server or with its answer, or the server has it already.
LEMMA FailedSteps ==
    ASSUME PaneInd, NEW i \in Post, ServerRefuses(i) \/ AnswerLost(i) \/ ServerRepeats(i)
    PROVE  PaneInd'
<1> USE PaneParts
<1>1. /\ post[i].pc \in {"sent", "created", "accepted"}
      /\ UNCHANGED <<size, running, born, project, cur, entries, shown, sending, stream, timer,
                     listing, load, failedSend, strayed>>
  BY DEF ServerRefuses, AnswerLost, ServerRepeats, PostAt, server, pane, source
<1>2. PICK c \in {"failed", "created", "accepted"} :
        /\ post' = [post EXCEPT ![i] = [post[i] EXCEPT !.pc = c]]
        /\ c # "failed" => post[i].pc = "sent" /\ post[i].seq # -1
        /\ c = "created" => post[i].was = NULL
  BY DEF ServerRefuses, AnswerLost, ServerRepeats, PostAt
<1> DEFINE p == [post[i] EXCEPT !.pc = c]
<1>3. post' = [post EXCEPT ![i] = p]
  BY <1>2
<1>4. /\ p \in PostState /\ p.pc = c /\ p.live = post[i].live /\ p.was = post[i].was
      /\ p.to = post[i].to /\ p.seq = post[i].seq
  BY DEF PostState
<1> HIDE DEF p
<1>5. /\ post' \in [Post -> PostState]
      /\ post'[i] = p /\ \A j \in Post : j # i => post'[j] = post[j]
  BY <1>3, <1>4, PostMoves
<1>6. CallsKnow'
  BY <1>1, <1>2, <1>4, <1>5 DEF PaneInd, CallsKnow
<1>7. Quiet' /\ InStep' /\ OwnEntries' /\ NoGap'
  BY <1>1, <1>4, <1>5 DEF PaneInd, Quiet, InStep, OwnEntries, NoGap
<1>8. Alone'
  BY <1>1, <1>2, <1>4, <1>5 DEF PaneInd, Alone
<1> QED
  BY <1>1, <1>5, <1>6, <1>7, <1>8, PaneFrom

LEMMA AcceptStep == ASSUME PaneInd, NEW i \in Post, ServerAccepts(i) PROVE PaneInd'
<1> USE PaneParts
<1>1. /\ post[i].pc = "sent"
      /\ UNCHANGED <<project, cur, entries, shown, sending, stream, timer, listing, load, failedSend, strayed>>
  BY DEF ServerAccepts, PostAt, pane, source
<1>2. PICK s \in Session :
         /\ IF post[i].was = NULL THEN s \in Session \ born ELSE s = post[i].was /\ ~running[s]
         /\ Grow(s) /\ running' = [running EXCEPT ![s] = TRUE] /\ born' = born \cup {s}
         /\ post' = [post EXCEPT ![i].pc = IF post[i].was = NULL THEN "created" ELSE "accepted",
                                 ![i].to = s, ![i].seq = size[s]]
  BY Zenon DEF ServerAccepts
<1>3. size' = [size EXCEPT ![s] = size[s] + 1]
  BY <1>2, Zenon DEF Grow
<1>4. size' \in [Session -> Nat] /\ size[s] \in 0..(size'[s] - 1) /\ \A x \in Session : size'[x] >= size[x]
  BY <1>3
<1> DEFINE p == [post[i] EXCEPT !.pc = IF post[i].was = NULL THEN "created" ELSE "accepted",
                                !.to = s, !.seq = size[s]]
<1>5. post' = [post EXCEPT ![i] = p]
  BY <1>2
<1>6. /\ p \in PostState /\ p.live = post[i].live /\ p.to = s /\ p.seq = size[s]
      /\ p.pc = IF post[i].was = NULL THEN "created" ELSE "accepted"
  BY DEF PostState
<1> HIDE DEF p
<1>7. /\ post' \in [Post -> PostState]
      /\ post'[i] = p /\ \A j \in Post : j # i => post'[j] = post[j]
  BY <1>5, <1>6, PostMoves
<1>8. CallsKnow'
  <2>1. /\ \A j \in Post : post[j].seq # -1 =>
             post[j].to \in Session /\ post[j].seq \in 0..(size'[post[j].to] - 1)
        /\ failedSend # NULL =>
             failedSend.to \in Session /\ failedSend.seq \in 0..(size'[failedSend.to] - 1)
    BY <1>4 DEF PaneInd, CallsKnow
  <2> QED
    BY <1>1, <1>4, <1>6, <1>7, <2>1 DEF PaneInd, CallsKnow
<1>9. Quiet' /\ InStep' /\ OwnEntries' /\ NoGap'
  BY <1>1, <1>6, <1>7 DEF PaneInd, Quiet, InStep, OwnEntries, NoGap
<1>10. Alone'
  BY <1>1, <1>6, <1>7 DEF PaneInd, Alone
<1>11. running' \in [Session -> BOOLEAN] /\ born' \subseteq Session
  BY <1>2
<1> QED
  BY <1>1, <1>4, <1>7, <1>8, <1>9, <1>10, <1>11, PaneFrom

LEMMA SendEndsStep == ASSUME PaneInd, NEW i \in Post, SendEnds(i) PROVE PaneInd'
<1> USE PaneParts
<1>1. /\ sending' = (sending /\ ~post[i].live) /\ post' = [post EXCEPT ![i] = NoPost]
      /\ failedSend' = IF post[i].live THEN Missed(post[i]) ELSE failedSend
      /\ UNCHANGED <<size, running, born, project, cur, entries, shown, stream, timer,
                     listing, load, strayed>>
  BY DEF SendEnds, EndPost, server, source
<1>2. /\ post' \in [Post -> PostState]
      /\ post'[i] = NoPost /\ \A j \in Post : j # i => post'[j] = post[j]
  BY <1>1, NoPostOff, PostMoves
<1>3. (sending /\ ~post[i].live) \in BOOLEAN
  OBVIOUS
<1>4. /\ failedSend' = NULL \/ failedSend' \in FailedState
      /\ failedSend' # NULL =>
            failedSend'.to \in Session /\ failedSend'.seq \in 0..(size[failedSend'.to] - 1)
  <2>1. CASE post[i].live /\ post[i].seq # -1
    <3>1. /\ post[i] \in PostState
          /\ post[i].to \in Session /\ post[i].seq \in 0..(size[post[i].to] - 1)
      BY <2>1 DEF PaneInd, CallsKnow
    <3>2. failedSend' = [was |-> post[i].was, from |-> post[i].from, to |-> post[i].to, seq |-> post[i].seq]
      BY <1>1, <2>1 DEF Missed
    <3> QED
      BY <3>1, <3>2 DEF PostState, FailedState
  <2>2. CASE ~post[i].live \/ post[i].seq = -1
    BY <1>1, <2>2 DEF Missed, PaneInd, CallsKnow
  <2> QED
    BY <2>1, <2>2
<1>5. CallsKnow'
  BY <1>1, <1>2, <1>4, NoPostOff DEF PaneInd, CallsKnow
<1>6. Quiet' /\ InStep' /\ OwnEntries' /\ NoGap'
  BY <1>1, <1>2, NoPostOff DEF PaneInd, Quiet, InStep, OwnEntries, NoGap
<1>7. Alone'
  BY <1>1, <1>2, NoPostOff DEF PaneInd, Alone
<1> QED
  BY <1>1, <1>2, <1>3, <1>4, <1>5, <1>6, <1>7, PaneFrom

\* What Follow does to the pane, when the store held es.
Follows(i, s, es) ==
    /\ shown' = "running" /\ sending' = FALSE
    /\ post' \in [Post -> PostState]
    /\ post'[i] = NoPost /\ \A j \in Post : j # i => post'[j] = post[j]
    /\ stream' = NULL \/ stream' \in StreamState
    /\ timer' \in Session \cup {NULL}
    /\ \/ stream # NULL /\ stream.on = s /\ UNCHANGED <<stream, timer>>
       \/ /\ stream' \in StreamState /\ stream'.on = s /\ stream'.cursor = LastSeq(entries')
          /\ timer' = NULL
    /\ Timeline(entries') /\ LastSeq(entries') >= LastSeq(es)
    /\ \A m \in DOMAIN entries' : entries'[m] = s \/ (m \in DOMAIN es /\ entries'[m] = es[m])
    /\ DOMAIN es = 0..LastSeq(es) /\ post[i].seq <= LastSeq(es) + 1
         => DOMAIN entries' = 0..LastSeq(entries')

LEMMA Followed ==
    ASSUME PaneInd, NEW i \in Post, NEW s \in Session, NEW es, Timeline(es),
           post[i].seq \in Nat, Follow(i, s, es)
    PROVE  Follows(i, s, es)
<1> USE DEF Follows
<1>1. /\ entries' = AppendEntry(es, s, post[i].seq)
      /\ shown' = "running" /\ sending' = FALSE
      /\ Connect(s, entries') /\ post' = [post EXCEPT ![i] = NoPost]
  BY DEF Follow, EndPost
<1>2. /\ post' \in [Post -> PostState]
      /\ post'[i] = NoPost /\ \A j \in Post : j # i => post'[j] = post[j]
  BY <1>1, NoPostOff, PostMoves
<1> DEFINE new == AppendEntry(es, s, post[i].seq)
<1>3. /\ Timeline(new) /\ LastSeq(new) >= LastSeq(es)
      /\ \A m \in DOMAIN new : new[m] = s \/ (m \in DOMAIN es /\ new[m] = es[m])
      /\ DOMAIN es = 0..LastSeq(es) /\ post[i].seq <= LastSeq(es) + 1 => DOMAIN new = 0..LastSeq(new)
  BY Appending
<1> HIDE DEF new
<1>4. entries' = new /\ Connect(s, new)
  BY <1>1 DEF new
<1>5. /\ stream' = NULL \/ stream' \in StreamState
      /\ timer' \in Session \cup {NULL}
      /\ \/ stream # NULL /\ stream.on = s /\ UNCHANGED <<stream, timer>>
         \/ stream' \in StreamState /\ stream'.on = s /\ stream'.cursor = LastSeq(new) /\ timer' = NULL
  BY <1>3, <1>4, Connected
<1> QED
  BY <1>1, <1>2, <1>3, <1>4, <1>5

\* An answer that is taken moves the pane to its session; nothing else can be
\* in flight for another one, and no other message waits for its session.
LEMMA Taken ==
    ASSUME PaneInd, NEW i \in Post, post[i].pc \in {"created", "accepted"}, post[i].live,
           post[i].pc = "accepted" => cur = post[i].to
    PROVE  /\ post[i].to \in Session /\ post[i].seq \in Nat
           /\ ~(listing /\ strayed \subseteq {"session", "load"})
           /\ strayed \subseteq {"session", "load"} =>
                /\ \A m \in DOMAIN entries : entries[m] = post[i].to
                /\ \A j \in Post : post[j].live /\ j # i =>
                     ~(post[j].pc = "created" \/ (post[j].pc = "sent" /\ post[j].was = NULL))
           /\ strayed \subseteq {"load"} =>
                /\ \A j \in Load : load[j].pc # "off" => load[j].on = post[i].to
                /\ \A j \in Post : post[j].pc = "gap" =>
                     post[j].to = post[i].to /\ post[j].from <= LastSeq(entries)
                /\ stream # NULL => stream.on = post[i].to /\ stream.cursor <= LastSeq(entries)
                /\ timer # NULL => timer = post[i].to
                /\ DOMAIN entries = 0..LastSeq(entries)
<1> USE PaneParts
<1>1. post[i].to \in Session /\ post[i].seq \in Nat /\ post[i].to # NULL
  <2>1. post[i].to \in Session /\ post[i].seq \in 0..(size[post[i].to] - 1)
    BY DEF PaneInd, CallsKnow
  <2> QED
    BY <2>1, NoneElse
<1>2. ~(listing /\ strayed \subseteq {"session", "load"})
  BY DEF PaneInd, Quiet
<1>3. ASSUME strayed \subseteq {"session", "load"}
      PROVE  /\ \A m \in DOMAIN entries : entries[m] = post[i].to
             /\ \A j \in Post : post[j].live /\ j # i =>
                  ~(post[j].pc = "created" \/ (post[j].pc = "sent" /\ post[j].was = NULL))
             /\ post[i].pc = "created" => cur = NULL
  <2>1. post[i].pc = "created" => cur = NULL
    BY <1>3 DEF PaneInd, Alone
  <2>2. \A j \in Post : post[j].live /\ j # i =>
           ~(post[j].pc = "created" \/ (post[j].pc = "sent" /\ post[j].was = NULL))
    BY <1>1, <1>3, <2>1 DEF PaneInd, Alone
  <2>3. \A m \in DOMAIN entries : entries[m] = cur /\ entries[m] \in Session
    BY <1>3 DEF PaneInd, OwnEntries, Timeline
  <2> QED
    BY <2>1, <2>2, <2>3, NoneElse
<1>4. ASSUME strayed \subseteq {"load"}
      PROVE  /\ \A j \in Load : load[j].pc # "off" => load[j].on = post[i].to
             /\ \A j \in Post : post[j].pc = "gap" =>
                  post[j].to = post[i].to /\ post[j].from <= LastSeq(entries)
             /\ stream # NULL => stream.on = post[i].to /\ stream.cursor <= LastSeq(entries)
             /\ timer # NULL => timer = post[i].to
             /\ DOMAIN entries = 0..LastSeq(entries)
  <2>1. post[i].pc = "created" => cur = NULL
    BY <1>3, <1>4
  <2>2. /\ \A j \in Load : load[j].pc # "off" => load[j].on = cur /\ load[j].on \in Session
        /\ \A j \in Post : post[j].pc = "gap" =>
             post[j].to = cur /\ post[j].to \in Session /\ post[j].from <= LastSeq(entries)
        /\ stream # NULL => stream.on = cur /\ stream.on \in Session /\ stream.cursor <= LastSeq(entries)
        /\ timer # NULL => timer = cur
        /\ DOMAIN entries = 0..LastSeq(entries)
    BY <1>4 DEF PaneInd, InStep, CallsKnow, NoGap, StreamState
  <2> QED
    BY <2>1, <2>2, NoneElse
<1> QED
  BY <1>1, <1>2, <1>3, <1>4

LEMMA AnsweredStep == ASSUME PaneInd, NEW i \in Post, SendAnswered(i) PROVE PaneInd'
<1> USE PaneParts
<1> DEFINE s == post[i].to
<1>1. /\ post[i].pc \in {"created", "accepted"} /\ post[i].live
      /\ cur' = IF post[i].pc = "created" THEN s ELSE cur
      /\ failedSend' = NULL
      /\ UNCHANGED <<size, running, born, project, listing, load, strayed>>
  BY DEF SendAnswered, Current, PostAt, server
<1>2. s \in Session /\ post[i].seq \in Nat /\ ~(listing /\ strayed \subseteq {"session", "load"})
      /\ s # NULL
  BY <1>1, NoneElse DEF PaneInd, CallsKnow, Quiet
<1>3. CASE cur' # s /\ post' = [post EXCEPT ![i] = NoPost]
           /\ UNCHANGED <<entries, shown, sending, stream, timer>>
  <2>1. cur' = cur
    BY <1>1, <1>3
  <2>2. /\ post' \in [Post -> PostState]
        /\ post'[i] = NoPost /\ \A j \in Post : j # i => post'[j] = post[j]
    BY <1>3, NoPostOff, PostMoves
  <2>3. CallsKnow' /\ Quiet' /\ InStep' /\ OwnEntries' /\ NoGap'
    BY <1>1, <1>3, <2>1, <2>2, NoPostOff DEF PaneInd, CallsKnow, Quiet, InStep, OwnEntries, NoGap
  <2>4. Alone'
    BY <1>1, <1>3, <2>1, <2>2, NoPostOff DEF PaneInd, Alone
  <2> QED
    BY <1>1, <1>3, <2>1, <2>2, <2>3, <2>4, PaneFrom
<1>4. CASE cur' = s /\ post[i].seq <= LastSeq(entries) + 1 /\ Follow(i, s, entries)
  <2>1. /\ shown' = "running" /\ sending' = FALSE
        /\ post' \in [Post -> PostState]
        /\ post'[i] = NoPost /\ \A j \in Post : j # i => post'[j] = post[j]
        /\ stream' = NULL \/ stream' \in StreamState
        /\ timer' \in Session \cup {NULL}
        /\ \/ stream # NULL /\ stream.on = s /\ UNCHANGED <<stream, timer>>
           \/ stream' \in StreamState /\ stream'.on = s /\ stream'.cursor = LastSeq(entries') /\ timer' = NULL
        /\ Timeline(entries') /\ LastSeq(entries') >= LastSeq(entries)
        /\ \A m \in DOMAIN entries' : entries'[m] = s \/ (m \in DOMAIN entries /\ entries'[m] = entries[m])
        /\ DOMAIN entries = 0..LastSeq(entries) => DOMAIN entries' = 0..LastSeq(entries')
    <3>1. s \in Session /\ Timeline(entries) /\ post[i].seq \in Nat /\ Follow(i, s, entries)
      BY <1>2, <1>4
    <3>2. post[i].seq <= LastSeq(entries) + 1
      BY <1>4
    <3> HIDE DEF s
    <3>3. Follows(i, s, entries)
      BY <3>1, Followed
    <3> QED
      BY <3>2, <3>3 DEF Follows
  <2>2. LastSeq(entries) \in Nat \cup {-1} /\ LastSeq(entries') \in Nat \cup {-1}
    BY <2>1, LastKnown
  <2>3. post[i].pc = "accepted" => cur = s
    BY <1>1, <1>4
  <2>4. CallsKnow' /\ Quiet'
    BY <1>1, <1>2, <2>1, NoPostOff DEF PaneInd, CallsKnow, Quiet
  <2>5. Alone'
    BY <1>1, <1>2, <1>4, <2>1, <2>3, NoPostOff, Taken DEF Alone
  <2>6. InStep'
    <3> SUFFICES ASSUME strayed \subseteq {"load"} PROVE InStep'
      BY <1>1 DEF InStep
    <3>1. /\ \A j \in Load : load[j].pc # "off" => load[j].on = s
          /\ \A j \in Post : post[j].pc = "gap" => post[j].to = s /\ post[j].from <= LastSeq(entries)
          /\ stream # NULL => stream.on = s /\ stream.cursor <= LastSeq(entries)
          /\ timer # NULL => timer = s
      BY <1>1, <2>3, Taken
    <3>2. \A j \in Post : post'[j].pc = "gap" => post'[j].to = s /\ post'[j].from <= LastSeq(entries')
      <4>1. ASSUME NEW j \in Post, post'[j].pc = "gap"
            PROVE  post'[j].to = s /\ post'[j].from <= LastSeq(entries')
        <5>1. j # i /\ post'[j] = post[j]
          BY <2>1, <4>1, NoPostOff
        <5>2. post[j].to = s /\ post[j].from <= LastSeq(entries) /\ post[j].from \in Nat \cup {-1}
          BY <3>1, <4>1, <5>1 DEF PaneInd, CallsKnow
        <5> QED
          BY <2>1, <2>2, <5>1, <5>2
      <4> QED
        BY <4>1
    <3>3. stream' # NULL => stream'.on = s /\ stream'.cursor <= LastSeq(entries')
      <4>1. stream # NULL => stream.cursor \in Nat \cup {-1}
        BY DEF StreamState
      <4> QED
        BY <2>1, <2>2, <3>1, <4>1
    <3>4. timer' # NULL => timer' = s
      BY <2>1, <3>1
    <3> QED
      BY <1>1, <1>4, <3>1, <3>2, <3>3, <3>4 DEF InStep
  <2>7. OwnEntries' /\ NoGap'
    BY <1>1, <1>4, <2>1, <2>3, Taken DEF OwnEntries, NoGap
  <2> QED
    BY <1>1, <1>2, <1>4, <2>1, <2>4, <2>5, <2>6, <2>7, PaneFrom
<1>5. CASE /\ cur' = s
           /\ post' = [post EXCEPT ![i] = [post[i] EXCEPT !.pc = "gap", !.from = LastSeq(entries)]]
           /\ sending' = (sending /\ ~(post[i].pc = "created"))
           /\ UNCHANGED <<entries, shown, stream, timer>>
  <2> DEFINE p == [post[i] EXCEPT !.pc = "gap", !.from = LastSeq(entries)]
  <2>1. LastSeq(entries) \in Nat \cup {-1} /\ LastSeq(entries) <= LastSeq(entries)
    BY LastKnown
  <2>2. p \in PostState /\ p.pc = "gap" /\ p.from = LastSeq(entries) /\ p.to = s /\ p.seq = post[i].seq
    BY <2>1 DEF PostState
  <2>3. post' = [post EXCEPT ![i] = p]
    BY <1>5
  <2> HIDE DEF p
  <2>4. /\ post' \in [Post -> PostState]
        /\ post'[i] = p /\ \A j \in Post : j # i => post'[j] = post[j]
    BY <2>2, <2>3, PostMoves
  <2>5. post[i].pc = "accepted" => cur = s
    BY <1>1, <1>5
  <2>6. CallsKnow'
    BY <1>1, <2>1, <2>2, <2>4 DEF PaneInd, CallsKnow
  <2>7. Quiet' /\ Alone'
    BY <1>1, <1>2, <1>5, <2>2, <2>4, <2>5, Taken DEF Quiet, Alone
  <2>8. InStep' /\ OwnEntries' /\ NoGap'
    BY <1>1, <1>5, <2>1, <2>2, <2>4, <2>5, Taken DEF InStep, OwnEntries, NoGap
  <2>9. (sending /\ ~(post[i].pc = "created")) \in BOOLEAN
    OBVIOUS
  <2> QED
    BY <1>1, <1>2, <1>5, <2>4, <2>6, <2>7, <2>8, <2>9, PaneFrom
<1>6. post' = [post EXCEPT ![i].pc = "gap", ![i].from = LastSeq(entries)]
      => post' = [post EXCEPT ![i] = [post[i] EXCEPT !.pc = "gap", !.from = LastSeq(entries)]]
  OBVIOUS
<1> QED
  BY <1>3, <1>4, <1>5, <1>6 DEF SendAnswered, EndPost, PostAt, source

LEMMA GapAnsweredStep == ASSUME PaneInd, NEW i \in Post, GapAnswered(i) PROVE PaneInd'
<1> USE PaneParts
<1> DEFINE s == post[i].to
           es == Merge(entries, s, (post[i].from + 1)..(size[s] - 1))
<1>1. /\ post[i].pc = "gap"
      /\ UNCHANGED <<size, running, born, project, cur, listing, load, failedSend, strayed>>
  BY DEF GapAnswered, PostAt, server
<1>2. /\ s \in Session /\ s # NULL /\ post[i].seq \in Nat /\ post[i].seq <= size[s] - 1
      /\ post[i].from \in Nat \cup {-1}
      /\ ~(listing /\ strayed \subseteq {"session", "load"})
  <2>1. /\ s \in Session /\ post[i].seq \in 0..(size[s] - 1) /\ post[i].from \in Nat \cup {-1}
        /\ ~(listing /\ strayed \subseteq {"session", "load"})
    BY <1>1 DEF PaneInd, CallsKnow, Quiet
  <2> QED
    BY <2>1, NoneElse
<1>3. CASE cur # s
  <2>1. post' = [post EXCEPT ![i] = NoPost] /\ UNCHANGED <<entries, shown, sending, stream, timer>>
    BY <1>3 DEF GapAnswered, EndPost, source
  <2>2. /\ post' \in [Post -> PostState]
        /\ post'[i] = NoPost /\ \A j \in Post : j # i => post'[j] = post[j]
    BY <2>1, NoPostOff, PostMoves
  <2>3. CallsKnow' /\ Quiet' /\ InStep' /\ OwnEntries' /\ NoGap'
    BY <1>1, <2>1, <2>2, NoPostOff DEF PaneInd, CallsKnow, Quiet, InStep, OwnEntries, NoGap
  <2>4. Alone'
    BY <1>1, <2>1, <2>2, NoPostOff DEF PaneInd, Alone
  <2> QED
    BY <1>1, <2>1, <2>2, <2>3, <2>4, PaneFrom
<1>4. CASE cur = s
  <2>1. Follow(i, s, es)
    BY <1>4 DEF GapAnswered
  <2>2. LastSeq(entries) \in Nat \cup {-1}
    BY LastKnown
  <2>3. /\ Timeline(es) /\ LastSeq(es) >= LastSeq(entries)
        /\ \A m \in DOMAIN es : es[m] = s \/ (m \in DOMAIN entries /\ es[m] = entries[m])
        /\ post[i].from + 1 <= LastSeq(entries) + 1 => LastSeq(es) >= size[s] - 1
        /\ DOMAIN entries = 0..LastSeq(entries) /\ post[i].from + 1 <= LastSeq(entries) + 1
             => DOMAIN es = 0..LastSeq(es)
    <3>1. size[s] - 1 \in Nat \cup {-1} /\ post[i].from + 1 \in Nat
      BY <1>2
    <3>2. s \in Session
      BY <1>2
    <3> DEFINE a == post[i].from + 1
               b == size[s] - 1
    <3>3. a \in Nat /\ b \in Nat \cup {-1} /\ es = Merge(entries, s, a..b)
      BY <3>1
    <3> HIDE DEF a, b, s, es
    <3>4. Merges(entries, Merge(entries, s, a..b), s, a, b)
      BY <3>2, <3>3, Merging
    <3> QED
      BY <3>3, <3>4 DEF a, b, Merges
  <2> HIDE DEF es
  <2>4. /\ shown' = "running" /\ sending' = FALSE
        /\ post' \in [Post -> PostState]
        /\ post'[i] = NoPost /\ \A j \in Post : j # i => post'[j] = post[j]
        /\ stream' = NULL \/ stream' \in StreamState
        /\ timer' \in Session \cup {NULL}
        /\ \/ stream # NULL /\ stream.on = s /\ UNCHANGED <<stream, timer>>
           \/ stream' \in StreamState /\ stream'.on = s /\ stream'.cursor = LastSeq(entries') /\ timer' = NULL
        /\ Timeline(entries') /\ LastSeq(entries') >= LastSeq(es)
        /\ \A m \in DOMAIN entries' : entries'[m] = s \/ (m \in DOMAIN es /\ entries'[m] = es[m])
        /\ DOMAIN es = 0..LastSeq(es) /\ post[i].seq <= LastSeq(es) + 1
             => DOMAIN entries' = 0..LastSeq(entries')
    <3>1. s \in Session /\ Timeline(es) /\ post[i].seq \in Nat /\ Follow(i, s, es)
      BY <1>2, <2>1, <2>3
    <3> HIDE DEF s
    <3>2. Follows(i, s, es)
      BY <3>1, Followed
    <3> QED
      BY <3>2 DEF Follows
  <2>5. LastSeq(es) \in Nat \cup {-1} /\ LastSeq(entries') \in Nat \cup {-1}
    BY <2>3, <2>4, LastKnown
  <2>6. LastSeq(entries') >= LastSeq(entries)
    BY <2>2, <2>3, <2>4, <2>5
  <2>7. CallsKnow' /\ Quiet'
    BY <1>1, <1>2, <2>4, NoPostOff DEF PaneInd, CallsKnow, Quiet
  <2>8. Alone'
    BY <1>1, <1>2, <1>4, <2>4, NoPostOff DEF PaneInd, Alone
  <2>9. InStep'
    <3> SUFFICES ASSUME strayed \subseteq {"load"} PROVE InStep'
      BY <1>1 DEF InStep
    <3>1. \A j \in Post : post'[j].pc = "gap" => post'[j].to = s /\ post'[j].from <= LastSeq(entries')
      <4>1. ASSUME NEW j \in Post, post'[j].pc = "gap"
            PROVE  post'[j].to = s /\ post'[j].from <= LastSeq(entries')
        <5>1. j # i /\ post'[j] = post[j]
          BY <2>4, <4>1, NoPostOff
        <5>2. post[j].to = s /\ post[j].from <= LastSeq(entries) /\ post[j].from \in Nat \cup {-1}
          BY <1>4, <4>1, <5>1 DEF PaneInd, CallsKnow, InStep
        <5> QED
          BY <2>2, <2>5, <2>6, <5>1, <5>2
      <4> QED
        BY <4>1
    <3>2. stream' # NULL => stream'.on = s /\ stream'.cursor <= LastSeq(entries')
      <4>1. stream # NULL => stream.cursor \in Nat \cup {-1} /\ stream.cursor <= LastSeq(entries)
        BY DEF StreamState, PaneInd, InStep
      <4> QED
        BY <2>2, <2>4, <2>5, <2>6, <4>1
    <3>3. timer' # NULL => timer' = s
      BY <1>4, <2>4 DEF PaneInd, InStep
    <3> QED
      BY <1>1, <1>4, <3>1, <3>2, <3>3 DEF PaneInd, InStep
  <2>10. OwnEntries'
    BY <1>1, <1>4, <2>3, <2>4 DEF PaneInd, OwnEntries
  <2>11. NoGap'
    <3> SUFFICES ASSUME strayed \subseteq {"load"} PROVE DOMAIN entries' = 0..LastSeq(entries')
      BY <1>1 DEF NoGap
    <3>1. post[i].from <= LastSeq(entries) /\ DOMAIN entries = 0..LastSeq(entries)
      BY <1>1 DEF PaneInd, InStep, NoGap
    <3>2. post[i].from + 1 <= LastSeq(entries) + 1
      BY <1>2, <2>2, <3>1
    <3>3. DOMAIN es = 0..LastSeq(es) /\ LastSeq(es) >= size[s] - 1
      BY <2>3, <3>1, <3>2
    <3>4. post[i].seq <= LastSeq(es) + 1
      BY <1>2, <2>5, <3>3
    <3> QED
      BY <2>4, <3>3, <3>4
  <2> QED
    BY <1>1, <2>4, <2>7, <2>8, <2>9, <2>10, <2>11, PaneFrom
<1> QED
  BY <1>3, <1>4

LEMMA GapFailsStep == ASSUME PaneInd, NEW i \in Post, GapFails(i) PROVE PaneInd'
<1> USE PaneParts
<1>1. /\ post[i].pc = "gap" /\ Follow(i, post[i].to, entries) /\ strayed' = strayed \cup {"gap"}
      /\ UNCHANGED <<size, running, born, project, cur, listing, load, failedSend>>
  BY DEF GapFails, PostAt, server
<1>2. post[i].to \in Session /\ post[i].seq \in Nat
  <2>1. post[i].to \in Session /\ post[i].seq \in 0..(size[post[i].to] - 1)
    BY <1>1 DEF PaneInd, CallsKnow
  <2> QED
    BY <2>1
<1>3. /\ shown' = "running" /\ sending' = FALSE
      /\ post' \in [Post -> PostState]
      /\ post'[i] = NoPost /\ \A j \in Post : j # i => post'[j] = post[j]
      /\ stream' = NULL \/ stream' \in StreamState
      /\ timer' \in Session \cup {NULL} /\ Timeline(entries')
  <2>1. Follows(i, post[i].to, entries)
    BY <1>1, <1>2, Followed
  <2> QED
    BY <2>1 DEF Follows
<1>4. CallsKnow'
  BY <1>1, <1>3, NoPostOff DEF PaneInd, CallsKnow
<1>5. Quiet' /\ Alone' /\ InStep' /\ OwnEntries' /\ NoGap'
  BY <1>1 DEF Quiet, Alone, InStep, OwnEntries, NoGap
<1> QED
  BY <1>1, <1>3, <1>4, <1>5, PaneFrom

LEMMA Begins ==
    ASSUME PaneInd, NEW s \in Session, Begin(s)
    PROVE  /\ load' \in [Load -> LoadState]
           /\ \A j \in Load : load'[j].pc # "off" => load'[j].on = s \/ load'[j] = load[j]
<1> USE PaneParts
<1> DEFINE l == [NoLoad EXCEPT !.pc = "get", !.on = s]
<1>1. PICK i \in Load : load' = [load EXCEPT ![i] = l]
  BY DEF Begin
<1>2. l \in LoadState /\ l.on = s
  BY DEF NoLoad, LoadState
<1> HIDE DEF l
<1> QED
  BY <1>1, <1>2

\* What a move of the user leaves: an empty pane, and no send of its version.
LEMMA Emptied ==
    ASSUME PaneInd, Invalidate, CloseStream, entries' = Empty
    PROVE  /\ sending' = FALSE /\ stream' = NULL /\ timer' = NULL
           /\ post' \in [Post -> PostState]
           /\ \A i \in Post : /\ ~post'[i].live /\ post'[i].pc = post[i].pc
                              /\ post'[i].to = post[i].to /\ post'[i].seq = post[i].seq
                              /\ post'[i].from = post[i].from
           /\ Timeline(entries') /\ DOMAIN entries' = {} /\ LastSeq(entries') = -1
<1> USE PaneParts
<1>1. \A i \in Post : [post[i] EXCEPT !.live = FALSE] \in PostState
  BY DEF PostState
<1>2. /\ sending' = FALSE /\ stream' = NULL /\ timer' = NULL
      /\ post' = [i \in Post |-> [post[i] EXCEPT !.live = FALSE]]
  BY DEF Invalidate, CloseStream
<1>3. /\ post' \in [Post -> PostState]
      /\ \A i \in Post : /\ ~post'[i].live /\ post'[i].pc = post[i].pc
                         /\ post'[i].to = post[i].to /\ post'[i].seq = post[i].seq
                         /\ post'[i].from = post[i].from
  <2>1. post' \in [Post -> PostState]
    BY <1>1, <1>2
  <2>2. \A i \in Post : post'[i] = [post[i] EXCEPT !.live = FALSE] /\ post[i] \in PostState
    BY <1>2
  <2>3. \A i \in Post : /\ ~post'[i].live /\ post'[i].pc = post[i].pc
                        /\ post'[i].to = post[i].to /\ post'[i].seq = post[i].seq
                        /\ post'[i].from = post[i].from
    BY <2>2, Retired
  <2> QED
    BY <2>1, <2>3
<1>4. DOMAIN Empty = {} /\ Empty \in [DOMAIN Empty -> Session]
  BY DEF Empty
<1>5. Timeline(Empty) /\ LastSeq(Empty) = -1
  BY <1>4 DEF Timeline, LastSeq
<1> QED
  BY <1>2, <1>3, <1>4, <1>5

\* A step of the user that empties the pane: nothing is in flight, or it is
\* remembered that something was.
LEMMA UserMoves ==
    ASSUME PaneInd, NEW where \in {"session", "project"}, Moves(where),
           Invalidate, CloseStream, entries' = Empty,
           project' \in Project \cup {NULL}, cur' \in Session \cup {NULL},
           shown' \in {"idle", "running", "ended"}, listing' \in BOOLEAN,
           load' \in [Load -> LoadState],
           \A j \in Load : load'[j].pc # "off" =>
               (load'[j].on = cur' /\ cur' \in Session) \/ load'[j] = load[j],
           listing' => load' = load /\ (listing \/ where = "project")
    PROVE  PaneInd'
<1> USE PaneParts
<1>1. /\ sending' = FALSE /\ stream' = NULL /\ timer' = NULL
      /\ post' \in [Post -> PostState]
      /\ \A i \in Post : /\ ~post'[i].live /\ post'[i].pc = post[i].pc
                         /\ post'[i].to = post[i].to /\ post'[i].seq = post[i].seq
                         /\ post'[i].from = post[i].from
      /\ Timeline(entries') /\ DOMAIN entries' = {} /\ LastSeq(entries') = -1
  BY Emptied
<1>2. /\ strayed \subseteq strayed' /\ strayed' \subseteq {"session", "project", "early", "gap", "load"}
      /\ where \in strayed'
           \/ ((\A j \in Load : load[j].pc = "off") /\ \A j \in Post : post[j].pc # "gap")
      /\ UNCHANGED <<size, running, born, failedSend>>
  BY DEF Moves, InFlight, LoadAt, PostAt, server
<1>3. CallsKnow'
  BY <1>1, <1>2 DEF PaneInd, CallsKnow
<1>4. Quiet'
  <2> SUFFICES ASSUME listing', strayed' \subseteq {"session", "load"}
               PROVE  (\A j \in Load : load[j].pc = "off") /\ \A j \in Post : post[j].pc # "gap"
    BY <1>1 DEF Quiet
  <2> QED
    BY <1>2 DEF PaneInd, Quiet
<1>5. Alone'
  BY <1>1 DEF Alone
<1>6. InStep'
  BY <1>1, <1>2 DEF InStep
<1>7. OwnEntries' /\ NoGap'
  BY <1>1 DEF OwnEntries, NoGap
<1> QED
  BY <1>1, <1>2, <1>3, <1>4, <1>5, <1>6, <1>7, PaneFrom

LEMMA MoveSteps ==
    ASSUME PaneInd, \/ \E s \in Session : SwitchSession(s)
                    \/ NewSession \/ LeaveProject
                    \/ \E p \in Project : EnterProject(p)
    PROVE  PaneInd'
<1> USE PaneParts
<1>1. ASSUME NEW s \in Session, SwitchSession(s) PROVE PaneInd'
  <2>1. /\ Invalidate /\ CloseStream /\ Moves("session") /\ Begin(s) /\ ~listing
        /\ cur' = s /\ entries' = Empty /\ UNCHANGED <<project, shown, listing>>
    BY <1>1 DEF SwitchSession
  <2>2. /\ load' \in [Load -> LoadState]
        /\ \A j \in Load : load'[j].pc # "off" => load'[j].on = s \/ load'[j] = load[j]
    BY <2>1, Begins
  <2> QED
    BY <2>1, <2>2, UserMoves
<1>2. CASE NewSession
  BY <1>2, UserMoves DEF NewSession
<1>3. CASE LeaveProject
  BY <1>3, UserMoves DEF LeaveProject
<1>4. ASSUME NEW p \in Project, EnterProject(p) PROVE PaneInd'
  BY <1>4, UserMoves DEF EnterProject
<1> QED
  BY <1>1, <1>2, <1>3, <1>4

LEMMA ListSteps == ASSUME PaneInd, OpenListed \/ ListFails PROVE PaneInd'
<1> USE PaneParts
<1>1. CASE OpenListed
  <2>1. /\ listing /\ listing' = FALSE
        /\ UNCHANGED <<size, running, born, project, entries, shown, sending, stream, timer, post, failedSend, strayed>>
    BY <1>1 DEF OpenListed, server, source
  <2>2. /\ cur' \in Session \cup {NULL} /\ load' \in [Load -> LoadState]
        /\ \A j \in Load : load'[j].pc # "off" =>
             (load'[j].on = cur' /\ cur' \in Session) \/ load'[j] = load[j]
    <3>1. ASSUME NEW s \in born, cur' = s, Begin(s)
          PROVE  /\ cur' \in Session \cup {NULL} /\ load' \in [Load -> LoadState]
                 /\ \A j \in Load : load'[j].pc # "off" =>
                      (load'[j].on = cur' /\ cur' \in Session) \/ load'[j] = load[j]
      BY <3>1, Begins
    <3>2. CASE cur' = NULL /\ UNCHANGED load
      BY <3>2
    <3> QED
      BY <1>1, <3>1, <3>2 DEF OpenListed
  <2>3. CallsKnow'
    BY <2>1, <2>2 DEF PaneInd, CallsKnow
  <2>4. Quiet' /\ Alone' /\ InStep' /\ OwnEntries' /\ NoGap'
    BY <2>1, <2>2 DEF PaneInd, Quiet, Alone, InStep, OwnEntries, NoGap
  <2> QED
    BY <2>1, <2>2, <2>3, <2>4, PaneFrom
<1>2. CASE ListFails
  <2>1. /\ listing' = FALSE /\ strayed' = strayed \cup {"load"}
        /\ UNCHANGED <<size, running, born, project, cur, entries, shown, sending, stream, timer, load, post,
                       failedSend>>
    BY <1>2 DEF ListFails, server, pane, source
  <2>2. CallsKnow' /\ Quiet' /\ Alone' /\ InStep' /\ OwnEntries' /\ NoGap'
    BY <2>1 DEF PaneInd, CallsKnow, Quiet, Alone, InStep, OwnEntries, NoGap
  <2> QED
    BY <2>1, <2>2, PaneFrom
<1> QED
  BY <1>1, <1>2

-----------------------------------------------------------------------------
LEMMA PaneStart == Init => PaneInd
<1> SUFFICES ASSUME Init PROVE PaneInd
  OBVIOUS
<1>1. NoLoad \in LoadState /\ NoLoad.pc = "off" /\ NoPost \in PostState /\ NoPost.pc = "off" /\ ~NoPost.live
      /\ NoPost.seq = -1
  BY DEF NoLoad, LoadState, NoPost, PostState
<1>2. Timeline(entries) /\ DOMAIN entries = {} /\ LastSeq(entries) = -1
  <2>1. DOMAIN Empty = {} /\ Empty \in [DOMAIN Empty -> Session]
    BY DEF Empty
  <2> QED
    BY <2>1 DEF Init, Timeline, LastSeq
<1>3. /\ load \in [Load -> LoadState] /\ post \in [Post -> PostState]
      /\ \A i \in Load : load[i].pc = "off"
      /\ \A i \in Post : post[i].pc = "off" /\ ~post[i].live /\ post[i].seq = -1
  BY <1>1, NoneElse DEF Init
<1>4. PaneTypeOK
  BY <1>2, <1>3, NoneElse DEF Init, PaneTypeOK, Timeline, LoadState, PostState
<1>5. CallsKnow /\ Quiet /\ Alone /\ InStep /\ OwnEntries /\ NoGap
  BY <1>2, <1>3 DEF Init, CallsKnow, Quiet, Alone, InStep, OwnEntries, NoGap
<1> QED
  BY <1>2, <1>4, <1>5 DEF PaneInd

LEMMA PaneStep == PaneInd /\ [Next]_vars => PaneInd'
<1> SUFFICES ASSUME PaneInd, [Next]_vars PROVE PaneInd'
  OBVIOUS
<1>1. CASE StreamEntry \/ StreamStatus \/ BrowserReconnects \/ TimerFires \/ StreamLost \/ OnError
  BY <1>1, EntryStep, StreamSteps
<1>2. ASSUME NEW i \in Load, LoadStep(i) \/ LoadFails(i) PROVE PaneInd'
  BY <1>2, LoadSteps DEF LoadStep
<1>3. ASSUME NEW i \in Post, PostStep(i) \/ Send(i) \/ AnswerLost(i) \/ GapFails(i) PROVE PaneInd'
  BY <1>3, SendStep, FailedSteps, AcceptStep, SendEndsStep, AnsweredStep, GapAnsweredStep, GapFailsStep
     DEF PostStep
<1>4. CASE OpenListed \/ ListFails
  BY <1>4, ListSteps
<1>5. ASSUME NEW s \in Session, OtherTabPosts(s) \/ TurnGoesOn(s) \/ TurnEnds(s) \/ SwitchSession(s)
      PROVE  PaneInd'
  BY <1>5, ServerSteps, MoveSteps
<1>6. CASE NewSession \/ LeaveProject \/ \E p \in Project : EnterProject(p)
  BY <1>6, MoveSteps
<1>7. CASE UNCHANGED vars
  BY <1>7 DEF vars, PaneInd, PaneTypeOK, CallsKnow, Quiet, Alone, InStep, OwnEntries, NoGap, Timeline,
              LastSeq
<1> QED
  BY <1>1, <1>2, <1>3, <1>4, <1>5, <1>6, <1>7 DEF Next, Work

\* The pane shows the entries of the session it names and of no other, and
\* leaves none out in between, from whichever of the list, the stream and the
\* answers to its sends they came and whatever was lost or late: whatever the
\* number of sessions and projects, of calls in flight, of moves and of faults,
\* except as the strays say.
THEOREM PaneShowsItsSession == Spec => []PaneInv
<1>1. PaneInd => PaneInv
  BY DEF PaneInd, PaneInv
<1> QED
  BY <1>1, PaneStart, PaneStep, PTL DEF Spec

-----------------------------------------------------------------------------
(* What the pane shows is on the server *)

Real(es) == \A n \in DOMAIN es : n < size[es[n]]

LEMMA RealAppended ==
    ASSUME NEW es, Real(es), NEW s, NEW n, n < size[s]
    PROVE  Real(AppendEntry(es, s, n))
BY DEF Real, AppendEntry

LEMMA RealMerged ==
    ASSUME NEW es, Real(es), NEW s, NEW ns, \A n \in ns : n < size[s]
    PROVE  Real(Merge(es, s, ns))
BY DEF Real, Merge

\* Entries are taken from what the server has, and it only adds to them.
LEMMA RealLater ==
    ASSUME PaneTypeOK, PaneTypeOK', Real(entries'),
           \A s \in Session : size[s] <= size'[s]
    PROVE  Real(entries)'
<1>1. ASSUME NEW n \in DOMAIN entries'
      PROVE  n < size'[entries'[n]]
  <2>1. n \in Nat /\ entries'[n] \in Session
    BY DEF PaneTypeOK
  <2>2. size[entries'[n]] \in Nat /\ size'[entries'[n]] \in Nat
    BY <2>1 DEF PaneTypeOK
  <2> QED
    BY <2>1, <2>2 DEF Real
<1> QED
  BY <1>1 DEF Real

LEMMA SizesGrow ==
    ASSUME PaneTypeOK, NEW t \in Session, Grow(t)
    PROVE  \A s \in Session : size[s] <= size'[s]
<1>1. \A s \in Session : size[s] \in Nat /\ size'[s] = IF s = t THEN size[t] + 1 ELSE size[s]
  BY DEF Grow, PaneTypeOK
<1> QED
  BY <1>1

LEMMA FollowReal ==
    ASSUME NEW i \in Post, NEW s, NEW es, Real(es), post[i].seq < size[s], Follow(i, s, es)
    PROVE  Real(entries')
<1>1. entries' = AppendEntry(es, s, post[i].seq)
  BY DEF Follow
<1> QED
  BY <1>1, RealAppended

LEMMA RealStep ==
    ASSUME PaneInd, PaneInd', Real(entries), [Next]_vars
    PROVE  Real(entries)'
<1>1. PaneTypeOK /\ PaneTypeOK' /\ CallsKnow
  BY DEF PaneInd
<1>2. \A s \in Session : size[s] \in Nat /\ size[s] <= size[s]
  BY <1>1 DEF PaneTypeOK
<1>3. ASSUME size' = size, Real(entries')
      PROVE  Real(entries)'
  BY <1>1, <1>2, <1>3, RealLater
<1>4. ASSUME UNCHANGED <<size, entries>>
      PROVE  Real(entries)'
  BY <1>3, <1>4
<1>5. ASSUME NEW t \in Session, Grow(t), entries' = entries
      PROVE  Real(entries)'
  BY <1>1, <1>5, SizesGrow, RealLater
<1>6. ASSUME size' = size, entries' = Empty
      PROVE  Real(entries)'
  <2>1. Real(Empty)
    BY DEF Real, Empty
  <2> QED
    BY <1>3, <1>6, <2>1
<1>7. \A i \in Post : post[i].pc \in {"created", "accepted", "gap"} => post[i].seq < size[post[i].to]
  <2> SUFFICES ASSUME NEW i \in Post, post[i].pc \in {"created", "accepted", "gap"}
               PROVE  post[i].seq < size[post[i].to]
    OBVIOUS
  <2>1. post[i].to \in Session /\ post[i].seq \in 0..(size[post[i].to] - 1)
    BY <1>1 DEF CallsKnow
  <2> QED
    BY <1>2, <2>1
<1>8. CASE StreamEntry
  <2>1. size' = size /\ stream.cursor + 1 < size[stream.on]
        /\ (entries' = AppendEntry(entries, stream.on, stream.cursor + 1) \/ entries' = entries)
    BY <1>8 DEF StreamEntry, server
  <2>2. Real(AppendEntry(entries, stream.on, stream.cursor + 1))
    BY <2>1, RealAppended
  <2> QED
    BY <1>3, <2>1, <2>2
<1>9. ASSUME NEW i \in Load, LoadEntries(i)
      PROVE  Real(entries)'
  <2>1. size' = size /\ LoadAt(i, "list")
        /\ entries' = IF cur = load[i].on THEN Merge(entries, cur, 0..(size[cur] - 1)) ELSE entries
    BY <1>9 DEF LoadEntries, server
  <2>2. CASE cur = load[i].on
    <3>1. cur \in Session
      BY <1>1, <2>1, <2>2 DEF CallsKnow, LoadAt
    <3>2. \A n \in 0..(size[cur] - 1) : n < size[cur]
      BY <1>2, <3>1
    <3>3. Real(Merge(entries, cur, 0..(size[cur] - 1)))
      BY <3>2, RealMerged
    <3> QED
      BY <1>3, <2>1, <2>2, <3>3
  <2> QED
    BY <1>3, <2>1, <2>2
<1>10. ASSUME NEW i \in Post, SendAnswered(i)
       PROVE  Real(entries)'
  <2>1. size' = size /\ post[i].pc \in {"created", "accepted"}
        /\ (entries' = entries \/ Follow(i, post[i].to, entries))
    BY <1>10 DEF SendAnswered, server
  <2> QED
    BY <1>3, <1>7, <2>1, FollowReal
<1>11. ASSUME NEW i \in Post, GapAnswered(i)
       PROVE  Real(entries)'
  <2> DEFINE s == post[i].to
             es == Merge(entries, s, (post[i].from + 1)..(size[s] - 1))
  <2>1. size' = size /\ post[i].pc = "gap"
        /\ (entries' = entries \/ Follow(i, s, es))
    BY <1>11 DEF GapAnswered, PostAt, server
  <2>2. s \in Session /\ size[s] \in Nat
    BY <1>1, <1>2, <2>1 DEF CallsKnow
  <2>3. post[i].from \in Nat \cup {-1}
    BY <1>1, <2>1 DEF CallsKnow
  <2>4. \A n \in (post[i].from + 1)..(size[s] - 1) : n < size[s]
    BY <2>2, <2>3
  <2>5. Real(es)
    BY <2>4, RealMerged
  <2> HIDE DEF es
  <2> QED
    BY <1>3, <1>7, <2>1, <2>5, FollowReal
<1>12. ASSUME NEW i \in Post, GapFails(i)
       PROVE  Real(entries)'
  <2>1. size' = size /\ post[i].pc = "gap" /\ Follow(i, post[i].to, entries)
    BY <1>12 DEF GapFails, PostAt, server
  <2> QED
    BY <1>3, <1>7, <2>1, FollowReal
<1>13. ASSUME NEW i \in Load, ServerGets(i) \/ LoadStatus(i) \/ LoadFails(i)
       PROVE  Real(entries)'
  BY <1>4, <1>13 DEF ServerGets, LoadStatus, LoadFails, server, pane
<1>14. ASSUME NEW i \in Post, Send(i) \/ AnswerLost(i) \/ ServerRefuses(i) \/ ServerRepeats(i) \/ SendEnds(i)
       PROVE  Real(entries)'
  BY <1>4, <1>14 DEF Send, AnswerLost, ServerRefuses, ServerRepeats, SendEnds, server, pane
<1>15. ASSUME NEW i \in Post, ServerAccepts(i)
       PROVE  Real(entries)'
  BY <1>5, <1>15 DEF ServerAccepts, pane
<1>16. ASSUME NEW s \in Session, OtherTabPosts(s) \/ TurnGoesOn(s)
       PROVE  Real(entries)'
  BY <1>5, <1>16 DEF OtherTabPosts, TurnGoesOn, pane
<1>17. ASSUME \E s \in Session : TurnEnds(s)
       PROVE  Real(entries)'
  BY <1>4, <1>17 DEF TurnEnds, pane
<1>18. ASSUME (\E s \in Session : SwitchSession(s)) \/ NewSession \/ LeaveProject
                \/ \E p \in Project : EnterProject(p)
       PROVE  Real(entries)'
  BY <1>6, <1>18 DEF SwitchSession, NewSession, LeaveProject, EnterProject, Moves, server
<1>19. ASSUME StreamStatus \/ BrowserReconnects \/ TimerFires \/ StreamLost \/ OnError
                \/ OpenListed \/ ListFails \/ UNCHANGED vars
       PROVE  Real(entries)'
  BY <1>4, <1>19 DEF StreamStatus, BrowserReconnects, TimerFires, StreamLost, OnError,
                     OpenListed, ListFails, vars, server, pane
<1> QED
  BY <1>8, <1>9, <1>10, <1>11, <1>12, <1>13, <1>14, <1>15, <1>16, <1>17, <1>18, <1>19
  DEF Next, Work, LoadStep, PostStep

-----------------------------------------------------------------------------
(* The end of a turn *)

\* Only a stream that tells of the end closes itself with it.
LEMMA EndIsTold ==
    ASSUME [Next]_vars, shown = "running", shown' = "ended", stream # NULL, stream' = NULL
    PROVE  StreamStatus /\ Active
<1> USE DEF server, pane, source
<1>1. ~UNCHANGED vars
  BY DEF vars
<1>2. ASSUME NEW i \in Load, LoadStep(i) \/ LoadFails(i)
      PROVE  FALSE
  <2>1. CASE LoadStatus(i)
    BY <2>1 DEF LoadStatus
  <2> QED
    BY <1>2, <2>1 DEF LoadStep, ServerGets, LoadEntries, LoadFails
<1>3. ASSUME NEW i \in Post, PostStep(i) \/ Send(i) \/ AnswerLost(i) \/ GapFails(i)
      PROVE  FALSE
  <2>1. ~(ServerRefuses(i) \/ ServerRepeats(i) \/ ServerAccepts(i) \/ SendEnds(i) \/ Send(i) \/ AnswerLost(i))
    BY DEF ServerRefuses, ServerRepeats, ServerAccepts, SendEnds, Send, AnswerLost
  <2>2. \A s, es : ~Follow(i, s, es)
    BY DEF Follow
  <2>3. ~(SendAnswered(i) \/ GapAnswered(i) \/ GapFails(i))
    BY <2>2 DEF SendAnswered, GapAnswered, GapFails
  <2> QED
    BY <1>3, <2>1, <2>3 DEF PostStep
<1>4. ASSUME NEW s \in Session, OtherTabPosts(s) \/ TurnGoesOn(s) \/ TurnEnds(s) \/ SwitchSession(s)
      PROVE  FALSE
  BY <1>4 DEF OtherTabPosts, TurnGoesOn, TurnEnds, SwitchSession
<1>5. ~(StreamLost \/ OnError \/ ListFails \/ NewSession \/ LeaveProject
          \/ \E p \in Project : EnterProject(p))
  BY DEF StreamLost, OnError, ListFails, NewSession, LeaveProject, EnterProject
<1>6. ~(StreamEntry \/ BrowserReconnects \/ TimerFires \/ OpenListed)
  BY DEF StreamEntry, BrowserReconnects, TimerFires, OpenListed
<1>7. StreamStatus
  BY <1>1, <1>2, <1>3, <1>4, <1>5, <1>6 DEF Next, Work
<1>8. Active
  BY <1>7 DEF StreamStatus
<1> QED
  BY <1>7, <1>8

LEMMA EndShownStep ==
    ASSUME PaneInd, Real(entries), [Next]_vars, strayed' = {}, shown = "running", shown' = "ended",
           stream # NULL, stream' = NULL
    PROVE  DOMAIN entries' = 0..(size[cur] - 1)
<1>1. StreamStatus /\ Active
  BY EndIsTold
<1>2. /\ entries' = entries /\ strayed = {} /\ cur = stream.on
      /\ stream.cursor + 1 >= size[cur]
  BY <1>1 DEF StreamStatus, Active
<1>3. /\ stream.cursor \in Nat \cup {-1} /\ cur \in Session /\ size[cur] \in Nat
      /\ Timeline(entries)
  BY <1>2 DEF PaneInd, PaneTypeOK
<1>4. /\ stream.cursor <= LastSeq(entries)
      /\ DOMAIN entries = 0..LastSeq(entries)
      /\ \A n \in DOMAIN entries : n < size[cur]
  BY <1>2 DEF PaneInd, InStep, NoGap, OwnEntries, Real
<1>5. /\ LastSeq(entries) \in Nat \cup {-1}
      /\ DOMAIN entries # {} => LastSeq(entries) \in DOMAIN entries
      /\ DOMAIN entries = {} => LastSeq(entries) = -1
  BY <1>3, LastKnown
<1>6. LastSeq(entries) = size[cur] - 1
  BY <1>2, <1>3, <1>4, <1>5
<1> QED
  BY <1>2, <1>4, <1>6

\* When the stream tells the pane that the turn has ended, the pane shows all
\* entries of the session, whatever came by which of the ways (onEvent status,
\* closeStream), unless the user has strayed.
THEOREM EndsAreComplete == Spec => EndShownComplete
<1>1. Init => PaneInd /\ Real(entries)
  <2>1. Init => DOMAIN entries = {}
    BY DEF Init, Empty
  <2> QED
    BY <2>1, PaneStart DEF Real
<1>2. PaneInd /\ Real(entries) /\ [Next]_vars => PaneInd' /\ Real(entries)'
  BY PaneStep, RealStep
<1>3. PaneInd /\ Real(entries) /\ [Next]_vars
        => [(strayed' = {} /\ shown = "running" /\ shown' = "ended" /\ stream # NULL /\ stream' = NULL)
              => DOMAIN entries' = 0..(size[cur] - 1)]_vars
  BY EndShownStep
<1> QED
  BY <1>1, <1>2, <1>3, PTL DEF Spec, EndShownComplete

=============================================================================
