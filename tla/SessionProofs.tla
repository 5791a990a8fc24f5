---------------------------- MODULE SessionProofs ----------------------------
(***************************************************************************)
(* Proofs about the sessions of the assistant, for any sets of commands,   *)
(* keys, requests and objects and any bounds.                              *)
(*                                                                         *)
(* SessionActor: its type invariant, that a query that was sent is the one *)
(* the actor drives, and that an open command is where the actor will find *)
(* it.  SessionManager: its safety invariant SessionInv, from an inductive *)
(* invariant over its registry, its locks, its requests and its objects.   *)
(***************************************************************************)
EXTENDS SessionActor, SessionManager, FiniteSetTheorems, SequenceTheorems, TLAPS

-----------------------------------------------------------------------------
(* The actor *)


LEMMA CompleteType ==
    ASSUME ActorTypeOK, NEW ok, NEW err, Complete(ok, err)
    PROVE  reply' \in [Cmd -> {"new", "open", "sent", "done", "failed"}]
BY DEF ActorTypeOK, Complete

LEMMA HeadAndTail ==
    ASSUME NEW q \in Seq(Cmd), q # <<>>
    PROVE  Head(q) \in Cmd /\ Tail(q) \in Seq(Cmd)
OBVIOUS

LEMMA HandleType ==
    ASSUME ActorTypeOK, NEW c, NEW ok, NEW err, Handle(c, ok, err)
    PROVE  /\ phase' \in Phase
           /\ cur' \in QueryCmd \cup {NoCmd}
           /\ reply' \in [Cmd -> {"new", "open", "sent", "done", "failed"}]
<1>1. reply' \in [Cmd -> {"new", "open", "sent", "done", "failed"}]
  BY CompleteType DEF Handle
<1> QED
  BY <1>1 DEF Handle, Phase

LEMMA CollapseType ==
    ASSUME ActorTypeOK, NEW ok, Collapse(ok), sdkFaults' \in Nat
    PROVE  ActorTypeOK'
<1>1. reply' \in [Cmd -> {"new", "open", "sent", "done", "failed"}]
  BY CompleteType DEF Collapse
<1> QED
  BY <1>1 DEF ActorTypeOK, Collapse, LeaveDriver, Phase

LEMMA DrainType ==
    ASSUME ActorTypeOK, Drain, sdkFaults' \in Nat
    PROVE  ActorTypeOK'
<1>1. reply' \in [Cmd -> {"new", "open", "sent", "done", "failed"}]
  BY CompleteType DEF Drain
<1> QED
  BY <1>1 DEF ActorTypeOK, Drain, Phase

LEMMA FaultType ==
    ASSUME ActorTypeOK, Fault
    PROVE  sdkFaults' \in Nat
BY DEF ActorTypeOK, Fault

LEMMA ActorTypeStep ==
    ASSUME ActorTypeOK, [ActorNext]_actorVars
    PROVE  ActorTypeOK'
<1> USE SessionActorAssumption
<1>1. CASE UNCHANGED actorVars
  BY <1>1 DEF ActorTypeOK, actorVars
<1>2. ASSUME NEW c \in Cmd, Enqueue(c)
      PROVE  ActorTypeOK'
  <2>1. phase = "dead" => reply' \in [Cmd -> {"new", "open", "sent", "done", "failed"}]
    BY <1>2, CompleteType DEF Enqueue
  <2> QED
    BY <1>2, <2>1 DEF ActorTypeOK, Enqueue
<1>3. CASE Cancel
  BY <1>3, CollapseType, FaultType DEF Cancel
<1>4. CASE Connect
  BY <1>4 DEF ActorTypeOK, Connect, Phase
<1>5. CASE ConnectFails
  BY <1>5, DrainType, FaultType DEF ConnectFails
<1>6. CASE Close
  BY <1>6, DrainType DEF Close, ActorTypeOK
<1>7. CASE Take
  <2>1. Head(queue) \in Cmd /\ Tail(queue) \in Seq(Cmd)
    BY <1>7, HeadAndTail DEF ActorTypeOK, Take
  <2>2. Handle(Head(queue), {}, {})
    BY <1>7 DEF Take
  <2> QED
    BY <1>7, <2>1, <2>2, HandleType DEF ActorTypeOK, Take
<1>8. CASE Sent
  BY <1>8 DEF ActorTypeOK, Sent, Phase
<1>9. CASE QueryFails
  BY <1>9, CollapseType, FaultType DEF QueryFails
<1>10. CASE TakeAside
  BY <1>10, HeadAndTail DEF ActorTypeOK, TakeAside
<1>11. CASE Receive
  BY <1>11 DEF ActorTypeOK, Receive, Fault
<1>12. CASE DriveMessage
  BY <1>12 DEF ActorTypeOK, DriveMessage
<1>13. CASE DriveEnd
  <2>1. PICK c : Handle(c, {cur}, {}) \/ (phase' = "idle" /\ cur' = NoCmd /\ Complete({cur}, {}))
    BY <1>13 DEF DriveEnd
  <2>2. /\ phase' \in Phase
        /\ cur' \in QueryCmd \cup {NoCmd}
        /\ reply' \in [Cmd -> {"new", "open", "sent", "done", "failed"}]
    BY <2>1, HandleType, CompleteType DEF Phase
  <2>3. queue' \in Seq(Cmd)
    BY <1>13 DEF DriveEnd, ActorTypeOK
  <2> QED
    BY <1>13, <2>2, <2>3 DEF ActorTypeOK, DriveEnd, LeaveDriver
<1>14. CASE DriveError
  BY <1>14, CollapseType DEF DriveError, ActorTypeOK
<1>15. CASE DriveCommand
  <2>1. reply' \in [Cmd -> {"new", "open", "sent", "done", "failed"}]
    BY <1>15, CompleteType DEF DriveCommand, ActorTypeOK
  <2> QED
    BY <1>15, <2>1 DEF ActorTypeOK, DriveCommand, Phase
<1>16. CASE InterruptReturns
  BY <1>16, CompleteType DEF ActorTypeOK, InterruptReturns, Phase
<1>17. CASE InterruptFails
  BY <1>17, CompleteType, FaultType DEF ActorTypeOK, InterruptFails, LeaveDriver, Phase
<1>18. CASE DisconnectReturns
  BY <1>18, HandleType DEF ActorTypeOK, DisconnectReturns, LeaveDriver
<1>19. CASE DisconnectFails
  BY <1>19, CollapseType, FaultType DEF DisconnectFails
<1> QED
  BY <1>1, <1>2, <1>3, <1>4, <1>5, <1>6, <1>7, <1>8, <1>9, <1>10, <1>11, <1>12,
     <1>13, <1>14, <1>15, <1>16, <1>17, <1>18, <1>19 DEF ActorNext, Actor, Faulty

\* Every variable keeps its range: what the actor has set aside (pending) is a
\* query, what it holds while the SDK interrupts is not.
THEOREM ActorTypeCorrect == ActorSpec => []ActorTypeOK
<1>1. ActorInit => ActorTypeOK
  BY DEF ActorInit, ActorTypeOK, Phase
<1> QED
  BY <1>1, ActorTypeStep, PTL DEF ActorSpec

-----------------------------------------------------------------------------
(* One query at a time *)

\* Answering the query that is driven leaves no query that is sent.
LEMMA Answered ==
    ASSUME ActorTypeOK, OneQueryAtATime, NEW ok, NEW err, Complete(ok, err),
           cur \in ok \cup err \cup {NoCmd} \/ phase \notin Driven
    PROVE  \A c \in QueryCmd : reply'[c] # "sent"
BY SessionActorAssumption DEF ActorTypeOK, OneQueryAtATime, Complete, Cmd

LEMMA OneQueryStep ==
    ASSUME ActorTypeOK, OneQueryAtATime, [ActorNext]_actorVars
    PROVE  OneQueryAtATime'
<1> USE DEF OneQueryAtATime, Driven
<1>1. CASE UNCHANGED actorVars
  BY <1>1 DEF actorVars
<1>2. ASSUME NEW c \in Cmd, Enqueue(c)
      PROVE  OneQueryAtATime'
  BY <1>2 DEF Enqueue, Complete, ActorTypeOK, Cmd
<1>3. CASE Cancel
  BY <1>3, Answered DEF Cancel, Collapse, ActorTypeOK
<1>4. CASE Connect \/ TakeAside \/ Receive \/ DriveMessage
  BY <1>4 DEF Connect, TakeAside, Receive, DriveMessage
<1>5. CASE ConnectFails \/ Close
  BY <1>5, Answered DEF ConnectFails, Close, Drain
<1>6. CASE Take
  BY <1>6, Answered DEF Take, Handle
<1>7. CASE Sent
  BY <1>7 DEF Sent, ActorTypeOK, Cmd
<1>8. CASE QueryFails \/ DriveError \/ DisconnectFails
  BY <1>8, Answered DEF QueryFails, DriveError, DisconnectFails, Collapse
<1>9. CASE DriveEnd
  BY <1>9, Answered DEF DriveEnd, Handle
<1>10. CASE DriveCommand \/ InterruptReturns
  BY <1>10 DEF DriveCommand, InterruptReturns, Complete, ActorTypeOK, Cmd
<1>11. CASE InterruptFails
  BY <1>11, Answered DEF InterruptFails
<1>12. CASE DisconnectReturns
  BY <1>12, Answered DEF DisconnectReturns, Handle
<1> QED
  BY <1>1, <1>2, <1>3, <1>4, <1>5, <1>6, <1>7, <1>8, <1>9, <1>10, <1>11, <1>12
     DEF ActorNext, Actor, Faulty

\* A query that was sent and has no end yet is the one the actor drives: the
\* SDK client is never given a second one, and no accepted query outlives its
\* driver, whatever fails.
THEOREM SessionOneQuery == ActorSpec => []OneQueryAtATime
<1>1. ActorInit => OneQueryAtATime
  BY DEF ActorInit, OneQueryAtATime, Cmd
<1>2. ActorTypeOK /\ OneQueryAtATime /\ [ActorNext]_actorVars => OneQueryAtATime'
  BY OneQueryStep
<1> QED
  BY <1>1, <1>2, ActorTypeCorrect, PTL DEF ActorSpec

-----------------------------------------------------------------------------
(* Every open command has its place *)

Elems(q) == {q[i] : i \in 1..Len(q)}
Lined(q) == \A i, j \in 1..Len(q) : q[i] = q[j] => i = j
Aside == {got, pending, held, cur}

\* OpenIsHeld is not inductive: nothing in it says that the places outside the
\* queue are empty when nobody drives, and which of them holds what.
HeldInv == phase \in Alive =>
    /\ Lined(queue) /\ Aside \cap Elems(queue) = {}
    /\ \A c \in Cmd : reply[c] \in {"open", "sent"} <=> c \in Elems(queue) \cup Aside
    /\ got # NoCmd => got \notin {pending, held, cur} /\ phase = "driving"
    /\ pending # NoCmd => pending # cur /\ phase \in Driven
    /\ cur = NoCmd <=> phase \in {"starting", "idle"}
    /\ held \in InterruptCmd <=> phase = "interrupting"
    /\ held \in DisconnectCmd <=> phase = "disconnecting"

LEMMA AppendLined ==
    ASSUME NEW q \in Seq(Cmd), NEW c \in Cmd, Lined(q), c \notin Elems(q)
    PROVE  Lined(Append(q, c)) /\ Elems(Append(q, c)) = Elems(q) \cup {c}
BY DEF Lined, Elems

LEMMA TailLined ==
    ASSUME NEW q \in Seq(Cmd), q # <<>>, Lined(q)
    PROVE  /\ Lined(Tail(q)) /\ Head(q) \in Cmd
           /\ Head(q) \notin Elems(Tail(q))
           /\ Elems(q) = Elems(Tail(q)) \cup {Head(q)}
<1>1. /\ Len(Tail(q)) = Len(q) - 1 /\ Head(q) = q[1] /\ Len(q) \in Nat \ {0}
      /\ \A i \in 1..Len(Tail(q)) : Tail(q)[i] = q[i + 1]
  OBVIOUS
<1>2. Lined(Tail(q)) /\ Head(q) \notin Elems(Tail(q))
  BY <1>1 DEF Lined, Elems
<1>3. ASSUME NEW i \in 1..Len(q)
      PROVE  q[i] = Head(q) \/ (i - 1 \in 1..Len(Tail(q)) /\ Tail(q)[i - 1] = q[i])
  BY <1>1
<1>4. ASSUME NEW i \in 1..Len(Tail(q))
      PROVE  i + 1 \in 1..Len(q) /\ Tail(q)[i] = q[i + 1]
  BY <1>1
<1>5. ASSUME NEW e \in Elems(q)
      PROVE  e \in Elems(Tail(q)) \cup {Head(q)}
  <2>1. PICK i \in 1..Len(q) : e = q[i]
    BY DEF Elems
  <2> QED
    BY <2>1, <1>3 DEF Elems
<1>6. Head(q) \in Elems(q) /\ Head(q) \in Cmd
  BY <1>1 DEF Elems
<1>7. ASSUME NEW e \in Elems(Tail(q))
      PROVE  e \in Elems(q)
  <2>1. PICK i \in 1..Len(Tail(q)) : e = Tail(q)[i]
    BY DEF Elems
  <2> QED
    BY <2>1, <1>4 DEF Elems
<1> QED
  BY <1>2, <1>5, <1>6, <1>7

LEMMA HeldStep ==
    ASSUME ActorTypeOK, OneQueryAtATime, HeldInv, [ActorNext]_actorVars
    PROVE  HeldInv'
<1> USE SessionActorAssumption DEF Alive, Driven
<1>1. CASE UNCHANGED actorVars
  BY <1>1 DEF actorVars, HeldInv, Aside
<1>2. ASSUME NEW c \in Cmd, Enqueue(c)
      PROVE  HeldInv'
  <2> SUFFICES ASSUME phase \in Alive  PROVE HeldInv'
    BY <1>2 DEF Enqueue, HeldInv
  <2>1. c \notin Elems(queue) \cup Aside /\ queue \in Seq(Cmd)
    BY <1>2 DEF Enqueue, HeldInv, ActorTypeOK
  <2>2. Lined(queue') /\ Elems(queue') = Elems(queue) \cup {c}
    BY <1>2, <2>1, AppendLined DEF Enqueue, HeldInv
  <2> QED
    BY <1>2, <2>1, <2>2 DEF Enqueue, HeldInv, Aside, ActorTypeOK
<1>3. CASE Connect
  BY <1>3 DEF Connect, HeldInv, Aside
<1>4. CASE Faulty \/ Close \/ DriveError
  BY <1>4 DEF Faulty, ConnectFails, QueryFails, InterruptFails, DisconnectFails, Cancel,
              Collapse, Close, Drain, DriveError, HeldInv
<1>5. CASE Take
  <2> DEFINE c == Head(queue)
  <2>1. /\ Lined(queue') /\ c \in Cmd /\ c \notin Elems(queue')
        /\ Elems(queue) = Elems(queue') \cup {c}
    BY <1>5, TailLined DEF Take, HeldInv, ActorTypeOK
  <2>2. Handle(c, {}, {}) /\ phase = "idle" /\ UNCHANGED <<msg, got, pending, held>>
    BY <1>5 DEF Take
  <2> HIDE DEF c
  <2> QED
    BY <2>1, <2>2 DEF Handle, Complete, HeldInv, Aside, ActorTypeOK, Cmd
<1>6. CASE Sent
  BY <1>6 DEF Sent, HeldInv, Aside, ActorTypeOK, Cmd
<1>7. CASE TakeAside
  <2>1. /\ Lined(queue') /\ got' \in Cmd /\ got' \notin Elems(queue')
        /\ Elems(queue) = Elems(queue') \cup {got'}
    BY <1>7, TailLined DEF TakeAside, HeldInv, ActorTypeOK
  <2> QED
    BY <1>7, <2>1 DEF TakeAside, HeldInv, Aside, ActorTypeOK
<1>8. CASE Receive \/ DriveMessage
  BY <1>8 DEF Receive, DriveMessage, HeldInv, Aside
<1>9. CASE DriveEnd
  <2>1. CASE pending # NoCmd
    <3>1. /\ Lined(queue') /\ Elems(queue') = Elems(queue) \cup ({got} \ {NoCmd})
      <4>1. CASE got = NoCmd
        BY <1>9, <2>1, <4>1 DEF DriveEnd, HeldInv
      <4>2. CASE got # NoCmd
        <5>1. phase \in Alive /\ got \in Cmd /\ queue \in Seq(Cmd) /\ queue' = Append(queue, got)
          BY <1>9, <2>1, <4>2 DEF DriveEnd, ActorTypeOK
        <5>2. Lined(queue) /\ got \notin Elems(queue)
          BY <5>1 DEF HeldInv, Aside
        <5> QED
          BY <4>2, <5>1, <5>2, AppendLined
      <4> QED
        BY <4>1, <4>2
    <3>2. /\ phase' = "querying" /\ cur' = pending /\ Complete({cur}, {})
          /\ got' = NoCmd /\ pending' = NoCmd /\ held' = NoCmd
      BY <1>9, <2>1 DEF DriveEnd, Handle, LeaveDriver, ActorTypeOK
    <3> QED
      BY <1>9, <2>1, <3>1, <3>2 DEF DriveEnd, Complete, HeldInv, Aside, ActorTypeOK, Cmd
  <2>2. CASE pending = NoCmd /\ got # NoCmd
    <3>1. /\ Handle(got, {cur}, {}) /\ UNCHANGED queue /\ phase = "driving"
          /\ got' = NoCmd /\ pending' = NoCmd /\ held' = NoCmd
      BY <1>9, <2>2 DEF DriveEnd, LeaveDriver
    <3> QED
      BY <2>2, <3>1 DEF Handle, Complete, HeldInv, Aside, ActorTypeOK, Cmd
  <2>3. CASE pending = NoCmd /\ got = NoCmd
    BY <1>9, <2>3 DEF DriveEnd, LeaveDriver, Complete, HeldInv, Aside, ActorTypeOK, Cmd
  <2> QED
    BY <2>1, <2>2, <2>3
<1>10. CASE DriveCommand
  BY <1>10 DEF DriveCommand, Complete, HeldInv, Aside, ActorTypeOK, Cmd
<1>11. CASE InterruptReturns
  BY <1>11 DEF InterruptReturns, Complete, HeldInv, Aside, ActorTypeOK, Cmd
<1>12. CASE DisconnectReturns
  BY <1>12 DEF DisconnectReturns, Handle, HeldInv, ActorTypeOK
<1> QED
  BY <1>1, <1>2, <1>3, <1>4, <1>5, <1>6, <1>7, <1>8, <1>9, <1>10, <1>11, <1>12
     DEF ActorNext, Actor

\* From the invariant to the places that OpenIsHeld counts.
LEMMA HeldPlaces ==
    ASSUME ActorTypeOK, HeldInv, phase \in Alive, NEW c \in Cmd
    PROVE  IF reply[c] \in {"open", "sent"} THEN \E p \in Places(c) : Places(c) = {p}
                                            ELSE Places(c) = {}
<1> USE SessionActorAssumption DEF Alive, Driven
<1> DEFINE Lines == {i \in 1..Len(queue) : queue[i] = c}
<1>1. c \in Elems(queue) => \E i \in Lines : Lines = {i}
  BY DEF HeldInv, Elems, Lined
<1>2. c \notin Elems(queue) => Lines = {}
  BY DEF Elems
<1>3. Places(c) = Lines \cup (IF got = c THEN {-1} ELSE {}) \cup (IF pending = c THEN {-2} ELSE {})
                        \cup (IF held = c THEN {-3} ELSE {}) \cup (IF cur = c THEN {-4} ELSE {})
  BY DEF Places
<1> HIDE DEF Lines
<1>4. CASE c \in Elems(queue)
  <2>1. c \notin Aside
    BY <1>4 DEF HeldInv
  <2>2. Places(c) = Lines
    BY <1>3, <2>1 DEF Aside
  <2> QED
    BY <1>1, <1>4, <2>2 DEF HeldInv
<1>5. CASE c \in Aside /\ c \notin Elems(queue)
  <2>1. /\ got = c => pending # c /\ held # c /\ cur # c
        /\ pending = c => got # c /\ held # c /\ cur # c
        /\ held = c => got # c /\ pending # c /\ cur # c
        /\ cur = c => got # c /\ pending # c /\ held # c
    BY DEF HeldInv, ActorTypeOK, Cmd
  <2>2. Places(c) \in {{-1}, {-2}, {-3}, {-4}}
    BY <1>2, <1>3, <1>5, <2>1 DEF Aside
  <2> QED
    BY <1>5, <2>2 DEF HeldInv
<1>6. CASE c \notin Aside /\ c \notin Elems(queue)
  BY <1>2, <1>3, <1>6 DEF HeldInv, Aside
<1> QED
  BY <1>4, <1>5, <1>6

\* While the actor lives, a command without an answer is in exactly one of the
\* five places where the actor will find it: the queue, the result of
\* cmd_task, pending_query, the command whose interrupt is awaited, the query
\* that is driven; and an answered one is in none.
THEOREM OpenCommandsAreHeld == ActorSpec => []OpenIsHeld
<1>1. ActorInit => HeldInv
  BY SessionActorAssumption DEF ActorInit, HeldInv, Aside, Elems, Lined, Alive, Driven, Cmd
<1>2. ActorTypeOK /\ OneQueryAtATime /\ HeldInv /\ [ActorNext]_actorVars => HeldInv'
  BY HeldStep
<1>3. ActorTypeOK /\ HeldInv => OpenIsHeld
  BY HeldPlaces DEF OpenIsHeld
<1> QED
  BY <1>1, <1>2, <1>3, ActorTypeCorrect, SessionOneQuery, PTL DEF ActorSpec

-----------------------------------------------------------------------------
(* The manager: the inductive invariant *)

RequestRecord ==
    [op : {"none", "send", "stream", "open", "interrupt", "delete"}, pc : Pc, sid : Sid \cup {NULL},
     inst : Inst \cup {NULL}, lock : 0..(Cardinality(Request) + 1), meta : Status]
InstRecord ==
    [key : Key \cup {NULL}, sid : Sid \cup {NULL}, known : BOOLEAN, actor : {"new", "live", "gone"},
     queue : Seq(Request \cup {"close"}), turn : BOOLEAN, status : Status \cup {"closed"}, intr : BOOLEAN,
     inbox : Seq({"init", "end"} \cup Status), proc : Status \cup {"off", "wait", "adopt", "done"},
     timer : BOOLEAN, ev : {"none", "timer", "close", "lost", "inbox", "done"}, evKey : Key \cup {NULL}]

\* The types of the state.
StateOK ==
    /\ db \in [Sid -> Status \cup {"absent"}]
    /\ registry \in [Key -> Inst \cup {NULL}]
    /\ disconnecting \subseteq contested /\ contested \subseteq Key /\ persist \subseteq Sid
    /\ lockOf \in [Sid -> 0..(Cardinality(Request) + 1)]
    /\ req \in [Request -> RequestRecord]
    /\ inst \in [Inst -> InstRecord]

\* What a request at a given place carries.
Dialing == {"lock", "capacity", "options", "starting"}
RequestFine(q) ==
    /\ q.pc \in Dialing => IF q.op = "open" THEN q.pc # "lock" ELSE q.op \in {"send", "stream"} /\ q.sid \in Sid
    /\ q.pc = "evicting" => q.op = "open" \/ (q.op \in {"send", "stream", "delete"} /\ q.sid \in Sid)
    /\ q.pc \in {"sent", "failed"} => q.op \in {"open", "send"}
    /\ q.pc \in {"ask", "asked", "refused"} => q.op = "interrupt" /\ q.inst \in Inst
    /\ q.pc \in {"check", "mark"} => q.op = "send"
    /\ q.pc \in {"sdkid", "cleanup"} => q.op = "open"
    /\ q.pc = "delete" => q.sid \in Sid
    /\ q.pc \in {"starting", "check", "mark", "sent", "failed", "sdkid", "cleanup", "evicting"} => q.inst \in Inst

\* The object of a new session has its temporary id until an id that is contested; that
\* of a request which connects one has the id of the request.
OwnObject(q, f, C) ==
    /\ q.inst # NULL => f[q.inst].key # NULL
    /\ q.op = "open" /\ q.pc \in {"starting", "sent", "failed", "sdkid", "cleanup"} => f[q.inst].key \in {q.inst} \cup C
    /\ q.op # "open" /\ q.pc = "starting" => f[q.inst].key = q.sid \/ q.sid \in C

\* An object without an id is unused, one whose actor has ended has an empty queue,
\* and one whose id is not contested knows its SDK id from the start: nothing in its
\* inbox will move it to another.
InstFine(i, C) ==
    /\ i.key = NULL => i = Unused
    /\ i.actor = "gone" => i.queue = <<>>
    /\ i.ev \in {"timer", "close", "lost", "inbox"} => i.evKey \in C
    /\ i.proc = "adopt" => i.sid \in Sid \cap C
    /\ i.key \in Sid \ C => i.known /\ i.proc # "adopt" /\ \A j \in 1..Len(i.inbox) : i.inbox[j] # "init"

\* A command in the queue of an actor has its request waiting for it there, once, and
\* a request that waits has its command there.
Asking == {"sent", "ask"}
Stands(r, u) == \E j \in 1..Len(u) : u[j] = r
QueueSound ==
    \A m \in Inst : \A j \in 1..Len(inst[m].queue) :
        LET r == inst[m].queue[j] IN
        r \in Request => /\ req[r].pc \in Asking /\ req[r].inst = m
                         /\ \A k \in 1..Len(inst[m].queue) : inst[m].queue[k] = r => k = j
QueueFull == \A r \in Request : req[r].pc \in Asking => Stands(r, inst[req[r].inst].queue)
QueuesOK == QueueSound /\ QueueFull

\* Requests that connect an uncontested id share one lock, one of them is past it,
\* no actor is awake while it makes room, and an actor that is awake is registered.
Connecting(s) == {r \in Request : req[r].sid = s /\ req[r].pc \in {"lock"} \cup Critical}
ConnectOK ==
    \A s \in Sid \ contested :
        /\ \A r \in Connecting(s) : req[r].op \in {"send", "stream"} /\ req[r].lock = lockOf[s] /\ lockOf[s] # 0
        /\ \A r, q \in Connecting(s) : req[r].pc # "lock" /\ req[q].pc # "lock" => r = q
        /\ \A r \in Connecting(s) : req[r].pc \in {"capacity", "evicting", "options"} => Awake(s) = {}
        /\ \A m \in Awake(s) : registry[s] = m

\* The inductive invariant.
SessionIndInv ==
    /\ StateOK
    /\ \A r \in Request : RequestFine(req[r]) /\ OwnObject(req[r], inst, contested)
    /\ \A m \in Inst : InstFine(inst[m], contested)
    /\ SessionIdentity
    /\ QueuesOK
    /\ ConnectOK

-----------------------------------------------------------------------------
(* What a step keeps *)

\* The objects keep their ids, an actor that has ended stays so, and each object is
\* as the invariant has it.
InstStep ==
    /\ inst' \in [Inst -> InstRecord]
    /\ \A n \in Inst : /\ InstFine(inst'[n], contested')
                       /\ inst'[n].key = inst[n].key
                       /\ inst[n].actor = "gone" => inst'[n].actor = "gone"

\* A request is no nearer to a connection than it was.
Waits == {"capacity", "evicting", "options"}
NoNearer(q, p, C) ==
    p.pc \in {"lock"} \cup Critical /\ p.sid \in Sid \ C =>
        /\ q.pc \in {"lock"} \cup Critical
        /\ q.sid = p.sid /\ q.op = p.op /\ q.lock = p.lock
        /\ q.pc = "lock" => p.pc = "lock"
        /\ p.pc \in Waits => q.pc \in Waits
ReqStep ==
    /\ req' \in [Request -> RequestRecord]
    /\ \A n \in Request : /\ RequestFine(req'[n])
                          /\ OwnObject(req'[n], inst', contested')
                          /\ NoNearer(req[n], req'[n], contested')

\* Ids are only taken out of the registry; one that is not contested has no actor then.
RegStep ==
    /\ registry' \in [Key -> Inst \cup {NULL}]
    /\ \A k \in Key : registry'[k] \in {registry[k], NULL}
    /\ \A s \in Sid \ contested' : registry'[s] # registry[s] =>
           \A n \in Inst : inst'[n].key = s => inst'[n].actor = "gone"

FrameStep ==
    /\ db' \in [Sid -> Status \cup {"absent"}]
    /\ persist' \subseteq Sid
    /\ disconnecting' \subseteq contested' /\ contested' \subseteq Key /\ contested \subseteq contested'
    /\ lockOf' \in [Sid -> 0..(Cardinality(Request) + 1)]
    /\ \A s \in Sid \ contested' : lockOf'[s] = lockOf[s]

LEMMA ConnectKept ==
    ASSUME SessionIndInv, InstStep, ReqStep, RegStep, FrameStep
    PROVE  ConnectOK'
<1> SUFFICES ASSUME NEW s \in Sid, s \notin contested'
             PROVE  /\ \A r \in Connecting(s)' : req'[r].op \in {"send", "stream"} /\ req'[r].lock = lockOf'[s] /\ lockOf'[s] # 0
                    /\ \A r, q \in Connecting(s)' : req'[r].pc # "lock" /\ req'[q].pc # "lock" => r = q
                    /\ \A r \in Connecting(s)' : req'[r].pc \in {"capacity", "evicting", "options"} => Awake(s)' = {}
                    /\ \A m \in Awake(s)' : registry'[s] = m
  BY DEF ConnectOK
<1>1. s \notin contested /\ lockOf'[s] = lockOf[s]
  BY DEF FrameStep
<1>2. ASSUME NEW m \in Awake(s)'
      PROVE  m \in Awake(s) /\ registry'[s] = registry[s]
  <2>1. m \in Inst /\ inst'[m].key = s /\ inst'[m].actor # "gone"
    BY <1>2 DEF Awake
  <2>2. inst[m].key = s /\ inst[m].actor # "gone"
    BY <2>1 DEF InstStep
  <2> QED
    BY <2>1, <2>2 DEF Awake, RegStep
<1>3. ASSUME NEW r \in Connecting(s)'
      PROVE  /\ r \in Connecting(s)
             /\ req[r].op = req'[r].op /\ req[r].lock = req'[r].lock
             /\ req'[r].pc # "lock" => req[r].pc # "lock"
             /\ req'[r].pc \in Waits => req[r].pc \in Waits
  <2>1. r \in Request /\ req'[r].sid = s /\ req'[r].pc \in {"lock"} \cup Critical
    BY <1>3 DEF Connecting
  <2>2. NoNearer(req[r], req'[r], contested')
    BY <2>1 DEF ReqStep
  <2> QED
    BY <2>1, <2>2 DEF NoNearer, Connecting
<1>4. /\ \A r \in Connecting(s) : req[r].op \in {"send", "stream"} /\ req[r].lock = lockOf[s] /\ lockOf[s] # 0
      /\ \A r, q \in Connecting(s) : req[r].pc # "lock" /\ req[q].pc # "lock" => r = q
      /\ \A r \in Connecting(s) : req[r].pc \in Waits => Awake(s) = {}
      /\ \A m \in Awake(s) : registry[s] = m
  BY <1>1 DEF SessionIndInv, ConnectOK, Waits
<1>5. \A r \in Connecting(s)' : req'[r].op \in {"send", "stream"} /\ req'[r].lock = lockOf'[s] /\ lockOf'[s] # 0
  BY <1>1, <1>3, <1>4
<1>6. \A r, q \in Connecting(s)' : req'[r].pc # "lock" /\ req'[q].pc # "lock" => r = q
  BY <1>3, <1>4
<1>7. \A r \in Connecting(s)' : req'[r].pc \in Waits => Awake(s)' = {}
  BY <1>2, <1>3, <1>4
<1>8. \A m \in Awake(s)' : registry'[s] = m
  BY <1>2, <1>4
<1> QED
  BY <1>5, <1>6, <1>7, <1>8 DEF Waits

LEMMA IdentityKept ==
    ASSUME SessionIndInv, InstStep, RegStep
    PROVE  SessionIdentity'
<1> SUFFICES ASSUME NEW k \in Key, registry'[k] # NULL
             PROVE  inst'[registry'[k]].key = k
  BY DEF SessionIdentity
<1>1. registry'[k] = registry[k] /\ registry[k] \in Inst
  BY DEF RegStep, SessionIndInv, StateOK
<1> QED
  BY <1>1 DEF SessionIndInv, SessionIdentity, InstStep

LEMMA MildStep ==
    ASSUME SessionIndInv, InstStep, ReqStep, RegStep, FrameStep, QueuesOK'
    PROVE  SessionIndInv'
<1>1. StateOK'
  BY DEF InstStep, ReqStep, RegStep, FrameStep, StateOK
<1>2. SessionIdentity' /\ ConnectOK'
  BY IdentityKept, ConnectKept
<1>3. \A r \in Request : RequestFine(req'[r]) /\ OwnObject(req'[r], inst', contested')
  BY DEF ReqStep
<1>4. \A m \in Inst : InstFine(inst'[m], contested')
  BY DEF InstStep
<1> QED
  BY <1>1, <1>2, <1>3, <1>4 DEF SessionIndInv

LEMMA FineGrows ==
    ASSUME NEW i, NEW C, NEW D, C \subseteq D, InstFine(i, C)
    PROVE  InstFine(i, D)
BY DEF InstFine

LEMMA RequestNull == NULL \notin Sid /\ NULL \notin Inst /\ NULL \notin Key /\ "close" \notin Request
BY SessionManagerAssumption DEF Key

LEMMA OwnGrows ==
    ASSUME SessionIndInv, FrameStep, InstStep, NEW r \in Request
    PROVE  OwnObject(req[r], inst', contested')
<1>1. req[r].inst \in Inst \cup {NULL}
  BY DEF SessionIndInv, StateOK, RequestRecord
<1>2. OwnObject(req[r], inst, contested) /\ RequestFine(req[r])
  BY DEF SessionIndInv
<1>3. contested \subseteq contested'
  BY DEF FrameStep
<1>4. CASE req[r].inst \in Inst
  BY <1>2, <1>3, <1>4 DEF OwnObject, InstStep
<1>5. CASE req[r].inst = NULL
  <2>1. req[r].pc \notin {"starting", "sent", "failed", "sdkid", "cleanup"}
    BY <1>2, <1>5, RequestNull DEF RequestFine
  <2> QED
    BY <2>1, <1>5 DEF OwnObject
<1> QED
  BY <1>1, <1>4, <1>5

LEMMA NearestSelf ==
    ASSUME NEW q, NEW C
    PROVE  NoNearer(q, q, C)
BY DEF NoNearer

LEMMA ReqSame ==
    ASSUME SessionIndInv, FrameStep, InstStep, UNCHANGED req
    PROVE  ReqStep
BY OwnGrows, NearestSelf DEF ReqStep, SessionIndInv, StateOK

LEMMA ReqSet ==
    ASSUME SessionIndInv, FrameStep, InstStep, NEW r \in Request, NEW q \in RequestRecord,
           req' = [req EXCEPT ![r] = q],
           RequestFine(q), OwnObject(q, inst', contested'), NoNearer(req[r], q, contested')
    PROVE  ReqStep
<1> USE DEF SessionIndInv, StateOK
<1>1. req' \in [Request -> RequestRecord]
  OBVIOUS
<1>2. ASSUME NEW n \in Request
      PROVE  /\ RequestFine(req'[n])
             /\ OwnObject(req'[n], inst', contested')
             /\ NoNearer(req[n], req'[n], contested')
  <2>1. CASE n = r
    BY <2>1
  <2>2. CASE n # r
    BY <2>2, OwnGrows, NearestSelf
  <2> QED
    BY <2>1, <2>2
<1> QED
  BY <1>1, <1>2 DEF ReqStep

LEMMA InstSame ==
    ASSUME SessionIndInv, contested \subseteq contested', UNCHANGED inst
    PROVE  InstStep
BY FineGrows DEF InstStep, SessionIndInv, StateOK

LEMMA InstSet ==
    ASSUME SessionIndInv, contested \subseteq contested', NEW m \in Inst, NEW i \in InstRecord,
           inst' = [inst EXCEPT ![m] = i],
           InstFine(i, contested'), i.key = inst[m].key, inst[m].actor = "gone" => i.actor = "gone"
    PROVE  InstStep
<1> USE DEF SessionIndInv, StateOK
<1>1. inst' \in [Inst -> InstRecord]
  OBVIOUS
<1>2. ASSUME NEW n \in Inst
      PROVE  /\ InstFine(inst'[n], contested')
             /\ inst'[n].key = inst[n].key
             /\ inst[n].actor = "gone" => inst'[n].actor = "gone"
  <2>1. CASE n = m
    BY <2>1
  <2>2. CASE n # m
    BY <2>2, FineGrows
  <2> QED
    BY <2>1, <2>2
<1> QED
  BY <1>1, <1>2 DEF InstStep

LEMMA RegSame ==
    ASSUME SessionIndInv, UNCHANGED registry
    PROVE  RegStep
BY DEF RegStep, SessionIndInv, StateOK

\* Ids that are taken out are contested, temporary, or those of an actor that has ended.
LEMMA RegTaken ==
    ASSUME SessionIndInv, NEW K, registry' = [k \in Key |-> IF k \in K THEN NULL ELSE registry[k]],
           \A s \in K \cap (Sid \ contested') : \A n \in Inst : inst'[n].key = s => inst'[n].actor = "gone"
    PROVE  RegStep
<1> Sid \subseteq Key
  BY DEF Key
<1> QED
  BY DEF RegStep, SessionIndInv, StateOK

LEMMA DbSet ==
    ASSUME StateOK, NEW k, NEW st \in Status, SetDb(k, st)
    PROVE  db' \in [Sid -> Status \cup {"absent"}]
BY DEF StateOK, SetDb

LEMMA FrameSame ==
    ASSUME SessionIndInv, db' \in [Sid -> Status \cup {"absent"}], UNCHANGED <<disconnecting, lockOf, persist, contested>>
    PROVE  FrameStep
BY DEF FrameStep, SessionIndInv, StateOK

-----------------------------------------------------------------------------
(* The queues *)

\* A queue keeps what is in it; a disconnect may be added.
QueueMild(old, new) == new \in {old, Append(old, "close")}
AskSame(q, p) == q.pc \in Asking \/ p.pc \in Asking => p.pc = q.pc /\ p.inst = q.inst

LEMMA MildStands ==
    ASSUME NEW S, NEW u \in Seq(S), NEW v, QueueMild(u, v), NEW r, Stands(r, u)
    PROVE  Stands(r, v)
<1>1. PICK j \in 1..Len(u) : u[j] = r
  BY DEF Stands
<1>2. CASE v = u
  BY <1>2
<1>3. CASE v = Append(u, "close")
  <2>1. j \in 1..Len(v) /\ v[j] = u[j]
    BY <1>3
  <2> QED
    BY <1>1, <2>1 DEF Stands
<1> QED
  BY <1>2, <1>3 DEF QueueMild

LEMMA AskerIs ==
    ASSUME SessionIndInv, NEW r \in Request, req[r].pc \in Asking
    PROVE  /\ req[r].inst \in Inst
           /\ Stands(r, inst[req[r].inst].queue)
BY DEF SessionIndInv, QueuesOK, QueueFull, RequestFine, Asking

LEMMA QueuesKept ==
    ASSUME SessionIndInv,
           \A m \in Inst : QueueMild(inst[m].queue, inst'[m].queue),
           \A r \in Request : AskSame(req[r], req'[r])
    PROVE  QueuesOK'
<1>1. QueueSound'
  <2> SUFFICES ASSUME NEW m \in Inst, NEW j \in 1..Len(inst'[m].queue), inst'[m].queue[j] \in Request
               PROVE  /\ req'[inst'[m].queue[j]].pc \in Asking /\ req'[inst'[m].queue[j]].inst = m
                      /\ \A k \in 1..Len(inst'[m].queue) : inst'[m].queue[k] = inst'[m].queue[j] => k = j
    BY DEF QueueSound
  <2> DEFINE old == inst[m].queue
             new == inst'[m].queue
  <2>1. old \in Seq(Request \cup {"close"})
    BY DEF SessionIndInv, StateOK, InstRecord
  <2>2. QueueMild(old, new) /\ new[j] \in Request
    OBVIOUS
  <2>3. \A i \in 1..Len(old) : old[i] \in Request =>
            /\ req[old[i]].pc \in Asking /\ req[old[i]].inst = m
            /\ \A k \in 1..Len(old) : old[k] = old[i] => k = i
    BY DEF SessionIndInv, QueuesOK, QueueSound
  <2> j \in 1..Len(new)
    OBVIOUS
  <2> HIDE DEF old, new
  <2>4. j \in 1..Len(old) /\ new[j] = old[j] /\ \A k \in 1..Len(new) : new[k] = new[j] => k \in 1..Len(old) /\ new[k] = old[k]
    BY <2>1, <2>2, RequestNull DEF QueueMild
  <2>5. req[old[j]].pc \in Asking /\ req[old[j]].inst = m
    BY <2>2, <2>3, <2>4
  <2>6. req'[old[j]].pc \in Asking /\ req'[old[j]].inst = m
    BY <2>2, <2>4, <2>5 DEF AskSame
  <2>7. \A k \in 1..Len(new) : new[k] = new[j] => k = j
    BY <2>2, <2>3, <2>4
  <2> QED
    BY <2>4, <2>6, <2>7 DEF old, new
<1>2. QueueFull'
  <2> SUFFICES ASSUME NEW r \in Request, req'[r].pc \in Asking
               PROVE  Stands(r, inst'[req'[r].inst].queue)
    BY DEF QueueFull
  <2>1. req[r].pc \in Asking /\ req'[r].inst = req[r].inst
    BY DEF AskSame
  <2>2. req[r].inst \in Inst /\ Stands(r, inst[req[r].inst].queue)
    BY <2>1, AskerIs
  <2> DEFINE m == req[r].inst
  <2>3. inst[m].queue \in Seq(Request \cup {"close"}) /\ QueueMild(inst[m].queue, inst'[m].queue)
    BY <2>2 DEF SessionIndInv, StateOK, InstRecord
  <2> HIDE DEF m
  <2>4. Stands(r, inst'[m].queue)
    BY <2>2, <2>3, MildStands DEF m
  <2> QED
    BY <2>1, <2>4 DEF m
<1> QED
  BY <1>1, <1>2 DEF QueuesOK

\* For one object and one request, as most steps are.
LEMMA QueueOne ==
    ASSUME SessionIndInv, NEW m \in Inst, NEW i, inst' = [inst EXCEPT ![m] = i], QueueMild(inst[m].queue, i.queue),
           NEW r \in Request, NEW q, req' = [req EXCEPT ![r] = q], req[r].pc \notin {"sent", "ask"}, q.pc \notin {"sent", "ask"}
    PROVE  QueuesOK'
<1>1. \A n \in Inst : QueueMild(inst[n].queue, inst'[n].queue)
  BY DEF SessionIndInv, StateOK, QueueMild
<1>2. \A n \in Request : AskSame(req[n], req'[n])
  BY DEF SessionIndInv, StateOK, AskSame, Asking
<1> QED
  BY <1>1, <1>2, QueuesKept

LEMMA QueueReq ==
    ASSUME SessionIndInv, UNCHANGED inst,
           NEW r \in Request, NEW q, req' = [req EXCEPT ![r] = q], req[r].pc \notin {"sent", "ask"}, q.pc \notin {"sent", "ask"}
    PROVE  QueuesOK'
<1>1. \A n \in Inst : QueueMild(inst[n].queue, inst'[n].queue)
  BY DEF SessionIndInv, StateOK, QueueMild
<1>2. \A n \in Request : AskSame(req[n], req'[n])
  BY DEF SessionIndInv, StateOK, AskSame, Asking
<1> QED
  BY <1>1, <1>2, QueuesKept

LEMMA QueueInst ==
    ASSUME SessionIndInv, UNCHANGED req,
           NEW m \in Inst, NEW i, inst' = [inst EXCEPT ![m] = i], QueueMild(inst[m].queue, i.queue)
    PROVE  QueuesOK'
<1>1. \A n \in Inst : QueueMild(inst[n].queue, inst'[n].queue)
  BY DEF SessionIndInv, StateOK, QueueMild
<1> QED
  BY <1>1, QueuesKept DEF AskSame

\* The shapes of a step that leaves the registry.
LEMMA InstOnly ==
    ASSUME SessionIndInv, FrameStep, UNCHANGED registry, UNCHANGED req,
           NEW m \in Inst, NEW i \in InstRecord, inst' = [inst EXCEPT ![m] = i],
           InstFine(i, contested'), i.key = inst[m].key, inst[m].actor = "gone" => i.actor = "gone",
           QueueMild(inst[m].queue, i.queue)
    PROVE  SessionIndInv'
<1>1. InstStep
  BY InstSet DEF FrameStep
<1>2. QueuesOK'
  BY QueueInst
<1> QED
  BY <1>1, <1>2, ReqSame, RegSame, MildStep

LEMMA ReqOnly ==
    ASSUME SessionIndInv, FrameStep, UNCHANGED registry, UNCHANGED inst,
           NEW r \in Request, NEW q \in RequestRecord, req' = [req EXCEPT ![r] = q],
           RequestFine(q), OwnObject(q, inst, contested'), NoNearer(req[r], q, contested'),
           req[r].pc \notin {"sent", "ask"}, q.pc \notin {"sent", "ask"}
    PROVE  SessionIndInv'
<1>1. InstStep
  BY InstSame DEF FrameStep
<1>2. QueuesOK'
  BY QueueReq
<1>3. ReqStep
  BY <1>1, ReqSet
<1> QED
  BY <1>1, <1>2, <1>3, RegSame, MildStep

LEMMA RequestIs ==
    ASSUME SessionIndInv, NEW r \in Request
    PROVE  req[r] \in RequestRecord /\ RequestFine(req[r]) /\ OwnObject(req[r], inst, contested)
BY DEF SessionIndInv, StateOK

LEMMA InstIs ==
    ASSUME SessionIndInv, NEW m \in Inst
    PROVE  inst[m] \in InstRecord /\ InstFine(inst[m], contested)
BY DEF SessionIndInv, StateOK

LEMMA IdleFine ==
    ASSUME NEW q, NEW f, NEW C
    PROVE  /\ Idle \in RequestRecord /\ RequestFine(Idle)
           /\ OwnObject(Idle, f, C) /\ NoNearer(q, Idle, C)
<1>1. Cardinality(Request) \in Nat
  BY SessionManagerAssumption, FS_CardinalityType
<1> QED
  BY <1>1 DEF Idle, RequestRecord, RequestFine, OwnObject, NoNearer, Critical, Pc, Status, Dialing

LEMMA GotoIs ==
    ASSUME SessionIndInv, NEW r \in Request, NEW pc \in Pc, Goto(r, pc)
    PROVE  /\ req' = [req EXCEPT ![r] = [req[r] EXCEPT !.pc = pc]]
           /\ [req[r] EXCEPT !.pc = pc] \in RequestRecord
BY RequestIs DEF Goto, RequestRecord

LEMMA SameDb ==
    ASSUME SessionIndInv, UNCHANGED db
    PROVE  db' \in [Sid -> Status \cup {"absent"}]
BY DEF SessionIndInv, StateOK

LEMMA ReturnStep ==
    ASSUME SessionIndInv, FrameStep, UNCHANGED registry, UNCHANGED inst, NEW r \in Request,
           Return(r), req[r].pc \notin {"sent", "ask"}
    PROVE  SessionIndInv'
BY IdleFine, ReqOnly DEF Return, Idle

LEMMA ArriveNewStep ==
    ASSUME SessionIndInv, NEW r \in Request, ArriveNew(r)
    PROVE  SessionIndInv'
<1> DEFINE q == [Idle EXCEPT !.op = "open", !.pc = "capacity"]
<1>1. FrameStep
  BY FrameSame, SameDb DEF ArriveNew
<1>2. q \in RequestRecord /\ RequestFine(q) /\ OwnObject(q, inst, contested') /\ NoNearer(req[r], q, contested')
  BY IdleFine, RequestNull DEF Idle, RequestRecord, RequestFine, OwnObject, NoNearer, Pc, Dialing
<1>3. /\ req' = [req EXCEPT ![r] = q] /\ req[r].pc = "idle" /\ q.pc = "capacity"
      /\ UNCHANGED registry /\ UNCHANGED inst
  BY DEF ArriveNew, Idle
<1> HIDE DEF q
<1> QED
  BY <1>1, <1>2, <1>3, ReqOnly

LEMMA CapacityFreedStep ==
    ASSUME SessionIndInv, NEW r \in Request, CapacityFreed(r)
    PROVE  SessionIndInv'
<1> DEFINE q == [req[r] EXCEPT !.pc = "options", !.inst = NULL]
<1>1. FrameStep
  BY FrameSame, SameDb DEF CapacityFreed
<1>2. req[r].pc = "evicting" /\ req[r].op # "delete" /\ contested' = contested
  BY DEF CapacityFreed
<1>3. q \in RequestRecord
  BY RequestIs DEF RequestRecord, Pc
<1>4. RequestFine(q)
  BY <1>2, <1>3, RequestIs DEF RequestFine, Dialing, RequestRecord
<1>5. OwnObject(q, inst, contested')
  BY <1>2, RequestIs DEF OwnObject, RequestRecord
<1>6. NoNearer(req[r], q, contested')
  BY <1>2, RequestIs DEF NoNearer, RequestRecord, Critical, Waits
<1>7. req' = [req EXCEPT ![r] = q] /\ UNCHANGED registry /\ UNCHANGED inst /\ q.pc = "options"
  BY RequestIs DEF CapacityFreed, RequestRecord
<1> HIDE DEF q
<1> QED
  BY <1>1, <1>2, <1>3, <1>4, <1>5, <1>6, <1>7, ReqOnly

LEMMA UndoStep ==
    ASSUME SessionIndInv, NEW r \in Request, Undo(r)
    PROVE  SessionIndInv'
<1>1. db' \in [Sid -> Status \cup {"absent"}]
  BY DbSet DEF Undo, SessionIndInv, Status
<1> QED
  BY <1>1, FrameSame, ReturnStep DEF Undo

LEMMA GotSdkIdStep ==
    ASSUME SessionIndInv, NEW r \in Request, GotSdkId(r)
    PROVE  SessionIndInv'
BY SameDb, FrameSame, ReturnStep DEF GotSdkId

LEMMA InterruptStaleStep ==
    ASSUME SessionIndInv, NEW r \in Request, InterruptStale(r)
    PROVE  SessionIndInv'
<1>1. db' \in [Sid -> Status \cup {"absent"}]
  BY DbSet DEF InterruptStale, SessionIndInv, Status
<1> QED
  BY <1>1, FrameSame, ReturnStep DEF InterruptStale

LEMMA DeleteRowStep ==
    ASSUME SessionIndInv, NEW r \in Request, DeleteRow(r)
    PROVE  SessionIndInv'
<1>1. db' \in [Sid -> Status \cup {"absent"}]
  BY DEF DeleteRow, SessionIndInv, StateOK
<1>2. req[r].pc \notin {"sent", "ask"}
  BY DEF DeleteRow
<1> QED
  BY <1>1, <1>2, FrameSame, ReturnStep DEF DeleteRow

LEMMA SessionStays ==
    ASSUME SessionIndInv, FrameStep, RegStep, UNCHANGED inst, UNCHANGED req
    PROVE  SessionIndInv'
<1>1. InstStep
  BY InstSame DEF FrameStep
<1>2. ReqStep /\ QueuesOK'
  BY <1>1, ReqSame, QueuesKept DEF QueueMild, AskSame
<1> QED
  BY <1>1, <1>2, MildStep

LEMMA PersistErrorStep ==
    ASSUME SessionIndInv, NEW s \in Sid, PersistError(s)
    PROVE  SessionIndInv'
<1>1. db' \in [Sid -> Status \cup {"absent"}]
  BY DbSet DEF PersistError, SessionIndInv, Status
<1>2. FrameStep
  BY <1>1 DEF PersistError, FrameStep, SessionIndInv, StateOK
<1>3. InstStep
  BY InstSame DEF PersistError
<1>4. ReqStep /\ RegStep
  BY <1>2, <1>3, ReqSame, RegSame DEF PersistError
<1>5. QueuesOK'
  BY QueuesKept DEF PersistError, QueueMild, AskSame
<1> QED
  BY <1>2, <1>3, <1>4, <1>5, MildStep

-----------------------------------------------------------------------------
(* Steps on one object *)

LEMMA StillFine ==
    ASSUME SessionIndInv, NEW m \in Inst, inst[m] # Unused
    PROVE  inst[m].key \in Key
BY InstIs, RequestNull DEF InstFine, InstRecord

LEMMA DisconnectForm ==
    ASSUME NEW i \in InstRecord, NEW C, InstFine(i, C)
    PROVE  /\ Disconnect(i) \in InstRecord
           /\ i.key # NULL => InstFine(Disconnect(i), C)
           /\ Disconnect(i).key = i.key /\ Disconnect(i).actor = i.actor
           /\ QueueMild(i.queue, Disconnect(i).queue)
<1>1. CASE i.actor = "gone"
  BY <1>1 DEF Disconnect, QueueMild
<1>2. CASE i.actor # "gone"
  <2> DEFINE q == Append(i.queue, "close")
  <2>1. q \in Seq(Request \cup {"close"})
    BY DEF InstRecord
  <2>2. Disconnect(i) = [i EXCEPT !.queue = q]
    BY <1>2 DEF Disconnect
  <2>3. QueueMild(i.queue, q)
    BY DEF QueueMild
  <2> HIDE DEF q
  <2> QED
    <3>1. Disconnect(i) \in InstRecord
      BY <2>1, <2>2 DEF InstRecord
    <3>2. /\ Disconnect(i).key = i.key /\ Disconnect(i).actor = i.actor /\ Disconnect(i).queue = q
          /\ Disconnect(i).ev = i.ev /\ Disconnect(i).evKey = i.evKey /\ Disconnect(i).proc = i.proc
          /\ Disconnect(i).sid = i.sid /\ Disconnect(i).known = i.known /\ Disconnect(i).inbox = i.inbox
      BY <2>2 DEF InstRecord
    <3>3. i.key # NULL => InstFine(Disconnect(i), C)
      BY <1>2, <3>2 DEF InstFine
    <3> QED
      BY <2>3, <3>1, <3>2, <3>3
<1> QED
  BY <1>1, <1>2

LEMMA EvictingForm ==
    ASSUME NEW i \in InstRecord, NEW C, InstFine(i, C), i.key \in Key, i.key \in C
    PROVE  /\ Evicting(i) \in InstRecord
           /\ InstFine(Evicting(i), C)
           /\ Evicting(i).key = i.key /\ Evicting(i).actor = i.actor
           /\ QueueMild(i.queue, Evicting(i).queue)
<1>1. CASE i.timer
  BY <1>1, RequestNull DEF Evicting, InstRecord, InstFine, QueueMild
<1>2. CASE ~i.timer
  <2> DEFINE j == Disconnect(i)
  <2>1. /\ j \in InstRecord /\ InstFine(j, C)
        /\ j.key = i.key /\ j.actor = i.actor /\ QueueMild(i.queue, j.queue)
    BY DisconnectForm, RequestNull
  <2>2. Evicting(i) = [j EXCEPT !.ev = "close", !.evKey = i.key]
    BY <1>2 DEF Evicting
  <2> HIDE DEF j
  <2>3. Evicting(i) \in InstRecord
    BY <2>1, <2>2 DEF InstRecord
  <2>4. /\ Evicting(i).key = j.key /\ Evicting(i).actor = j.actor /\ Evicting(i).queue = j.queue
        /\ Evicting(i).ev = "close" /\ Evicting(i).evKey = i.key /\ Evicting(i).proc = j.proc
        /\ Evicting(i).sid = j.sid /\ Evicting(i).known = j.known /\ Evicting(i).inbox = j.inbox
    BY <2>1, <2>2 DEF InstRecord
  <2>5. InstFine(Evicting(i), C)
    BY <2>1, <2>4, RequestNull DEF InstFine
  <2> QED
    BY <2>1, <2>3, <2>4, <2>5
<1> QED
  BY <1>1, <1>2

Token == {"init", "end"} \cup Status
NoInit(q) == \A j \in 1..Len(q) : q[j] # "init"

LEMMA InboxPut ==
    ASSUME NEW q \in Seq(Token), NEW x \in Token
    PROVE  /\ Append(q, x) \in Seq(Token)
           /\ NoInit(q) /\ x # "init" => NoInit(Append(q, x))
BY DEF NoInit

LEMMA InboxTake ==
    ASSUME NEW q \in Seq(Token), q # <<>>
    PROVE  /\ Tail(q) \in Seq(Token) /\ Head(q) \in Token
           /\ NoInit(q) => NoInit(Tail(q)) /\ Head(q) # "init"
<1>1. Tail(q) \in Seq(Token) /\ Head(q) \in Token /\ Len(Tail(q)) = Len(q) - 1 /\ Len(q) \in Nat \ {0} /\ Head(q) = q[1]
  OBVIOUS
<1>2. \A j \in 1..Len(Tail(q)) : Tail(q)[j] = q[j + 1]
  OBVIOUS
<1>3. NoInit(q) => NoInit(Tail(q))
  BY <1>1, <1>2 DEF NoInit
<1>4. NoInit(q) => Head(q) # "init"
  BY <1>1 DEF NoInit
<1> QED
  BY <1>1, <1>3, <1>4

LEMMA InboxIs ==
    ASSUME SessionIndInv, NEW m \in Inst
    PROVE  inst[m].inbox \in Seq(Token)
BY InstIs DEF InstRecord, Token

\* An object in use, with some of its fields set.
LEMMA FineSet ==
    ASSUME NEW i, NEW j, NEW C, NEW D, C \subseteq D, InstFine(i, C), i.key \in Key, j.key = i.key,
           j.actor = "gone" => (i.actor = "gone" /\ j.queue = i.queue) \/ j.queue = <<>>,
           j.ev \in {"timer", "close", "lost", "inbox"} =>
               (i.ev \in {"timer", "close", "lost", "inbox"} /\ j.evKey = i.evKey) \/ j.evKey \in D,
           j.proc = "adopt" => (i.proc = "adopt" /\ j.sid = i.sid) \/ j.sid \in Sid \cap D,
           j.key \in Sid \ D => /\ i.known => j.known
                                /\ j.proc = "adopt" => i.proc = "adopt"
                                /\ NoInit(i.inbox) => NoInit(j.inbox)
    PROVE  InstFine(j, D)
<1>1. j.key # NULL
  BY RequestNull
<1>2. j.key \in Sid \ D => j.known /\ j.proc # "adopt" /\ NoInit(j.inbox)
  BY DEF InstFine, NoInit
<1> QED
  BY <1>1, <1>2 DEF InstFine, NoInit

LEMMA FrameAll ==
    ASSUME SessionIndInv, UNCHANGED <<db, disconnecting, lockOf, persist, contested>>
    PROVE  FrameStep
BY SameDb, FrameSame

LEMMA TurnEndsStep ==
    ASSUME SessionIndInv, NEW m \in Inst, TurnEnds(m)
    PROVE  SessionIndInv'
<1>1. FrameStep /\ contested' = contested
  BY FrameAll DEF TurnEnds
<1>2. PICK st \in Status : inst' = [inst EXCEPT ![m].turn = FALSE, ![m].inbox = Append(@, st)]
  BY DEF TurnEnds, Status
<1> DEFINE q == Append(inst[m].inbox, st)
           i == [inst[m] EXCEPT !.turn = FALSE, !.inbox = q]
<1>3. inst[m].key \in Key
  BY StillFine DEF TurnEnds, Unused
<1>4. q \in Seq(Token) /\ (NoInit(inst[m].inbox) => NoInit(q))
  BY InboxIs, InboxPut DEF Token, Status
<1>5. inst' = [inst EXCEPT ![m] = i]
  BY <1>2, InstIs DEF InstRecord, SessionIndInv, StateOK
<1> HIDE DEF q
<1>6. i \in InstRecord
  BY <1>4, InstIs DEF InstRecord, Token
<1>7. /\ i.key = inst[m].key /\ i.actor = inst[m].actor /\ i.queue = inst[m].queue /\ i.ev = inst[m].ev
      /\ i.evKey = inst[m].evKey /\ i.proc = inst[m].proc /\ i.sid = inst[m].sid /\ i.known = inst[m].known
      /\ i.inbox = q
  BY InstIs DEF InstRecord
<1> HIDE DEF i
<1>8. InstFine(inst[m], contested)
  BY InstIs
<1>9. InstFine(i, contested')
  BY <1>1, <1>3, <1>4, <1>7, <1>8, FineSet
<1> QED
  BY <1>1, <1>5, <1>6, <1>7, <1>9, InstOnly DEF TurnEnds, QueueMild

LEMMA FinalizeStep ==
    ASSUME SessionIndInv, NEW m \in Inst, Finalize(m)
    PROVE  SessionIndInv'
<1>1. FrameStep /\ contested' = contested
  BY FrameAll DEF Finalize
<1> DEFINE q == Tail(inst[m].inbox)
           st == Head(inst[m].inbox)
           i == [inst[m] EXCEPT !.status = st, !.proc = st, !.inbox = q]
<1>2. st \in Status
  BY DEF Finalize
<1>3. inst[m].key \in Key
  BY StillFine DEF Finalize, Unused
<1>4. q \in Seq(Token) /\ (NoInit(inst[m].inbox) => NoInit(q))
  BY InboxIs, InboxTake DEF Finalize
<1>5. inst' = [inst EXCEPT ![m] = i]
  BY InstIs DEF Finalize, Next1, InstRecord, SessionIndInv, StateOK
<1> HIDE DEF q, st
<1>6. i \in InstRecord
  BY <1>2, <1>4, InstIs DEF InstRecord, Token
<1>7. /\ i.key = inst[m].key /\ i.actor = inst[m].actor /\ i.queue = inst[m].queue /\ i.ev = inst[m].ev
      /\ i.evKey = inst[m].evKey /\ i.proc = st /\ i.sid = inst[m].sid /\ i.known = inst[m].known
      /\ i.inbox = q
  BY InstIs DEF InstRecord
<1> HIDE DEF i
<1>8. InstFine(inst[m], contested) /\ st # "adopt"
  BY <1>2, InstIs DEF Status
<1>9. InstFine(i, contested')
  BY <1>1, <1>3, <1>4, <1>7, <1>8, FineSet
<1> QED
  BY <1>1, <1>5, <1>6, <1>7, <1>9, InstOnly DEF Finalize, QueueMild

LEMMA InboxEndStep ==
    ASSUME SessionIndInv, NEW m \in Inst, InboxEnd(m)
    PROVE  SessionIndInv'
<1>1. FrameStep /\ contested' = contested
  BY FrameAll DEF InboxEnd
<1> DEFINE q == Tail(inst[m].inbox)
           i == [inst[m] EXCEPT !.proc = "done", !.inbox = q]
<1>3. inst[m].key \in Key
  BY StillFine DEF InboxEnd, Unused
<1>4. q \in Seq(Token) /\ (NoInit(inst[m].inbox) => NoInit(q))
  BY InboxIs, InboxTake DEF InboxEnd
<1>5. inst' = [inst EXCEPT ![m] = i]
  BY InstIs DEF InboxEnd, Next1, InstRecord, SessionIndInv, StateOK
<1> HIDE DEF q
<1>6. i \in InstRecord
  BY <1>4, InstIs DEF InstRecord, Token
<1>7. /\ i.key = inst[m].key /\ i.actor = inst[m].actor /\ i.queue = inst[m].queue /\ i.ev = inst[m].ev
      /\ i.evKey = inst[m].evKey /\ i.proc = "done" /\ i.sid = inst[m].sid /\ i.known = inst[m].known
      /\ i.inbox = q
  BY InstIs DEF InstRecord
<1> HIDE DEF i
<1>8. InstFine(inst[m], contested)
  BY InstIs
<1>9. InstFine(i, contested')
  BY <1>1, <1>3, <1>4, <1>7, <1>8, FineSet
<1> QED
  BY <1>1, <1>5, <1>6, <1>7, <1>9, InstOnly DEF InboxEnd, QueueMild

LEMMA CreateStep ==
    ASSUME SessionIndInv, NEW m \in Inst, Create(m)
    PROVE  SessionIndInv'
<1>2. PICK s \in Sid : /\ Next1(m, [inst[m] EXCEPT !.sid = s, !.proc = "adopt"])
                       /\ db' = [db EXCEPT ![s] = "idle"]
                       /\ contested' = contested \cup {s}
  BY DEF Create
<1>1. FrameStep
  BY <1>2 DEF Create, FrameStep, SessionIndInv, StateOK, Status, Key
<1> DEFINE q == Tail(inst[m].inbox)
           i == [inst[m] EXCEPT !.sid = s, !.proc = "adopt", !.inbox = q]
<1>3. inst[m].key \in Key /\ Head(inst[m].inbox) = "init" /\ inst[m].inbox # <<>>
  BY StillFine DEF Create, Unused
<1>4. q \in Seq(Token) /\ ~NoInit(inst[m].inbox)
  BY <1>3, InboxIs, InboxTake DEF Create
<1>5. inst' = [inst EXCEPT ![m] = i]
  BY <1>2, InstIs DEF Next1, InstRecord, SessionIndInv, StateOK
<1> HIDE DEF q
<1>6. i \in InstRecord
  BY <1>4, InstIs DEF InstRecord, Token
<1>7. /\ i.key = inst[m].key /\ i.actor = inst[m].actor /\ i.queue = inst[m].queue /\ i.ev = inst[m].ev
      /\ i.evKey = inst[m].evKey /\ i.proc = "adopt" /\ i.sid = s /\ i.known = inst[m].known
      /\ i.inbox = q
  BY InstIs DEF InstRecord
<1> HIDE DEF i
<1>8. InstFine(inst[m], contested)
  BY InstIs
<1>9. i.key \notin Sid \ contested' /\ i.key # NULL
  BY <1>2, <1>3, <1>4, <1>7, <1>8, RequestNull DEF InstFine, NoInit
<1>10. InstFine(i, contested')
  BY <1>2, <1>7, <1>8, <1>9 DEF InstFine
<1> QED
  BY <1>1, <1>5, <1>6, <1>7, <1>10, InstOnly DEF Create, QueueMild

LEMMA TimerCancelledStep ==
    ASSUME SessionIndInv, NEW m \in Inst, TimerCancelled(m)
    PROVE  SessionIndInv'
<1>1. FrameStep /\ contested' = contested
  BY FrameAll DEF TimerCancelled
<1> DEFINE d == Disconnect(inst[m])
           i == [d EXCEPT !.ev = "close"]
<1>3. inst[m].key \in Key
  BY StillFine DEF TimerCancelled, Unused
<1>4. /\ d \in InstRecord /\ d.key = inst[m].key /\ d.actor = inst[m].actor
      /\ QueueMild(inst[m].queue, d.queue) /\ InstFine(d, contested)
  BY <1>3, InstIs, DisconnectForm, RequestNull
<1>5. inst' = [inst EXCEPT ![m] = i] /\ inst[m].ev = "timer"
  BY DEF TimerCancelled
<1>6. d.ev = "timer"
  BY <1>5, InstIs DEF Disconnect, InstRecord
<1> HIDE DEF d
<1>7. i \in InstRecord
  BY <1>4 DEF InstRecord
<1>8. /\ i.key = d.key /\ i.actor = d.actor /\ i.queue = d.queue /\ i.ev = "close"
      /\ i.evKey = d.evKey /\ i.proc = d.proc /\ i.sid = d.sid /\ i.known = d.known
      /\ i.inbox = d.inbox
  BY <1>4 DEF InstRecord
<1> HIDE DEF i
<1>9. InstFine(i, contested')
  BY <1>1, <1>3, <1>4, <1>6, <1>8, FineSet
<1> QED
  BY <1>1, <1>4, <1>5, <1>7, <1>8, <1>9, InstOnly DEF TimerCancelled

LEMMA DisconnectedStep ==
    ASSUME SessionIndInv, NEW m \in Inst, Disconnected(m)
    PROVE  SessionIndInv'
<1>1. FrameStep /\ contested' = contested
  BY FrameAll DEF Disconnected
<1> DEFINE i == [inst[m] EXCEPT !.status = "closed", !.ev = "inbox"]
<1>3. inst[m].key \in Key
  BY StillFine DEF Disconnected, Unused
<1>5. inst' = [inst EXCEPT ![m] = i] /\ inst[m].ev = "close"
  BY InstIs DEF Disconnected, InstRecord, SessionIndInv, StateOK
<1>6. i \in InstRecord
  BY InstIs DEF InstRecord
<1>7. /\ i.key = inst[m].key /\ i.actor = inst[m].actor /\ i.queue = inst[m].queue /\ i.ev = "inbox"
      /\ i.evKey = inst[m].evKey /\ i.proc = inst[m].proc /\ i.sid = inst[m].sid /\ i.known = inst[m].known
      /\ i.inbox = inst[m].inbox
  BY InstIs DEF InstRecord
<1> HIDE DEF i
<1>8. InstFine(inst[m], contested)
  BY InstIs
<1>9. InstFine(i, contested')
  BY <1>1, <1>3, <1>5, <1>7, <1>8, FineSet
<1> QED
  BY <1>1, <1>5, <1>6, <1>7, <1>9, InstOnly DEF Disconnected, QueueMild

\* The objects of a step that sets one or two of them.
ObjectFine(x, i, C) ==
    /\ InstFine(i, C)
    /\ i.key = inst[x].key
    /\ inst[x].actor = "gone" => i.actor = "gone"
    /\ QueueMild(inst[x].queue, i.queue)
ObjectsFine(f, C) == f \in [Inst -> InstRecord] /\ \A x \in Inst : ObjectFine(x, f[x], C)

LEMMA ObjectsAsTheyAre ==
    ASSUME SessionIndInv, NEW C, contested \subseteq C
    PROVE  ObjectsFine(inst, C)
BY FineGrows DEF ObjectsFine, ObjectFine, QueueMild, SessionIndInv, StateOK

LEMMA ObjectSet ==
    ASSUME SessionIndInv, NEW C, NEW f, ObjectsFine(f, C), NEW m \in Inst, NEW i \in InstRecord, ObjectFine(m, i, C)
    PROVE  ObjectsFine([f EXCEPT ![m] = i], C)
BY DEF ObjectsFine

LEMMA ObjectsStep ==
    ASSUME SessionIndInv, ObjectsFine(inst', contested')
    PROVE  /\ InstStep
           /\ \A m \in Inst : QueueMild(inst[m].queue, inst'[m].queue)
BY DEF ObjectsFine, ObjectFine, InstStep

LEMMA ObjectsOnly ==
    ASSUME SessionIndInv, FrameStep, RegStep, UNCHANGED req, ObjectsFine(inst', contested')
    PROVE  SessionIndInv'
<1>1. InstStep /\ QueuesOK'
  BY ObjectsStep, QueuesKept DEF AskSame
<1> QED
  BY <1>1, ReqSame, MildStep

LEMMA TimerForm ==
    ASSUME NEW x, NEW i \in InstRecord, NEW C, ObjectFine(x, i, C), i.key \in Key, NEW b \in BOOLEAN
    PROVE  [i EXCEPT !.timer = b] \in InstRecord /\ ObjectFine(x, [i EXCEPT !.timer = b], C)
<1> DEFINE j == [i EXCEPT !.timer = b]
<1>1. j \in InstRecord
  BY DEF InstRecord
<1>2. /\ j.key = i.key /\ j.actor = i.actor /\ j.queue = i.queue /\ j.ev = i.ev
      /\ j.evKey = i.evKey /\ j.proc = i.proc /\ j.sid = i.sid /\ j.known = i.known
      /\ j.inbox = i.inbox
  BY DEF InstRecord
<1> HIDE DEF j
<1>3. InstFine(j, C)
  BY <1>2, FineSet DEF ObjectFine
<1> QED
  BY <1>1, <1>2, <1>3 DEF ObjectFine, j

LEMMA RegisteredIs ==
    ASSUME SessionIndInv, NEW k \in Key, registry[k] # NULL
    PROVE  registry[k] \in Inst /\ inst[registry[k]].key = k
BY DEF SessionIndInv, StateOK, SessionIdentity

LEMMA FinalizedStep ==
    ASSUME SessionIndInv, NEW m \in Inst, Finalized(m)
    PROVE  SessionIndInv'
<1> DEFINE a == [inst[m] EXCEPT !.proc = "wait", !.intr = FALSE]
           f == [inst EXCEPT ![m] = a]
           n == registry[inst[m].key]
<1>1. FrameStep /\ RegStep /\ contested' = contested
  <2>1. db' \in [Sid -> Status \cup {"absent"}]
    BY DbSet DEF Finalized, SessionIndInv
  <2> QED
    BY <2>1, FrameSame, RegSame DEF Finalized
<1>2. inst[m].key \in Key
  BY StillFine DEF Finalized, Unused, Status
<1>3. a \in InstRecord
  BY InstIs DEF InstRecord
<1>4. /\ a.key = inst[m].key /\ a.actor = inst[m].actor /\ a.queue = inst[m].queue /\ a.ev = inst[m].ev
      /\ a.evKey = inst[m].evKey /\ a.proc = "wait" /\ a.sid = inst[m].sid /\ a.known = inst[m].known
      /\ a.inbox = inst[m].inbox
  BY InstIs DEF InstRecord
<1>5. inst' = IF n = NULL THEN f ELSE [f EXCEPT ![n] = [f[n] EXCEPT !.timer = TRUE]]
  BY DEF Finalized
<1> HIDE DEF a
<1>6. InstFine(inst[m], contested)
  BY InstIs
<1>7. InstFine(a, contested')
  BY <1>1, <1>2, <1>4, <1>6, FineSet
<1>8. ObjectFine(m, a, contested')
  BY <1>4, <1>7 DEF ObjectFine, QueueMild
<1>9. ObjectsFine(f, contested')
  BY <1>1, <1>3, <1>8, ObjectsAsTheyAre, ObjectSet
<1>10. ObjectsFine(inst', contested')
  <2>1. CASE n = NULL
    BY <1>5, <1>9, <2>1
  <2>2. CASE n # NULL
    <3>1. n \in Inst /\ inst[n].key \in Key
      BY <1>2, <2>2, RegisteredIs
    <3>2. f[n] \in InstRecord /\ ObjectFine(n, f[n], contested')
      BY <1>9, <3>1 DEF ObjectsFine
    <3> DEFINE j == f[n]
               i == [j EXCEPT !.timer = TRUE]
    <3>3. inst' = [f EXCEPT ![n] = i]
      BY <1>5, <2>2
    <3> HIDE DEF n, f, j
    <3>4. j \in InstRecord /\ ObjectFine(n, j, contested') /\ j.key \in Key
      BY <3>1, <3>2 DEF j, ObjectFine
    <3>5. i \in InstRecord /\ ObjectFine(n, i, contested')
      BY <3>4, TimerForm
    <3> HIDE DEF i
    <3> QED
      BY <1>9, <3>1, <3>3, <3>5, ObjectSet
  <2> QED
    BY <2>1, <2>2
<1> QED
  BY <1>1, <1>10, ObjectsOnly DEF Finalized

LEMMA EvictingFine ==
    ASSUME NEW m \in Inst, NEW i \in InstRecord, NEW C, ObjectFine(m, i, C), i.key \in Key, i.key \in C,
           i.queue = inst[m].queue
    PROVE  Evicting(i) \in InstRecord /\ ObjectFine(m, Evicting(i), C)
<1>1. /\ Evicting(i) \in InstRecord
      /\ InstFine(Evicting(i), C)
      /\ Evicting(i).key = i.key /\ Evicting(i).actor = i.actor
      /\ QueueMild(i.queue, Evicting(i).queue)
  BY EvictingForm DEF ObjectFine
<1> QED
  BY <1>1 DEF ObjectFine

LEMMA StartEvictFine ==
    ASSUME SessionIndInv, NEW m \in Inst, inst[m].key \in Key, StartEvict(m), UNCHANGED <<db, lockOf, persist>>
    PROVE  FrameStep /\ ObjectsFine(inst', contested')
<1> DEFINE i == Evicting(inst[m])
<1>1. FrameStep
  BY DEF StartEvict, FrameStep, SessionIndInv, StateOK
<1>2. inst' = [inst EXCEPT ![m] = i] /\ contested \subseteq contested' /\ inst[m].key \in contested'
  BY DEF StartEvict
<1>3. ObjectFine(m, inst[m], contested')
  BY <1>2, ObjectsAsTheyAre DEF ObjectsFine
<1>4. i \in InstRecord /\ ObjectFine(m, i, contested')
  BY <1>2, <1>3, InstIs, EvictingFine
<1> HIDE DEF i
<1> QED
  BY <1>1, <1>2, <1>4, ObjectsAsTheyAre, ObjectSet

LEMMA ActiveIs ==
    ASSUME SessionIndInv, NEW m \in Active
    PROVE  m \in Inst /\ inst[m].key \in Key
BY InstIs DEF Active, InstRecord

LEMMA PatrolStep ==
    ASSUME SessionIndInv, NEW m \in Inst, Patrol(m)
    PROVE  SessionIndInv'
<1>1. inst[m].key \in Key /\ StartEvict(m)
  BY ActiveIs DEF Patrol
<1>2. FrameStep /\ ObjectsFine(inst', contested')
  BY <1>1, StartEvictFine DEF Patrol
<1> QED
  BY <1>2, RegSame, ObjectsOnly DEF Patrol

LEMMA TimerFiresStep ==
    ASSUME SessionIndInv, NEW m \in Inst, TimerFires(m)
    PROVE  SessionIndInv'
<1> DEFINE a == [inst[m] EXCEPT !.timer = FALSE]
           f == [inst EXCEPT ![m] = a]
           n == registry[inst[m].key]
<1>1. inst[m].key \in Key
  BY StillFine DEF TimerFires, Unused
<1>2. RegStep
  BY RegSame DEF TimerFires
<1>3. FrameStep
  BY <1>1 DEF TimerFires, FrameStep, SessionIndInv, StateOK
<1>4. contested \subseteq contested'
  BY <1>3 DEF FrameStep
<1>5. ASSUME NEW x \in Inst, inst[x].key \in Key
      PROVE  /\ [inst[x] EXCEPT !.timer = FALSE] \in InstRecord
             /\ ObjectFine(x, [inst[x] EXCEPT !.timer = FALSE], contested')
  <2>1. ObjectFine(x, inst[x], contested') /\ inst[x] \in InstRecord
    BY <1>4, ObjectsAsTheyAre, InstIs DEF ObjectsFine
  <2> QED
    BY <1>5, <2>1, TimerForm
<1>6. ObjectsFine(f, contested')
  BY <1>1, <1>4, <1>5, ObjectsAsTheyAre, ObjectSet
<1>7. ObjectsFine(inst', contested')
  <2>1. CASE n # NULL /\ inst[n].status \in Evictable /\ inst[m].key \notin disconnecting
    <3>1. n \in Inst /\ inst[n].key = inst[m].key
      BY <1>1, <2>1, RegisteredIs
    <3> DEFINE j == [inst[n] EXCEPT !.timer = FALSE]
               i == Evicting(j)
    <3>2. inst' = [f EXCEPT ![n] = i] /\ inst[m].key \in contested'
      BY <2>1, <3>1 DEF TimerFires, SessionIndInv, StateOK
    <3>3. j \in InstRecord /\ ObjectFine(n, j, contested')
      BY <1>1, <1>5, <3>1
    <3>4. j.key = inst[m].key /\ j.queue = inst[n].queue
      BY <3>1, InstIs DEF InstRecord
    <3> HIDE DEF n, j
    <3>5. i \in InstRecord /\ ObjectFine(n, i, contested')
      BY <1>1, <3>1, <3>2, <3>3, <3>4, EvictingFine
    <3> HIDE DEF i, f
    <3> QED
      BY <1>6, <3>1, <3>2, <3>5, ObjectSet
  <2>2. CASE ~(n # NULL /\ inst[n].status \in Evictable /\ inst[m].key \notin disconnecting)
    <3>1. inst' = f
      BY <2>2 DEF TimerFires
    <3> QED
      BY <1>6, <3>1
  <2> QED
    BY <2>1, <2>2
<1> QED
  BY <1>2, <1>3, <1>7, ObjectsOnly DEF TimerFires

LEMMA EvictedStep ==
    ASSUME SessionIndInv, NEW m \in Inst, Evicted(m)
    PROVE  SessionIndInv'
<1> DEFINE k == inst[m].evKey
           st == IF inst[m].status = "running" THEN "interrupted" ELSE inst[m].status
           i == [inst[m] EXCEPT !.ev = "done", !.status = st, !.evKey = NULL, !.inbox = <<>>]
<1>1. inst[m].key \in Key
  BY StillFine DEF Evicted, Unused
<1>2. k \in contested /\ k \in Key
  BY InstIs DEF Evicted, InstFine, SessionIndInv, StateOK
<1>3. st \in Status \cup {"closed"}
  BY InstIs DEF InstRecord, Status
<1>4. FrameStep
  <2>1. db' \in [Sid -> Status \cup {"absent"}]
    BY SameDb, DbSet DEF Evicted, SessionIndInv, Status
  <2>2. /\ lockOf' \in [Sid -> 0..(Cardinality(Request) + 1)]
        /\ \A s \in Sid \ contested' : lockOf'[s] = lockOf[s]
    <3>1. Cardinality(Request) \in Nat
      BY SessionManagerAssumption, FS_CardinalityType
    <3>2. 0 \in 0..(Cardinality(Request) + 1)
      BY <3>1
    <3> QED
      BY <1>2, <3>2 DEF Evicted, SessionIndInv, StateOK
  <2> QED
    BY <2>1, <2>2 DEF Evicted, FrameStep, SessionIndInv, StateOK
<1>5. RegStep
  <2>1. registry' = [x \in Key |-> IF x \in {k} THEN NULL ELSE registry[x]] /\ contested' = contested
    BY <1>2 DEF Evicted, SessionIndInv, StateOK
  <2> HIDE DEF k
  <2> QED
    BY <1>2, <2>1, RegTaken
<1>6. inst' = [inst EXCEPT ![m] = i] /\ contested' = contested
  BY DEF Evicted
<1> HIDE DEF k, st
<1>7. i \in InstRecord
  <2>1. <<>> \in Seq(Token)
    OBVIOUS
  <2>2. inst[m] \in InstRecord
    BY InstIs
  <2> QED
    BY <1>3, <2>1, <2>2 DEF InstRecord, Token
<1>8. /\ i.key = inst[m].key /\ i.actor = inst[m].actor /\ i.queue = inst[m].queue /\ i.ev = "done"
      /\ i.proc = inst[m].proc /\ i.sid = inst[m].sid /\ i.known = inst[m].known
      /\ i.inbox = <<>>
  BY InstIs DEF InstRecord
<1> HIDE DEF i
<1>9. InstFine(inst[m], contested) /\ NoInit(<<>>)
  BY InstIs DEF NoInit
<1>10. InstFine(i, contested')
  BY <1>1, <1>6, <1>8, <1>9, FineSet
<1>11. ObjectFine(m, i, contested')
  BY <1>8, <1>10 DEF ObjectFine, QueueMild
<1>12. ObjectsFine(inst', contested')
  BY <1>6, <1>7, <1>11, ObjectsAsTheyAre, ObjectSet
<1> QED
  BY <1>4, <1>5, <1>12, ObjectsOnly DEF Evicted

LEMMA BothStep ==
    ASSUME SessionIndInv, FrameStep, RegStep, ObjectsFine(inst', contested'),
           NEW r \in Request, NEW q \in RequestRecord, req' = [req EXCEPT ![r] = q],
           RequestFine(q), OwnObject(q, inst', contested'), NoNearer(req[r], q, contested'),
           req[r].pc \notin {"sent", "ask"}, q.pc \notin {"sent", "ask"}
    PROVE  SessionIndInv'
<1>1. InstStep /\ \A n \in Inst : QueueMild(inst[n].queue, inst'[n].queue)
  BY ObjectsStep
<1>2. \A n \in Request : AskSame(req[n], req'[n])
  BY DEF SessionIndInv, StateOK, AskSame, Asking
<1>3. QueuesOK'
  BY <1>1, <1>2, QueuesKept
<1>4. ReqStep
  BY <1>1, ReqSet
<1> QED
  BY <1>1, <1>3, <1>4, MildStep

\* A request returns, or goes on to a place where it connects nothing.
LEMMA BackStep ==
    ASSUME SessionIndInv, FrameStep, RegStep, ObjectsFine(inst', contested'),
           NEW r \in Request, Return(r), req[r].pc \notin {"sent", "ask"}
    PROVE  SessionIndInv'
BY IdleFine, BothStep DEF Return, Idle

LEMMA OnStep ==
    ASSUME SessionIndInv, FrameStep, RegStep, ObjectsFine(inst', contested'),
           NEW r \in Request, NEW pc \in Pc, Goto(r, pc), req[r].pc \notin {"sent", "ask"},
           pc \notin {"lock"} \cup Critical, pc \in {"failed", "sdkid", "cleanup"} => req[r].pc \in {"mark", "failed", "sdkid"},
           RequestFine([req[r] EXCEPT !.pc = pc]), pc \notin {"sent", "ask"}
    PROVE  SessionIndInv'
<1> DEFINE q == [req[r] EXCEPT !.pc = pc]
<1>1. q \in RequestRecord /\ req' = [req EXCEPT ![r] = q]
  BY GotoIs
<1>2. q.op = req[r].op /\ q.inst = req[r].inst /\ q.pc = pc /\ RequestFine(q)
  BY RequestIs DEF RequestRecord
<1> HIDE DEF q
<1>3. OwnObject(req[r], inst', contested')
  BY ObjectsStep, OwnGrows
<1>4. RequestFine(req[r])
  BY RequestIs
<1>5. OwnObject(q, inst', contested')
  BY <1>2, <1>3, <1>4 DEF OwnObject, RequestFine, Critical
<1>6. NoNearer(req[r], q, contested')
  BY <1>2 DEF NoNearer
<1> QED
  BY <1>1, <1>2, <1>5, <1>6, BothStep

LEMMA CheckStep ==
    ASSUME SessionIndInv, NEW r \in Request, Check(r)
    PROVE  SessionIndInv'
<1> DEFINE m == req[r].inst
           i == [inst[m] EXCEPT !.timer = FALSE]
<1>1. req[r].pc = "check" /\ inst' = [inst EXCEPT ![m] = i]
  BY DEF Check
<1>2. m \in Inst /\ inst[m].key \in Key /\ req[r].op = "send"
  BY <1>1, RequestIs, InstIs, RequestNull DEF RequestFine, OwnObject, InstRecord
<1>3. FrameStep /\ RegStep /\ contested' = contested
  BY FrameAll, RegSame DEF Check
<1>4. ObjectFine(m, inst[m], contested') /\ inst[m] \in InstRecord
  BY <1>2, <1>3, ObjectsAsTheyAre, InstIs DEF ObjectsFine
<1>5. i \in InstRecord /\ ObjectFine(m, i, contested')
  BY <1>2, <1>4, TimerForm
<1> HIDE DEF i
<1>6. ObjectsFine(inst', contested')
  BY <1>1, <1>2, <1>3, <1>5, ObjectsAsTheyAre, ObjectSet
<1>7. CASE Return(r)
  BY <1>1, <1>3, <1>6, <1>7, BackStep
<1>8. CASE Goto(r, "mark")
  <2>1. RequestFine([req[r] EXCEPT !.pc = "mark"])
    BY <1>2, RequestIs DEF RequestFine, RequestRecord, Dialing
  <2> QED
    BY <1>1, <1>3, <1>6, <1>8, <2>1, OnStep DEF Pc, Critical
<1> QED
  BY <1>7, <1>8 DEF Check

\* An object whose status alone is set.
LEMMA StatusForm ==
    ASSUME NEW x, NEW i \in InstRecord, NEW C, ObjectFine(x, i, C), i.key \in Key, NEW st \in Status \cup {"closed"}
    PROVE  [i EXCEPT !.status = st] \in InstRecord /\ ObjectFine(x, [i EXCEPT !.status = st], C)
<1> DEFINE j == [i EXCEPT !.status = st]
<1>1. j \in InstRecord
  BY DEF InstRecord
<1>2. /\ j.key = i.key /\ j.actor = i.actor /\ j.queue = i.queue /\ j.ev = i.ev
      /\ j.evKey = i.evKey /\ j.proc = i.proc /\ j.sid = i.sid /\ j.known = i.known
      /\ j.inbox = i.inbox
  BY DEF InstRecord
<1> HIDE DEF j
<1>3. InstFine(j, C)
  BY <1>2, FineSet DEF ObjectFine
<1> QED
  BY <1>1, <1>2, <1>3 DEF ObjectFine, j

LEMMA SendFailedStep ==
    ASSUME SessionIndInv, NEW r \in Request, SendFailed(r)
    PROVE  SessionIndInv'
<1> DEFINE m == req[r].inst
           e == [inst[m] EXCEPT !.status = "error"]
<1>1. req[r].pc = "failed" /\ FrameStep /\ contested' = contested
  BY FrameAll DEF SendFailed
<1>2. m \in Inst /\ inst[m].key \in Key /\ req[r].op \in {"open", "send"}
  BY <1>1, RequestIs, InstIs, RequestNull DEF RequestFine, OwnObject, InstRecord
<1>3. ObjectFine(m, inst[m], contested') /\ inst[m] \in InstRecord
  BY <1>1, <1>2, ObjectsAsTheyAre, InstIs DEF ObjectsFine
<1>4. e \in InstRecord /\ ObjectFine(m, e, contested') /\ e.key = inst[m].key /\ e.queue = inst[m].queue
  <2>1. e \in InstRecord /\ ObjectFine(m, e, contested')
    BY <1>2, <1>3, StatusForm DEF Status
  <2> QED
    BY <1>3, <2>1 DEF InstRecord
<1>5. CASE req[r].op # "open"
  <2>1. inst' = [inst EXCEPT ![m] = e] /\ RegStep /\ Goto(r, "undo")
    BY <1>5, RegSame DEF SendFailed
  <2> HIDE DEF e
  <2>2. ObjectsFine(inst', contested')
    BY <1>1, <1>2, <1>4, <2>1, ObjectsAsTheyAre, ObjectSet
  <2>3. RequestFine([req[r] EXCEPT !.pc = "undo"])
    BY <1>2, RequestIs DEF RequestFine, RequestRecord, Dialing
  <2> QED
    BY <1>1, <2>1, <2>2, <2>3, OnStep DEF Pc, Critical
<1>6. CASE req[r].op = "open"
  <2> DEFINE d == Disconnect(e)
  <2>1. /\ inst' = [inst EXCEPT ![m] = d]
        /\ registry' = [k \in Key |-> IF k \in {m, inst[m].key} THEN NULL ELSE registry[k]]
        /\ Goto(r, "cleanup")
    BY <1>6 DEF SendFailed
  <2> HIDE DEF e
  <2>2. d \in InstRecord /\ ObjectFine(m, d, contested')
    BY <1>2, <1>4, DisconnectForm, RequestNull DEF ObjectFine
  <2> HIDE DEF d
  <2>3. ObjectsFine(inst', contested')
    BY <1>1, <1>2, <2>1, <2>2, ObjectsAsTheyAre, ObjectSet
  <2>4. inst[m].key \in {m} \cup contested'
    BY <1>1, <1>6, RequestIs DEF OwnObject
  <2>5. {m, inst[m].key} \cap (Sid \ contested') = {}
    BY <1>2, <2>4, SessionManagerAssumption
  <2>6. RegStep
    <3> DEFINE K == {m, inst[m].key}
    <3>1. K \cap (Sid \ contested') = {} /\ registry' = [k \in Key |-> IF k \in K THEN NULL ELSE registry[k]]
      BY <2>1, <2>5
    <3> HIDE DEF K
    <3> QED
      BY <3>1, RegTaken
  <2>7. RequestFine([req[r] EXCEPT !.pc = "cleanup"])
    BY <1>2, <1>6, RequestIs DEF RequestFine, RequestRecord, Dialing
  <2> QED
    BY <1>1, <2>1, <2>3, <2>6, <2>7, OnStep DEF Pc, Critical
<1> QED
  BY <1>5, <1>6

LEMMA NoSdkIdStep ==
    ASSUME SessionIndInv, NEW r \in Request, NoSdkId(r)
    PROVE  SessionIndInv'
<1> DEFINE m == req[r].inst
           d == Disconnect(inst[m])
<1>1. req[r].pc = "sdkid" /\ FrameStep /\ contested' = contested
  BY FrameAll DEF NoSdkId
<1>2. m \in Inst /\ inst[m].key \in Key /\ req[r].op = "open"
  BY <1>1, RequestIs, InstIs, RequestNull DEF RequestFine, OwnObject, InstRecord
<1>3. /\ inst' = [inst EXCEPT ![m] = d]
      /\ registry' = [k \in Key |-> IF k \in {m} THEN NULL ELSE registry[k]]
      /\ Goto(r, "cleanup")
  BY <1>2 DEF NoSdkId, SessionIndInv, StateOK, Key
<1>4. ObjectFine(m, inst[m], contested') /\ inst[m] \in InstRecord
  BY <1>1, <1>2, ObjectsAsTheyAre, InstIs DEF ObjectsFine
<1>5. d \in InstRecord /\ ObjectFine(m, d, contested')
  BY <1>2, <1>4, DisconnectForm, RequestNull DEF ObjectFine
<1> HIDE DEF d
<1>6. ObjectsFine(inst', contested')
  BY <1>1, <1>2, <1>3, <1>5, ObjectsAsTheyAre, ObjectSet
<1>7. RegStep
  <2>1. {m} \cap (Sid \ contested') = {}
    BY <1>2, SessionManagerAssumption
  <2> DEFINE K == {m}
  <2>2. K \cap (Sid \ contested') = {} /\ registry' = [k \in Key |-> IF k \in K THEN NULL ELSE registry[k]]
    BY <1>3, <2>1
  <2> HIDE DEF K
  <2> QED
    BY <2>2, RegTaken
<1>8. RequestFine([req[r] EXCEPT !.pc = "cleanup"])
  BY <1>2, RequestIs DEF RequestFine, RequestRecord, Dialing
<1> QED
  BY <1>1, <1>3, <1>6, <1>7, <1>8, OnStep DEF Pc, Critical

LEMMA CleanedUpStep ==
    ASSUME SessionIndInv, NEW r \in Request, CleanedUp(r)
    PROVE  SessionIndInv'
<1> DEFINE m == req[r].inst
           i == [inst[m] EXCEPT !.status = "closed", !.proc = "done", !.inbox = <<>>]
<1>1. req[r].pc = "cleanup" /\ FrameStep /\ RegStep /\ contested' = contested
  BY FrameAll, RegSame DEF CleanedUp
<1>2. m \in Inst /\ inst[m].key \in Key
  BY <1>1, RequestIs, InstIs, RequestNull DEF RequestFine, OwnObject, InstRecord
<1>3. inst' = [inst EXCEPT ![m] = i] /\ Return(r)
  BY <1>2, InstIs DEF CleanedUp, InstRecord, SessionIndInv, StateOK
<1>4. <<>> \in Seq(Token) /\ inst[m] \in InstRecord /\ InstFine(inst[m], contested) /\ NoInit(<<>>)
  BY <1>2, InstIs DEF NoInit
<1>5. i \in InstRecord
  BY <1>4 DEF InstRecord, Token
<1>6. /\ i.key = inst[m].key /\ i.actor = inst[m].actor /\ i.queue = inst[m].queue /\ i.ev = inst[m].ev
      /\ i.evKey = inst[m].evKey /\ i.proc = "done" /\ i.sid = inst[m].sid /\ i.known = inst[m].known
      /\ i.inbox = <<>>
  BY <1>4 DEF InstRecord
<1> HIDE DEF i
<1>7. InstFine(i, contested')
  BY <1>1, <1>2, <1>4, <1>6, FineSet
<1>8. ObjectFine(m, i, contested')
  BY <1>6, <1>7 DEF ObjectFine, QueueMild
<1>9. ObjectsFine(inst', contested')
  BY <1>1, <1>2, <1>3, <1>5, <1>8, ObjectsAsTheyAre, ObjectSet
<1> QED
  BY <1>1, <1>3, <1>9, BackStep

LEMMA EnsureCapacityStep ==
    ASSUME SessionIndInv, NEW r \in Request, EnsureCapacity(r)
    PROVE  SessionIndInv'
<1>1. req[r].pc = "capacity" /\ RegStep /\ UNCHANGED registry
  BY RegSame DEF EnsureCapacity
<1>2. CASE UNCHANGED <<inst, disconnecting, contested>> /\ Return(r)
  BY <1>1, <1>2, FrameAll, ReturnStep DEF EnsureCapacity
<1>3. CASE UNCHANGED <<inst, disconnecting, contested>> /\ Goto(r, "options")
  <2> DEFINE q == [req[r] EXCEPT !.pc = "options"]
  <2>1. q \in RequestRecord /\ req' = [req EXCEPT ![r] = q]
    BY <1>3, GotoIs DEF Pc
  <2>2. /\ q.op = req[r].op /\ q.inst = req[r].inst /\ q.pc = "options" /\ q.sid = req[r].sid
        /\ q.lock = req[r].lock
    BY RequestIs DEF RequestRecord
  <2> HIDE DEF q
  <2>3. RequestFine(q)
    BY <1>1, <2>2, RequestIs DEF RequestFine, Dialing
  <2>4. OwnObject(q, inst, contested')
    BY <1>1, <1>3, <2>2, RequestIs DEF OwnObject
  <2>5. NoNearer(req[r], q, contested')
    BY <1>1, <2>2 DEF NoNearer, Critical, Waits
  <2>6. FrameStep /\ UNCHANGED inst
    BY <1>3, FrameAll DEF EnsureCapacity
  <2> QED
    BY <1>1, <2>1, <2>2, <2>3, <2>4, <2>5, <2>6, ReqOnly
<1>4. ASSUME NEW m \in Active, StartEvict(m), req' = [req EXCEPT ![r].pc = "evicting", ![r].inst = m]
      PROVE  SessionIndInv'
  <2> DEFINE q == [req[r] EXCEPT !.pc = "evicting", !.inst = m]
  <2>1. m \in Inst /\ inst[m].key \in Key
    BY ActiveIs
  <2>2. FrameStep /\ ObjectsFine(inst', contested')
    BY <1>4, <2>1, StartEvictFine DEF EnsureCapacity
  <2>3. q \in RequestRecord
    BY <2>1, RequestIs DEF RequestRecord, Pc
  <2>4. req' = [req EXCEPT ![r] = q]
    BY <1>4, RequestIs DEF RequestRecord, SessionIndInv, StateOK
  <2>5. /\ q.op = req[r].op /\ q.inst = m /\ q.pc = "evicting" /\ q.sid = req[r].sid
        /\ q.lock = req[r].lock
    BY RequestIs DEF RequestRecord
  <2> HIDE DEF q
  <2>6. RequestFine(q)
    <3>1. RequestFine(req[r])
      BY RequestIs
    <3> QED
      BY <1>1, <2>1, <2>5, <3>1 DEF RequestFine, Dialing
  <2>7. inst'[m].key = inst[m].key
    BY <2>1, <2>2, ObjectsStep DEF InstStep
  <2>8. OwnObject(q, inst', contested')
    BY <2>1, <2>5, <2>7, RequestNull DEF OwnObject
  <2>9. NoNearer(req[r], q, contested')
    BY <1>1, <2>5 DEF NoNearer, Critical, Waits
  <2> QED
    BY <1>1, <2>2, <2>3, <2>4, <2>5, <2>6, <2>8, <2>9, BothStep
<1> QED
  BY <1>2, <1>3, <1>4 DEF EnsureCapacity

LEMMA DeleteStep ==
    ASSUME SessionIndInv, NEW r \in Request, NEW s \in Sid, Delete(r, s)
    PROVE  SessionIndInv'
<1> DEFINE m == registry[s]
           ev == m # NULL /\ s \notin disconnecting
           q == [Idle EXCEPT !.op = "delete", !.sid = s, !.inst = m, !.pc = IF ev THEN "evicting" ELSE "delete"]
<1>1. /\ req[r].pc = "idle" /\ RegStep /\ UNCHANGED registry
      /\ req' = [req EXCEPT ![r] = q]
  BY RegSame DEF Delete
<1>2. s \in Key /\ m \in Inst \cup {NULL} /\ (m # NULL => m \in Inst /\ inst[m].key = s)
  BY RegisteredIs DEF Key, SessionIndInv, StateOK
<1>3. FrameStep /\ ObjectsFine(inst', contested') /\ s \in contested'
  <2>1. CASE ev
    <3>1. StartEvict(m) /\ UNCHANGED <<db, lockOf, persist>>
      BY <2>1 DEF Delete
    <3>2. m \in Inst /\ inst[m].key = s
      BY <1>2, <2>1
    <3> HIDE DEF m
    <3>3. FrameStep /\ ObjectsFine(inst', contested')
      BY <1>2, <3>1, <3>2, StartEvictFine
    <3> QED
      BY <3>1, <3>2, <3>3 DEF StartEvict
  <2>2. CASE ~ev
    <3>1. UNCHANGED <<inst, disconnecting, db, lockOf, persist>> /\ contested' = contested \cup {s}
      BY <2>2 DEF Delete
    <3>2. FrameStep
      BY <1>2, <3>1 DEF FrameStep, SessionIndInv, StateOK
    <3> QED
      BY <3>1, <3>2, ObjectsAsTheyAre
  <2> QED
    BY <2>1, <2>2
<1>4. q \in RequestRecord
  BY <1>2, IdleFine DEF RequestRecord, Idle, Pc
<1>5. q.op = "delete" /\ q.sid = s /\ q.inst = m /\ q.pc = IF ev THEN "evicting" ELSE "delete"
  BY DEF Idle
<1> HIDE DEF q
<1>6. RequestFine(q)
  BY <1>2, <1>5 DEF RequestFine, Dialing
<1>7. OwnObject(q, inst', contested')
  <2>1. m # NULL => inst'[m].key = inst[m].key
    BY <1>2, <1>3, ObjectsStep DEF InstStep
  <2> QED
    BY <1>2, <1>5, <2>1, RequestNull DEF OwnObject
<1>8. NoNearer(req[r], q, contested')
  BY <1>3, <1>5 DEF NoNearer
<1> QED
  BY <1>1, <1>3, <1>4, <1>5, <1>6, <1>7, <1>8, BothStep

-----------------------------------------------------------------------------
(* Steps towards a connection *)

\* All of a step but what it does to those who connect.
ReqTyped ==
    /\ req' \in [Request -> RequestRecord]
    /\ \A n \in Request : RequestFine(req'[n]) /\ OwnObject(req'[n], inst', contested')
FrameTyped ==
    /\ db' \in [Sid -> Status \cup {"absent"}]
    /\ persist' \subseteq Sid
    /\ disconnecting' \subseteq contested' /\ contested' \subseteq Key /\ contested \subseteq contested'
    /\ lockOf' \in [Sid -> 0..(Cardinality(Request) + 1)]

LEMMA NearStep ==
    ASSUME SessionIndInv, FrameTyped, ReqTyped, registry' \in [Key -> Inst \cup {NULL}],
           inst' \in [Inst -> InstRecord], \A m \in Inst : InstFine(inst'[m], contested'),
           SessionIdentity', QueuesOK', ConnectOK'
    PROVE  SessionIndInv'
BY DEF SessionIndInv, StateOK, FrameTyped, ReqTyped

LEMMA LookupForm ==
    ASSUME SessionIndInv, NEW s \in Sid, registry' = RegistryAfterLookup(s), inst' = InstAfterLookup(s),
           contested' = contested
    PROVE  /\ ObjectsFine(inst', contested') /\ RegStep
           /\ \A x \in Inst : inst'[x].actor = inst[x].actor
           /\ ~Live(s) => s \in contested \/ Awake(s) = {}
<1> DEFINE n == registry[s]
<1>1. s \in Key /\ n \in Inst \cup {NULL} /\ (n # NULL => n \in Inst /\ inst[n].key = s)
  BY RegisteredIs DEF Key, SessionIndInv, StateOK
<1>2. ~Live(s) => s \in contested \/ Awake(s) = {}
  <2> SUFFICES ASSUME ~Live(s), s \notin contested, NEW a \in Awake(s)
               PROVE  FALSE
    OBVIOUS
  <2>1. registry[s] = a /\ s \notin disconnecting
    BY DEF SessionIndInv, ConnectOK, StateOK
  <2>2. a # NULL /\ inst[a].actor # "gone"
    BY RequestNull DEF Awake
  <2> QED
    BY <2>1, <2>2 DEF Live, Resident
<1>3. CASE Dropped(s)
  <2> DEFINE i == [inst[n] EXCEPT !.timer = FALSE]
  <2>1. n \in Inst /\ inst[n].key \in Key /\ inst[n].actor = "gone" /\ ~Live(s)
    BY <1>1, <1>3 DEF Dropped, Resident, Live
  <2>2. inst' = [inst EXCEPT ![n] = i] /\ registry' = [k \in Key |-> IF k \in {s} THEN NULL ELSE registry[k]]
    BY <1>3 DEF InstAfterLookup, RegistryAfterLookup, SessionIndInv, StateOK
  <2>3. ObjectFine(n, inst[n], contested') /\ inst[n] \in InstRecord
    BY <2>1, ObjectsAsTheyAre, InstIs DEF ObjectsFine
  <2>4. i \in InstRecord /\ ObjectFine(n, i, contested') /\ i.actor = inst[n].actor
    <3> HIDE DEF n
    <3>1. i \in InstRecord /\ ObjectFine(n, i, contested')
      BY <2>1, <2>3, TimerForm
    <3>2. i.actor = inst[n].actor
      BY <2>3 DEF InstRecord
    <3> QED
      BY <3>1, <3>2
  <2> HIDE DEF i
  <2>5. ObjectsFine(inst', contested')
    <3>1. ObjectsFine(inst, contested')
      BY ObjectsAsTheyAre
    <3>2. n \in Inst /\ i \in InstRecord /\ ObjectFine(n, i, contested') /\ inst' = [inst EXCEPT ![n] = i]
      BY <2>1, <2>2, <2>4
    <3>3. ASSUME NEW C, ObjectsFine(inst, C), NEW x \in Inst, NEW j \in InstRecord, ObjectFine(x, j, C)
          PROVE  ObjectsFine([inst EXCEPT ![x] = j], C)
      BY <3>3, ObjectSet
    <3>4. ObjectsFine([inst EXCEPT ![n] = i], contested')
      BY <3>1, <3>2, <3>3
    <3> QED
      BY <3>2, <3>4
  <2>6. \A x \in Inst : inst'[x].actor = inst[x].actor
    <3>1. inst \in [Inst -> InstRecord]
      BY DEF SessionIndInv, StateOK
    <3> HIDE DEF n
    <3> QED
      BY <2>1, <2>2, <2>4, <3>1
  <2>7. s \in contested \/ \A x \in Inst : inst'[x].key = s => inst'[x].actor = "gone"
    BY <1>2, <2>1, <2>5, <2>6 DEF Awake, ObjectsFine, ObjectFine
  <2>8. RegStep
    <3> DEFINE K == {s}
    <3>1. registry' = [k \in Key |-> IF k \in K THEN NULL ELSE registry[k]]
      BY <2>2
    <3>2. \A t \in K \cap (Sid \ contested') : \A x \in Inst : inst'[x].key = t => inst'[x].actor = "gone"
      BY <2>7
    <3> HIDE DEF K
    <3> QED
      BY <3>1, <3>2, RegTaken
  <2> QED
    BY <1>2, <2>5, <2>6, <2>8
<1>4. CASE ~Dropped(s)
  BY <1>2, <1>4, RegSame, ObjectsAsTheyAre DEF RegistryAfterLookup, InstAfterLookup
<1> QED
  BY <1>3, <1>4

LEMMA ConnectedForm ==
    ASSUME SessionIndInv, FrameStep, RegStep, ObjectsFine(inst', contested'),
           NEW r \in Request, req[r].op \in {"send", "stream"}, req[r].pc \notin {"sent", "ask"},
           NEW m \in Inst, inst[m].key \in Key, Connected(r, m)
    PROVE  SessionIndInv'
<1>1. CASE req[r].op # "send"
  <2>1. Return(r)
    BY <1>1 DEF Connected, Return, SessionIndInv, StateOK
  <2> QED
    BY <2>1, BackStep
<1>2. CASE req[r].op = "send"
  <2> DEFINE q == [req[r] EXCEPT !.pc = "check", !.inst = m, !.lock = 0, !.meta = "idle"]
  <2>1. req' = [req EXCEPT ![r] = q]
    BY <1>2 DEF Connected
  <2>2. q \in RequestRecord
    <3>1. Cardinality(Request) \in Nat
      BY SessionManagerAssumption, FS_CardinalityType
    <3>2. 0 \in 0..(Cardinality(Request) + 1)
      BY <3>1
    <3> QED
      BY <3>2, RequestIs DEF RequestRecord, Pc, Status
  <2>3. q.pc = "check" /\ q.op = "send" /\ q.inst = m
    BY <1>2, RequestIs DEF RequestRecord
  <2> HIDE DEF q
  <2>4. RequestFine(q)
    BY <2>3 DEF RequestFine, Dialing
  <2>5. inst'[m].key = inst[m].key
    BY ObjectsStep DEF InstStep
  <2>6. OwnObject(q, inst', contested')
    BY <2>3, <2>5, RequestNull DEF OwnObject
  <2>7. NoNearer(req[r], q, contested')
    BY <2>3 DEF NoNearer, Critical
  <2> QED
    BY <2>1, <2>2, <2>3, <2>4, <2>6, <2>7, BothStep
<1> QED
  BY <1>1, <1>2

\* Whoever gets the lock is the only one past it, and the session has no actor.
LEMMA EnterStep ==
    ASSUME SessionIndInv, NEW r \in Request, FrameTyped, UNCHANGED lockOf, UNCHANGED contested,
           req[r].pc = "lock", Holders(req[r].sid, req[r].lock) = {},
           registry' = RegistryAfterLookup(req[r].sid), inst' = InstAfterLookup(req[r].sid), ~Live(req[r].sid),
           NEW q \in RequestRecord, req' = [req EXCEPT ![r] = q],
           q.pc = "capacity", q.op = req[r].op, q.sid = req[r].sid, q.lock = req[r].lock, q.inst = req[r].inst
    PROVE  SessionIndInv'
<1> DEFINE s == req[r].sid
<1>1. s \in Sid /\ req[r].op \in {"send", "stream"}
  BY RequestIs DEF RequestFine, Dialing
<1>2. /\ ObjectsFine(inst', contested') /\ RegStep
      /\ \A x \in Inst : inst'[x].actor = inst[x].actor
      /\ s \in contested \/ Awake(s) = {}
  BY <1>1, LookupForm
<1>3. FrameStep
  BY DEF FrameStep, FrameTyped
<1>4. InstStep /\ SessionIdentity'
  BY <1>2, ObjectsStep, IdentityKept
<1>5. ReqTyped
  <2>1. req' \in [Request -> RequestRecord]
    BY DEF SessionIndInv, StateOK
  <2>2. ASSUME NEW n \in Request
        PROVE  RequestFine(req'[n]) /\ OwnObject(req'[n], inst', contested')
    <3>1. OwnObject(req[n], inst', contested') /\ RequestFine(req[n])
      BY <1>3, <1>4, OwnGrows, RequestIs
    <3>2. CASE n # r
      BY <3>1, <3>2 DEF SessionIndInv, StateOK
    <3>3. CASE n = r
      <4>1. req'[n] = q
        BY <3>3 DEF SessionIndInv, StateOK
      <4>2. RequestFine(q)
        BY <1>1 DEF RequestFine, Dialing
      <4>3. OwnObject(q, inst', contested')
        BY <3>1, <3>3 DEF OwnObject
      <4> QED
        BY <4>1, <4>2, <4>3
    <3> QED
      BY <3>2, <3>3
  <2> QED
    BY <2>1, <2>2 DEF ReqTyped
<1>6. QueuesOK'
  <2>1. \A n \in Inst : QueueMild(inst[n].queue, inst'[n].queue)
    BY <1>2, ObjectsStep
  <2>2. \A n \in Request : AskSame(req[n], req'[n])
    BY DEF SessionIndInv, StateOK, AskSame, Asking
  <2> QED
    BY <2>1, <2>2, QueuesKept
<1>7. ConnectOK'
  <2> SUFFICES ASSUME NEW t \in Sid, t \notin contested
               PROVE  /\ \A n \in Connecting(t)' : req'[n].op \in {"send", "stream"} /\ req'[n].lock = lockOf'[t] /\ lockOf'[t] # 0
                      /\ \A n, p \in Connecting(t)' : req'[n].pc # "lock" /\ req'[p].pc # "lock" => n = p
                      /\ \A n \in Connecting(t)' : req'[n].pc \in {"capacity", "evicting", "options"} => Awake(t)' = {}
                      /\ \A m \in Awake(t)' : registry'[t] = m
    BY DEF ConnectOK
  <2>1. /\ \A n \in Connecting(t) : req[n].op \in {"send", "stream"} /\ req[n].lock = lockOf[t] /\ lockOf[t] # 0
        /\ \A n, p \in Connecting(t) : req[n].pc # "lock" /\ req[p].pc # "lock" => n = p
        /\ \A n \in Connecting(t) : req[n].pc \in {"capacity", "evicting", "options"} => Awake(t) = {}
        /\ \A m \in Awake(t) : registry[t] = m
    BY DEF SessionIndInv, ConnectOK
  <2>2. \A n \in Request : req'[n] = IF n = r THEN q ELSE req[n]
    BY DEF SessionIndInv, StateOK
  <2>3. Connecting(t)' = Connecting(t)
    BY <2>2 DEF Connecting, Critical
  <2>4. Awake(t)' = Awake(t)
    BY <1>2 DEF Awake, ObjectsFine, ObjectFine
  <2>5. \A m \in Awake(t)' : registry'[t] = m
    <3>1. ASSUME NEW m \in Awake(t)'
          PROVE  registry'[t] = registry[t]
      <4>1. m \in Inst /\ inst'[m].key = t /\ inst'[m].actor # "gone"
        BY <3>1 DEF Awake
      <4> QED
        BY <1>2, <4>1 DEF RegStep
    <3> QED
      BY <2>1, <2>4, <3>1
  <2>6. \A n \in Connecting(t)' : req'[n].op \in {"send", "stream"} /\ req'[n].lock = lockOf'[t] /\ lockOf'[t] # 0
    BY <2>1, <2>2, <2>3
  <2>7. t = s => \A n \in Connecting(t) : req[n].pc = "lock"
    <3> SUFFICES ASSUME t = s, NEW n \in Connecting(t), req[n].pc # "lock"
                 PROVE  FALSE
      OBVIOUS
    <3>1. r \in Connecting(t) /\ n \in Request
      BY DEF Connecting
    <3>2. req[n].lock = req[r].lock
      BY <2>1, <3>1
    <3>3. n \in Holders(s, req[r].lock)
      BY <3>1, <3>2 DEF Holders, Connecting
    <3> QED
      BY <3>3
  <2>8. \A n, p \in Connecting(t)' : req'[n].pc # "lock" /\ req'[p].pc # "lock" => n = p
    <3>1. CASE t = s
      BY <2>2, <2>3, <2>7, <3>1
    <3>2. CASE t # s
      <4>1. r \notin Connecting(t)
        BY <3>2 DEF Connecting
      <4> QED
        BY <2>1, <2>2, <2>3, <4>1
    <3> QED
      BY <3>1, <3>2
  <2>9. \A n \in Connecting(t)' : req'[n].pc \in {"capacity", "evicting", "options"} => Awake(t)' = {}
    <3>1. CASE t = s
      BY <1>2, <2>4, <3>1
    <3>2. CASE t # s
      <4>1. r \notin Connecting(t)
        BY <3>2 DEF Connecting
      <4> QED
        BY <2>1, <2>2, <2>3, <2>4, <4>1
    <3> QED
      BY <3>1, <3>2
  <2> QED
    BY <2>5, <2>6, <2>8, <2>9
<1>8. registry' \in [Key -> Inst \cup {NULL}] /\ inst' \in [Inst -> InstRecord] /\ \A m \in Inst : InstFine(inst'[m], contested')
  BY <1>2, <1>4 DEF RegStep, InstStep
<1> QED
  BY <1>4, <1>5, <1>6, <1>7, <1>8, NearStep

LEMMA AcquireLockStep ==
    ASSUME SessionIndInv, NEW r \in Request, AcquireLock(r)
    PROVE  SessionIndInv'
<1> DEFINE s == req[r].sid
<1>1. /\ req[r].pc = "lock" /\ Holders(s, req[r].lock) = {}
      /\ registry' = RegistryAfterLookup(s) /\ inst' = InstAfterLookup(s)
      /\ UNCHANGED lockOf /\ UNCHANGED contested
  BY DEF AcquireLock
<1>2. s \in Sid /\ req[r].op \in {"send", "stream"}
  BY <1>1, RequestIs DEF RequestFine, Dialing
<1>3. FrameStep
  BY FrameAll DEF AcquireLock
<1>4. /\ ObjectsFine(inst', contested') /\ RegStep
  BY <1>1, <1>2, LookupForm
<1>5. CASE Live(s)
  <2>1. registry[s] \in Inst /\ inst[registry[s]].key \in Key /\ Connected(r, registry[s])
    BY <1>2, <1>5, RegisteredIs DEF Live, Resident, Key, AcquireLock
  <2> QED
    BY <1>1, <1>2, <1>3, <1>4, <2>1, ConnectedForm
<1>6. CASE ~Live(s) /\ Return(r)
  BY <1>1, <1>3, <1>4, <1>6, BackStep
<1>7. CASE ~Live(s) /\ ~Return(r)
  <2>1. PICK x \in Status : req' = [req EXCEPT ![r] = [req[r] EXCEPT !.pc = "capacity", !.meta = x]]
    <3>1. CASE Goto(r, "capacity")
      <4>1. req[r].meta \in Status /\ [req[r] EXCEPT !.pc = "capacity"] = [req[r] EXCEPT !.pc = "capacity", !.meta = req[r].meta]
        BY RequestIs DEF RequestRecord
      <4> QED
        BY <3>1, <4>1 DEF Goto
    <3>2. CASE db[s] # "absent" /\ req' = [req EXCEPT ![r].pc = "capacity", ![r].meta = db[s]]
      <4>1. db[s] \in Status
        BY <1>2, <3>2 DEF SessionIndInv, StateOK
      <4>2. req' = [req EXCEPT ![r] = [req[r] EXCEPT !.pc = "capacity", !.meta = db[s]]]
        BY <3>2, RequestIs DEF RequestRecord, SessionIndInv, StateOK
      <4> QED
        BY <4>1, <4>2
    <3> QED
      BY <1>7, <3>1, <3>2 DEF AcquireLock
  <2> DEFINE q == [req[r] EXCEPT !.pc = "capacity", !.meta = x]
  <2>2. q \in RequestRecord
    BY RequestIs DEF RequestRecord, Pc
  <2>3. q.pc = "capacity" /\ q.op = req[r].op /\ q.sid = s /\ q.lock = req[r].lock /\ q.inst = req[r].inst
    BY RequestIs DEF RequestRecord
  <2>4. FrameTyped
    BY <1>3 DEF FrameStep, FrameTyped
  <2>5. req' = [req EXCEPT ![r] = q]
    BY <2>1
  <2> HIDE DEF q
  <2> QED
    BY <1>1, <1>7, <2>2, <2>3, <2>4, <2>5, EnterStep
<1> QED
  BY <1>5, <1>6, <1>7

\* There are more lock objects than requests.
LEMMA FreshLockIs ==
    ASSUME NEW s
    PROVE  FreshLock(s) \in 1..(Cardinality(Request) + 1)
<1> DEFINE N == Cardinality(Request)
           Free(g) == \A r \in Request : req[r].sid = s => req[r].lock # g
<1>1. N \in Nat /\ IsFiniteSet(Request)
  BY SessionManagerAssumption, FS_CardinalityType
<1>2. \E g \in 1..(N + 1) : Free(g)
  <2> SUFFICES ASSUME \A g \in 1..(N + 1) : ~Free(g)
               PROVE  FALSE
    OBVIOUS
  <2> DEFINE S == 1..(N + 1)
             f == [g \in S |-> CHOOSE r \in Request : req[r].sid = s /\ req[r].lock = g]
  <2>1. IsFiniteSet(S) /\ Cardinality(S) = N + 1
    BY <1>1, FS_Interval
  <2>2. \A g \in S : f[g] \in Request /\ req[f[g]].lock = g
    OBVIOUS
  <2>3. f \in [S -> Request]
    BY <2>2
  <2>4. Cardinality(Request) < Cardinality(S)
    BY <1>1, <2>1
  <2> HIDE DEF f, S
  <2>5. \E x, y \in S : x # y /\ f[x] = f[y]
    BY <1>1, <2>1, <2>3, <2>4, FS_PigeonHole
  <2> QED
    BY <2>2, <2>5
<1> QED
  BY <1>2 DEF FreshLock

LEMMA ArriveStep ==
    ASSUME SessionIndInv, NEW r \in Request, NEW s \in Sid, NEW op \in {"send", "stream"}, Arrive(r, s, op)
    PROVE  SessionIndInv'
<1>1. /\ req[r].pc = "idle" /\ db[s] \in Status
      /\ registry' = RegistryAfterLookup(s) /\ inst' = InstAfterLookup(s)
      /\ UNCHANGED contested
  BY DEF Arrive, SessionIndInv, StateOK
<1>2. /\ ObjectsFine(inst', contested') /\ RegStep
      /\ \A x \in Inst : inst'[x].actor = inst[x].actor
      /\ ~Live(s) => s \in contested \/ Awake(s) = {}
  BY <1>1, LookupForm
<1>3. CASE Live(s)
  <2> DEFINE q == [Idle EXCEPT !.op = op, !.sid = s, !.pc = "check", !.inst = registry[s]]
  <2>1. FrameStep /\ req' = [req EXCEPT ![r] = IF op = "send" THEN q ELSE Idle]
    BY <1>3, FrameAll DEF Arrive
  <2>2. CASE op # "send"
    <3>1. Return(r)
      BY <2>1, <2>2 DEF Return
    <3> QED
      BY <1>1, <1>2, <2>1, <3>1, BackStep
  <2>3. CASE op = "send"
    <3>1. registry[s] \in Inst /\ inst[registry[s]].key \in Key
      BY <1>3, RegisteredIs DEF Live, Resident, Key
    <3>2. q \in RequestRecord
      BY <3>1, IdleFine DEF RequestRecord, Idle, Pc
    <3>3. q.pc = "check" /\ q.op = "send" /\ q.inst = registry[s]
      BY <2>3 DEF Idle
    <3>4. req' = [req EXCEPT ![r] = q]
      BY <2>1, <2>3
    <3> HIDE DEF q
    <3>5. RequestFine(q)
      BY <3>1, <3>3 DEF RequestFine, Dialing
    <3>6. inst'[registry[s]].key = inst[registry[s]].key
      BY <1>2, <3>1, ObjectsStep DEF InstStep
    <3>7. OwnObject(q, inst', contested')
      BY <3>1, <3>3, <3>6, RequestNull DEF OwnObject
    <3>8. NoNearer(req[r], q, contested')
      BY <3>3 DEF NoNearer, Critical
    <3> QED
      BY <1>1, <1>2, <2>1, <3>2, <3>3, <3>4, <3>5, <3>7, <3>8, BothStep
  <2> QED
    BY <2>2, <2>3
<1>4. CASE ~Live(s)
  <2> DEFINE g == IF lockOf[s] = 0 THEN FreshLock(s) ELSE lockOf[s]
             q == [Idle EXCEPT !.op = op, !.sid = s, !.pc = "lock", !.lock = g, !.meta = db[s]]
  <2>1. /\ req' = [req EXCEPT ![r] = q] /\ lockOf' = [lockOf EXCEPT ![s] = g]
        /\ UNCHANGED <<db, disconnecting, persist>>
    BY <1>4 DEF Arrive
  <2>2. g \in 1..(Cardinality(Request) + 1) /\ (lockOf[s] # 0 => g = lockOf[s])
    <3>1. lockOf[s] \in 0..(Cardinality(Request) + 1) /\ Cardinality(Request) \in Nat
      BY SessionManagerAssumption, FS_CardinalityType DEF SessionIndInv, StateOK
    <3> QED
      BY <3>1, FreshLockIs
  <2> HIDE DEF g
  <2>3. g \in 0..(Cardinality(Request) + 1) /\ g # 0
    BY <2>2
  <2>4. q \in RequestRecord
    BY <1>1, <2>3, IdleFine DEF RequestRecord, Idle, Pc
  <2>5. q.pc = "lock" /\ q.op = op /\ q.inst = NULL /\ q.sid = s /\ q.lock = g
    BY DEF Idle
  <2> HIDE DEF q
  <2>6. FrameTyped
    BY <1>1, <2>1, <2>3 DEF FrameTyped, SessionIndInv, StateOK
  <2>7. \A n \in Request : req'[n] = IF n = r THEN q ELSE req[n]
    BY <2>1 DEF SessionIndInv, StateOK
  <2>8. InstStep /\ SessionIdentity' /\ \A n \in Inst : QueueMild(inst[n].queue, inst'[n].queue)
    BY <1>2, ObjectsStep, IdentityKept
  <2>9. ReqTyped
    <3>1. req' \in [Request -> RequestRecord]
      BY <2>1, <2>4 DEF SessionIndInv, StateOK
    <3>2. RequestFine(q) /\ OwnObject(q, inst', contested')
      BY <2>5, RequestNull DEF RequestFine, OwnObject, Dialing
    <3>3. ASSUME NEW n \in Request
          PROVE  RequestFine(req[n]) /\ OwnObject(req[n], inst', contested')
      <4>1. OwnObject(req[n], inst, contested) /\ RequestFine(req[n]) /\ req[n].inst \in Inst \cup {NULL}
        BY RequestIs DEF RequestRecord
      <4>2. req[n].inst \in Inst => inst'[req[n].inst].key = inst[req[n].inst].key
        BY <2>8 DEF InstStep
      <4>3. req[n].pc \in {"starting", "sent", "failed", "sdkid", "cleanup"} => req[n].inst \in Inst
        BY <4>1 DEF RequestFine
      <4> QED
        BY <1>1, <4>1, <4>2, <4>3 DEF OwnObject
    <3> QED
      BY <2>7, <3>1, <3>2, <3>3 DEF ReqTyped
  <2>10. QueuesOK'
    <3>1. \A n \in Request : AskSame(req[n], req'[n])
      BY <1>1, <2>5, <2>7 DEF AskSame, Asking
    <3> QED
      BY <2>8, <3>1, QueuesKept
  <2>11. ConnectOK'
    <3> SUFFICES ASSUME NEW t \in Sid, t \notin contested
                 PROVE  /\ \A n \in Connecting(t)' : req'[n].op \in {"send", "stream"} /\ req'[n].lock = lockOf'[t] /\ lockOf'[t] # 0
                        /\ \A n, p \in Connecting(t)' : req'[n].pc # "lock" /\ req'[p].pc # "lock" => n = p
                        /\ \A n \in Connecting(t)' : req'[n].pc \in {"capacity", "evicting", "options"} => Awake(t)' = {}
                        /\ \A m \in Awake(t)' : registry'[t] = m
      BY <1>1 DEF ConnectOK
    <3>1. /\ \A n \in Connecting(t) : req[n].op \in {"send", "stream"} /\ req[n].lock = lockOf[t] /\ lockOf[t] # 0
          /\ \A n, p \in Connecting(t) : req[n].pc # "lock" /\ req[p].pc # "lock" => n = p
          /\ \A n \in Connecting(t) : req[n].pc \in {"capacity", "evicting", "options"} => Awake(t) = {}
          /\ \A m \in Awake(t) : registry[t] = m
      BY DEF SessionIndInv, ConnectOK
    <3>2. \A n \in Connecting(t)' : n \in Request /\ (n # r => n \in Connecting(t) /\ req'[n] = req[n]) /\ (n = r => t = s /\ req'[n] = q)
      BY <2>5, <2>7 DEF Connecting
    <3>3. Awake(t)' = Awake(t)
      BY <1>2 DEF Awake, ObjectsFine, ObjectFine
    <3>4. \A m \in Awake(t)' : registry'[t] = m
      <4>1. ASSUME NEW m \in Awake(t)'
            PROVE  registry'[t] = registry[t]
        <5>1. m \in Inst /\ inst'[m].key = t /\ inst'[m].actor # "gone"
          BY <4>1 DEF Awake
        <5> QED
          BY <1>1, <1>2, <5>1 DEF RegStep
      <4> QED
        BY <3>1, <3>3, <4>1
    <3>5. lockOf'[t] = IF t = s THEN g ELSE lockOf[t]
      BY <2>1 DEF SessionIndInv, StateOK
    <3>6. \A n \in Connecting(t)' : req'[n].op \in {"send", "stream"} /\ req'[n].lock = lockOf'[t] /\ lockOf'[t] # 0
      BY <2>2, <2>3, <2>5, <3>1, <3>2, <3>5
    <3>7. \A n, p \in Connecting(t)' : req'[n].pc # "lock" /\ req'[p].pc # "lock" => n = p
      BY <2>5, <3>1, <3>2
    <3>8. \A n \in Connecting(t)' : req'[n].pc \in {"capacity", "evicting", "options"} => Awake(t)' = {}
      BY <2>5, <3>1, <3>2, <3>3
    <3> QED
      BY <3>4, <3>6, <3>7, <3>8
  <2>12. registry' \in [Key -> Inst \cup {NULL}] /\ inst' \in [Inst -> InstRecord] /\ \A m \in Inst : InstFine(inst'[m], contested')
    BY <1>2, <2>8 DEF RegStep, InstStep
  <2> QED
    BY <2>6, <2>8, <2>9, <2>10, <2>11, <2>12, NearStep
<1> QED
  BY <1>3, <1>4

LEMMA RegisterStep ==
    ASSUME SessionIndInv, NEW r \in Request, Register(r)
    PROVE  SessionIndInv'
<1> DEFINE open == req[r].op = "open"
<1>1. PICK m, k, st :
          /\ m \in Inst
          /\ inst[m] = Unused
          /\ k = IF open THEN m ELSE req[r].sid
          /\ st = IF open THEN "running" ELSE IF req[r].meta = "completed" THEN "idle" ELSE req[r].meta
          /\ inst' = [inst EXCEPT ![m] = [Unused EXCEPT !.key = k, !.status = st,
                           !.sid = IF open THEN NULL ELSE k, !.known = ~open]]
          /\ registry' = [registry EXCEPT ![k] = m]
          /\ req' = [req EXCEPT ![r].pc = "starting", ![r].inst = m, ![r].meta = "idle"]
  <2> DEFINE m == CHOOSE n \in Inst : inst[n] = Unused
             k == IF open THEN m ELSE req[r].sid
             st == IF open THEN "running" ELSE IF req[r].meta = "completed" THEN "idle" ELSE req[r].meta
  <2>1. m \in Inst /\ inst[m] = Unused
    BY DEF Register
  <2>2. /\ inst' = [inst EXCEPT ![m] = [Unused EXCEPT !.key = k, !.status = st,
                           !.sid = IF open THEN NULL ELSE k, !.known = ~open]]
        /\ registry' = [registry EXCEPT ![k] = m]
        /\ req' = [req EXCEPT ![r].pc = "starting", ![r].inst = m, ![r].meta = "idle"]
    BY DEF Register
  <2>3. k = IF open THEN m ELSE req[r].sid
    OBVIOUS
  <2>4. st = IF open THEN "running" ELSE IF req[r].meta = "completed" THEN "idle" ELSE req[r].meta
    OBVIOUS
  <2> HIDE DEF m, k, st
  <2> QED
    BY <2>1, <2>2, <2>3, <2>4
<1> DEFINE i == [Unused EXCEPT !.key = k, !.status = st, !.sid = IF open THEN NULL ELSE k, !.known = ~open]
           q == [req[r] EXCEPT !.pc = "starting", !.inst = m, !.meta = "idle"]
<1>2. req[r].pc = "options" /\ UNCHANGED <<db, disconnecting, lockOf, persist>> /\ contested' = contested
  BY DEF Register
<1>3. /\ req[r] \in RequestRecord
      /\ IF open THEN TRUE ELSE req[r].op \in {"send", "stream"} /\ req[r].sid \in Sid
  BY <1>2, RequestIs DEF RequestFine, Dialing
<1>4. k \in Key /\ k # NULL /\ (k \in Sid => ~open /\ k = req[r].sid) /\ inst[m].key = NULL
  BY <1>1, <1>3, RequestNull, SessionManagerAssumption DEF Key, Unused
<1>5. i \in InstRecord
  <2>1. st \in Status \cup {"closed"} /\ <<>> \in Seq(Token) /\ <<>> \in Seq(Request \cup {"close"})
    BY <1>1, <1>3 DEF RequestRecord, Status
  <2>2. (IF open THEN NULL ELSE k) \in Sid \cup {NULL}
    BY <1>1, <1>3
  <2> QED
    BY <1>4, <2>1, <2>2 DEF InstRecord, Unused, Token
<1>6. /\ i.key = k /\ i.actor = "new" /\ i.queue = <<>> /\ i.ev = "none" /\ i.proc = "off" /\ i.inbox = <<>>
      /\ i.known = ~open
  BY DEF Unused
<1>7. q \in RequestRecord
  BY <1>1, <1>3 DEF RequestRecord, Pc, Status
<1>8. q.pc = "starting" /\ q.op = req[r].op /\ q.sid = req[r].sid /\ q.inst = m /\ q.lock = req[r].lock
  BY <1>3 DEF RequestRecord
<1>9. inst' = [inst EXCEPT ![m] = i] /\ registry' = [registry EXCEPT ![k] = m]
  BY <1>1
<1>10. req' = [req EXCEPT ![r] = q]
  BY <1>1, <1>3 DEF RequestRecord, SessionIndInv, StateOK
<1>11. inst \in [Inst -> InstRecord] /\ registry \in [Key -> Inst \cup {NULL}] /\ req \in [Request -> RequestRecord]
  BY DEF SessionIndInv, StateOK
<1> HIDE DEF i, q
<1>12. \A n \in Request : req'[n] = IF n = r THEN q ELSE req[n]
  BY <1>10, <1>11
<1>13. \A n \in Inst : inst'[n] = IF n = m THEN i ELSE inst[n]
  BY <1>9, <1>11
<1>14. \A x \in Key : registry'[x] = IF x = k THEN m ELSE registry[x]
  BY <1>9, <1>11
<1>15. FrameTyped
  BY <1>2 DEF FrameTyped, SessionIndInv, StateOK
<1>16. ReqTyped
  <2>1. RequestFine(q)
    BY <1>1, <1>3, <1>8 DEF RequestFine, Dialing
  <2>2. OwnObject(q, inst', contested')
    BY <1>1, <1>4, <1>6, <1>8, <1>13 DEF OwnObject
  <2>3. ASSUME NEW n \in Request
        PROVE  RequestFine(req[n]) /\ OwnObject(req[n], inst', contested')
    <3>1. OwnObject(req[n], inst, contested) /\ RequestFine(req[n]) /\ req[n].inst \in Inst \cup {NULL}
      BY RequestIs DEF RequestRecord
    <3>2. req[n].inst # m
      BY <1>1, <1>4, <3>1, RequestNull DEF OwnObject
    <3>3. req[n].inst \in Inst => inst'[req[n].inst] = inst[req[n].inst]
      BY <1>13, <3>2
    <3>4. req[n].pc \in {"starting", "sent", "failed", "sdkid", "cleanup"} => req[n].inst \in Inst
      BY <3>1 DEF RequestFine
    <3> QED
      BY <1>2, <3>1, <3>3, <3>4 DEF OwnObject
  <2>4. req' \in [Request -> RequestRecord]
    BY <1>7, <1>10, <1>11
  <2> QED
    BY <1>12, <2>1, <2>2, <2>3, <2>4 DEF ReqTyped
<1>17. InstFine(i, contested')
  <2>1. i.key \in Sid \ contested' => i.known
    BY <1>4, <1>6
  <2>2. \A j \in 1..Len(i.inbox) : i.inbox[j] # "init"
    BY <1>6
  <2>3. i.key # NULL /\ i.actor # "gone" /\ i.ev \notin {"timer", "close", "lost", "inbox"} /\ i.proc # "adopt"
    BY <1>4, <1>6
  <2> QED
    BY <2>1, <2>2, <2>3 DEF InstFine
<1>18. inst' \in [Inst -> InstRecord] /\ \A n \in Inst : InstFine(inst'[n], contested')
  <2>1. inst' \in [Inst -> InstRecord]
    BY <1>5, <1>9, <1>11
  <2>2. ASSUME NEW n \in Inst
        PROVE  InstFine(inst'[n], contested')
    <3>1. CASE n = m
      BY <1>13, <1>17, <3>1
    <3>2. CASE n # m
      <4>1. inst'[n] = inst[n]
        BY <1>13, <3>2
      <4>2. InstFine(inst[n], contested')
        BY <1>2, InstIs
      <4> QED
        BY <4>1, <4>2
    <3> QED
      BY <3>1, <3>2
  <2> QED
    BY <2>1, <2>2
<1>19. registry' \in [Key -> Inst \cup {NULL}]
  BY <1>1, <1>4, <1>9, <1>11
<1>20. SessionIdentity'
  <2> SUFFICES ASSUME NEW x \in Key, registry'[x] # NULL
               PROVE  inst'[registry'[x]].key = x
    BY DEF SessionIdentity
  <2>1. CASE x = k
    BY <1>1, <1>6, <1>13, <1>14, <2>1
  <2>2. CASE x # k
    <3>1. registry'[x] = registry[x] /\ registry[x] \in Inst /\ inst[registry[x]].key = x
      BY <1>14, <2>2, RegisteredIs
    <3>2. registry[x] # m
      BY <1>4, <3>1, RequestNull
    <3> QED
      BY <1>13, <3>1, <3>2
  <2> QED
    BY <2>1, <2>2
<1>21. QueuesOK'
  <2>1. \A n \in Inst : QueueMild(inst[n].queue, inst'[n].queue)
    BY <1>1, <1>6, <1>13 DEF QueueMild, Unused
  <2>2. \A n \in Request : AskSame(req[n], req'[n])
    BY <1>2, <1>8, <1>12 DEF AskSame, Asking
  <2> QED
    BY <2>1, <2>2, QueuesKept
<1>22. ConnectOK'
  <2> SUFFICES ASSUME NEW t \in Sid, t \notin contested
               PROVE  /\ \A n \in Connecting(t)' : req'[n].op \in {"send", "stream"} /\ req'[n].lock = lockOf'[t] /\ lockOf'[t] # 0
                      /\ \A n, p \in Connecting(t)' : req'[n].pc # "lock" /\ req'[p].pc # "lock" => n = p
                      /\ \A n \in Connecting(t)' : req'[n].pc \in {"capacity", "evicting", "options"} => Awake(t)' = {}
                      /\ \A x \in Awake(t)' : registry'[t] = x
    BY <1>2 DEF ConnectOK
  <2>1. /\ \A n \in Connecting(t) : req[n].op \in {"send", "stream"} /\ req[n].lock = lockOf[t] /\ lockOf[t] # 0
        /\ \A n, p \in Connecting(t) : req[n].pc # "lock" /\ req[p].pc # "lock" => n = p
        /\ \A n \in Connecting(t) : req[n].pc \in {"capacity", "evicting", "options"} => Awake(t) = {}
        /\ \A x \in Awake(t) : registry[t] = x
    BY DEF SessionIndInv, ConnectOK
  <2>2. Connecting(t)' = Connecting(t) /\ Connecting(t) \subseteq Request
    BY <1>2, <1>8, <1>12 DEF Connecting, Critical
  <2>3. lockOf'[t] = lockOf[t]
    BY <1>2
  <2>4. \A n \in Connecting(t)' : req'[n].op \in {"send", "stream"} /\ req'[n].lock = lockOf'[t] /\ lockOf'[t] # 0
    BY <1>8, <1>12, <2>1, <2>2, <2>3
  <2>5. \A n, p \in Connecting(t)' : req'[n].pc # "lock" /\ req'[p].pc # "lock" => n = p
    BY <1>2, <1>8, <1>12, <2>1, <2>2
  <2>6. t \in Key
    BY DEF Key
  <2>7. CASE t = k
    <3>1. ~open /\ req[r].sid = t /\ r \in Connecting(t)
      BY <1>2, <1>4, <2>7 DEF Connecting, Critical
    <3>2. Awake(t) = {}
      BY <1>2, <2>1, <3>1
    <3>3. Awake(t)' \subseteq {m}
      BY <1>13, <3>2 DEF Awake
    <3>4. \A n \in Connecting(t) : n # r => req[n].pc = "lock"
      BY <1>2, <2>1, <3>1
    <3> QED
      BY <1>8, <1>12, <1>14, <2>2, <2>4, <2>5, <2>6, <2>7, <3>3, <3>4
  <2>8. CASE t # k
    <3>1. Awake(t)' = Awake(t)
      <4>1. \A n \in Inst : (inst'[n].key = t /\ inst'[n].actor # "gone") <=> (inst[n].key = t /\ inst[n].actor # "gone")
        BY <1>4, <1>6, <1>13, <2>8, RequestNull
      <4> QED
        BY <4>1 DEF Awake
    <3>2. registry'[t] = registry[t]
      BY <1>14, <2>6, <2>8
    <3>3. \A n \in Connecting(t)' : req'[n].pc \in {"capacity", "evicting", "options"} => Awake(t)' = {}
      BY <1>8, <1>12, <2>1, <2>2, <3>1
    <3> QED
      BY <2>1, <2>4, <2>5, <3>1, <3>2, <3>3
  <2> QED
    BY <2>7, <2>8
<1> QED
  BY <1>15, <1>16, <1>18, <1>19, <1>20, <1>21, <1>22, NearStep

-----------------------------------------------------------------------------
(* Queries *)

LEMMA QueueIs ==
    ASSUME SessionIndInv, NEW m \in Inst
    PROVE  /\ inst[m].queue \in Seq(Request \cup {"close"})
           /\ \A i \in 1..Len(inst[m].queue) : inst[m].queue[i] \in Request =>
                  /\ req[inst[m].queue[i]].pc \in Asking /\ req[inst[m].queue[i]].inst = m
                  /\ \A k \in 1..Len(inst[m].queue) : inst[m].queue[k] = inst[m].queue[i] => k = i
BY InstIs DEF InstRecord, SessionIndInv, QueuesOK, QueueSound

LEMMA StandsStill ==
    ASSUME NEW S, NEW u \in Seq(S), NEW e \in S
    PROVE  /\ Stands(e, Append(u, e))
           /\ \A x : Stands(x, u) => Stands(x, Append(u, e))
<1> DEFINE v == Append(u, e)
<1>1. Len(u) \in Nat /\ Len(v) = Len(u) + 1 /\ v[Len(u) + 1] = e /\ \A j \in 1..Len(u) : v[j] = u[j]
  OBVIOUS
<1> HIDE DEF v
<1>2. Stands(e, v)
  BY <1>1 DEF Stands
<1>3. ASSUME NEW x, Stands(x, u)
      PROVE  Stands(x, v)
  <2>1. PICK j \in 1..Len(u) : u[j] = x
    BY <1>3 DEF Stands
  <2>2. j \in 1..Len(v) /\ v[j] = x
    BY <1>1, <2>1
  <2> QED
    BY <2>2 DEF Stands
<1> QED
  BY <1>2, <1>3 DEF v

\* A command is put into the queue of its object.
LEMMA QueuePut ==
    ASSUME SessionIndInv, NEW m \in Inst, NEW r \in Request, req[r].pc \notin {"sent", "ask"}, NEW i,
           inst' = [inst EXCEPT ![m] = i], i.queue = Append(inst[m].queue, r),
           NEW q, req' = [req EXCEPT ![r] = q], q.pc \in Asking, q.inst = m
    PROVE  QueuesOK'
<1>1. \A n \in Inst :
      /\ inst[n].queue \in Seq(Request \cup {"close"})
      /\ \A x \in 1..Len(inst[n].queue) : inst[n].queue[x] \in Request =>
                  /\ req[inst[n].queue[x]].pc \in Asking /\ req[inst[n].queue[x]].inst = n
                  /\ \A k \in 1..Len(inst[n].queue) : inst[n].queue[k] = inst[n].queue[x] => k = x
  BY QueueIs
<1>2. \A x \in Request : req'[x] = IF x = r THEN q ELSE req[x]
  BY DEF SessionIndInv, StateOK
<1>3. \A n \in Inst : inst'[n].queue = IF n = m THEN Append(inst[n].queue, r) ELSE inst[n].queue
  BY DEF SessionIndInv, StateOK
<1>4. QueueSound'
  <2> SUFFICES ASSUME NEW n \in Inst, NEW j \in 1..Len(inst'[n].queue), inst'[n].queue[j] \in Request
               PROVE  /\ req'[inst'[n].queue[j]].pc \in Asking /\ req'[inst'[n].queue[j]].inst = n
                      /\ \A k \in 1..Len(inst'[n].queue) : inst'[n].queue[k] = inst'[n].queue[j] => k = j
    BY DEF QueueSound
  <2> DEFINE old == inst[n].queue
             new == inst'[n].queue
  <2>1. /\ old \in Seq(Request \cup {"close"})
        /\ \A x \in 1..Len(old) : old[x] \in Request =>
                    /\ req[old[x]].pc \in Asking /\ req[old[x]].inst = n
                    /\ \A k \in 1..Len(old) : old[k] = old[x] => k = x
    BY <1>1
  <2>2. new = IF n = m THEN Append(old, r) ELSE old
    BY <1>3
  <2>3. \A x \in 1..Len(old) : old[x] # r
    BY <2>1 DEF Asking
  <2> j \in 1..Len(new) /\ new[j] \in Request
    OBVIOUS
  <2> HIDE DEF old, new
  <2>4. CASE n # m
    BY <1>2, <2>1, <2>2, <2>3, <2>4 DEF new
  <2>5. CASE n = m
    <3>1. /\ Len(new) = Len(old) + 1 /\ Len(old) \in Nat /\ new[Len(new)] = r
          /\ \A x \in 1..Len(old) : new[x] = old[x]
      BY <2>1, <2>2, <2>5
    <3>2. CASE j = Len(new)
      <4>1. \A k \in 1..Len(new) : new[k] = new[j] => k = j
        BY <2>3, <3>1, <3>2
      <4> QED
        BY <1>2, <2>5, <3>1, <3>2, <4>1 DEF new
    <3>3. CASE j # Len(new)
      <4>1. j \in 1..Len(old) /\ new[j] = old[j] /\ new[j] # r
        BY <2>3, <3>1, <3>3
      <4>2. ASSUME NEW k \in 1..Len(new), new[k] = new[j]
            PROVE  k = j
        <5>1. k \in 1..Len(old) /\ new[k] = old[k]
          BY <3>1, <4>1, <4>2
        <5> QED
          BY <2>1, <4>1, <4>2, <5>1
      <4> QED
        BY <1>2, <2>1, <2>5, <4>1, <4>2 DEF new
    <3> QED
      BY <3>2, <3>3
  <2> QED
    BY <2>4, <2>5
<1>5. QueueFull'
  <2> SUFFICES ASSUME NEW x \in Request, req'[x].pc \in Asking
               PROVE  Stands(x, inst'[req'[x].inst].queue)
    BY DEF QueueFull
  <2>1. CASE x = r
    BY <1>1, <1>2, <1>3, <2>1, StandsStill
  <2>2. CASE x # r
    <3>1. req'[x] = req[x] /\ req[x].inst \in Inst /\ Stands(x, inst[req[x].inst].queue)
      BY <1>2, <2>2, AskerIs
    <3>2. Stands(x, inst'[req[x].inst].queue)
      BY <1>1, <1>3, <3>1, StandsStill
    <3> QED
      BY <3>1, <3>2
  <2> QED
    BY <2>1, <2>2
<1> QED
  BY <1>4, <1>5 DEF QueuesOK

\* u without what is at j.
Without(u, v, j) ==
    /\ j \in 1..Len(u) /\ Len(v) = Len(u) - 1
    /\ \A x \in 1..Len(v) : v[x] = IF x < j THEN u[x] ELSE u[x + 1]

LEMMA TailWithout ==
    ASSUME NEW S, NEW u \in Seq(S), u # <<>>
    PROVE  Tail(u) \in Seq(S) /\ Without(u, Tail(u), 1) /\ Head(u) = u[1]
BY DEF Without

LEMMA RemoveAtWithout ==
    ASSUME NEW S, NEW u \in Seq(S), NEW j \in 1..Len(u)
    PROVE  RemoveAt(u, j) \in Seq(S) /\ Without(u, RemoveAt(u, j), j)
<1> DEFINE a == SubSeq(u, 1, j - 1)
           b == SubSeq(u, j + 1, Len(u))
<1>1. /\ a \in Seq(S) /\ Len(a) = j - 1 /\ \A x \in 1..Len(a) : a[x] = u[x]
      /\ b \in Seq(S) /\ Len(b) = Len(u) - j /\ \A x \in 1..Len(b) : b[x] = u[x + j]
  OBVIOUS
<1>2. RemoveAt(u, j) = a \o b
  BY DEF RemoveAt
<1> HIDE DEF a, b
<1>3. a \o b \in Seq(S) /\ Len(a \o b) = Len(a) + Len(b)
  BY <1>1, ConcatProperties
<1>4. \A x \in 1..Len(a \o b) : (a \o b)[x] = IF x <= Len(a) THEN a[x] ELSE b[x - Len(a)]
  BY <1>1, ConcatProperties
<1>5. ASSUME NEW x \in 1..Len(a \o b)
      PROVE  (a \o b)[x] = IF x < j THEN u[x] ELSE u[x + 1]
  <2>1. CASE x < j
    BY <1>1, <1>3, <1>4, <2>1
  <2>2. CASE ~(x < j)
    <3>1. (a \o b)[x] = b[x - Len(a)] /\ x - Len(a) \in 1..Len(b) /\ (x - Len(a)) + j = x + 1
      BY <1>1, <1>3, <1>4, <2>2
    <3> QED
      BY <1>1, <2>2, <3>1
  <2> QED
    BY <2>1, <2>2
<1> QED
  BY <1>1, <1>2, <1>3, <1>5 DEF Without

\* A command leaves the queue.
LEMMA QueueTake ==
    ASSUME SessionIndInv, NEW m \in Inst, NEW r \in Request, NEW i, NEW j, Without(inst[m].queue, i.queue, j),
           r = inst[m].queue[j], inst' = [inst EXCEPT ![m] = i],
           NEW q, req' = [req EXCEPT ![r] = q], q.pc \notin {"sent", "ask"}
    PROVE  QueuesOK'
<1>1. \A n \in Inst :
      /\ inst[n].queue \in Seq(Request \cup {"close"})
      /\ \A x \in 1..Len(inst[n].queue) : inst[n].queue[x] \in Request =>
                  /\ req[inst[n].queue[x]].pc \in Asking /\ req[inst[n].queue[x]].inst = n
                  /\ \A k \in 1..Len(inst[n].queue) : inst[n].queue[k] = inst[n].queue[x] => k = x
  BY QueueIs
<1>2. \A x \in Request : req'[x] = IF x = r THEN q ELSE req[x]
  BY DEF SessionIndInv, StateOK
<1>3. \A n \in Inst : inst'[n].queue = IF n = m THEN i.queue ELSE inst[n].queue
  BY DEF SessionIndInv, StateOK
<1>4. j \in 1..Len(inst[m].queue) /\ req[r].inst = m /\ req[r].pc \in Asking
  BY <1>1 DEF Without
<1>5. QueueSound'
  <2> SUFFICES ASSUME NEW n \in Inst, NEW y \in 1..Len(inst'[n].queue), inst'[n].queue[y] \in Request
               PROVE  /\ req'[inst'[n].queue[y]].pc \in Asking /\ req'[inst'[n].queue[y]].inst = n
                      /\ \A k \in 1..Len(inst'[n].queue) : inst'[n].queue[k] = inst'[n].queue[y] => k = y
    BY DEF QueueSound
  <2> DEFINE old == inst[n].queue
             new == inst'[n].queue
  <2>1. /\ old \in Seq(Request \cup {"close"})
        /\ \A x \in 1..Len(old) : old[x] \in Request =>
                    /\ req[old[x]].pc \in Asking /\ req[old[x]].inst = n
                    /\ \A k \in 1..Len(old) : old[k] = old[x] => k = x
    BY <1>1
  <2>2. /\ n # m => new = old
        /\ n = m => Without(old, new, j) /\ old[j] = r
    BY <1>3
  <2> y \in 1..Len(new) /\ new[y] \in Request
    OBVIOUS
  <2> HIDE DEF old, new
  <2>3. CASE n # m
    <3>1. new[y] # r
      BY <1>4, <2>1, <2>2, <2>3
    <3> QED
      BY <1>2, <2>1, <2>2, <2>3, <3>1 DEF new
  <2>4. CASE n = m
    <3> DEFINE P(k) == IF k < j THEN k ELSE k + 1
    <3>1. Len(old) \in Nat /\ Len(new) = Len(old) - 1 /\ j \in 1..Len(old) /\ \A k \in 1..Len(new) : new[k] = old[P(k)]
      BY <2>1, <2>2, <2>4 DEF Without
    <3>2. \A k \in 1..Len(new) : P(k) \in 1..Len(old) /\ P(k) # j /\ \A z \in 1..Len(new) : P(k) = P(z) => k = z
      BY <3>1
    <3> HIDE DEF P
    <3>3. new[y] = old[P(y)] /\ P(y) \in 1..Len(old) /\ new[y] # r
      <4>1. new[y] = old[P(y)] /\ P(y) \in 1..Len(old) /\ P(y) # j /\ old[j] = r
        BY <2>2, <2>4, <3>1, <3>2
      <4> QED
        BY <2>1, <3>1, <4>1
    <3>4. ASSUME NEW k \in 1..Len(new), new[k] = new[y]
          PROVE  k = y
      <4>1. old[P(k)] = old[P(y)] /\ P(k) \in 1..Len(old)
        BY <3>1, <3>2, <3>4
      <4>2. P(k) = P(y)
        BY <2>1, <3>3, <4>1
      <4> QED
        BY <3>2, <4>2
    <3> QED
      BY <1>2, <2>1, <2>4, <3>3, <3>4 DEF new
  <2> QED
    BY <2>3, <2>4
<1>6. QueueFull'
  <2> SUFFICES ASSUME NEW x \in Request, req'[x].pc \in Asking
               PROVE  Stands(x, inst'[req'[x].inst].queue)
    BY DEF QueueFull
  <2>1. x # r /\ req'[x] = req[x]
    BY <1>2 DEF Asking
  <2>2. req[x].inst \in Inst /\ Stands(x, inst[req[x].inst].queue)
    BY <2>1, AskerIs
  <2>3. CASE req[x].inst # m
    BY <1>3, <2>1, <2>2, <2>3
  <2>4. CASE req[x].inst = m
    <3> DEFINE old == inst[m].queue
               new == i.queue
    <3>1. PICK k \in 1..Len(old) : old[k] = x
      BY <2>2, <2>4 DEF Stands
    <3>2. old \in Seq(Request \cup {"close"}) /\ Without(old, new, j) /\ old[j] = r
      BY <1>1
    <3> HIDE DEF old, new
    <3>3. k # j
      BY <2>1, <3>1, <3>2
    <3>4. \E z \in 1..Len(new) : new[z] = x
      <4>1. CASE k < j
        <5>1. k \in 1..Len(new) /\ new[k] = x
          BY <3>1, <3>2, <4>1 DEF Without
        <5> QED
          BY <5>1
      <4>2. CASE k > j
        <5>1. k - 1 \in 1..Len(new) /\ new[k - 1] = old[(k - 1) + 1]
          BY <3>1, <3>2, <4>2 DEF Without
        <5> QED
          BY <3>1, <5>1
      <4> QED
        BY <3>2, <3>3, <4>1, <4>2 DEF Without
    <3>5. inst'[m].queue = new
      BY <1>3 DEF new
    <3> QED
      BY <2>1, <2>4, <3>4, <3>5 DEF Stands
  <2> QED
    BY <2>3, <2>4
<1> QED
  BY <1>5, <1>6 DEF QueuesOK

LEMMA InterruptStep ==
    ASSUME SessionIndInv, NEW r \in Request, NEW s \in Sid, Interrupt(r, s)
    PROVE  SessionIndInv'
<1> DEFINE m == registry[s]
<1>1. /\ req[r].pc = "idle" /\ RegStep /\ UNCHANGED registry
      /\ FrameStep /\ contested' = contested
  BY RegSame, FrameAll DEF Interrupt
<1>2. s \in Key /\ m \in Inst \cup {NULL} /\ (m # NULL => m \in Inst /\ inst[m].key = s)
  BY RegisteredIs DEF Key, SessionIndInv, StateOK
<1>3. CASE m = NULL
  <2> DEFINE q == [Idle EXCEPT !.op = "interrupt", !.sid = s, !.pc = "stale"]
  <2>1. UNCHANGED inst /\ req' = [req EXCEPT ![r] = IF db[s] = "running" THEN q ELSE Idle]
    BY <1>3 DEF Interrupt
  <2>2. /\ q \in RequestRecord /\ RequestFine(q) /\ OwnObject(q, inst, contested') /\ NoNearer(req[r], q, contested')
        /\ q.pc = "stale"
    BY IdleFine, RequestNull DEF Idle, RequestRecord, RequestFine, OwnObject, NoNearer, Pc, Dialing, Critical
  <2> HIDE DEF q
  <2>3. CASE db[s] = "running"
    BY <1>1, <2>1, <2>2, <2>3, ReqOnly
  <2>4. CASE db[s] # "running"
    BY <1>1, <2>1, <2>4, ReturnStep DEF Return
  <2> QED
    BY <2>3, <2>4
<1>4. CASE m # NULL /\ inst[m].status # "running"
  BY <1>1, <1>4, SessionStays DEF Interrupt
<1>5. CASE m # NULL /\ inst[m].status = "running" /\ (Interrupting(m) \/ inst[m].actor = "gone")
  <2> DEFINE st == IF Interrupting(m) THEN inst[m].status ELSE "error"
             i == [inst[m] EXCEPT !.intr = TRUE, !.status = st]
  <2>1. UNCHANGED req /\ m \in Inst /\ inst[m].key \in Key
    BY <1>2, <1>5 DEF Interrupt
  <2>2. inst' = [inst EXCEPT ![m] = i]
    BY <1>5, <2>1, InstIs DEF Interrupt, InstRecord, SessionIndInv, StateOK
  <2>3. st \in Status \cup {"closed"} /\ inst[m] \in InstRecord /\ InstFine(inst[m], contested)
    BY <2>1, InstIs DEF InstRecord, Status
  <2> HIDE DEF st, m
  <2>4. i \in InstRecord
    BY <2>3 DEF InstRecord
  <2>5. /\ i.key = inst[m].key /\ i.actor = inst[m].actor /\ i.queue = inst[m].queue /\ i.ev = inst[m].ev
        /\ i.evKey = inst[m].evKey /\ i.proc = inst[m].proc /\ i.sid = inst[m].sid /\ i.known = inst[m].known
        /\ i.inbox = inst[m].inbox
    BY <2>3 DEF InstRecord
  <2> HIDE DEF i
  <2>6. InstFine(i, contested')
    BY <1>1, <2>1, <2>3, <2>5, FineSet
  <2>7. ObjectFine(m, i, contested')
    BY <2>5, <2>6 DEF ObjectFine, QueueMild
  <2>8. ObjectsFine([inst EXCEPT ![m] = i], contested')
    BY <1>1, <2>1, <2>4, <2>7, ObjectsAsTheyAre, ObjectSet
  <2> QED
    BY <1>1, <2>1, <2>2, <2>8, ObjectsOnly
<1>6. CASE m # NULL /\ inst[m].status = "running" /\ ~(Interrupting(m) \/ inst[m].actor = "gone")
  <2> DEFINE u == Append(inst[m].queue, r)
             i == [inst[m] EXCEPT !.intr = TRUE, !.queue = u]
             q == [Idle EXCEPT !.op = "interrupt", !.sid = s, !.pc = "ask", !.inst = m]
  <2>1. m \in Inst /\ inst[m].key \in Key /\ inst[m].actor # "gone"
    BY <1>2, <1>6
  <2>2. inst' = [inst EXCEPT ![m] = i] /\ req' = [req EXCEPT ![r] = q]
    BY <1>6, <2>1, InstIs DEF Interrupt, InstRecord, SessionIndInv, StateOK
  <2> HIDE DEF m
  <2>3. inst[m] \in InstRecord /\ InstFine(inst[m], contested)
    BY <2>1, InstIs
  <2>4. u \in Seq(Request \cup {"close"})
    BY <2>3 DEF InstRecord
  <2> HIDE DEF u
  <2>5. i \in InstRecord
    BY <2>3, <2>4 DEF InstRecord
  <2>6. /\ i.key = inst[m].key /\ i.actor = inst[m].actor /\ i.queue = u /\ i.ev = inst[m].ev
        /\ i.evKey = inst[m].evKey /\ i.proc = inst[m].proc /\ i.sid = inst[m].sid /\ i.known = inst[m].known
        /\ i.inbox = inst[m].inbox
    BY <2>3 DEF InstRecord
  <2> HIDE DEF i
  <2>7. q \in RequestRecord /\ RequestFine(q) /\ NoNearer(req[r], q, contested') /\ q.pc \in Asking /\ q.inst = m
    BY <2>1, IdleFine DEF Idle, RequestRecord, RequestFine, NoNearer, Pc, Dialing, Critical, Asking
  <2>8. InstFine(i, contested')
    BY <1>1, <2>1, <2>3, <2>6, FineSet
  <2>9. InstStep
    BY <1>1, <2>1, <2>2, <2>5, <2>6, <2>8, InstSet
  <2>10. OwnObject(q, inst', contested')
    <3>1. inst'[m].key # NULL
      BY <2>1, <2>9, RequestNull DEF InstStep
    <3>2. q.inst = m /\ q.op = "interrupt" /\ q.pc = "ask"
      BY DEF Idle
    <3> HIDE DEF q
    <3> QED
      BY <3>1, <3>2 DEF OwnObject
  <2> HIDE DEF q
  <2>11. QueuesOK'
    <3>1. i.queue = Append(inst[m].queue, r)
      BY <2>6 DEF u
    <3> QED
      BY <1>1, <2>1, <2>2, <2>7, <3>1, QueuePut
  <2>12. ReqStep
    BY <1>1, <2>2, <2>7, <2>9, <2>10, ReqSet
  <2> QED
    BY <1>1, <2>9, <2>11, <2>12, MildStep
<1> QED
  BY <1>3, <1>4, <1>5, <1>6

LEMMA ActorInterruptStep ==
    ASSUME SessionIndInv, NEW m \in Inst, ActorInterrupt(m)
    PROVE  SessionIndInv'
<1>1. /\ inst[m].actor = "live" /\ FrameStep /\ RegStep /\ contested' = contested
  BY FrameAll, RegSame DEF ActorInterrupt
<1>2. inst[m] \in InstRecord /\ InstFine(inst[m], contested) /\ inst[m].key \in Key
  BY <1>1, InstIs, StillFine DEF Unused
<1>3. PICK j \in Reached(inst[m]) :
          /\ inst[m].queue[j] # "close" /\ ~IsQuery(inst[m].queue[j])
          /\ inst' = [inst EXCEPT ![m].queue = RemoveAt(@, j)]
          /\ Goto(inst[m].queue[j], "asked")
  BY DEF ActorInterrupt
<1> DEFINE r == inst[m].queue[j]
           u == RemoveAt(inst[m].queue, j)
           i == [inst[m] EXCEPT !.queue = u]
           q == [req[r] EXCEPT !.pc = "asked"]
<1>4. j \in 1..Len(inst[m].queue) /\ inst[m].queue \in Seq(Request \cup {"close"})
  BY QueueIs DEF Reached
<1>5. r \in Request /\ req[r].pc \in Asking /\ req[r].inst = m /\ req[r].op = "interrupt"
  <2>1. r \in Request /\ req[r].op = "interrupt"
    BY <1>3, <1>4 DEF IsQuery
  <2> QED
    BY <1>4, <2>1, QueueIs
<1>6. u \in Seq(Request \cup {"close"}) /\ Without(inst[m].queue, u, j)
  BY <1>4, RemoveAtWithout
<1>7. inst' = [inst EXCEPT ![m] = i] /\ req' = [req EXCEPT ![r] = q]
  BY <1>2, <1>3, <1>5 DEF Goto, InstRecord, SessionIndInv, StateOK
<1> HIDE DEF u, r
<1>8. i \in InstRecord
  BY <1>2, <1>6 DEF InstRecord
<1>9. /\ i.key = inst[m].key /\ i.actor = inst[m].actor /\ i.queue = u /\ i.ev = inst[m].ev
      /\ i.evKey = inst[m].evKey /\ i.proc = inst[m].proc /\ i.sid = inst[m].sid /\ i.known = inst[m].known
      /\ i.inbox = inst[m].inbox
  BY <1>2 DEF InstRecord
<1> HIDE DEF i
<1>10. q \in RequestRecord /\ q.pc = "asked" /\ q.op = "interrupt" /\ q.inst = m
  BY <1>5, RequestIs DEF RequestRecord, Pc
<1> HIDE DEF q
<1>11. RequestFine(q) /\ NoNearer(req[r], q, contested')
  BY <1>10 DEF RequestFine, NoNearer, Dialing, Critical
<1>12. InstFine(i, contested')
  BY <1>1, <1>2, <1>9, FineSet
<1>13. InstStep
  BY <1>1, <1>7, <1>8, <1>9, <1>12, InstSet
<1>14. QueuesOK'
  BY <1>5, <1>6, <1>7, <1>9, <1>10, QueueTake DEF r
<1>15. OwnObject(q, inst', contested')
  <2>1. OwnObject(req[r], inst', contested')
    BY <1>1, <1>5, <1>13, OwnGrows
  <2> QED
    BY <1>5, <1>10, <2>1 DEF OwnObject
<1>16. ReqStep
  BY <1>1, <1>5, <1>7, <1>10, <1>11, <1>13, <1>15, ReqSet
<1> QED
  BY <1>1, <1>13, <1>14, <1>16, MildStep

LEMMA InterruptedStep ==
    ASSUME SessionIndInv, NEW r \in Request, Interrupted(r)
    PROVE  SessionIndInv'
<1> DEFINE m == req[r].inst
           e == [inst[m] EXCEPT !.status = "error"]
<1>1. req[r].pc \in {"asked", "refused"} /\ FrameStep /\ RegStep /\ contested' = contested /\ Return(r)
  BY FrameAll, RegSame DEF Interrupted
<1>2. m \in Inst /\ inst[m].key \in Key
  BY <1>1, RequestIs, InstIs, RequestNull DEF RequestFine, OwnObject, InstRecord
<1>3. inst' = inst \/ inst' = [inst EXCEPT ![m] = e]
  BY <1>2, InstIs DEF Interrupted, InstRecord, SessionIndInv, StateOK
<1>4. ObjectFine(m, inst[m], contested') /\ inst[m] \in InstRecord
  BY <1>1, <1>2, ObjectsAsTheyAre, InstIs DEF ObjectsFine
<1>5. e \in InstRecord /\ ObjectFine(m, e, contested')
  BY <1>2, <1>4, StatusForm DEF Status
<1> HIDE DEF e
<1>6. ObjectsFine(inst', contested')
  BY <1>1, <1>2, <1>3, <1>5, ObjectsAsTheyAre, ObjectSet
<1> QED
  BY <1>1, <1>6, BackStep

LEMMA EvictionTimesOutStep ==
    ASSUME SessionIndInv, NEW m \in Inst, EvictionTimesOut(m)
    PROVE  SessionIndInv'
<1>1. FrameStep /\ contested' = contested
  BY FrameAll DEF EvictionTimesOut
<1> DEFINE i == [inst[m] EXCEPT !.status = "interrupted", !.ev = "inbox"]
<1>3. inst[m].key \in Key
  BY StillFine DEF EvictionTimesOut, Unused
<1>5. inst' = [inst EXCEPT ![m] = i] /\ inst[m].ev = "lost"
  BY InstIs DEF EvictionTimesOut, InstRecord, SessionIndInv, StateOK
<1>6. i \in InstRecord
  BY InstIs DEF InstRecord, Status
<1>7. /\ i.key = inst[m].key /\ i.actor = inst[m].actor /\ i.queue = inst[m].queue /\ i.ev = "inbox"
      /\ i.evKey = inst[m].evKey /\ i.proc = inst[m].proc /\ i.sid = inst[m].sid /\ i.known = inst[m].known
      /\ i.inbox = inst[m].inbox
  BY InstIs DEF InstRecord
<1> HIDE DEF i
<1>8. InstFine(inst[m], contested)
  BY InstIs
<1>9. InstFine(i, contested')
  BY <1>1, <1>3, <1>5, <1>7, <1>8, FineSet
<1> QED
  BY <1>1, <1>5, <1>6, <1>7, <1>9, InstOnly DEF EvictionTimesOut, QueueMild

LEMMA StartedStep ==
    ASSUME SessionIndInv, NEW r \in Request, Started(r)
    PROVE  SessionIndInv'
<1> DEFINE m == req[r].inst
<1>1. /\ req[r].pc = "starting" /\ inst[m].actor = "new"
      /\ FrameStep /\ RegStep /\ contested' = contested
  BY FrameAll, RegSame DEF Started
<1>2. /\ m \in Inst /\ inst[m].key \in Key
      /\ req[r].op # "open" => req[r].op \in {"send", "stream"}
  BY <1>1, RequestIs, InstIs, RequestNull DEF RequestFine, OwnObject, InstRecord, Dialing
<1>3. inst[m] \in InstRecord /\ InstFine(inst[m], contested)
  BY <1>2, InstIs
<1>4. CASE req[r].op # "open"
  <2> DEFINE i == [inst[m] EXCEPT !.actor = "live", !.proc = "wait"]
  <2>1. inst' = [inst EXCEPT ![m] = i] /\ Connected(r, m)
    BY <1>2, <1>3, <1>4 DEF Started, InstRecord, SessionIndInv, StateOK
  <2>2. i \in InstRecord
    BY <1>3 DEF InstRecord
  <2>3. /\ i.key = inst[m].key /\ i.actor = "live" /\ i.queue = inst[m].queue /\ i.ev = inst[m].ev
        /\ i.evKey = inst[m].evKey /\ i.proc = "wait" /\ i.sid = inst[m].sid /\ i.known = inst[m].known
        /\ i.inbox = inst[m].inbox
    BY <1>3 DEF InstRecord
  <2> HIDE DEF i, m
  <2>4. InstFine(i, contested')
    BY <1>1, <1>2, <1>3, <2>3, FineSet
  <2>5. ObjectFine(m, i, contested')
    BY <1>1, <2>3, <2>4 DEF ObjectFine, QueueMild
  <2>6. ObjectsFine(inst', contested')
    BY <1>1, <1>2, <2>1, <2>2, <2>5, ObjectsAsTheyAre, ObjectSet
  <2> QED
    BY <1>1, <1>2, <1>4, <2>1, <2>6, ConnectedForm
<1>5. CASE req[r].op = "open"
  <2> DEFINE u == Append(inst[m].queue, r)
             i == [inst[m] EXCEPT !.actor = "live", !.proc = "wait", !.queue = u]
             q == [req[r] EXCEPT !.pc = "sent"]
  <2>1. inst' = [inst EXCEPT ![m] = i] /\ Goto(r, "sent")
    BY <1>2, <1>3, <1>5 DEF Started, InstRecord, SessionIndInv, StateOK
  <2>2. u \in Seq(Request \cup {"close"})
    BY <1>3 DEF InstRecord
  <2>3. req' = [req EXCEPT ![r] = q] /\ q \in RequestRecord
    BY <2>1, GotoIs DEF Pc
  <2>4. q.pc = "sent" /\ q.op = "open" /\ q.inst = m /\ RequestFine(q) /\ q.pc \in Asking
    <3>1. q.pc = "sent" /\ q.op = "open" /\ q.inst = m
      BY <1>5, RequestIs DEF RequestRecord
    <3> HIDE DEF q, m
    <3> QED
      BY <1>2, <3>1 DEF RequestFine, Dialing, Asking
  <2> HIDE DEF u
  <2>5. i \in InstRecord
    BY <1>3, <2>2 DEF InstRecord
  <2>6. /\ i.key = inst[m].key /\ i.actor = "live" /\ i.queue = u /\ i.ev = inst[m].ev
        /\ i.evKey = inst[m].evKey /\ i.proc = "wait" /\ i.sid = inst[m].sid /\ i.known = inst[m].known
        /\ i.inbox = inst[m].inbox
    BY <1>3 DEF InstRecord
  <2> HIDE DEF i, q
  <2>7. InstFine(i, contested')
    <3> HIDE DEF m
    <3> QED
      BY <1>1, <1>2, <1>3, <2>6, FineSet
  <2>8. InstStep
    <3> HIDE DEF m
    <3> QED
      BY <1>1, <1>2, <2>1, <2>5, <2>6, <2>7, InstSet
  <2>9. QueuesOK'
    <3>1. i.queue = Append(inst[m].queue, r)
      BY <2>6 DEF u
    <3> HIDE DEF m
    <3> QED
      BY <1>1, <1>2, <2>1, <2>3, <2>4, <3>1, QueuePut
  <2>10. OwnObject(q, inst', contested')
    <3>1. OwnObject(req[r], inst', contested')
      BY <1>1, <2>8, OwnGrows
    <3> QED
      BY <1>1, <1>5, <2>4, <3>1 DEF OwnObject
  <2>11. NoNearer(req[r], q, contested')
    BY <2>4 DEF NoNearer, Critical
  <2>12. ReqStep
    BY <1>1, <2>3, <2>4, <2>8, <2>10, <2>11, ReqSet
  <2> QED
    BY <1>1, <2>8, <2>9, <2>12, MildStep
<1> QED
  BY <1>4, <1>5

LEMMA MarkStep ==
    ASSUME SessionIndInv, NEW r \in Request, Mark(r)
    PROVE  SessionIndInv'
<1> DEFINE m == req[r].inst
<1>1. req[r].pc = "mark" /\ FrameStep /\ RegStep /\ contested' = contested
  <2>1. db' \in [Sid -> Status \cup {"absent"}]
    BY DbSet DEF Mark, SessionIndInv, Status
  <2> QED
    BY <2>1, FrameSame, RegSame DEF Mark
<1>2. m \in Inst /\ inst[m].key \in Key /\ req[r].op = "send"
  BY <1>1, RequestIs, InstIs, RequestNull DEF RequestFine, OwnObject, InstRecord
<1>3. inst[m] \in InstRecord /\ InstFine(inst[m], contested) /\ ObjectFine(m, inst[m], contested')
  BY <1>1, <1>2, InstIs, ObjectsAsTheyAre DEF ObjectsFine
<1>4. CASE inst[m].actor = "gone"
  <2> DEFINE i == [inst[m] EXCEPT !.status = "running"]
  <2>1. inst' = [inst EXCEPT ![m] = i] /\ Goto(r, "failed")
    BY <1>4 DEF Mark
  <2>2. i \in InstRecord /\ ObjectFine(m, i, contested')
    <3> HIDE DEF m
    <3> QED
      BY <1>2, <1>3, StatusForm DEF Status
  <2> HIDE DEF i, m
  <2>3. ObjectsFine(inst', contested')
    BY <1>1, <1>2, <2>1, <2>2, ObjectsAsTheyAre, ObjectSet
  <2>4. RequestFine([req[r] EXCEPT !.pc = "failed"])
    BY <1>2, RequestIs DEF RequestFine, RequestRecord, Dialing, m
  <2> QED
    BY <1>1, <2>1, <2>3, <2>4, OnStep DEF Pc, Critical
<1>5. CASE inst[m].actor # "gone"
  <2> DEFINE u == Append(inst[m].queue, r)
             i == [inst[m] EXCEPT !.status = "running", !.queue = u]
             q == [req[r] EXCEPT !.pc = "sent"]
  <2>1. inst' = [inst EXCEPT ![m] = i] /\ Goto(r, "sent")
    BY <1>2, <1>3, <1>5 DEF Mark, InstRecord, SessionIndInv, StateOK
  <2>2. u \in Seq(Request \cup {"close"})
    BY <1>3 DEF InstRecord
  <2>3. req' = [req EXCEPT ![r] = q] /\ q \in RequestRecord
    BY <2>1, GotoIs DEF Pc
  <2>4. q.pc = "sent" /\ q.op = "send" /\ q.inst = m /\ RequestFine(q) /\ q.pc \in Asking
    <3>1. q.pc = "sent" /\ q.op = "send" /\ q.inst = m
      BY <1>2, RequestIs DEF RequestRecord
    <3> HIDE DEF q, m
    <3> QED
      BY <1>2, <3>1 DEF RequestFine, Dialing, Asking
  <2> HIDE DEF u
  <2>5. i \in InstRecord
    BY <1>3, <2>2 DEF InstRecord, Status
  <2>6. /\ i.key = inst[m].key /\ i.actor = inst[m].actor /\ i.queue = u /\ i.ev = inst[m].ev
        /\ i.evKey = inst[m].evKey /\ i.proc = inst[m].proc /\ i.sid = inst[m].sid /\ i.known = inst[m].known
        /\ i.inbox = inst[m].inbox
    BY <1>3 DEF InstRecord
  <2> HIDE DEF i, q
  <2>7. InstFine(i, contested')
    <3> HIDE DEF m
    <3> QED
      BY <1>1, <1>2, <1>3, <1>5, <2>6, FineSet
  <2>8. InstStep
    <3> HIDE DEF m
    <3> QED
      BY <1>1, <1>2, <2>1, <2>5, <2>6, <2>7, InstSet
  <2>9. QueuesOK'
    <3>1. i.queue = Append(inst[m].queue, r)
      BY <2>6 DEF u
    <3> HIDE DEF m
    <3> QED
      BY <1>1, <1>2, <2>1, <2>3, <2>4, <3>1, QueuePut
  <2>10. OwnObject(q, inst', contested')
    <3>1. OwnObject(req[r], inst', contested')
      BY <1>1, <2>8, OwnGrows
    <3> QED
      BY <1>1, <1>2, <2>4, <3>1 DEF OwnObject
  <2>11. NoNearer(req[r], q, contested')
    BY <2>4 DEF NoNearer, Critical
  <2>12. ReqStep
    BY <1>1, <2>3, <2>4, <2>8, <2>10, <2>11, ReqSet
  <2> QED
    BY <1>1, <2>8, <2>9, <2>12, MildStep
<1> QED
  BY <1>4, <1>5

LEMMA ActorQueryStep ==
    ASSUME SessionIndInv, NEW m \in Inst, ActorQuery(m)
    PROVE  SessionIndInv'
<1> DEFINE r == Head(inst[m].queue)
           u == Tail(inst[m].queue)
           b == IF inst[m].known THEN inst[m].inbox ELSE Append(inst[m].inbox, "init")
           i == [inst[m] EXCEPT !.turn = TRUE, !.queue = u, !.inbox = b]
           q == IF req[r].op = "open" THEN [req[r] EXCEPT !.pc = "sdkid"] ELSE Idle
<1>1. /\ inst[m].actor = "live" /\ inst[m].queue # <<>> /\ r # "close" /\ req[r].op # "interrupt"
      /\ FrameStep /\ RegStep /\ contested' = contested
  BY FrameAll, RegSame DEF ActorQuery, IsQuery
<1>2. inst[m] \in InstRecord /\ InstFine(inst[m], contested) /\ inst[m].key \in Key
  BY <1>1, InstIs, StillFine DEF Unused
<1>3. inst' = [inst EXCEPT ![m] = i] /\ req' = [req EXCEPT ![r] = q]
  BY <1>2 DEF ActorQuery, Goto, Return, InstRecord, SessionIndInv, StateOK
<1>4. u \in Seq(Request \cup {"close"}) /\ r \in Request /\ req[r].pc = "sent" /\ req[r].inst = m
  <2>1. /\ inst[m].queue \in Seq(Request \cup {"close"}) /\ 1 \in 1..Len(inst[m].queue)
        /\ r = inst[m].queue[1]
    BY <1>1, QueueIs
  <2>2. r \in Request
    BY <1>1, <2>1
  <2>3. req[r].pc \in Asking /\ req[r].inst = m
    BY <2>1, <2>2, QueueIs
  <2> QED
    BY <1>1, <2>1, <2>2, <2>3, RequestIs DEF RequestFine, Asking
<1>5. b \in Seq(Token) /\ (inst[m].known => b = inst[m].inbox)
  BY InboxIs, InboxPut DEF Token
<1>6. /\ q \in RequestRecord /\ RequestFine(q) /\ NoNearer(req[r], q, contested') /\ q.pc \notin {"sent", "ask"}
      /\ \A f : OwnObject(req[r], f, contested') => OwnObject(q, f, contested')
  <2>1. CASE req[r].op # "open"
    <3>1. q = Idle
      BY <2>1
    <3> HIDE DEF r, q
    <3> QED
      BY <3>1, IdleFine DEF Idle
  <2>2. CASE req[r].op = "open"
    <3> DEFINE p == [req[r] EXCEPT !.pc = "sdkid"]
    <3>1. q = p
      BY <2>2
    <3> HIDE DEF r, q
    <3>2. req[r] \in RequestRecord /\ RequestFine(req[r])
      BY <1>4, RequestIs
    <3>3. p \in RequestRecord
      BY <3>2 DEF RequestRecord, Pc
    <3>4. p.pc = "sdkid" /\ p.op = "open" /\ p.inst = m
      BY <1>4, <2>2, <3>2 DEF RequestRecord
    <3> HIDE DEF p
    <3>5. RequestFine(p)
      BY <3>4 DEF RequestFine, Dialing
    <3>6. NoNearer(req[r], p, contested')
      BY <3>4 DEF NoNearer, Critical
    <3>7. \A f : OwnObject(req[r], f, contested') => OwnObject(p, f, contested')
      BY <1>4, <2>2, <3>4 DEF OwnObject
    <3> QED
      BY <3>1, <3>3, <3>4, <3>5, <3>6, <3>7
  <2> QED
    BY <2>1, <2>2
<1> HIDE DEF u, b, q
<1>7. i \in InstRecord
  BY <1>2, <1>4, <1>5 DEF InstRecord, Token
<1>8. /\ i.key = inst[m].key /\ i.actor = inst[m].actor /\ i.queue = u /\ i.ev = inst[m].ev
      /\ i.evKey = inst[m].evKey /\ i.proc = inst[m].proc /\ i.sid = inst[m].sid /\ i.known = inst[m].known
      /\ i.inbox = b
  BY <1>2 DEF InstRecord
<1> HIDE DEF i, r
<1>9. inst[m].key \in Sid \ contested' => inst[m].known
  BY <1>1, <1>2 DEF InstFine
<1>10. InstFine(i, contested')
  BY <1>1, <1>2, <1>5, <1>8, <1>9, FineSet
<1>11. InstStep
  BY <1>1, <1>3, <1>7, <1>8, <1>10, InstSet
<1>12. QueuesOK'
  <2>1. Without(inst[m].queue, i.queue, 1) /\ r = inst[m].queue[1]
    BY <1>1, <1>8, QueueIs, TailWithout DEF u, r
  <2> QED
    BY <1>3, <1>4, <1>6, <2>1, QueueTake
<1>13. ReqStep
  <2>1. OwnObject(req[r], inst', contested')
    BY <1>1, <1>4, <1>11, OwnGrows
  <2>2. OwnObject(q, inst', contested')
    BY <1>6, <2>1
  <2> QED
    BY <1>1, <1>3, <1>4, <1>6, <1>11, <2>2, ReqSet
<1> QED
  BY <1>1, <1>11, <1>12, <1>13, MildStep

\* An actor ends: those that wait in its queue are answered; X, if any, returns, and
\* Y is lost.
Closing == {"sent", "ask", "cleanup"}
LEMMA EndStep ==
    ASSUME SessionIndInv, FrameStep, RegStep, NEW m \in Inst, NEW i \in InstRecord,
           inst' = [inst EXCEPT ![m] = i], InstFine(i, contested'), i.key = inst[m].key,
           i.actor = "gone", i.queue = <<>>,
           NEW X, \A r \in X \cap Request : req[r].pc \notin {"sent", "ask"},
           NEW Y, \A r \in Y \cap Request : req[r].pc \in Closing /\ req[r].inst = m,
           req' = [r \in Request |-> IF r \in X THEN Idle
                                     ELSE IF r \in Y THEN [req[r] EXCEPT !.pc = "lost"]
                                     ELSE IF r \in Waiting(m) THEN WithError(req[r]) ELSE req[r]]
    PROVE  SessionIndInv'
<1>1. InstStep
  BY InstSet DEF FrameStep
<1>2. \A r \in Waiting(m) : r \in Request /\ req[r].pc \in Asking /\ req[r].inst = m
  BY QueueIs DEF Waiting
<1>3. ASSUME NEW r \in Request
      PROVE  /\ req'[r] \in RequestRecord /\ RequestFine(req'[r])
             /\ OwnObject(req'[r], inst', contested')
             /\ NoNearer(req[r], req'[r], contested')
             /\ r \in X \cup Y \cup Waiting(m) => req'[r].pc \notin Asking
  <2>1. OwnObject(req[r], inst', contested') /\ RequestFine(req[r]) /\ req[r] \in RequestRecord
    BY <1>1, OwnGrows, RequestIs
  <2>2. CASE r \in X
    <3>1. req'[r] = Idle
      BY <2>2
    <3> QED
      BY <3>1, IdleFine DEF Asking, Idle
  <2>3. CASE r \notin X /\ r \in Y
    <3> DEFINE q == [req[r] EXCEPT !.pc = "lost"]
    <3>1. req'[r] = q
      BY <2>3
    <3>2. q \in RequestRecord /\ q.pc = "lost" /\ q.op = req[r].op /\ q.inst = req[r].inst
      BY <2>1 DEF RequestRecord, Pc
    <3> HIDE DEF q
    <3>3. RequestFine(q)
      BY <3>2 DEF RequestFine, Dialing
    <3>4. OwnObject(q, inst', contested')
      BY <2>1, <3>2 DEF OwnObject
    <3>5. NoNearer(req[r], q, contested')
      BY <3>2 DEF NoNearer, Critical
    <3> QED
      BY <3>1, <3>2, <3>3, <3>4, <3>5 DEF Asking
  <2>4. CASE r \notin X \cup Y /\ r \in Waiting(m)
    <3> DEFINE x == IF req[r].op = "interrupt" THEN "refused" ELSE "failed"
               q == [req[r] EXCEPT !.pc = x]
    <3>1. req'[r] = q
      BY <2>4 DEF WithError
    <3>2. req[r].pc \in Asking /\ (req[r].pc = "ask" <=> req[r].op = "interrupt")
      BY <1>2, <2>1, <2>4 DEF Asking, RequestFine
    <3>3. q \in RequestRecord /\ q.pc = x /\ q.op = req[r].op /\ q.inst = req[r].inst
      BY <2>1 DEF RequestRecord, Pc
    <3> HIDE DEF q
    <3>4. RequestFine(q)
      BY <2>1, <3>2, <3>3 DEF RequestFine, Dialing, Asking
    <3>5. OwnObject(q, inst', contested')
      BY <2>1, <3>2, <3>3 DEF OwnObject, Asking
    <3>6. NoNearer(req[r], q, contested')
      BY <3>3 DEF NoNearer, Critical
    <3> QED
      BY <3>1, <3>3, <3>4, <3>5, <3>6 DEF Asking
  <2>5. CASE r \notin X \cup Y \cup Waiting(m)
    <3>1. req'[r] = req[r]
      BY <2>5
    <3> QED
      BY <2>1, <2>5, <3>1, NearestSelf
  <2> QED
    BY <2>2, <2>3, <2>4, <2>5
<1>4. ReqStep
  <2>1. req' = [r \in Request |-> req'[r]]
    OBVIOUS
  <2>2. req' \in [Request -> RequestRecord]
    BY <1>3, <2>1
  <2> QED
    BY <1>3, <2>2 DEF ReqStep
<1>5. \A r \in Request : r \notin X \cup Y \cup Waiting(m) => req'[r] = req[r]
  OBVIOUS
<1>6. QueueSound'
  <2> SUFFICES ASSUME NEW n \in Inst, NEW j \in 1..Len(inst'[n].queue), inst'[n].queue[j] \in Request
               PROVE  /\ req'[inst'[n].queue[j]].pc \in Asking /\ req'[inst'[n].queue[j]].inst = n
                      /\ \A k \in 1..Len(inst'[n].queue) : inst'[n].queue[k] = inst'[n].queue[j] => k = j
    BY DEF QueueSound
  <2>1. CASE n = m
    <3>1. inst'[n] = i
      BY <2>1 DEF SessionIndInv, StateOK
    <3>2. j \in 1..0
      BY <3>1
    <3>3. FALSE
      BY <3>2
    <3> QED
      BY <3>3
  <2>2. CASE n # m
    <3>1. inst'[n] = inst[n]
      BY <2>2 DEF SessionIndInv, StateOK
    <3>2. /\ req[inst[n].queue[j]].pc \in Asking /\ req[inst[n].queue[j]].inst = n
          /\ \A k \in 1..Len(inst[n].queue) : inst[n].queue[k] = inst[n].queue[j] => k = j
      BY <3>1, QueueIs
    <3>3. inst[n].queue[j] \notin X \cup Y \cup Waiting(m)
      BY <1>2, <2>2, <3>1, <3>2 DEF Asking
    <3>4. req'[inst[n].queue[j]] = req[inst[n].queue[j]]
      BY <1>5, <3>1, <3>3
    <3> QED
      BY <3>1, <3>2, <3>4
  <2> QED
    BY <2>1, <2>2
<1>7. QueueFull'
  <2> SUFFICES ASSUME NEW r \in Request, req'[r].pc \in Asking
               PROVE  Stands(r, inst'[req'[r].inst].queue)
    BY DEF QueueFull
  <2>1. r \notin X \cup Y \cup Waiting(m) /\ req'[r] = req[r]
    BY <1>3, <1>5
  <2>2. req[r].inst \in Inst /\ Stands(r, inst[req[r].inst].queue)
    BY <2>1, AskerIs
  <2>3. req[r].inst # m
    BY <2>1, <2>2 DEF Waiting, Stands
  <2>4. inst'[req[r].inst] = inst[req[r].inst]
    BY <2>2, <2>3 DEF SessionIndInv, StateOK
  <2> QED
    BY <2>1, <2>2, <2>4
<1> QED
  BY <1>1, <1>4, <1>6, <1>7, MildStep DEF QueuesOK

\* ActorEnds, with whatever else it sets of the object.
LEMMA ActorEndsStep ==
    ASSUME SessionIndInv, FrameStep, UNCHANGED registry, NEW m \in Inst, inst[m].key \in Key,
           NEW i \in InstRecord, NEW j \in Losses(inst[m]), ActorEnds(m, i, j),
           i.key = inst[m].key, i.proc = inst[m].proc, i.sid = inst[m].sid, i.known = inst[m].known,
           i.inbox = inst[m].inbox, i.evKey = inst[m].evKey,
           i.ev \in {"timer", "close", "lost", "inbox"} => inst[m].ev \in {"timer", "close", "lost", "inbox"}
    PROVE  SessionIndInv'
<1> DEFINE b == Append(i.inbox, "end")
           v == IF i.ev = "close" /\ j # 0 /\ inst[m].queue[j] = "close" THEN "lost" ELSE i.ev
           e == [i EXCEPT !.actor = "gone", !.turn = FALSE, !.queue = <<>>, !.inbox = b, !.ev = v]
           X == {}
           Y == {r \in Request : LosesCaller(m, j, r)}
<1>1. inst' = [inst EXCEPT ![m] = e]
  BY DEF ActorEnds, Ended, InstRecord
<1>2. /\ req' = [r \in Request |-> IF r \in X THEN Idle
                                   ELSE IF r \in Y THEN [req[r] EXCEPT !.pc = "lost"]
                                   ELSE IF r \in Waiting(m) THEN WithError(req[r]) ELSE req[r]]
      /\ \A r \in X \cap Request : req[r].pc \notin {"sent", "ask"}
  BY DEF ActorEnds
<1>3. b \in Seq(Token) /\ (NoInit(i.inbox) => NoInit(b))
  BY InboxIs, InboxPut DEF Token
<1>4. \A r \in Y \cap Request : req[r].pc \in Closing /\ req[r].inst = m
  <2> SUFFICES ASSUME NEW r \in Request, LosesCaller(m, j, r)
               PROVE  req[r].pc \in Closing /\ req[r].inst = m
    OBVIOUS
  <2>1. CASE inst[m].queue[j] = r
    <3>1. j \in 1..Len(inst[m].queue)
      BY DEF Losses, LosesCaller, Reached
    <3> QED
      BY <2>1, <3>1, QueueIs DEF Asking, Closing
  <2>2. CASE inst[m].queue[j] # r
    BY <2>2 DEF LosesCaller, Closing
  <2> QED
    BY <2>1, <2>2
<1>5. v \in {"none", "timer", "close", "lost", "inbox", "done"}
  BY DEF InstRecord
<1>6. v \in {"timer", "close", "lost", "inbox"} => inst[m].ev \in {"timer", "close", "lost", "inbox"}
  OBVIOUS
<1> HIDE DEF b, v
<1>7. e \in InstRecord
  <2>1. <<>> \in Seq(Request \cup {"close"})
    OBVIOUS
  <2> QED
    BY <1>3, <1>5, <2>1 DEF InstRecord, Token
<1>8. /\ e.key = i.key /\ e.actor = "gone" /\ e.queue = <<>> /\ e.ev = v
      /\ e.evKey = i.evKey /\ e.proc = i.proc /\ e.sid = i.sid /\ e.known = i.known
      /\ e.inbox = b
  BY DEF InstRecord
<1> HIDE DEF e
<1>9. InstFine(inst[m], contested) /\ contested \subseteq contested'
  BY InstIs DEF FrameStep
<1>10. InstFine(e, contested')
  BY <1>3, <1>6, <1>8, <1>9, FineSet
<1>11. RegStep
  BY RegSame
<1> HIDE DEF X, Y
<1> QED
  BY <1>1, <1>2, <1>4, <1>7, <1>8, <1>10, <1>11, EndStep

LEMMA ActorClosesStep ==
    ASSUME SessionIndInv, NEW m \in Inst, ActorCloses(m)
    PROVE  SessionIndInv'
<1>1. FrameStep
  BY FrameAll DEF ActorCloses
<1>2. inst[m].key \in Key /\ inst[m] \in InstRecord
  BY InstIs, StillFine DEF ActorCloses, Unused
<1>3. ActorEnds(m, inst[m], 0) /\ UNCHANGED registry /\ 0 \in Losses(inst[m])
  BY DEF ActorCloses, Losses
<1> QED
  BY <1>1, <1>2, <1>3, ActorEndsStep

LEMMA ActorCrashesStep ==
    ASSUME SessionIndInv, NEW m \in Inst, ActorCrashes(m)
    PROVE  SessionIndInv'
<1>1. FrameStep
  BY DEF ActorCrashes, FrameStep, SessionIndInv, StateOK
<1>2. inst[m].key \in Key /\ inst[m] \in InstRecord
  BY InstIs, StillFine DEF ActorCrashes, Unused
<1> DEFINE i == [inst[m] EXCEPT !.status = "error"]
<1>3. i \in InstRecord
  BY <1>2 DEF InstRecord, Status
<1>4. /\ i.key = inst[m].key /\ i.ev = inst[m].ev
      /\ i.evKey = inst[m].evKey /\ i.proc = inst[m].proc /\ i.sid = inst[m].sid /\ i.known = inst[m].known
      /\ i.inbox = inst[m].inbox
  BY <1>2 DEF InstRecord
<1>5. (\E j \in Losses(inst[m]) : ActorEnds(m, i, j)) /\ UNCHANGED registry
  BY DEF ActorCrashes
<1> HIDE DEF i
<1>6. PICK j \in Losses(inst[m]) : ActorEnds(m, i, j)
  BY <1>5
<1> QED
  BY <1>1, <1>2, <1>3, <1>4, <1>5, <1>6, ActorEndsStep

LEMMA DisconnectTimesOutStep ==
    ASSUME SessionIndInv, NEW m \in Inst, DisconnectTimesOut(m)
    PROVE  SessionIndInv'
<1>1. FrameStep
  BY FrameAll DEF DisconnectTimesOut
<1>2. inst[m].key \in Key /\ inst[m] \in InstRecord /\ inst[m].ev = "close"
  BY InstIs, StillFine DEF DisconnectTimesOut, Unused
<1> DEFINE i == [inst[m] EXCEPT !.status = "interrupted", !.ev = "inbox"]
<1>3. i \in InstRecord
  BY <1>2 DEF InstRecord, Status
<1>4. /\ i.key = inst[m].key
      /\ i.evKey = inst[m].evKey /\ i.proc = inst[m].proc /\ i.sid = inst[m].sid /\ i.known = inst[m].known
      /\ i.inbox = inst[m].inbox
  BY <1>2 DEF InstRecord
<1>5. (\E j \in Losses(inst[m]) : ActorEnds(m, i, j)) /\ UNCHANGED registry
  BY DEF DisconnectTimesOut
<1> HIDE DEF i
<1>6. PICK j \in Losses(inst[m]) : ActorEnds(m, i, j)
  BY <1>5
<1> QED
  BY <1>1, <1>2, <1>3, <1>4, <1>5, <1>6, ActorEndsStep

LEMMA StartFailsStep ==
    ASSUME SessionIndInv, NEW r \in Request, StartFails(r)
    PROVE  SessionIndInv'
<1> DEFINE m == req[r].inst
           k == IF req[r].op = "open" THEN m ELSE req[r].sid
           i == [inst[m] EXCEPT !.actor = "gone", !.queue = <<>>]
<1>1. req[r].pc = "starting" /\ inst[m].actor = "new" /\ FrameStep /\ contested' = contested
  BY FrameAll DEF StartFails
<1>2. /\ m \in Inst /\ inst[m].key \in Key
      /\ req[r].op # "open" => req[r].sid \in Sid /\ (inst[m].key = req[r].sid \/ req[r].sid \in contested)
  BY <1>1, RequestIs, InstIs, RequestNull DEF RequestFine, OwnObject, InstRecord, Dialing
<1>3. k \in Key /\ (k \in Sid \ contested => inst[m].key = k)
  BY <1>2, SessionManagerAssumption DEF Key
<1>4. inst[m] \in InstRecord /\ InstFine(inst[m], contested)
  BY <1>2, InstIs
<1>5. inst' = [inst EXCEPT ![m] = i] /\ registry' = [registry EXCEPT ![k] = NULL]
  BY <1>4 DEF StartFails, InstRecord, SessionIndInv, StateOK
<1>6. req' = [q \in Request |-> IF q \in {r} THEN Idle
                                ELSE IF q \in {} THEN [req[q] EXCEPT !.pc = "lost"]
                                ELSE IF q \in Waiting(m) THEN WithError(req[q]) ELSE req[q]]
  BY DEF StartFails
<1> HIDE DEF k
<1>7. i \in InstRecord
  <2>1. <<>> \in Seq(Request \cup {"close"})
    OBVIOUS
  <2> QED
    BY <1>4, <2>1 DEF InstRecord
<1>8. /\ i.key = inst[m].key /\ i.actor = "gone" /\ i.queue = <<>> /\ i.ev = inst[m].ev
      /\ i.evKey = inst[m].evKey /\ i.proc = inst[m].proc /\ i.sid = inst[m].sid /\ i.known = inst[m].known
      /\ i.inbox = inst[m].inbox
  BY <1>4 DEF InstRecord
<1> HIDE DEF i, m
<1>9. InstFine(i, contested')
  BY <1>1, <1>2, <1>4, <1>8, FineSet
<1>10. RegStep
  <2>1. registry' = [x \in Key |-> IF x \in {k} THEN NULL ELSE registry[x]]
    BY <1>3, <1>5 DEF SessionIndInv, StateOK
  <2>2. ASSUME NEW s \in {k} \cap (Sid \ contested'), NEW n \in Inst, inst'[n].key = s
        PROVE  inst'[n].actor = "gone"
    <3>1. s \in Sid /\ s \notin contested /\ s = k /\ inst[m].key = s
      BY <1>1, <1>3, <2>2
    <3>2. CASE n = m
      BY <1>2, <1>5, <1>8, <3>2 DEF SessionIndInv, StateOK
    <3>3. CASE n # m
      <4>1. inst'[n] = inst[n]
        BY <1>5, <3>3 DEF SessionIndInv, StateOK
      <4>2. \A x \in Awake(s) : registry[s] = x
        BY <3>1 DEF SessionIndInv, ConnectOK
      <4>3. m \in Awake(s)
        BY <1>1, <1>2, <3>1 DEF Awake, m
      <4>4. n \notin Awake(s)
        BY <3>3, <4>2, <4>3
      <4> QED
        BY <2>2, <4>1, <4>4 DEF Awake
    <3> QED
      BY <3>2, <3>3
  <2> DEFINE K == {k}
  <2>3. registry' = [x \in Key |-> IF x \in K THEN NULL ELSE registry[x]]
    BY <2>1
  <2>4. \A s \in K \cap (Sid \ contested') : \A n \in Inst : inst'[n].key = s => inst'[n].actor = "gone"
    BY <2>2
  <2> HIDE DEF K
  <2> QED
    BY <2>3, <2>4, RegTaken
<1>11. /\ \A q \in {r} \cap Request : req[q].pc \notin {"sent", "ask"}
       /\ \A q \in {} \cap Request : req[q].pc \in Closing /\ req[q].inst = m
  BY <1>1
<1> DEFINE X == {r}
           Y == {}
<1>12. req' = [q \in Request |-> IF q \in X THEN Idle
                                 ELSE IF q \in Y THEN [req[q] EXCEPT !.pc = "lost"]
                                 ELSE IF q \in Waiting(m) THEN WithError(req[q]) ELSE req[q]]
  BY <1>6
<1>13. /\ \A q \in X \cap Request : req[q].pc \notin {"sent", "ask"}
       /\ \A q \in Y \cap Request : req[q].pc \in Closing /\ req[q].inst = m
  BY <1>11
<1> HIDE DEF X, Y
<1> QED
  BY <1>1, <1>2, <1>5, <1>7, <1>8, <1>9, <1>10, <1>12, <1>13, EndStep

LEMMA AdoptStep ==
    ASSUME SessionIndInv, NEW m \in Inst, Adopt(m)
    PROVE  SessionIndInv'
<1> DEFINE s == inst[m].sid
           k == inst[m].key
<1>1. /\ inst[m] \in InstRecord /\ InstFine(inst[m], contested) /\ k \in Key
      /\ inst[m].proc = "adopt" /\ s \in Sid /\ s \in contested /\ s \in Key /\ k \notin Sid \ contested
      /\ contested' = contested
  BY InstIs, StillFine DEF Adopt, Unused, InstFine, Key
<1>2. FrameStep
  <2>1. db' \in [Sid -> Status \cup {"absent"}]
    BY DbSet DEF Adopt, SessionIndInv, Status
  <2> QED
    BY <2>1, FrameSame DEF Adopt
<1>3. CASE registry[k] = NULL
  <2> DEFINE i == [inst[m] EXCEPT !.proc = "wait", !.known = TRUE]
  <2>1. inst' = [inst EXCEPT ![m] = i] /\ UNCHANGED registry /\ UNCHANGED req
    BY <1>1, <1>3 DEF Adopt, InstRecord, SessionIndInv, StateOK
  <2>2. i \in InstRecord
    BY <1>1 DEF InstRecord
  <2>3. /\ i.key = k /\ i.actor = inst[m].actor /\ i.queue = inst[m].queue /\ i.ev = inst[m].ev
        /\ i.evKey = inst[m].evKey /\ i.proc = "wait" /\ i.sid = s /\ i.known = TRUE
        /\ i.inbox = inst[m].inbox
    BY <1>1 DEF InstRecord
  <2> HIDE DEF i
  <2>4. InstFine(i, contested')
    BY <1>1, <2>3, FineSet
  <2> QED
    BY <1>2, <2>1, <2>2, <2>3, <2>4, InstOnly DEF QueueMild
<1>4. CASE registry[k] # NULL
  <2> DEFINE i == [inst[m] EXCEPT !.proc = "wait", !.known = TRUE, !.key = s]
  <2>1. /\ inst' = [inst EXCEPT ![m] = i] /\ UNCHANGED req
        /\ registry' = [registry EXCEPT ![k] = NULL, ![s] = m]
    BY <1>1, <1>4 DEF Adopt, InstRecord, SessionIndInv, StateOK
  <2>2. i \in InstRecord
    BY <1>1 DEF InstRecord
  <2>3. /\ i.key = s /\ i.actor = inst[m].actor /\ i.queue = inst[m].queue /\ i.ev = inst[m].ev
        /\ i.evKey = inst[m].evKey /\ i.proc = "wait" /\ i.sid = s /\ i.known = TRUE
        /\ i.inbox = inst[m].inbox
    BY <1>1 DEF InstRecord
  <2> HIDE DEF i
  <2>4. InstFine(i, contested')
    BY <1>1, <2>3, RequestNull DEF InstFine
  <2>5. inst \in [Inst -> InstRecord] /\ registry \in [Key -> Inst \cup {NULL}] /\ req \in [Request -> RequestRecord]
    BY DEF SessionIndInv, StateOK
  <2>6. \A n \in Inst : inst'[n] = IF n = m THEN i ELSE inst[n]
    BY <2>1, <2>5
  <2>7. \A x \in Key : registry'[x] = IF x = s THEN m ELSE IF x = k THEN NULL ELSE registry[x]
    BY <1>1, <2>1, <2>5
  <2> HIDE DEF s, k
  <2>8. FrameTyped
    BY <1>2 DEF FrameStep, FrameTyped
  <2>9. ReqTyped
    <3>1. ASSUME NEW n \in Request
          PROVE  RequestFine(req[n]) /\ OwnObject(req[n], inst', contested')
      <4>1. OwnObject(req[n], inst, contested) /\ RequestFine(req[n]) /\ req[n].inst \in Inst \cup {NULL}
        BY RequestIs DEF RequestRecord
      <4>2. CASE req[n].inst = m
        <5>1. inst'[req[n].inst].key = s /\ s # NULL /\ s \in contested'
          BY <1>1, <2>3, <2>6, <4>2, RequestNull
        <5>2. req[n].op # "open" /\ req[n].pc = "starting" => req[n].sid \in contested'
          <6>1. req[n].op # "open" /\ req[n].pc = "starting" => req[n].sid \in Sid /\ (k = req[n].sid \/ req[n].sid \in contested)
            BY <4>1, <4>2 DEF OwnObject, RequestFine, Dialing, k
          <6> QED
            BY <1>1, <6>1
        <5> QED
          BY <4>1, <5>1, <5>2 DEF OwnObject
      <4>3. CASE req[n].inst # m
        <5>1. req[n].inst \in Inst => inst'[req[n].inst] = inst[req[n].inst]
          BY <2>6, <4>3
        <5>2. req[n].pc \in {"starting", "sent", "failed", "sdkid", "cleanup"} => req[n].inst \in Inst
          BY <4>1 DEF RequestFine
        <5> QED
          BY <1>1, <4>1, <5>1, <5>2 DEF OwnObject
      <4> QED
        BY <4>2, <4>3
    <3> QED
      BY <2>1, <2>5, <3>1 DEF ReqTyped
  <2>10. inst' \in [Inst -> InstRecord] /\ \A n \in Inst : InstFine(inst'[n], contested')
    <3>1. inst' \in [Inst -> InstRecord]
      BY <2>1, <2>2, <2>5
    <3>2. \A n \in Inst : InstFine(inst[n], contested')
      BY <1>1, InstIs
    <3> QED
      BY <2>4, <2>6, <3>1, <3>2
  <2>11. registry' \in [Key -> Inst \cup {NULL}]
    BY <2>1, <2>5
  <2>12. SessionIdentity'
    <3> SUFFICES ASSUME NEW x \in Key, registry'[x] # NULL
                 PROVE  inst'[registry'[x]].key = x
      BY DEF SessionIdentity
    <3>1. CASE x = s
      BY <2>3, <2>6, <2>7, <3>1
    <3>2. CASE x # s
      <4>1. x # k /\ registry'[x] = registry[x]
        BY <2>7, <3>2
      <4>2. registry[x] \in Inst /\ inst[registry[x]].key = x
        BY <4>1, RegisteredIs
      <4>3. registry[x] # m
        BY <4>1, <4>2 DEF k
      <4> QED
        BY <2>6, <4>1, <4>2, <4>3
    <3> QED
      BY <3>1, <3>2
  <2>13. QueuesOK'
    <3>1. \A n \in Inst : QueueMild(inst[n].queue, inst'[n].queue)
      BY <2>3, <2>6 DEF QueueMild
    <3> QED
      BY <2>1, <3>1, QueuesKept DEF AskSame
  <2>14. ConnectOK'
    <3> SUFFICES ASSUME NEW t \in Sid, t \notin contested
                 PROVE  /\ \A n \in Connecting(t)' : req'[n].op \in {"send", "stream"} /\ req'[n].lock = lockOf'[t] /\ lockOf'[t] # 0
                        /\ \A n, p \in Connecting(t)' : req'[n].pc # "lock" /\ req'[p].pc # "lock" => n = p
                        /\ \A n \in Connecting(t)' : req'[n].pc \in {"capacity", "evicting", "options"} => Awake(t)' = {}
                        /\ \A x \in Awake(t)' : registry'[t] = x
      BY <1>1 DEF ConnectOK
    <3>1. /\ \A n \in Connecting(t) : req[n].op \in {"send", "stream"} /\ req[n].lock = lockOf[t] /\ lockOf[t] # 0
          /\ \A n, p \in Connecting(t) : req[n].pc # "lock" /\ req[p].pc # "lock" => n = p
          /\ \A n \in Connecting(t) : req[n].pc \in {"capacity", "evicting", "options"} => Awake(t) = {}
          /\ \A x \in Awake(t) : registry[t] = x
      BY DEF SessionIndInv, ConnectOK
    <3>2. t # s /\ t # k /\ t \in Key
      BY <1>1 DEF Key
    <3>3. Awake(t)' = Awake(t)
      <4>1. \A n \in Inst : (inst'[n].key = t /\ inst'[n].actor # "gone") <=> (inst[n].key = t /\ inst[n].actor # "gone")
        BY <2>3, <2>6, <3>2 DEF k
      <4> QED
        BY <4>1 DEF Awake
    <3>4. Connecting(t)' = Connecting(t)
      BY <2>1 DEF Connecting
    <3>5. registry'[t] = registry[t] /\ lockOf'[t] = lockOf[t]
      BY <2>7, <3>2 DEF Adopt
    <3> QED
      BY <2>1, <3>1, <3>3, <3>4, <3>5
  <2> QED
    BY <2>8, <2>9, <2>10, <2>11, <2>12, <2>13, <2>14, NearStep
<1> QED
  BY <1>3, <1>4

-----------------------------------------------------------------------------
(* The invariant *)

LEMMA SessionInit == Init => SessionIndInv
<1> SUFFICES ASSUME Init PROVE SessionIndInv
  OBVIOUS
<1>1. Cardinality(Request) \in Nat
  BY SessionManagerAssumption, FS_CardinalityType
<1>2. Unused \in InstRecord
  <2>1. <<>> \in Seq(Request \cup {"close"}) /\ <<>> \in Seq({"init", "end"} \cup Status)
    OBVIOUS
  <2> QED
    BY <2>1 DEF Unused, InstRecord, Status
<1>3. Idle \in RequestRecord
  BY <1>1 DEF Idle, RequestRecord, Pc, Status
<1>4. StateOK
  BY <1>1, <1>2, <1>3 DEF Init, StateOK, Status
<1>5. \A r \in Request : req[r] = Idle
  BY DEF Init
<1>6. \A m \in Inst : inst[m] = Unused
  BY DEF Init
<1>7. \A r \in Request : RequestFine(req[r]) /\ OwnObject(req[r], inst, contested)
  BY <1>5, IdleFine
<1>8. \A m \in Inst : InstFine(inst[m], contested)
  <2>1. InstFine(Unused, contested)
    BY RequestNull DEF Unused, InstFine, Key
  <2> QED
    BY <1>6, <2>1
<1>9. SessionIdentity
  BY DEF Init, SessionIdentity
<1>10. QueuesOK
  <2>1. \A m \in Inst : 1..Len(inst[m].queue) = {}
    BY <1>6 DEF Unused
  <2>2. \A r \in Request : req[r].pc \notin Asking
    BY <1>5 DEF Idle, Asking
  <2> QED
    BY <2>1, <2>2 DEF QueuesOK, QueueSound, QueueFull
<1>11. ConnectOK
  <2>1. \A s \in Sid : Connecting(s) = {} /\ Awake(s) = {}
    <3>1. \A r \in Request : req[r].pc = "idle"
      BY <1>5 DEF Idle
    <3>2. \A m \in Inst : inst[m].key = NULL
      BY <1>6 DEF Unused
    <3> QED
      BY <3>1, <3>2, RequestNull DEF Connecting, Awake, Critical
  <2> QED
    BY <2>1 DEF ConnectOK
<1> QED
  BY <1>4, <1>7, <1>8, <1>9, <1>10, <1>11 DEF SessionIndInv

LEMMA SessionStutter ==
    ASSUME SessionIndInv, UNCHANGED vars
    PROVE  SessionIndInv'
<1>1. FrameStep /\ RegStep /\ InstStep
  BY FrameAll, RegSame, InstSame DEF vars
<1>2. ReqStep /\ QueuesOK'
  BY <1>1, ReqSame, QueuesKept DEF vars, QueueMild, AskSame
<1> QED
  BY <1>1, <1>2, MildStep

LEMMA SessionStep ==
    ASSUME SessionIndInv, [Next]_vars
    PROVE  SessionIndInv'
<1>1. CASE UNCHANGED vars
  BY <1>1, SessionStutter
<1>2. ASSUME NEW r \in Request, RequestStep(r)
      PROVE  SessionIndInv'
  BY <1>2, AcquireLockStep, EnsureCapacityStep, CapacityFreedStep, RegisterStep, StartedStep, CheckStep, MarkStep,
     SendFailedStep, UndoStep, GotSdkIdStep, NoSdkIdStep, CleanedUpStep, InterruptedStep, InterruptStaleStep, DeleteRowStep
     DEF RequestStep
<1>3. ASSUME NEW r \in Request, NewRequest(r)
      PROVE  SessionIndInv'
  BY <1>3, ArriveNewStep, ArriveStep, InterruptStep, DeleteStep DEF NewRequest
<1>4. ASSUME NEW r \in Request, StartFails(r)
      PROVE  SessionIndInv'
  BY <1>4, StartFailsStep
<1>5. ASSUME NEW m \in Inst, ActorStep(m)
      PROVE  SessionIndInv'
  BY <1>5, ActorQueryStep, ActorInterruptStep, TurnEndsStep, ActorClosesStep DEF ActorStep
<1>6. ASSUME NEW m \in Inst, InboxStep(m)
      PROVE  SessionIndInv'
  BY <1>6, CreateStep, AdoptStep, FinalizeStep, FinalizedStep, InboxEndStep DEF InboxStep
<1>7. ASSUME NEW m \in Inst, EvictionStep(m)
      PROVE  SessionIndInv'
  BY <1>7, TimerCancelledStep, DisconnectedStep, EvictionTimesOutStep, EvictedStep DEF EvictionStep
<1>8. ASSUME NEW m \in Inst, ActorCrashes(m) \/ DisconnectTimesOut(m) \/ TimerFires(m) \/ Patrol(m)
      PROVE  SessionIndInv'
  BY <1>8, ActorCrashesStep, DisconnectTimesOutStep, TimerFiresStep, PatrolStep
<1>9. ASSUME NEW s \in Sid, PersistError(s)
      PROVE  SessionIndInv'
  BY <1>9, PersistErrorStep
<1> QED
  BY <1>1, <1>2, <1>3, <1>4, <1>5, <1>6, <1>7, <1>8, <1>9 DEF Next

LEMMA IndInvIsEnough == SessionIndInv => SessionInv
<1> SUFFICES ASSUME SessionIndInv PROVE SessionInv
  OBVIOUS
<1>1. SessionTypeOK
  <2>1. ASSUME NEW r \in Request
        PROVE  /\ req[r].pc \in Pc /\ req[r].sid \in Sid \cup {NULL}
               /\ req[r].inst \in Inst \cup {NULL}
               /\ req[r].lock \in 0..(Cardinality(Request) + 1)
    BY RequestIs DEF RequestRecord
  <2>2. ASSUME NEW m \in Inst
        PROVE  /\ inst[m].key \in Key \cup {NULL} /\ inst[m].sid \in Sid \cup {NULL}
               /\ inst[m].status \in Status \cup {"closed"}
               /\ inst[m].actor \in {"new", "live", "gone"}
               /\ inst[m].turn \in BOOLEAN /\ inst[m].timer \in BOOLEAN /\ inst[m].known \in BOOLEAN
               /\ \A j \in 1..Len(inst[m].queue) : inst[m].queue[j] \in Request \cup {"close"}
               /\ inst[m].proc \in Status \cup {"off", "wait", "adopt", "done"}
               /\ inst[m].ev \in {"none", "timer", "close", "lost", "inbox", "done"}
    <3>1. \A j \in 1..Len(inst[m].queue) : inst[m].queue[j] \in Request \cup {"close"}
      BY QueueIs
    <3> QED
      BY <3>1, InstIs DEF InstRecord
  <2> QED
    <3>1. disconnecting \subseteq Key
      BY DEF SessionIndInv, StateOK
    <3>2. /\ db \in [Sid -> Status \cup {"absent"}]
          /\ registry \in [Key -> Inst \cup {NULL}]
          /\ persist \subseteq Sid /\ contested \subseteq Key
          /\ lockOf \in [Sid -> 0..(Cardinality(Request) + 1)]
      BY DEF SessionIndInv, StateOK
    <3> QED
      BY <2>1, <2>2, <3>1, <3>2, Zenon DEF SessionTypeOK
<1>2. OneActorUncontested
  <2> SUFFICES ASSUME NEW s \in Sid, s \notin contested
               PROVE  Cardinality(Awake(s)) <= 1
    BY DEF OneActorUncontested
  <2>1. \A m \in Awake(s) : registry[s] = m
    BY DEF SessionIndInv, ConnectOK
  <2>2. Awake(s) = {} \/ Awake(s) = {registry[s]}
    BY <2>1
  <2>3. Cardinality(Awake(s)) = 0 \/ Cardinality(Awake(s)) = 1
    <3>1. CASE Awake(s) = {}
      BY <3>1, FS_EmptySet
    <3>2. CASE Awake(s) = {registry[s]}
      BY <3>2, FS_Singleton
    <3> QED
      BY <2>2, <3>1, <3>2
  <2> QED
    BY <2>3
<1>3. NoQueryOnDeadActor
  <2>1. \A m \in Inst : inst[m].actor = "gone" => inst[m].queue = <<>>
    BY DEF SessionIndInv, InstFine
  <2>2. \A r \in Request : req[r].pc \in {"sent", "ask"} =>
            \E j \in 1..Len(inst[req[r].inst].queue) : inst[req[r].inst].queue[j] = r
    BY AskerIs DEF Asking, Stands
  <2> QED
    BY <2>1, <2>2 DEF NoQueryOnDeadActor
<1> QED
  BY <1>1, <1>2, <1>3 DEF SessionInv, SessionIndInv

\* The sessions are in order, whatever requests, evictions, timers and failures
\* meet: an id in the registry leads to its own object, an actor that has ended
\* has no query left in its queue, and an id that was never evicted, deleted or
\* being created has at most one actor.
THEOREM SessionsHold == Spec => []SessionInv
<1> QED
  BY SessionInit, SessionStep, IndInvIsEnough, PTL DEF Spec

=============================================================================
