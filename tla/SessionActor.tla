---------------------------- MODULE SessionActor ----------------------------
(***************************************************************************)
(* The actor of one agent session (server/agent_runtime/session_actor.py): *)
(* one asyncio task that owns the SDK client, takes commands from a queue, *)
(* and drains the message stream of the running query.  Its callers        *)
(* (ManagedSession) wait, without a timeout, for the events `sent` and     *)
(* `done` of the commands they enqueued.                                   *)
(*                                                                         *)
(* While a query is driven two helper tasks run: msg_task reads the next   *)
(* message, cmd_task takes the next command.  A command that cmd_task has  *)
(* taken is in no queue until the driver looks at it.                      *)
(***************************************************************************)
EXTENDS Integers, Sequences

CONSTANTS QueryCmd, InterruptCmd, DisconnectCmd,  \* the commands, by type
          NoCmd,
          MaxMessages,  \* bound on the messages of the SDK
          MaxSdkFaults  \* bound on SDK exceptions and cancellations

Cmd == QueryCmd \cup InterruptCmd \cup DisconnectCmd

ASSUME SessionActorAssumption ==
    /\ NoCmd \notin Cmd
    /\ QueryCmd \cap InterruptCmd = {} /\ QueryCmd \cap DisconnectCmd = {}
    /\ InterruptCmd \cap DisconnectCmd = {}
    /\ MaxMessages \in Nat
    /\ MaxSdkFaults \in Nat

VARIABLES phase,     \* the await at which the actor task stands
          queue,     \* _cmd_queue
          cur,       \* query_cmd: the query being sent or driven
          msg,       \* msg_task: waiting, or its result
          got,       \* the result of cmd_task; NoCmd while it waits
          pending,   \* pending_query
          held,      \* next_cmd across `await client.interrupt()`
          reply,     \* per command: what its caller has been told
          messages,  \* messages the SDK has produced
          sdkFaults

actorVars == <<phase, queue, cur, msg, got, pending, held, reply, messages, sdkFaults>>

Phase == {"starting", "idle", "querying", "driving", "interrupting",
          "disconnecting", "closing", "dead"}
Driven == {"driving", "interrupting", "disconnecting"}
Alive == {"starting", "idle", "querying"} \cup Driven

ActorInit ==
    /\ phase = "starting"
    /\ queue = <<>>
    /\ cur = NoCmd /\ got = NoCmd /\ pending = NoCmd /\ held = NoCmd
    /\ msg = "waiting"
    /\ reply = [c \in Cmd |-> "new"]
    /\ messages = 0 /\ sdkFaults = 0

-----------------------------------------------------------------------------
(* Helpers *)

Queued == {queue[i] : i \in 1..Len(queue)}

\* SessionCommand.complete: without an error on the first set, with one on the
\* second.
Complete(ok, err) ==
    reply' = [c \in Cmd |-> IF c \in ok THEN "done" ELSE IF c \in err THEN "failed" ELSE reply[c]]

\* The driver is left: its helper tasks are cancelled, a result of cmd_task
\* that nobody has looked at is dropped with it.
LeaveDriver == msg' = "waiting" /\ got' = NoCmd /\ pending' = NoCmd /\ held' = NoCmd

\* One turn of _command_loop with command c, after `ok` and `err` have been
\* answered.
Handle(c, ok, err) ==
    \/ /\ c \in QueryCmd
       /\ phase' = "querying" /\ cur' = c
       /\ Complete(ok, err)
    \/ /\ c \in InterruptCmd
       /\ phase' = "idle" /\ cur' = NoCmd
       /\ Complete(ok \cup {c}, err)
    \/ /\ c \in DisconnectCmd
       /\ phase' = "closing" /\ cur' = NoCmd
       /\ Complete(ok \cup {c}, err)

\* An exception leaves the driver and the command loop: the query is answered
\* with it, the pending query with _ActorClosed, and the context manager of the
\* client is left.
Collapse(ok) ==
    /\ phase' = "closing" /\ cur' = NoCmd
    /\ LeaveDriver
    /\ Complete(ok, {cur, pending} \ {NoCmd})
    /\ UNCHANGED <<queue, messages>>

Fault == sdkFaults < MaxSdkFaults /\ sdkFaults' = sdkFaults + 1

-----------------------------------------------------------------------------
(* The callers *)

\* enqueue.  send_interrupt lets one interrupt wait at a time.
Enqueue(c) ==
    /\ reply[c] = "new"
    /\ c \in InterruptCmd => \A i \in InterruptCmd : reply[i] # "open"
    /\ IF phase = "dead"
         THEN Complete({}, {c}) /\ queue' = queue
         ELSE reply' = [reply EXCEPT ![c] = "open"] /\ queue' = Append(queue, c)
    /\ UNCHANGED <<phase, cur, msg, got, pending, held, messages, sdkFaults>>

\* _evict_one gives up waiting for its disconnect and cancels the task; the
\* CancelledError is thrown in at the await where the actor stands.
Cancel ==
    /\ \E d \in DisconnectCmd : reply[d] # "new"
    /\ phase \in Alive \ {"starting"}
    /\ Fault
    /\ Collapse(IF phase = "interrupting" THEN {held} ELSE {})

-----------------------------------------------------------------------------
(* The task *)

Connect ==
    /\ phase = "starting"
    /\ phase' = "idle"
    /\ UNCHANGED <<queue, cur, msg, got, pending, held, reply, messages, sdkFaults>>

\* _drain_pending_commands, at the end of _run.
Drain ==
    /\ phase' = "dead"
    /\ Complete({}, Queued)
    /\ queue' = <<>>
    /\ UNCHANGED <<cur, msg, got, pending, held, messages>>

ConnectFails == phase = "starting" /\ Fault /\ Drain
Close == phase = "closing" /\ Drain /\ UNCHANGED sdkFaults

\* _command_loop, waiting for a command.
Take ==
    /\ phase = "idle" /\ queue # <<>>
    /\ Handle(Head(queue), {}, {})
    /\ queue' = Tail(queue)
    /\ UNCHANGED <<msg, got, pending, held, messages, sdkFaults>>

\* `await client.query()` returns: the caller's `sent` is set.
Sent ==
    /\ phase = "querying"
    /\ phase' = "driving"
    /\ reply' = [reply EXCEPT ![cur] = "sent"]
    /\ UNCHANGED <<queue, cur, msg, got, pending, held, messages, sdkFaults>>

QueryFails == phase = "querying" /\ Fault /\ Collapse({})

\* cmd_task takes the next command.
TakeAside ==
    /\ phase = "driving" /\ got = NoCmd /\ queue # <<>>
    /\ got' = Head(queue)
    /\ queue' = Tail(queue)
    /\ UNCHANGED <<phase, cur, msg, pending, held, reply, messages, sdkFaults>>

\* The SDK: the next message, the end of the response, or an exception.
Receive ==
    /\ phase \in Driven /\ msg = "waiting"
    /\ \/ messages < MaxMessages /\ messages' = messages + 1 /\ msg' = "message" /\ UNCHANGED sdkFaults
       \/ msg' = "end" /\ UNCHANGED <<messages, sdkFaults>>
       \/ msg' = "error" /\ Fault /\ UNCHANGED messages
    /\ UNCHANGED <<phase, queue, cur, got, pending, held, reply>>

\* The driver wakes up with one helper done, or both.
DriveMessage ==
    /\ phase = "driving" /\ msg = "message" /\ got = NoCmd
    /\ msg' = "waiting"
    /\ UNCHANGED <<phase, queue, cur, got, pending, held, reply, messages, sdkFaults>>

\* mutant: a command taken aside is forgotten when a pending query is started
DriveEndForgetful ==
    /\ phase = "driving" /\ msg = "end"
    /\ \/ /\ pending # NoCmd
          /\ UNCHANGED queue
          /\ Handle(pending, {cur}, {})
       \/ /\ pending = NoCmd /\ got # NoCmd
          /\ Handle(got, {cur}, {})
          /\ UNCHANGED queue
       \/ /\ pending = NoCmd /\ got = NoCmd
          /\ phase' = "idle" /\ cur' = NoCmd
          /\ Complete({cur}, {})
          /\ UNCHANGED queue
    /\ LeaveDriver
    /\ UNCHANGED <<messages, sdkFaults>>

\* The response is complete: the pending query goes first, and a command that
\* was taken aside goes back to the end of the queue.
DriveEnd ==
    /\ phase = "driving" /\ msg = "end"
    /\ \/ /\ pending # NoCmd
          /\ queue' = IF got = NoCmd THEN queue ELSE Append(queue, got)
          /\ Handle(pending, {cur}, {})
       \/ /\ pending = NoCmd /\ got # NoCmd
          /\ Handle(got, {cur}, {})
          /\ UNCHANGED queue
       \/ /\ pending = NoCmd /\ got = NoCmd
          /\ phase' = "idle" /\ cur' = NoCmd
          /\ Complete({cur}, {})
          /\ UNCHANGED queue
    /\ LeaveDriver
    /\ UNCHANGED <<messages, sdkFaults>>

DriveError ==
    /\ phase = "driving" /\ msg = "error"
    /\ Collapse({})
    /\ UNCHANGED sdkFaults

\* mutant: an interrupt is set aside like a query
DriveCommandAside ==
    /\ phase = "driving" /\ msg \in {"waiting", "message"} /\ got # NoCmd
    /\ msg' = "waiting" /\ got' = NoCmd
    /\ \/ /\ got \in DisconnectCmd
          /\ phase' = "disconnecting" /\ held' = got
          /\ UNCHANGED <<pending, reply>>
       \/ /\ got \notin DisconnectCmd /\ pending = NoCmd
          /\ pending' = got
          /\ UNCHANGED <<phase, held, reply>>
       \/ /\ got \notin DisconnectCmd /\ pending # NoCmd
          /\ Complete({}, {got})
          /\ UNCHANGED <<phase, held, pending>>
    /\ UNCHANGED <<queue, cur, messages, sdkFaults>>

\* A message that is ready as well is delivered first.
DriveCommand ==
    /\ phase = "driving" /\ msg \in {"waiting", "message"} /\ got # NoCmd
    /\ msg' = "waiting" /\ got' = NoCmd
    /\ \/ /\ got \in InterruptCmd \cup DisconnectCmd
          /\ phase' = IF got \in InterruptCmd THEN "interrupting" ELSE "disconnecting"
          /\ held' = got
          /\ UNCHANGED <<pending, reply>>
       \/ /\ got \in QueryCmd /\ pending = NoCmd
          /\ pending' = got
          /\ UNCHANGED <<phase, held, reply>>
       \/ /\ got \in QueryCmd /\ pending # NoCmd
          /\ Complete({}, {got})
          /\ UNCHANGED <<phase, held, pending>>
    /\ UNCHANGED <<queue, cur, messages, sdkFaults>>

\* `await client.interrupt()` returns, for an interrupt ...
InterruptReturns ==
    /\ phase = "interrupting"
    /\ phase' = "driving" /\ held' = NoCmd
    /\ Complete({held}, {})
    /\ UNCHANGED <<queue, cur, msg, got, pending, messages, sdkFaults>>

InterruptFails ==
    /\ phase = "interrupting"
    /\ Fault
    /\ phase' = "closing" /\ cur' = NoCmd
    /\ LeaveDriver
    /\ Complete({}, {cur, pending, held} \ {NoCmd})
    /\ UNCHANGED <<queue, messages>>

\* mutant: the query is left without an answer
DisconnectedSilently ==
    /\ phase = "disconnecting"
    /\ Handle(held, {}, {pending} \ {NoCmd})
    /\ LeaveDriver
    /\ UNCHANGED <<queue, messages, sdkFaults>>

\* ... and for a disconnect, which goes back to the command loop.
DisconnectReturns ==
    /\ phase = "disconnecting"
    /\ Handle(held, {cur}, {pending} \ {NoCmd})
    /\ LeaveDriver
    /\ UNCHANGED <<queue, messages, sdkFaults>>

DisconnectFails == phase = "disconnecting" /\ Fault /\ Collapse({})

-----------------------------------------------------------------------------
Actor ==
    \/ Connect \/ Close \/ Take \/ Sent \/ TakeAside \/ Receive
    \/ DriveMessage \/ DriveEnd \/ DriveError \/ DriveCommand
    \/ InterruptReturns \/ DisconnectReturns

Faulty == ConnectFails \/ QueryFails \/ InterruptFails \/ DisconnectFails \/ Cancel

ActorNext == Actor \/ Faulty \/ \E c \in Cmd : Enqueue(c)

ActorSpec == ActorInit /\ [][ActorNext]_actorVars

\* The event loop runs the actor and its helpers, and the SDK answers every
\* call and ends every response.  Nothing forces a caller or a fault.
ActorFairSpec ==
    /\ ActorSpec
    /\ WF_actorVars(Actor)
    /\ WF_actorVars(TakeAside)
    /\ WF_actorVars(Receive)

-----------------------------------------------------------------------------
(* Properties *)

\* The values of the actor's variables.
ActorTypeOK ==
    /\ phase \in Phase
    /\ queue \in Seq(Cmd)
    /\ cur \in QueryCmd \cup {NoCmd}
    /\ msg \in {"waiting", "message", "end", "error"}
    /\ got \in Cmd \cup {NoCmd}
    /\ pending \in QueryCmd \cup {NoCmd}
    /\ held \in InterruptCmd \cup DisconnectCmd \cup {NoCmd}
    /\ reply \in [Cmd -> {"new", "open", "sent", "done", "failed"}]
    /\ messages \in Nat /\ sdkFaults \in Nat

\* As long as the actor lives, a command that has no answer yet is in exactly
\* one of the places where the actor will find it: the double wait of the
\* driver neither drops nor duplicates it.
Places(c) == {i \in 1..Len(queue) : queue[i] = c}
                 \cup (IF got = c THEN {-1} ELSE {})
                 \cup (IF pending = c THEN {-2} ELSE {})
                 \cup (IF held = c THEN {-3} ELSE {})
                 \cup (IF cur = c THEN {-4} ELSE {})
OpenIsHeld ==
    phase \in Alive =>
        \A c \in Cmd : IF reply[c] \in {"open", "sent"}
                         THEN \E p \in Places(c) : Places(c) = {p}
                         ELSE Places(c) = {}

\* The SDK client works on one query at a time, and when the actor is gone no
\* query it has accepted is left without its end.
OneQueryAtATime ==
    \A c \in QueryCmd : reply[c] = "sent" => c = cur /\ phase \in Driven

\* send_query, send_interrupt and send_disconnect are answered in whatever order
\* they come, unless the actor itself ends: the driver starves nobody.
EveryoneAnswered ==
    \A c \in Cmd : reply[c] = "open" ~> reply[c] # "open" \/ phase \notin Alive

\* "done always comes" (_drive_query): a query whose prompt was accepted ends,
\* also when it is interrupted, disconnected, or the SDK fails.
QueriesEnd == \A c \in QueryCmd : reply[c] = "sent" ~> reply[c] \in {"done", "failed"}

\* Whoever gave a command is answered while the actor lives, and a query that
\* was begun is ended.
CommandsSettle == QueriesEnd /\ EveryoneAnswered

-----------------------------------------------------------------------------
(* A property the repository states and the code does not have *)

\* _run: at its end, normal or not, the actor answers the commands left over,
\* so that no caller hangs.  (The disconnect of an eviction has a timeout.)
NoCallerHangs ==
    phase = "dead" => \A c \in QueryCmd \cup InterruptCmd : reply[c] \notin {"open", "sent"}

=============================================================================
