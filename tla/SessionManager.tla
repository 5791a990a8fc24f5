--------------------------- MODULE SessionManager ---------------------------
(***************************************************************************)
(* The registry of agent sessions (server/agent_runtime/session_manager.py *)
(* and the entry points of service.py): requests connect, send to, open,   *)
(* interrupt and delete sessions; each resident session has an actor, an   *)
(* inbox task and a cleanup timer; full capacity, the timer and the patrol *)
(* evict sessions that are not running.                                    *)
(*                                                                         *)
(* One step is what a coroutine does between two awaits, together with the *)
(* effect of the database call it waited for.  The actor (SessionActor) is *)
(* reduced to what the manager sees of it: a queue of queries, interrupts  *)
(* and disconnects, a turn that ends with a result, an end with or without *)
(* an exception, and the one command that may be lost with it.             *)
(***************************************************************************)
EXTENDS Integers, Sequences, FiniteSets, SequencesExt

CONSTANTS Sid,         \* SDK session ids
          Known,       \* those that have a row at the start
          Inst,        \* ManagedSession objects
          Request,     \* concurrent API requests
          NULL,
          Capacity,    \* agent_max_concurrent_sessions
          MaxOps,      \* bound on the requests made
          MaxFaults    \* bound on exceptions and timeouts of an SDK client

ASSUME SessionManagerAssumption ==
    /\ Known \subseteq Sid
    /\ IsFiniteSet(Inst) /\ IsFiniteSet(Request)
    /\ MaxOps <= Cardinality(Inst)   \* an object for every operation that needs one
    /\ NULL \notin Sid \cup Inst \cup Request
    /\ Sid \cap Inst = {} /\ "close" \notin Request
    /\ Capacity \in Nat \ {0}
    /\ MaxOps \in Nat /\ MaxFaults \in Nat

VARIABLES db,             \* status of the row of each session
          registry,       \* self.sessions, by SDK id or by temporary id
          disconnecting,  \* self._disconnecting
          lockOf,         \* self._connect_locks: the lock object of an id
          inst,           \* the ManagedSession objects
          req,            \* the requests
          persist,        \* _persist_actor_error_status tasks not yet run
          contested,      \* history: ids evicted, deleted or being created
          ops, faults

vars == <<db, registry, disconnecting, lockOf, inst, req, persist, contested,
          ops, faults>>
counters == <<ops, faults>>

Key == Sid \cup Inst     \* an object stands for its own temporary id
Status == {"idle", "running", "completed", "error", "interrupted"}
Evictable == {"idle", "interrupted", "error", "completed"}

Unused == [key |-> NULL, sid |-> NULL, known |-> FALSE, actor |-> "new", queue |-> <<>>,
           turn |-> FALSE, status |-> "idle", intr |-> FALSE, inbox |-> <<>>, proc |-> "off",
           timer |-> FALSE, ev |-> "none", evKey |-> NULL]
Idle == [op |-> "none", pc |-> "idle", sid |-> NULL, inst |-> NULL, lock |-> 0, meta |-> "idle"]

\* The process starts: only rows have survived, and startup has set those
\* left running to interrupted.  (A crash ends a behaviour; what follows it is
\* another one.)
Init ==
    /\ db = [s \in Sid |-> IF s \in Known THEN "interrupted" ELSE "absent"]
    /\ registry = [k \in Key |-> NULL]
    /\ disconnecting = {}
    /\ lockOf = [s \in Sid |-> 0]
    /\ inst = [m \in Inst |-> Unused]
    /\ req = [r \in Request |-> Idle]
    /\ persist = {} /\ contested = {}
    /\ ops = 0 /\ faults = 0

-----------------------------------------------------------------------------
(* Helpers *)

\* update_status: an UPDATE, so a row that is gone stays gone.
SetDb(k, st) == db' = IF k \in Sid /\ db[k] # "absent" THEN [db EXCEPT ![k] = st] ELSE db

Goto(r, pc) == req' = [req EXCEPT ![r].pc = pc]
Return(r) == req' = [req EXCEPT ![r] = Idle]

\* _live_cached_session: an object being disconnected, or one whose actor has
\* exited, is not used again.
Resident(s) == registry[s] # NULL /\ s \notin disconnecting
Live(s) == Resident(s) /\ inst[registry[s]].actor # "gone"
Dropped(s) == Resident(s) /\ inst[registry[s]].actor = "gone"
RegistryAfterLookup(s) == IF Dropped(s) THEN [registry EXCEPT ![s] = NULL] ELSE registry
InstAfterLookup(s) == IF Dropped(s) THEN [inst EXCEPT ![registry[s]].timer = FALSE] ELSE inst

Critical == {"capacity", "evicting", "options", "starting"}
Holders(s, g) == {r \in Request : req[r].sid = s /\ req[r].lock = g /\ req[r].pc \in Critical}
FreshLock(s) == CHOOSE g \in 1..(Cardinality(Request) + 1) :
                    \A r \in Request : req[r].sid = s => req[r].lock # g

\* What get_or_connect returns to: a request to send goes on, a stream has all
\* it needs.
Connected(r, m) ==
    req' = [req EXCEPT ![r] = IF @.op = "send" THEN [@ EXCEPT !.pc = "check", !.inst = m, !.lock = 0, !.meta = "idle"]
                                               ELSE Idle]

\* The commands an actor has come to: without a turn the first in its queue, in a
\* turn the first that is not a query, or a query before it; a query waits there
\* for the end of the turn.
IsQuery(e) == e # "close" /\ req[e].op # "interrupt"
Reached(i) == {j \in 1..Len(i.queue) : IF i.turn THEN \A k \in 1..(j - 1) : IsQuery(i.queue[k]) ELSE j = 1}

\* A turn that breaks loses the command that cmd_task has taken and the driver has
\* not looked at: it is in no queue any more.  0: there is none.
Losses(i) == {0} \cup (IF i.turn THEN Reached(i) ELSE {})

\* Its sender waits for ever; an eviction waits for its timeout.
LosesCaller(m, j, r) ==
    LET e == inst[m].queue[j] IN
    j # 0 /\ (e = r \/ (e = "close" /\ req[r].pc = "cleanup" /\ req[r].inst = m))
WithError(q) == [q EXCEPT !.pc = IF q.op = "interrupt" THEN "refused" ELSE "failed"]
Waiting(m) == {r \in Request : \E k \in 1..Len(inst[m].queue) : inst[m].queue[k] = r}
Ended(m, i, j) ==
    [i EXCEPT !.actor = "gone", !.turn = FALSE, !.queue = <<>>, !.inbox = Append(@, "end"),
              !.ev = IF @ = "close" /\ j # 0 /\ inst[m].queue[j] = "close" THEN "lost" ELSE @]

\* mutant: queued commands are not completed
ActorEndsSilently(m, i, j) == inst' = [inst EXCEPT ![m] = Ended(m, i, j)] /\ UNCHANGED req

\* mutant: no sentinel for the inbox
ActorEndsUnseen(m, i, j) ==
    /\ inst' = [inst EXCEPT ![m] = [Ended(m, i, j) EXCEPT !.inbox = i.inbox]]
    /\ req' = [r \in Request |-> IF LosesCaller(m, j, r) THEN [req[r] EXCEPT !.pc = "lost"]
                                 ELSE IF r \in Waiting(m) THEN WithError(req[r]) ELSE req[r]]

\* The task of m's actor ends; the commands in its queue are answered with an
\* error, the one at j is lost, and the inbox is told.
ActorEnds(m, i, j) ==
    /\ inst' = [inst EXCEPT ![m] = Ended(m, i, j)]
    /\ req' = [r \in Request |-> IF LosesCaller(m, j, r) THEN [req[r] EXCEPT !.pc = "lost"]
                                 ELSE IF r \in Waiting(m) THEN WithError(req[r]) ELSE req[r]]

\* _evict_one up to its first await: an armed timer is cancelled and awaited,
\* otherwise the disconnect is enqueued at once.
Disconnect(i) == IF i.actor = "gone" THEN i ELSE [i EXCEPT !.queue = Append(@, "close")]
Evicting(i) == IF i.timer THEN [i EXCEPT !.timer = FALSE, !.ev = "timer", !.evKey = i.key]
                          ELSE [Disconnect(i) EXCEPT !.ev = "close", !.evKey = i.key]
StartEvict(m) ==
    /\ inst' = [inst EXCEPT ![m] = Evicting(@)]
    /\ disconnecting' = disconnecting \cup {inst[m].key}
    /\ contested' = contested \cup {inst[m].key}

-----------------------------------------------------------------------------
(* get_or_connect and send_new_session, up to the start of the actor *)

\* A request arrives: the service reads the row, a stream ends here unless the
\* session is running, and get_or_connect looks into the registry.
Arrive(r, s, op) ==
    /\ req[r].pc = "idle" /\ ops < MaxOps /\ ops' = ops + 1
    /\ db[s] # "absent"
    /\ op = "stream" => (IF registry[s] # NULL THEN inst[registry[s]].status ELSE db[s]) = "running"
    /\ registry' = RegistryAfterLookup(s)
    /\ inst' = InstAfterLookup(s)
    /\ IF Live(s)
         THEN /\ req' = [req EXCEPT ![r] = IF op = "send" THEN [Idle EXCEPT !.op = op, !.sid = s, !.pc = "check",
                                                              !.inst = registry[s]]
                                         ELSE Idle]
              /\ lockOf' = lockOf
         ELSE LET g == IF lockOf[s] = 0 THEN FreshLock(s) ELSE lockOf[s]
              IN /\ req' = [req EXCEPT ![r] = [Idle EXCEPT !.op = op, !.sid = s, !.pc = "lock",
                                                           !.lock = g, !.meta = db[s]]]
                 /\ lockOf' = [lockOf EXCEPT ![s] = g]
    /\ UNCHANGED <<db, disconnecting, persist, contested, faults>>

\* mutant: the second look without the lock
AcquireNoLock(r) ==
    LET s == req[r].sid IN
    /\ req[r].pc = "lock"
    /\ registry' = RegistryAfterLookup(s)
    /\ inst' = InstAfterLookup(s)
    /\ IF Live(s) THEN Connected(r, registry[s]) ELSE Goto(r, "capacity")
    /\ UNCHANGED <<db, disconnecting, lockOf, persist, contested, counters>>

\* `async with lock`, and the second look; a stream reads the row only now.
AcquireLock(r) ==
    LET s == req[r].sid IN
    /\ req[r].pc = "lock" /\ Holders(s, req[r].lock) = {}
    /\ registry' = RegistryAfterLookup(s)
    /\ inst' = InstAfterLookup(s)
    /\ IF Live(s) THEN Connected(r, registry[s])
       ELSE IF req[r].op = "send" THEN Goto(r, "capacity")
       ELSE IF db[s] = "absent" THEN Return(r)
       ELSE req' = [req EXCEPT ![r].pc = "capacity", ![r].meta = db[s]]
    /\ UNCHANGED <<db, disconnecting, lockOf, persist, contested, counters>>

\* send_new_session.
ArriveNew(r) ==
    /\ req[r].pc = "idle" /\ ops < MaxOps /\ ops' = ops + 1
    /\ req' = [req EXCEPT ![r] = [Idle EXCEPT !.op = "open", !.pc = "capacity"]]
    /\ UNCHANGED <<db, registry, disconnecting, lockOf, inst, persist, contested, faults>>

\* _ensure_capacity: room, or a session that is not running to evict, or
\* SessionCapacityError.
Active == {m \in Inst : inst[m].key # NULL /\ registry[inst[m].key] = m /\ inst[m].key \notin disconnecting}
EnsureCapacity(r) ==
    /\ req[r].pc = "capacity"
    /\ \/ /\ Cardinality(Active) < Capacity
          /\ Goto(r, "options")
          /\ UNCHANGED <<inst, disconnecting, contested>>
       \/ /\ Cardinality(Active) >= Capacity
          /\ \E m \in Active : /\ inst[m].status # "running"
                               /\ StartEvict(m)
                               /\ req' = [req EXCEPT ![r].pc = "evicting", ![r].inst = m]
       \/ /\ Cardinality(Active) >= Capacity
          /\ \A m \in Active : inst[m].status = "running"
          /\ Return(r)
          /\ UNCHANGED <<inst, disconnecting, contested>>
    /\ UNCHANGED <<db, registry, lockOf, persist, counters>>

CapacityFreed(r) ==
    /\ req[r].op # "delete" /\ req[r].pc = "evicting" /\ inst[req[r].inst].ev = "done"
    /\ req' = [req EXCEPT ![r].pc = "options", ![r].inst = NULL]
    /\ UNCHANGED <<db, registry, disconnecting, lockOf, inst, persist, contested, counters>>

\* The options are built; the object is registered and its actor started.
Register(r) ==
    /\ req[r].pc = "options"
    /\ \E n \in Inst : inst[n] = Unused   \* bound: an object is left
    /\ LET m == CHOOSE n \in Inst : inst[n] = Unused
             k == IF req[r].op = "open" THEN m ELSE req[r].sid
             st == IF req[r].op = "open" THEN "running"
                   ELSE IF req[r].meta = "completed" THEN "idle" ELSE req[r].meta
       IN   /\ inst' = [inst EXCEPT ![m] = [Unused EXCEPT !.key = k, !.status = st,
                           !.sid = IF req[r].op = "open" THEN NULL ELSE k,
                           !.known = req[r].op # "open"]]
            /\ registry' = [registry EXCEPT ![k] = m]
            /\ req' = [req EXCEPT ![r].pc = "starting", ![r].inst = m, ![r].meta = "idle"]
    /\ UNCHANGED <<db, disconnecting, lockOf, persist, contested, counters>>

\* actor.start returns; a new session sends its prompt at once.
Started(r) ==
    LET m == req[r].inst IN
    /\ req[r].pc = "starting" /\ inst[m].actor = "new"
    /\ IF req[r].op = "open"
         THEN /\ inst' = [inst EXCEPT ![m].actor = "live", ![m].proc = "wait", ![m].queue = Append(@, r)]
              /\ Goto(r, "sent")
         ELSE /\ inst' = [inst EXCEPT ![m].actor = "live", ![m].proc = "wait"]
              /\ Connected(r, m)
    /\ UNCHANGED <<db, registry, disconnecting, lockOf, persist, contested, counters>>

\* ... or raises: the id is taken out of the registry, whoever holds it, and
\* commands that other requests have queued meanwhile fail.
StartFails(r) ==
    LET m == req[r].inst
        k == IF req[r].op = "open" THEN m ELSE req[r].sid
    IN
    /\ req[r].pc = "starting" /\ inst[m].actor = "new"
    /\ faults < MaxFaults /\ faults' = faults + 1
    /\ registry' = [registry EXCEPT ![k] = NULL]
    /\ inst' = [inst EXCEPT ![m].actor = "gone", ![m].queue = <<>>]
    /\ req' = [q \in Request |-> IF q = r THEN Idle
                                 ELSE IF q \in Waiting(m) THEN WithError(req[q]) ELSE req[q]]
    /\ UNCHANGED <<db, disconnecting, lockOf, persist, contested, ops>>

-----------------------------------------------------------------------------
(* send_message, from the answer of get_or_connect on *)

\* After the look for the idempotency key: the cleanup is cancelled, a running
\* session is refused, the user entry is appended.
Check(r) ==
    LET m == req[r].inst IN
    /\ req[r].pc = "check"
    /\ inst' = [inst EXCEPT ![m].timer = FALSE]
    /\ IF inst[m].status = "running" THEN Return(r) ELSE Goto(r, "mark")
    /\ UNCHANGED <<db, registry, disconnecting, lockOf, persist, contested, counters>>

\* mutant: the queue of an actor that has ended accepts the query
MarkUnchecked(r) ==
    LET m == req[r].inst IN
    /\ req[r].pc = "mark"
    /\ SetDb(req[r].sid, "running")
    /\ inst' = [inst EXCEPT ![m].status = "running", ![m].queue = Append(@, r)] /\ Goto(r, "sent")
    /\ UNCHANGED <<registry, disconnecting, lockOf, persist, contested, counters>>

\* update_status(running), then send_query into the actor's queue.
Mark(r) ==
    LET m == req[r].inst IN
    /\ req[r].pc = "mark"
    /\ SetDb(req[r].sid, "running")
    /\ IF inst[m].actor = "gone"
         THEN inst' = [inst EXCEPT ![m].status = "running"] /\ Goto(r, "failed")
         ELSE inst' = [inst EXCEPT ![m].status = "running", ![m].queue = Append(@, r)] /\ Goto(r, "sent")
    /\ UNCHANGED <<registry, disconnecting, lockOf, persist, contested, counters>>

\* The command came back with an error.  A new session is torn down
\* (_cleanup_on_error), a send is undone.
SendFailed(r) ==
    LET m == req[r].inst IN
    /\ req[r].pc = "failed"
    /\ IF req[r].op = "open"
         THEN /\ inst' = [inst EXCEPT ![m] = Disconnect([@ EXCEPT !.status = "error"])]
              /\ registry' = [k \in Key |-> IF k \in {m, inst[m].key} THEN NULL ELSE registry[k]]
              /\ Goto(r, "cleanup")
         ELSE /\ inst' = [inst EXCEPT ![m].status = "error"]
              /\ UNCHANGED registry
              /\ Goto(r, "undo")
    /\ UNCHANGED <<db, disconnecting, lockOf, persist, contested, counters>>

\* mutant: the row is not set back
UndoForgotten(r) ==
    /\ req[r].pc = "undo"
    /\ Return(r)
    /\ UNCHANGED <<db, registry, disconnecting, lockOf, inst, persist, contested, counters>>

Undo(r) ==
    /\ req[r].pc = "undo"
    /\ SetDb(req[r].sid, "error")
    /\ Return(r)
    /\ UNCHANGED <<registry, disconnecting, lockOf, inst, persist, contested, counters>>

-----------------------------------------------------------------------------
(* The rest of send_new_session *)

\* sdk_id_event is set.
GotSdkId(r) ==
    /\ req[r].pc = "sdkid" /\ inst[req[r].inst].known
    /\ Return(r)
    /\ UNCHANGED <<db, registry, disconnecting, lockOf, inst, persist, contested, counters>>

\* The actor has ended, or 60 seconds have passed, without it.
NoSdkId(r) ==
    LET m == req[r].inst IN
    /\ req[r].pc = "sdkid" /\ ~inst[m].known
    /\ inst' = [inst EXCEPT ![m] = Disconnect(@)]
    /\ registry' = [registry EXCEPT ![m] = NULL]
    /\ Goto(r, "cleanup")
    /\ UNCHANGED <<db, disconnecting, lockOf, persist, contested, counters>>

\* send_disconnect has returned; the inbox task is cancelled.
CleanedUp(r) ==
    LET m == req[r].inst IN
    /\ req[r].pc = "cleanup" /\ inst[m].actor = "gone"
    /\ inst' = [inst EXCEPT ![m].status = "closed", ![m].proc = "done", ![m].inbox = <<>>]
    /\ Return(r)
    /\ UNCHANGED <<db, registry, disconnecting, lockOf, persist, contested, counters>>

-----------------------------------------------------------------------------
(* interrupt_session and delete_session *)

\* managed._interrupting: one interrupt at a time, also when its answer was lost.
Interrupting(m) == \E q \in Request : req[q].op = "interrupt" /\ req[q].inst = m

\* interrupt_session up to the await of send_interrupt; the command of an actor
\* that has ended is answered at once.
Interrupt(r, s) ==
    LET m == registry[s] IN
    /\ req[r].pc = "idle" /\ ops < MaxOps /\ ops' = ops + 1
    /\ db[s] # "absent"
    /\ \/ /\ m = NULL
          /\ req' = [req EXCEPT ![r] = IF db[s] = "running"
                                         THEN [Idle EXCEPT !.op = "interrupt", !.sid = s, !.pc = "stale"] ELSE Idle]
          /\ UNCHANGED inst
       \/ /\ m # NULL /\ inst[m].status # "running"
          /\ UNCHANGED <<inst, req>>
       \/ /\ m # NULL /\ inst[m].status = "running" /\ (Interrupting(m) \/ inst[m].actor = "gone")
          /\ inst' = [inst EXCEPT ![m].intr = TRUE, ![m].status = IF Interrupting(m) THEN @ ELSE "error"]
          /\ UNCHANGED req
       \/ /\ m # NULL /\ inst[m].status = "running" /\ ~Interrupting(m) /\ inst[m].actor # "gone"
          /\ inst' = [inst EXCEPT ![m].intr = TRUE, ![m].queue = Append(@, r)]
          /\ req' = [req EXCEPT ![r] = [Idle EXCEPT !.op = "interrupt", !.sid = s, !.pc = "ask", !.inst = m]]
    /\ UNCHANGED <<db, registry, disconnecting, lockOf, persist, contested, faults>>

\* send_interrupt returns or raises; an error is the status of the object, whatever
\* has become of it meanwhile.
Interrupted(r) ==
    /\ req[r].pc \in {"asked", "refused"}
    /\ inst' = IF req[r].pc = "refused" THEN [inst EXCEPT ![req[r].inst].status = "error"] ELSE inst
    /\ Return(r)
    /\ UNCHANGED <<db, registry, disconnecting, lockOf, persist, contested, counters>>

InterruptStale(r) ==
    /\ req[r].pc = "stale"
    /\ SetDb(req[r].sid, "interrupted")
    /\ Return(r)
    /\ UNCHANGED <<registry, disconnecting, lockOf, inst, persist, contested, counters>>

Delete(r, s) ==
    LET m == registry[s] IN
    /\ req[r].pc = "idle" /\ ops < MaxOps /\ ops' = ops + 1
    /\ db[s] # "absent"
    /\ req' = [req EXCEPT ![r] = [Idle EXCEPT !.op = "delete", !.sid = s, !.inst = m,
                                 !.pc = IF m # NULL /\ s \notin disconnecting THEN "evicting" ELSE "delete"]]
    /\ IF m # NULL /\ s \notin disconnecting
         THEN StartEvict(m)
         ELSE UNCHANGED <<inst, disconnecting>> /\ contested' = contested \cup {s}
    /\ UNCHANGED <<db, registry, lockOf, persist, faults>>

DeleteRow(r) ==
    /\ \/ req[r].pc = "delete"
       \/ req[r].op = "delete" /\ req[r].pc = "evicting" /\ inst[req[r].inst].ev = "done"
    /\ db' = [db EXCEPT ![req[r].sid] = "absent"]
    /\ Return(r)
    /\ UNCHANGED <<registry, disconnecting, lockOf, inst, persist, contested, counters>>

-----------------------------------------------------------------------------
(* The actor and its task's done callback *)

\* The SDK accepts the query at the head of the queue; its sender goes on.
ActorQuery(m) ==
    /\ inst[m].actor = "live" /\ ~inst[m].turn
    /\ inst[m].queue # <<>> /\ IsQuery(Head(inst[m].queue))
    /\ LET r == Head(inst[m].queue)
           i == [inst[m] EXCEPT !.turn = TRUE, !.queue = Tail(@)]
       IN /\ inst' = [inst EXCEPT ![m] = IF i.known THEN i ELSE [i EXCEPT !.inbox = Append(@, "init")]]
          /\ IF req[r].op = "open" THEN Goto(r, "sdkid") ELSE Return(r)
    /\ UNCHANGED <<db, registry, disconnecting, lockOf, persist, contested, counters>>

\* An interrupt is reached and answered, in a turn after client.interrupt().
ActorInterrupt(m) ==
    /\ inst[m].actor = "live"
    /\ \E j \in Reached(inst[m]) :
          LET r == inst[m].queue[j] IN
          /\ r # "close" /\ ~IsQuery(r)
          /\ inst' = [inst EXCEPT ![m].queue = RemoveAt(@, j)]
          /\ Goto(r, "asked")
    /\ UNCHANGED <<db, registry, disconnecting, lockOf, persist, contested, counters>>

\* A turn ends with a result; its status depends on interrupt_requested.
TurnEnds(m) ==
    /\ inst[m].turn
    /\ \E st \in {"completed", IF inst[m].intr THEN "interrupted" ELSE "error"} :
          inst' = [inst EXCEPT ![m].turn = FALSE, ![m].inbox = Append(@, st)]
    /\ UNCHANGED <<db, registry, disconnecting, lockOf, req, persist, contested, counters>>

\* A disconnect is reached.
ActorCloses(m) ==
    /\ inst[m].actor = "live"
    /\ \E j \in Reached(inst[m]) : inst[m].queue[j] = "close"
    /\ ActorEnds(m, inst[m], 0)
    /\ UNCHANGED <<db, registry, disconnecting, lockOf, persist, contested, counters>>

\* An exception of the SDK client; the callback sets the status and starts a
\* task that persists it.
ActorCrashes(m) ==
    /\ inst[m].actor = "live" /\ faults < MaxFaults /\ faults' = faults + 1
    /\ \E j \in Losses(inst[m]) : ActorEnds(m, [inst[m] EXCEPT !.status = "error"], j)
    /\ persist' = persist \cup ({inst[m].key} \cap Sid)   \* a temporary id has no row
    /\ UNCHANGED <<db, registry, disconnecting, lockOf, contested, ops>>

PersistError(s) ==
    /\ s \in persist /\ persist' = persist \ {s}
    /\ SetDb(s, "error")
    /\ UNCHANGED <<registry, disconnecting, lockOf, inst, req, contested, counters>>

-----------------------------------------------------------------------------
(* _process_inbox *)

Next1(m, i) == inst' = [inst EXCEPT ![m] = [i EXCEPT !.inbox = Tail(@)]]

\* The SDK id of a new session: the row is created.
Create(m) ==
    /\ inst[m].proc = "wait" /\ inst[m].inbox # <<>> /\ Head(inst[m].inbox) = "init"
    /\ \E s \in Sid \ Known :
          /\ db[s] = "absent" /\ \A n \in Inst : inst[n].sid # s
          /\ Next1(m, [inst[m] EXCEPT !.sid = s, !.proc = "adopt"])
          /\ db' = [db EXCEPT ![s] = "idle"]
          /\ contested' = contested \cup {s}
    /\ UNCHANGED <<registry, disconnecting, lockOf, req, persist, counters>>

\* mutant: the object keeps its temporary id
AdoptUnnamed(m) ==
    LET s == inst[m].sid IN
    /\ inst[m].proc = "adopt"
    /\ SetDb(s, "running")
    /\ registry' = [registry EXCEPT ![inst[m].key] = NULL, ![s] = m]
    /\ inst' = [inst EXCEPT ![m].proc = "wait", ![m].known = TRUE]
    /\ UNCHANGED <<disconnecting, lockOf, req, persist, contested, counters>>

\* The row is set to running and the object moves to its SDK id, unless its
\* temporary id is no longer registered.
Adopt(m) ==
    LET s == inst[m].sid IN
    /\ inst[m].proc = "adopt"
    /\ SetDb(s, "running")
    /\ IF registry[inst[m].key] # NULL
         THEN /\ registry' = [registry EXCEPT ![inst[m].key] = NULL, ![s] = m]
              /\ inst' = [inst EXCEPT ![m].proc = "wait", ![m].known = TRUE, ![m].key = s]
         ELSE /\ inst' = [inst EXCEPT ![m].proc = "wait", ![m].known = TRUE]
              /\ UNCHANGED registry
    /\ UNCHANGED <<disconnecting, lockOf, req, persist, contested, counters>>

\* _finalize_turn up to its first await: the status in memory.
Finalize(m) ==
    /\ inst[m].proc = "wait" /\ inst[m].inbox # <<>> /\ Head(inst[m].inbox) \in Status
    /\ Next1(m, [inst[m] EXCEPT !.status = Head(inst[m].inbox), !.proc = Head(inst[m].inbox)])
    /\ UNCHANGED <<db, registry, disconnecting, lockOf, req, persist, contested, counters>>

\* ... and from update_status on: the interrupt is forgotten, and the cleanup
\* timer of whoever is registered is armed.
Finalized(m) ==
    LET n == registry[inst[m].key]
        i == [inst EXCEPT ![m].proc = "wait", ![m].intr = FALSE]
    IN
    /\ inst[m].proc \in Status
    /\ SetDb(inst[m].key, inst[m].proc)
    /\ inst' = IF n = NULL THEN i ELSE [i EXCEPT ![n].timer = TRUE]
    /\ UNCHANGED <<registry, disconnecting, lockOf, req, persist, contested, counters>>

InboxEnd(m) ==
    /\ inst[m].proc = "wait" /\ inst[m].inbox # <<>> /\ Head(inst[m].inbox) = "end"
    /\ Next1(m, [inst[m] EXCEPT !.proc = "done"])
    /\ UNCHANGED <<db, registry, disconnecting, lockOf, req, persist, contested, counters>>

-----------------------------------------------------------------------------
(* Evictions *)

\* The cleanup timer runs out: it evicts whoever is registered by then.
TimerFires(m) ==
    LET n == registry[inst[m].key] IN
    /\ inst[m].timer
    /\ IF n # NULL /\ inst[n].status \in Evictable /\ inst[m].key \notin disconnecting
         THEN /\ inst' = [inst EXCEPT ![m].timer = FALSE, ![n] = Evicting([inst[n] EXCEPT !.timer = FALSE])]
              /\ disconnecting' = disconnecting \cup {inst[m].key}
              /\ contested' = contested \cup {inst[m].key}
         ELSE /\ inst' = [inst EXCEPT ![m].timer = FALSE]
              /\ UNCHANGED <<disconnecting, contested>>
    /\ UNCHANGED <<db, registry, lockOf, req, persist, counters>>

\* The patrol evicts a session nobody has used for twice the cleanup delay.
Patrol(m) ==
    /\ m \in Active /\ inst[m].status # "running"
    /\ \A r \in Request : req[r].inst # m \/ req[r].pc = "lost"
    /\ StartEvict(m)
    /\ UNCHANGED <<db, registry, lockOf, req, persist, counters>>

TimerCancelled(m) ==
    /\ inst[m].ev = "timer"
    /\ inst' = [inst EXCEPT ![m] = [Disconnect(@) EXCEPT !.ev = "close"]]
    /\ UNCHANGED <<db, registry, disconnecting, lockOf, req, persist, contested, counters>>

\* send_disconnect returns: the status is set to closed.
Disconnected(m) ==
    /\ inst[m].ev = "close" /\ inst[m].actor = "gone"
    /\ inst' = [inst EXCEPT ![m].status = "closed", ![m].ev = "inbox"]
    /\ UNCHANGED <<db, registry, disconnecting, lockOf, req, persist, contested, counters>>

\* ... or takes too long, and the actor is cancelled,
DisconnectTimesOut(m) ==
    /\ inst[m].ev = "close" /\ inst[m].actor = "live"
    /\ faults < MaxFaults /\ faults' = faults + 1
    /\ \E j \in Losses(inst[m]) : ActorEnds(m, [inst[m] EXCEPT !.status = "interrupted", !.ev = "inbox"], j)
    /\ UNCHANGED <<db, registry, disconnecting, lockOf, persist, contested, ops>>

\* ... if it has not ended with the disconnect in its hands.
EvictionTimesOut(m) ==
    /\ inst[m].ev = "lost"
    /\ inst' = [inst EXCEPT ![m].status = "interrupted", ![m].ev = "inbox"]
    /\ UNCHANGED <<db, registry, disconnecting, lockOf, req, persist, contested, counters>>

\* mutant: the row gets whatever the object's status is
EvictedVerbatim(m) ==
    LET k == inst[m].evKey IN
    /\ inst[m].ev = "inbox" /\ inst[m].proc \in {"off", "done"}
    /\ IF inst[m].sid # NULL THEN SetDb(inst[m].sid, inst[m].status) ELSE UNCHANGED db
    /\ inst' = [inst EXCEPT ![m] = [@ EXCEPT !.ev = "done", !.evKey = NULL, !.inbox = <<>>]]
    /\ registry' = [registry EXCEPT ![k] = NULL]
    /\ lockOf' = IF k \in Sid THEN [lockOf EXCEPT ![k] = 0] ELSE lockOf
    /\ disconnecting' = disconnecting \ {k}
    /\ UNCHANGED <<req, persist, contested, counters>>

\* The inbox is drained; the row is settled, and the id is taken out of the
\* registry, the connect locks and _disconnecting.
Evicted(m) ==
    LET k == inst[m].evKey
        st == IF inst[m].status = "running" THEN "interrupted" ELSE inst[m].status
    IN
    /\ inst[m].ev = "inbox" /\ inst[m].proc \in {"off", "done"}
    /\ IF inst[m].sid # NULL /\ st \in {"interrupted", "error"} THEN SetDb(inst[m].sid, st) ELSE UNCHANGED db
    /\ inst' = [inst EXCEPT ![m] = [@ EXCEPT !.ev = "done", !.status = st, !.evKey = NULL, !.inbox = <<>>]]
    /\ registry' = [registry EXCEPT ![k] = NULL]
    /\ lockOf' = IF k \in Sid THEN [lockOf EXCEPT ![k] = 0] ELSE lockOf
    /\ disconnecting' = disconnecting \ {k}
    /\ UNCHANGED <<req, persist, contested, counters>>

-----------------------------------------------------------------------------
RequestStep(r) ==
    \/ AcquireLock(r) \/ EnsureCapacity(r) \/ CapacityFreed(r) \/ Register(r) \/ Started(r)
    \/ Check(r) \/ Mark(r) \/ SendFailed(r) \/ Undo(r)
    \/ GotSdkId(r) \/ NoSdkId(r) \/ CleanedUp(r) \/ Interrupted(r) \/ InterruptStale(r) \/ DeleteRow(r)
\* Requests have no names of their own: a new one takes a free place, always
\* the same one.
Place == CHOOSE r \in Request : req[r].pc = "idle"
NewRequest(r) ==
    /\ req[r].pc = "idle" /\ r = Place
    /\ \/ ArriveNew(r)
       \/ \E s \in Sid : \/ \E op \in {"send", "stream"} : Arrive(r, s, op)
                         \/ Interrupt(r, s) \/ Delete(r, s)
ActorStep(m) == ActorQuery(m) \/ ActorInterrupt(m) \/ TurnEnds(m) \/ ActorCloses(m)
InboxStep(m) == Create(m) \/ Adopt(m) \/ Finalize(m) \/ Finalized(m) \/ InboxEnd(m)
EvictionStep(m) == TimerCancelled(m) \/ Disconnected(m) \/ EvictionTimesOut(m) \/ Evicted(m)

Next ==
    \/ \E r \in Request : RequestStep(r) \/ NewRequest(r) \/ StartFails(r)
    \/ \E m \in Inst : \/ ActorStep(m) \/ InboxStep(m) \/ EvictionStep(m)
                       \/ ActorCrashes(m) \/ DisconnectTimesOut(m) \/ TimerFires(m) \/ Patrol(m)
    \/ \E s \in Sid : PersistError(s)

Spec == Init /\ [][Next]_vars

\* The event loop does not idle while a coroutine can run; that a turn ends is
\* the promise of the SDK.  One condition is enough: the bounds leave no
\* infinite run of these steps in which one of them could be passed over.
Work == \/ \E r \in Request : RequestStep(r)
        \/ \E m \in Inst : ActorStep(m) \/ InboxStep(m) \/ EvictionStep(m)
        \/ \E s \in Sid : PersistError(s)
FairSpec == Spec /\ WF_vars(Work)

-----------------------------------------------------------------------------
Pc == {"idle", "lock", "capacity", "evicting", "options", "starting", "check", "mark", "sent",
       "failed", "undo", "sdkid", "cleanup", "ask", "asked", "refused", "lost", "stale", "delete"}
SessionTypeOK ==
    /\ db \in [Sid -> Status \cup {"absent"}]
    /\ registry \in [Key -> Inst \cup {NULL}]
    /\ disconnecting \subseteq Key /\ persist \subseteq Sid /\ contested \subseteq Key
    /\ lockOf \in [Sid -> 0..(Cardinality(Request) + 1)]
    /\ \A r \in Request : /\ req[r].pc \in Pc /\ req[r].sid \in Sid \cup {NULL}
                          /\ req[r].inst \in Inst \cup {NULL}
                          /\ req[r].lock \in 0..(Cardinality(Request) + 1)
    /\ \A m \in Inst : /\ inst[m].key \in Key \cup {NULL} /\ inst[m].sid \in Sid \cup {NULL}
                       /\ inst[m].status \in Status \cup {"closed"}
                       /\ inst[m].actor \in {"new", "live", "gone"}
                       /\ inst[m].turn \in BOOLEAN /\ inst[m].timer \in BOOLEAN /\ inst[m].known \in BOOLEAN
                       /\ \A j \in 1..Len(inst[m].queue) : inst[m].queue[j] \in Request \cup {"close"}
                       /\ inst[m].proc \in Status \cup {"off", "wait", "adopt", "done"}
                       /\ inst[m].ev \in {"none", "timer", "close", "lost", "inbox", "done"}

\* What is registered under an id is the object that has this id, through the
\* move of a new session from its temporary id to its SDK id and through
\* evictions, which take out whatever is registered under the id.
SessionIdentity == \A k \in Key : registry[k] # NULL => inst[registry[k]].key = k

\* Two requests that find a session asleep do not start it twice: unless the
\* session was evicted, deleted or created meanwhile (contested), no id has
\* two objects whose actor has not ended.
Awake(s) == {m \in Inst : inst[m].key = s /\ inst[m].actor # "gone"}
OneActorUncontested == \A s \in Sid \ contested : Cardinality(Awake(s)) <= 1

\* A query or an interrupt waits only in the queue of an actor that will see it: a
\* caller that waits stands there, once, and nothing is in the queue of an
\* actor that has ended.
NoQueryOnDeadActor ==
    /\ \A m \in Inst : inst[m].actor = "gone" => inst[m].queue = <<>>
    /\ \A r \in Request : req[r].pc \in {"sent", "ask"} =>
           \E j \in 1..Len(inst[req[r].inst].queue) : inst[req[r].inst].queue[j] = r

\* The registry, the rows and the actors agree: a session is found under its
\* own id only, without a late adoption it has one actor, and no query waits
\* for an actor that has ended.
SessionInv ==
    /\ SessionTypeOK
    /\ SessionIdentity
    /\ OneActorUncontested
    /\ NoQueryOnDeadActor

\* session_manager.py, get_or_connect: "Per-session lock prevents concurrent
\* connect() for the same session_id".
OneActorPerSession == \A s \in Sid : Cardinality(Awake(s)) <= 1

\* Every request returns: no wait for a lock, an eviction, an answer of an
\* actor or an SDK id is for ever.  Except one: send_query, send_interrupt and
\* send_disconnect wait without a timeout, and the command that cmd_task held when
\* the turn broke is answered by nobody.
RequestsReturn == \A r \in Request : []<>(req[r].pc \in {"idle", "lost"})

\* The inbox task of a session whose actor has ended stops.
InboxEnds == \A m \in Inst : []<>(inst[m].actor = "gone" => inst[m].proc \in {"off", "done"})

\* A row that is running is settled by the result of the turn, by the undo of
\* the send or by the callback of the actor that crashed, as long as the
\* session is neither evicted nor deleted meanwhile, nor just being created.
RunningRowSettles == \A s \in Sid : []<>(db[s] # "running" \/ s \in contested)

\* Requests return, the inbox of an actor ends with it, and no row stays running
\* without one.
TurnsEnd == RequestsReturn /\ InboxEnds /\ RunningRowSettles

\* session_manager.py, _make_actor_done_callback: "schedule a meta_store persist
\* so the DB doesn't stay stuck on `running` after a crash".
NotStuckRunning == \A s \in Sid : []<>(db[s] # "running")

=============================================================================
