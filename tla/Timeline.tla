------------------------------ MODULE Timeline ------------------------------
(***************************************************************************)
(* The timeline of one resident session: the event log (event_log.py), the *)
(* pipeline that writes the messages of the SDK into it                    *)
(* (entry_pipeline.py), the posts that write user entries                  *)
(* (SessionManager.send_message) and the streams that show it              *)
(* (AssistantService.stream_entry_events over SseChannel).                 *)
(*                                                                         *)
(* Posts, the inbox task and the viewers interleave at their awaits.  The  *)
(* SDK takes the queued prompts one at a time; of its messages only their  *)
(* identity and kind matter here.                                          *)
(***************************************************************************)
EXTENDS Integers, Sequences, FiniteSets, SequencesExt

CONSTANTS Viewer, NULL,
          History,      \* messages of the transcript of an old session
          MaxPosts,     \* bound on the posts
          MaxMessages,  \* bound on the messages of the SDK
          MaxFaults,    \* bound on exceptions of the SDK
          QueueMax

ASSUME TimelineAssumption ==
    /\ IsFiniteSet(Viewer)
    /\ History \in Nat /\ MaxPosts \in Nat /\ MaxMessages \in Nat /\ MaxFaults \in Nat
    /\ QueueMax \in Nat \ {0}
    /\ NULL \notin Viewer \cup Nat /\ Viewer \cap Nat = {}

VARIABLES log,      \* the rows: seq -> entry
          post,     \* the posts
          sdkq,     \* prompts queued at the actor
          turn,     \* the prompt the SDK works on
          made,     \* messages the SDK has made
          running,  \* managed.status = "running"
          inbox,    \* managed._inbox, and where its task stands
          at, base,
          subs, queue,    \* the channel
          view,     \* the streams and what their clients have been shown
          bf,       \* where each reader stands in ensure_backfilled
          delivered,  \* history: posts whose prompt the SDK took
          calm,       \* history: no exception and no overlapping posts so far
          faults

vars == <<log, post, sdkq, turn, made, running, inbox, at, base, subs, queue, view, bf,
          delivered, calm, faults>>
logged == <<log, bf>>
sdk == <<sdkq, turn, made, delivered>>
pipe == <<inbox, at, base>>
channel == <<subs, queue>>

Post == 1..MaxPosts
Proc == Post \cup Viewer

IsCritical(m) == m.t # "delta"   \* _CRITICAL_MESSAGE_TYPES
Sse == INSTANCE SseChannel WITH Critical <- IsCritical, END <- [t |-> "eos"]

NewPost == [pc |-> "new", key |-> NULL, base |-> 0, seq |-> 0]
Closed == [pc |-> "off", last |-> -1, seen |-> <<>>, pending |-> FALSE, beats |-> 0]

Init ==
    /\ log = [n \in {} |-> NULL]
    /\ post = [p \in Post |-> NewPost]
    /\ sdkq = <<>> /\ turn = NULL /\ made = 0 /\ running = FALSE
    /\ inbox = <<>> /\ at = "wait" /\ base = 0
    /\ subs = {} /\ queue = [v \in Viewer |-> <<>>]
    /\ view = [v \in Viewer |-> Closed]
    /\ bf = [x \in Proc |-> "none"]
    /\ delivered = {} /\ calm = TRUE /\ faults = 0

-----------------------------------------------------------------------------
(* EventLogStore *)

Rows == DOMAIN log
NextSeq == IF Rows = {} THEN 0 ELSE Max(Rows) + 1
With(n, entry) == [m \in Rows \cup {n} |-> IF m = n THEN entry ELSE log[m]]
Without(n) == [m \in Rows \ {n} |-> log[m]]
User(p) == [kind |-> "user", id |-> p, key |-> post[p].key]
KeyLogged(k) == \E n \in Rows : log[n].kind = "user" /\ log[n].key = k
Interrupt == [kind |-> "interrupt", id |-> 0, key |-> NULL]
TailIsInterrupt == Rows # {} /\ log[Max(Rows)].kind = "interrupt"
After(n) == {m \in Rows : m > n}

\* The channel of the session, and SseChannel.broadcast.
Chan == [subs |-> subs, queue |-> queue]
Becomes(chan) == subs' = chan.subs /\ queue' = chan.queue
Broadcast(m) == Becomes(Sse!Sent(Chan, m))
Shown(n, entry) == [t |-> "entry", seq |-> n, entry |-> entry]
Complete(n) == [t |-> "complete", seq |-> n]

-----------------------------------------------------------------------------
(* EventLogService.ensure_backfilled, for the post or viewer x; it has done   *)
(* its part when bf[x] = "have".                                              *)

Ensuring(x) == IF x \in Post THEN post[x].pc = "ensure" ELSE view[x].pc \in {"cold", "list"}

HasEntries(x) ==
    /\ Ensuring(x) /\ bf[x] = "none"
    /\ bf' = [bf EXCEPT ![x] = IF Rows # {} THEN "have" ELSE "lock"]
    /\ UNCHANGED <<log, post, running, sdk, pipe, channel, view, calm, faults>>

\* mutant: no second look under the lock
LockBackfillBlindly(x) ==
    /\ bf[x] = "lock" /\ \A y \in Proc : bf[y] # "read"
    /\ bf' = [bf EXCEPT ![x] = "read"]
    /\ UNCHANGED <<log, post, running, sdk, pipe, channel, view, calm, faults>>

LockBackfill(x) ==
    /\ bf[x] = "lock" /\ \A y \in Proc : bf[y] # "read"
    /\ bf' = [bf EXCEPT ![x] = IF Rows # {} THEN "have" ELSE "read"]
    /\ UNCHANGED <<log, post, running, sdk, pipe, channel, view, calm, faults>>

\* The transcript has been read; its entries are written in one transaction.
Backfill(x) ==
    /\ bf[x] = "read"
    /\ log' = [n \in Rows \cup (NextSeq..(NextSeq + History - 1)) |->
                 IF n \in Rows THEN log[n] ELSE [kind |-> "history", id |-> n - NextSeq + 1, key |-> NULL]]
    /\ bf' = [bf EXCEPT ![x] = "have"]
    /\ UNCHANGED <<post, running, sdk, pipe, channel, view, calm, faults>>

-----------------------------------------------------------------------------
(* send_or_create and send_message for a session that is resident *)

Goto(p, pc) == post' = [post EXCEPT ![p].pc = pc]
Leaves(p, pc) == post' = [post EXCEPT ![p].pc = pc, ![p].base = 0, ![p].seq = 0]

\* An idempotency key is named after the first post that has it.
Keys(p) == {p} \cup {q \in Post : q < p /\ post[q].key = q}
Arrive(p, k) ==
    /\ k \in Keys(p) /\ post[p].pc = "new" /\ \A q \in Post : q < p => post[q].pc # "new"
    /\ post' = [post EXCEPT ![p].pc = "ensure", ![p].key = k]
    /\ UNCHANGED <<logged, running, sdk, pipe, channel, view, calm, faults>>

\* The look for the idempotency key, then the refusal of a running session.
Writing == {"select", "insert", "mark", "sent", "undo"}
Precheck(p) ==
    /\ post[p].pc = "ensure" /\ bf[p] = "have"
    /\ bf' = [bf EXCEPT ![p] = "none"]
    /\ \/ KeyLogged(post[p].key) /\ Goto(p, "accepted") /\ UNCHANGED calm
       \/ ~KeyLogged(post[p].key) /\ running /\ Goto(p, "refused") /\ UNCHANGED calm
       \/ /\ ~KeyLogged(post[p].key) /\ ~running /\ Goto(p, "select")
          /\ calm' = (calm /\ inbox = <<>> /\ \A q \in Post : post[q].pc \notin Writing)
    /\ UNCHANGED <<log, running, sdk, pipe, channel, view, faults>>

\* append_user_entry: the key is looked for again, the next seq is read ...
SelectNextForUser(p) ==
    /\ post[p].pc = "select"
    /\ post' = IF KeyLogged(post[p].key) THEN [post EXCEPT ![p].pc = "accepted"]
               ELSE [post EXCEPT ![p].pc = "insert", ![p].base = NextSeq]
    /\ UNCHANGED <<logged, running, sdk, pipe, channel, view, calm, faults>>

\* mutant: an entry that existed already is sent again
InsertUserAndSend(p) ==
    /\ post[p].pc = "insert"
    /\ \/ KeyLogged(post[p].key) /\ Goto(p, "mark") /\ UNCHANGED log
       \/ /\ ~KeyLogged(post[p].key) /\ post[p].base \in Rows
          /\ Leaves(p, "select") /\ UNCHANGED log
       \/ /\ ~KeyLogged(post[p].key) /\ post[p].base \notin Rows
          /\ log' = With(post[p].base, User(p))
          /\ post' = [post EXCEPT ![p].pc = "mark", ![p].base = 0, ![p].seq = post[p].base]
    /\ UNCHANGED <<bf, running, sdk, pipe, channel, view, calm, faults>>

\* ... and the row is inserted, unless one of the two unique constraints fails:
\* that of the key returns the other entry, that of seq starts over.
InsertUser(p) ==
    /\ post[p].pc = "insert"
    /\ \/ KeyLogged(post[p].key) /\ Leaves(p, "accepted") /\ UNCHANGED log
       \/ /\ ~KeyLogged(post[p].key) /\ post[p].base \in Rows
          /\ Leaves(p, "select") /\ UNCHANGED log
       \/ /\ ~KeyLogged(post[p].key) /\ post[p].base \notin Rows
          /\ log' = With(post[p].base, User(p))
          /\ post' = [post EXCEPT ![p].pc = "mark", ![p].base = 0, ![p].seq = post[p].base]
    /\ UNCHANGED <<bf, running, sdk, pipe, channel, view, calm, faults>>

\* update_status has returned; send_query sets the status and enqueues.
Mark(p) ==
    /\ post[p].pc = "mark"
    /\ running' = TRUE
    /\ sdkq' = Append(sdkq, p)
    /\ Goto(p, "sent")
    /\ UNCHANGED <<logged, turn, made, delivered, pipe, channel, view, calm, faults>>

\* The delivery failed: the entry is deleted again.
Undo(p) ==
    /\ post[p].pc = "undo"
    /\ log' = Without(post[p].seq)
    /\ Leaves(p, "failed")
    /\ UNCHANGED <<bf, running, sdk, pipe, channel, view, calm, faults>>

-----------------------------------------------------------------------------
(* The SDK behind the actor *)

\* A prompt is taken; its sender is woken and broadcasts the entry before any
\* message of the turn can have reached the log.
Accept ==
    /\ turn = NULL /\ sdkq # <<>>
    /\ LET p == Head(sdkq) IN
         /\ turn' = p /\ delivered' = delivered \cup {p}
         /\ Leaves(p, "accepted")
         /\ Broadcast(Shown(post[p].seq, User(p)))
    /\ sdkq' = Tail(sdkq)
    /\ UNCHANGED <<logged, made, running, pipe, view, calm, faults>>

\* A message: broadcast as it is, then left to the inbox task.
Message ==
    /\ turn # NULL /\ made < MaxMessages /\ made' = made + 1
    /\ Broadcast([t |-> "raw"])
    /\ inbox' = Append(inbox, [t |-> "message", id |-> made'])
    /\ UNCHANGED <<logged, post, sdkq, turn, delivered, running, at, base, view, calm, faults>>

\* A piece of text that is being generated.
Delta ==
    /\ turn # NULL
    /\ Broadcast([t |-> "delta"])
    /\ UNCHANGED <<logged, post, sdk, running, pipe, view, calm, faults>>

\* The turn ends; an interrupted one may have echoed the interrupt.
EndTurn ==
    /\ turn # NULL /\ turn' = NULL
    /\ Broadcast([t |-> "result"])
    /\ \E echo, interrupted \in BOOLEAN :
         /\ echo => interrupted
         /\ inbox' = inbox \o (IF echo THEN <<[t |-> "echo"]>> ELSE <<>>)
                           \o <<[t |-> IF interrupted THEN "interrupted" ELSE "completed"]>>
    /\ UNCHANGED <<logged, post, sdkq, made, delivered, running, at, base, view, calm, faults>>

\* An exception ends the actor: the streams are told, queued prompts fail.
ActorDies ==
    /\ faults < MaxFaults /\ faults' = faults + 1
    /\ turn # NULL \/ sdkq # <<>>
    /\ turn' = NULL /\ sdkq' = <<>> /\ running' = FALSE /\ calm' = FALSE
    /\ post' = [p \in Post |-> IF post[p].pc = "sent" THEN [post[p] EXCEPT !.pc = "undo"] ELSE post[p]]
    /\ Broadcast([t |-> "status"])
    /\ UNCHANGED <<logged, made, delivered, pipe, view>>

-----------------------------------------------------------------------------
(* The inbox task: SessionEntryPipeline._handle, then _finalize_turn *)

Now(t) == inbox # <<>> /\ Head(inbox).t \in t

\* What the entry of the head of the inbox is.
Entry == IF Head(inbox).t = "message" THEN [kind |-> "assistant", id |-> Head(inbox).id, key |-> NULL]
         ELSE Interrupt

\* A result ends the turn: log_turn_complete goes out behind the rows there are,
\* and behind the entry of ms, if there is one.
TurnEnded(rows) == Complete(IF rows = {} THEN -1 ELSE Max(rows))
EndsTurn == Now({"completed", "interrupted"})
Told(chan, ms) == IF ms = <<>> THEN chan ELSE Sse!Sent(chan, Head(ms))

\* mutant: the end of the turn is announced before its last entry
HandledTooEarly(rows, ms) ==
    /\ inbox' = Tail(inbox) /\ at' = "wait" /\ base' = 0
    /\ IF EndsTurn THEN running' = FALSE /\ Becomes(Told(Sse!Sent(Chan, TurnEnded(rows)), ms))
       ELSE running' = running /\ Becomes(Told(Chan, ms))

\* The head is done and leaves these rows, the new one shown as in ms; a result
\* ends the turn for everyone.
Handled(rows, ms) ==
    /\ inbox' = Tail(inbox) /\ at' = "wait" /\ base' = 0
    /\ IF EndsTurn THEN running' = FALSE /\ Becomes(Sse!Sent(Told(Chan, ms), TurnEnded(rows)))
       ELSE running' = running /\ Becomes(Told(Chan, ms))

HandleCompleted ==
    /\ at = "wait" /\ Now({"completed"})
    /\ log' = log /\ Handled(Rows, <<>>)
    /\ UNCHANGED <<bf, post, sdk, view, calm, faults>>

\* mutant: every interrupt is written
TailIgnored ==
    /\ at = "wait" /\ Now({"echo", "interrupted"})
    /\ at' = "select" /\ UNCHANGED <<inbox, base, running, channel>>
    /\ UNCHANGED <<logged, post, sdk, view, calm, faults>>

\* _append_interrupt_deduped: an interrupt is not written after another one.
CheckTail ==
    /\ at = "wait" /\ Now({"echo", "interrupted"})
    /\ IF TailIsInterrupt THEN log' = log /\ Handled(Rows, <<>>)
       ELSE at' = "select" /\ UNCHANGED <<log, inbox, base, running, channel>>
    /\ UNCHANGED <<bf, post, sdk, view, calm, faults>>

\* EventLogStore.append: the next seq is read, the row is inserted; a writer
\* that took the seq meanwhile makes it start over.
SelectNext ==
    /\ \/ at = "wait" /\ Now({"message"})
       \/ at = "select"
    /\ at' = "insert" /\ base' = NextSeq
    /\ UNCHANGED <<logged, post, sdk, running, inbox, channel, view, calm, faults>>

Insert ==
    /\ at = "insert"
    /\ IF base \in Rows THEN at' = "select" /\ UNCHANGED <<log, inbox, base, running, channel>>
       ELSE log' = With(base, Entry) /\ Handled(Rows \cup {base}, <<Shown(base, Entry)>>)
    /\ UNCHANGED <<bf, post, sdk, view, calm, faults>>

-----------------------------------------------------------------------------
(* stream_entry_events, and clients that reconnect with their cursor *)

\* The entries after the cursor, in the order of their seq.
Sorted(S) == [i \in 1..Cardinality(S) |-> CHOOSE n \in S : Cardinality({m \in S : m < n}) = i - 1]
Unseen(v) == LET ns == Sorted(After(view[v].last))
             IN [i \in DOMAIN ns |-> [seq |-> ns[i], entry |-> log[ns[i]]]]
ShowAll(v) == LET new == Unseen(v) IN
              [view[v] EXCEPT !.seen = @ \o new, !.last = IF new = <<>> THEN @ ELSE new[Len(new)].seq]
Leave(v) == subs' = subs \ {v} /\ queue' = [queue EXCEPT ![v] = <<>>]
Ended(i) == [i EXCEPT !.pc = "off", !.pending = FALSE, !.beats = 0]

\* The status decides: subscribe first, or just list what there is.
Open(v) ==
    /\ view[v].pc = "off"
    /\ IF running
         THEN /\ view' = [view EXCEPT ![v].pc = "list"]
              /\ subs' = subs \cup {v} /\ UNCHANGED queue
         ELSE view' = [view EXCEPT ![v].pc = "cold"] /\ UNCHANGED channel
    /\ UNCHANGED <<logged, post, sdk, running, pipe, calm, faults>>

\* list_entries; a session that is not running (any more) ends the stream.
List(v) ==
    /\ view[v].pc \in {"cold", "list"} /\ bf[v] = "have"
    /\ bf' = [bf EXCEPT ![v] = "none"]
    /\ IF view[v].pc = "list" /\ running
         THEN view' = [view EXCEPT ![v] = [ShowAll(v) EXCEPT !.pc = "live"]] /\ UNCHANGED channel
         ELSE view' = [view EXCEPT ![v] = Ended(ShowAll(v))] /\ Leave(v)
    /\ UNCHANGED <<log, post, sdk, running, pipe, calm, faults>>

\* mutant: the cursor is not looked at
TakeAnyEntry(v) ==
    /\ view[v].pc = "live" /\ queue[v] # <<>> /\ Head(queue[v]).t = "entry"
    /\ view' = [view EXCEPT ![v].seen = Append(@, [seq |-> Head(queue[v]).seq, entry |-> Head(queue[v]).entry]),
                            ![v].last = Head(queue[v]).seq]
    /\ queue' = [queue EXCEPT ![v] = Tail(@)]
    /\ UNCHANGED <<logged, post, sdk, running, pipe, subs, calm, faults>>

\* An entry is shown if its seq is above the cursor.
TakeEntry(v) ==
    /\ view[v].pc = "live" /\ queue[v] # <<>> /\ Head(queue[v]).t = "entry"
    /\ LET m == Head(queue[v]) IN
         view' = IF m.seq <= view[v].last THEN view
                 ELSE [view EXCEPT ![v].seen = Append(@, [seq |-> m.seq, entry |-> m.entry]), ![v].last = m.seq]
    /\ queue' = [queue EXCEPT ![v] = Tail(@)]
    /\ UNCHANGED <<logged, post, sdk, running, pipe, subs, calm, faults>>

\* A result is held back until the inbox task has announced the end of the
\* turn; raw messages and deltas leave the entries alone.
TakeOther(v) ==
    /\ view[v].pc = "live" /\ queue[v] # <<>>
    /\ LET m == Head(queue[v]) IN
         \/ /\ m.t = "result"
            /\ view' = [view EXCEPT ![v].pending = TRUE]
            /\ queue' = [queue EXCEPT ![v] = Tail(@)] /\ UNCHANGED subs
         \/ /\ m.t \in {"raw", "delta"} \/ (m.t = "complete" /\ ~view[v].pending)
            /\ UNCHANGED <<view, subs>>
            /\ queue' = [queue EXCEPT ![v] = Tail(@)]
         \/ /\ m.t \in {"eos", "status"} \/ (m.t = "complete" /\ view[v].pending)
            /\ view' = [view EXCEPT ![v] = Ended(@)] /\ Leave(v)
    /\ UNCHANGED <<logged, post, sdk, running, pipe, calm, faults>>

\* mutant: without a result at hand the heartbeat only idles
BeatPendingOnly(v) ==
    /\ view[v].pc = "live" /\ queue[v] = <<>> /\ view[v].pending
    /\ IF view[v].beats = 1 THEN view' = [view EXCEPT ![v] = Ended(@)] /\ Leave(v)
       ELSE view' = [view EXCEPT ![v].beats = 1] /\ UNCHANGED channel
    /\ UNCHANGED <<logged, post, sdk, running, pipe, calm, faults>>

\* A heartbeat: with a result at hand the second one ends the stream, without
\* one the status is looked up.
Beat(v) ==
    /\ view[v].pc = "live" /\ queue[v] = <<>>
    /\ IF view[v].beats = 1 \/ (~view[v].pending /\ ~running)
         THEN view' = [view EXCEPT ![v] = Ended(@)] /\ Leave(v)
         ELSE view[v].pending /\ view' = [view EXCEPT ![v].beats = 1] /\ UNCHANGED channel
    /\ UNCHANGED <<logged, post, sdk, running, pipe, calm, faults>>

-----------------------------------------------------------------------------
PostStep(p) == Precheck(p) \/ SelectNextForUser(p) \/ InsertUser(p) \/ Mark(p) \/ Undo(p)
EnsureStep(x) == HasEntries(x) \/ LockBackfill(x) \/ Backfill(x)
InboxStep == HandleCompleted \/ CheckTail \/ SelectNext \/ Insert
ViewerStep(v) == List(v) \/ TakeEntry(v) \/ TakeOther(v) \/ Beat(v)

Next ==
    \/ \E p \in Post : PostStep(p) \/ \E k \in Post : Arrive(p, k)
    \/ \E x \in Proc : EnsureStep(x)
    \/ Accept \/ Message \/ Delta \/ EndTurn \/ ActorDies
    \/ InboxStep
    \/ \E v \in Viewer : Open(v) \/ ViewerStep(v)

Spec == Init /\ [][Next]_vars

\* The event loop does not idle while the inbox task, a reader of the log or a
\* stream can go on (an idle stream gets its heartbeats); that a turn ends is
\* the promise of the SDK.
Work == InboxStep \/ (\E x \in Proc : EnsureStep(x)) \/ (\E v \in Viewer : ViewerStep(v))
FairSpec == Spec /\ WF_vars(Work) /\ WF_vars(Accept \/ EndTurn)

-----------------------------------------------------------------------------
EntrySet == [kind : {"user"}, id : Post, key : Post]
            \cup [kind : {"assistant"}, id : 1..MaxMessages, key : {NULL}]
            \cup [kind : {"history"}, id : 1..History, key : {NULL}] \cup {Interrupt}
TimelineTypeOK ==
    /\ Rows \subseteq Nat /\ \A n \in Rows : log[n] \in EntrySet
    /\ \A p \in Post : post[p].pc \in Writing \cup {"new", "ensure", "accepted", "refused", "failed"}
    /\ turn \in Post \cup {NULL} /\ running \in BOOLEAN
    /\ at \in {"wait", "select", "insert"} /\ (at # "wait" => inbox # <<>>)
    /\ \A v \in Viewer : Len(queue[v]) <= QueueMax /\ view[v].pc \in {"off", "cold", "list", "live"}
    /\ \A v \in Viewer : v \in subs => view[v].pc \in {"list", "live"}
    /\ \A x \in Proc : bf[x] \in {"none", "lock", "read", "have"}

\* A client is shown every entry at most once and in the order of the log,
\* although rows are listed while broadcasts of them wait in its queue, and
\* through overflows and reconnects.
SeenOnceInOrder ==
    \A v \in Viewer : LET seen == view[v].seen IN
        \A i, j \in DOMAIN seen : i < j =>
            /\ seen[i].seq < seen[j].seq
            /\ seen[i].entry = seen[j].entry => seen[i].entry.kind = "interrupt"

\* service.py, stream_entry_events: "断线重连按 cursor 续传".  What the cursor of
\* a client has passed, the client has been shown.
NothingMissed == \A v \in Viewer : \A n \in Rows : n <= view[v].last =>
                    \E i \in DOMAIN view[v].seen : view[v].seen[i] = [seq |-> n, entry |-> log[n]]

\* So it is as long as no delivery fails and no two posts overlap.
NothingMissedCalm == calm => NothingMissed

\* A stream that is about to report the end of a turn has shown the turn: the
\* end is announced behind its last entry, whatever the queue has lost.
TurnShownBeforeItsEnd ==
    \A v \in Viewer :
        (calm /\ view[v].pc = "live" /\ queue[v] # <<>> /\ Head(queue[v]).t = "complete" /\ view[v].pending) =>
            \A n \in Rows : n <= Head(queue[v]).seq =>
                \E i \in DOMAIN view[v].seen : view[v].seen[i].seq = n

\* What a stream has shown is the log, each entry once and in its order, none
\* is missing where nothing failed and no posts overlapped, and the end of the
\* turn comes behind its entries.
StreamInv == SeenOnceInOrder /\ NothingMissedCalm /\ TurnShownBeforeItsEnd

\* The echo of an interrupt and the result of the interrupted turn give one
\* entry, not two (a deleted user entry may bring two turns' entries together).
OneInterruptEntry ==
    calm => \A n, m \in Rows : (n < m /\ log[n].kind = "interrupt" /\ log[m].kind = "interrupt") =>
                \E o \in Rows : n < o /\ o < m

\* The history of an old session is written once, before everything else.
HistoryFirstAndOnce ==
    \A n, m \in Rows : (log[n].kind = "history" /\ n # m) =>
        (log[m] # log[n] /\ (log[m].kind = "history" \/ n < m))

\* Posts with one idempotency key deliver their prompt once.
DeliveredOnce == \A p, q \in delivered : post[p].key = post[q].key => p = q

\* The log holds what was accepted once and in order of its kind: history
\* first, a post once however often it is repeated, an interrupt once.
LogInv ==
    /\ TimelineTypeOK
    /\ OneInterruptEntry
    /\ HistoryFirstAndOnce
    /\ DeliveredOnce

\* session_manager.py, send_message: "条目存在即上一次受理已（或正在）送入 SDK——
\* 投递失败的条目会被补偿删除，不会残留到这里".  A post that meets the entry of its
\* key is accepted because that prompt has been, or is being, delivered.
AcceptedIsDelivered == [][
    \A p \in Post : (post[p].pc = "ensure" /\ post'[p].pc = "accepted") =>
        \E q \in Post : post[q].key = post[p].key /\ (q \in delivered \/ post[q].pc \in {"mark", "sent"})]_vars

\* Every stream ends: with the turn, with an overflow or at a heartbeat.
StreamsEnd == \A v \in Viewer : []<>(view[v].pc = "off")

=============================================================================
