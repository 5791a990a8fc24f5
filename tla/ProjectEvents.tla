---------------------------- MODULE ProjectEvents ----------------------------
(***************************************************************************)
(* The event streams of one project (server/services/project_events.py):   *)
(* channels that come with the first subscriber and go with the last or    *)
(* with the project, the watch task that scans the files for a channel,    *)
(* and the rebuilds after an emitted batch.  The disk is the version of    *)
(* the project's files; a message carries the version it tells of.         *)
(***************************************************************************)
EXTENDS Integers, Sequences, FiniteSets

CONSTANTS Client,                 \* event streams, a request each
          QueueMax,               \* queue_maxsize
          MaxChannels, MaxChanges, MaxBatches,
          MaxTroubles,            \* deletions of the project and scans that raise
          NULL,                   \* no channel, no snapshot
          Deleted                 \* PROJECT_DELETED_EVENT

ASSUME ProjectEventsAssumption ==
    /\ {QueueMax, MaxChannels} \subseteq Nat \ {0}
    /\ {MaxChanges, MaxBatches, MaxTroubles} \subseteq Nat
    /\ NULL \notin Int /\ Deleted \notin Int /\ NULL # Deleted

Channel == 1..MaxChannels
Batch == 1..MaxBatches
NeverCritical(m) == FALSE
Sse == INSTANCE SseChannel WITH Critical <- NeverCritical, END <- NULL

VARIABLES exists, version,  \* the project's directory and what it holds
          troubles,
          registry, made,   \* _channels[key], and the channels made so far
          subs,             \* sse._subscribers of each channel
          snapshot, ready,  \* of each channel
          untold,           \* what changed with its last snapshot was in no event
          watch, cancelled, \* its task: where it stands, task.cancel() called
          seen,             \* what the thread of the task has read
          batch,            \* the tasks of _async_rebuild_and_broadcast
          client, on,       \* where each stream stands, and its channel
          queue, told,      \* its queue, and the version it was told last
          stray             \* for the properties: a request took out the entry of
                            \* a channel that was not its own

disk == <<exists, version, troubles>>
channels == <<registry, made, subs, snapshot, untold, ready, watch, cancelled, seen>>
streams == <<client, on, queue, told, stray>>
vars == <<disk, channels, batch, streams>>

Init ==
    /\ exists = TRUE /\ version = 0 /\ troubles = 0
    /\ registry = NULL /\ made = 0
    /\ subs = [c \in Channel |-> {}]
    /\ snapshot = [c \in Channel |-> NULL] /\ untold = [c \in Channel |-> FALSE]
    /\ ready = [c \in Channel |-> FALSE]
    /\ watch = [c \in Channel |-> "none"] /\ cancelled = [c \in Channel |-> FALSE]
    /\ seen = [c \in Channel |-> NULL]
    /\ batch = [b \in Batch |-> [pc |-> "none", on |-> NULL, seen |-> NULL]]
    /\ client = [s \in Client |-> "out"] /\ on = [s \in Client |-> NULL]
    /\ queue = [s \in Client |-> <<>>] /\ told = [s \in Client |-> NULL]
    /\ stray = FALSE

-----------------------------------------------------------------------------
(* The files.  NULL is what a thread reads where the directory is missing. *)

Change ==
    /\ exists /\ version < MaxChanges
    /\ version' = version + 1
    /\ UNCHANGED <<exists, troubles, channels, batch, streams>>

DeleteProject ==
    /\ exists /\ troubles < MaxTroubles
    /\ exists' = FALSE /\ troubles' = troubles + 1
    /\ UNCHANGED <<version, channels, batch, streams>>

\* A project of the same name is made again.
Recreate ==
    /\ ~exists /\ version < MaxChanges
    /\ exists' = TRUE /\ version' = version + 1
    /\ UNCHANGED <<troubles, channels, batch, streams>>

OnDisk == IF exists THEN version ELSE NULL

-----------------------------------------------------------------------------
(* What both tasks do to a channel *)

Broadcast(c, m) ==
    /\ queue' = Sse!DeliveredDrop(subs[c], queue, m)
    /\ subs' = [subs EXCEPT ![c] = Sse!KeptDrop(subs[c], queue)]
    /\ UNCHANGED <<client, on, told, stray>>

\* mutant: the channel of the name is ended, whichever it is
CurrentAny(c) == registry # NULL

Current(c) == registry = c

Silent == UNCHANGED <<subs, streams>>

\* mutant: the streams are not told
HandleDeletedSilently(c, own) ==
    IF Current(c)
    THEN /\ registry' = NULL
         /\ cancelled' = IF own \/ watch[c] \in {"none", "done"} THEN cancelled
                         ELSE [cancelled EXCEPT ![c] = TRUE]
         /\ Silent
    ELSE Silent /\ UNCHANGED <<registry, cancelled>>

\* _handle_project_deleted, and the cancellation of the watch unless the watch
\* itself found out.
HandleDeleted(c, own) ==
    IF Current(c)
    THEN /\ registry' = NULL
         /\ Broadcast(c, Deleted)
         /\ cancelled' = IF own \/ watch[c] \in {"none", "done"} THEN cancelled
                         ELSE [cancelled EXCEPT ![c] = TRUE]
    ELSE Silent /\ UNCHANGED <<registry, cancelled>>

-----------------------------------------------------------------------------
(* _watch_project of channel c *)

Runs(c, pc) == watch[c] = pc /\ ~cancelled[c]
Stands(c, pc) == watch' = [watch EXCEPT ![c] = pc]

\* while channel.sse.has_subscribers
Round(c) == Stands(c, IF subs[c] = {} THEN "done" ELSE "scan")

WatchStarts(c) ==
    /\ Runs(c, "new")
    /\ Round(c)
    /\ UNCHANGED <<disk, registry, made, subs, snapshot, untold, ready, cancelled, seen, batch, streams>>

\* The thread reads the files.
Scan(c) ==
    /\ Runs(c, "scan")
    /\ seen' = [seen EXCEPT ![c] = OnDisk]
    /\ Stands(c, "read")
    /\ UNCHANGED <<disk, registry, made, subs, snapshot, untold, ready, cancelled, batch, streams>>

\* mutant: a channel is ready with its first snapshot only
ReadiedOnce(c) == ready' = [ready EXCEPT ![c] = @ \/ snapshot[c] = NULL]

Readied(c) == ready' = [ready EXCEPT ![c] = TRUE]
Forgets(c) == seen' = [seen EXCEPT ![c] = NULL]
Polls(c) == Readied(c) /\ Stands(c, "poll")

\* Any other exception is logged, and the channel is ready all the same.
ScanFails(c) ==
    /\ Runs(c, "scan") /\ troubles < MaxTroubles
    /\ troubles' = troubles + 1
    /\ Polls(c)
    /\ UNCHANGED <<exists, version, registry, made, subs, snapshot, untold, cancelled, seen,
                   batch, streams>>

\* mutant: the change is kept and not told
ApplyScanUntold(c) ==
    /\ Runs(c, "read") /\ seen[c] # NULL
    /\ snapshot' = [snapshot EXCEPT ![c] = seen[c]]
    /\ Silent
    /\ Polls(c) /\ Forgets(c)
    /\ UNCHANGED <<disk, registry, made, untold, cancelled, batch>>

\* _apply_scan_result: the first snapshot and an equal one are not broadcast, nor
\* one in which _diff_snapshots finds no change (an episode that was removed, a
\* script that came or went, another path of a still or clip).
ApplyScan(c) ==
    /\ Runs(c, "read") /\ seen[c] # NULL
    /\ snapshot' = [snapshot EXCEPT ![c] = seen[c]]
    /\ IF snapshot[c] \in {NULL, seen[c]} THEN Silent /\ UNCHANGED untold
       ELSE \E found \in BOOLEAN :
              /\ IF found THEN Broadcast(c, seen[c]) ELSE Silent
              /\ untold' = [untold EXCEPT ![c] = ~found]
    /\ Polls(c) /\ Forgets(c)
    /\ UNCHANGED <<disk, registry, made, cancelled, batch>>

\* FileNotFoundError: a second thread looks whether the directory is there.
Missing(c) ==
    /\ Runs(c, "read") /\ seen[c] = NULL
    /\ Stands(c, "look")
    /\ UNCHANGED <<disk, registry, made, subs, snapshot, untold, ready, cancelled, seen, batch, streams>>

Look(c) ==
    /\ Runs(c, "look")
    /\ IF exists THEN Polls(c) ELSE Stands(c, "gone") /\ UNCHANGED ready
    /\ UNCHANGED <<disk, registry, made, subs, snapshot, untold, cancelled, seen, batch, streams>>

Gone(c) ==
    /\ Runs(c, "gone")
    /\ HandleDeleted(c, TRUE)
    /\ Readied(c) /\ Stands(c, "done")
    /\ UNCHANGED <<disk, made, snapshot, untold, seen, batch>>

\* A hint or the end of poll_interval starts the next round.
PollEnds(c) ==
    /\ Runs(c, "poll")
    /\ Round(c)
    /\ UNCHANGED <<disk, registry, made, subs, snapshot, untold, ready, cancelled, seen, batch, streams>>

\* CancelledError at the await: a task that has not begun does nothing more.
WatchCancelled(c) ==
    /\ cancelled[c] /\ watch[c] # "done"
    /\ IF watch[c] = "new" THEN UNCHANGED ready ELSE Readied(c)
    /\ Stands(c, "done") /\ Forgets(c)
    /\ UNCHANGED <<disk, registry, made, subs, snapshot, untold, cancelled, batch, streams>>

WatchStep(c) == \/ WatchStarts(c) \/ Scan(c) \/ ApplyScan(c) \/ Missing(c) \/ Look(c)
                \/ Gone(c) \/ PollEnds(c) \/ WatchCancelled(c)

-----------------------------------------------------------------------------
(* _apply_emitted_batch and its task *)

Over == [pc |-> "done", on |-> NULL, seen |-> NULL]

Emitted(b) ==
    /\ batch[b].pc = "none" /\ registry # NULL
    /\ batch' = [batch EXCEPT ![b] = [pc |-> "scan", on |-> registry, seen |-> NULL]]
    /\ UNCHANGED <<disk, channels, streams>>

BatchScan(b) ==
    /\ batch[b].pc = "scan"
    /\ batch' = [batch EXCEPT ![b].pc = "read", ![b].seen = OnDisk]
    /\ UNCHANGED <<disk, channels, streams>>

BatchApply(b) ==
    LET c == batch[b].on IN
    /\ batch[b].pc = "read" /\ batch[b].seen # NULL
    /\ snapshot' = [snapshot EXCEPT ![c] = batch[b].seen]
    /\ Broadcast(c, batch[b].seen) /\ untold' = [untold EXCEPT ![c] = FALSE]
    /\ batch' = [batch EXCEPT ![b] = Over]
    /\ UNCHANGED <<disk, registry, made, ready, watch, cancelled, seen>>

BatchLook(b) ==
    /\ batch[b].pc = "read" /\ batch[b].seen = NULL
    /\ batch' = [batch EXCEPT ![b] = IF exists THEN Over ELSE [@ EXCEPT !.pc = "gone"]]
    /\ UNCHANGED <<disk, channels, streams>>

BatchGone(b) ==
    /\ batch[b].pc = "gone"
    /\ HandleDeleted(batch[b].on, FALSE)
    /\ batch' = [batch EXCEPT ![b] = Over]
    /\ UNCHANGED <<disk, made, snapshot, untold, ready, watch, seen>>

BatchStep(b) == BatchScan(b) \/ BatchApply(b) \/ BatchLook(b) \/ BatchGone(b)

-----------------------------------------------------------------------------
(* The streams *)

\* get_project_path in a thread: no stream for a project that is not there.
Enter(s) ==
    /\ client[s] = "out" /\ exists
    /\ client' = [client EXCEPT ![s] = "entering"]
    /\ UNCHANGED <<disk, channels, batch, on, queue, told, stray>>

\* Its ready_event is set: the channel's present one, or one it had before.
Woken(s) == client[s] = "woken" \/ (client[s] = "waiting" /\ ready[on[s]])

\* mutant: only a channel that never had a watch gets one
JoinUnwatched(s) ==
    LET c == IF registry = NULL THEN made + 1 ELSE registry
        starts == subs[c] = {} /\ watch[c] = "none"
    IN /\ client[s] = "entering" /\ c \in Channel
       /\ registry' = c /\ made' = IF registry = NULL THEN made + 1 ELSE made
       /\ subs' = [subs EXCEPT ![c] = @ \cup {s}]
       /\ watch' = IF starts THEN [watch EXCEPT ![c] = "new"] ELSE watch
       /\ ready' = IF starts THEN [ready EXCEPT ![c] = FALSE] ELSE ready
       /\ on' = [on EXCEPT ![s] = c]
       /\ client' = [x \in Client |-> IF x = s THEN "waiting"
                                      ELSE IF starts /\ Woken(x) /\ on[x] = c THEN "woken"
                                      ELSE client[x]]
       /\ UNCHANGED <<disk, snapshot, untold, cancelled, seen, batch, queue, told, stray>>

\* The channel of the key, a new one if there is none; the queue first, then
\* _start_watch, with a new ready_event, if it is the first one and no task runs.
Join(s) ==
    LET c == IF registry = NULL THEN made + 1 ELSE registry
        starts == subs[c] = {} /\ watch[c] \in {"none", "done"}
    IN /\ client[s] = "entering" /\ c \in Channel
       /\ registry' = c /\ made' = IF registry = NULL THEN made + 1 ELSE made
       /\ subs' = [subs EXCEPT ![c] = @ \cup {s}]
       /\ watch' = IF starts THEN [watch EXCEPT ![c] = "new"] ELSE watch
       /\ ready' = IF starts THEN [ready EXCEPT ![c] = FALSE] ELSE ready
       /\ on' = [on EXCEPT ![s] = c]
       /\ client' = [x \in Client |-> IF x = s THEN "waiting"
                                      ELSE IF starts /\ Woken(x) /\ on[x] = c THEN "woken"
                                      ELSE client[x]]
       /\ UNCHANGED <<disk, snapshot, untold, cancelled, seen, batch, queue, told, stray>>

\* The stream opens with the fingerprint of now.
Opens(s) ==
    /\ Woken(s)
    /\ told' = [told EXCEPT ![s] = snapshot[on[s]]]
    /\ client' = [client EXCEPT ![s] = "streaming"]
    /\ UNCHANGED <<disk, channels, batch, on, queue, stray>>

\* The request is cancelled while it waits: the queue is taken out at once,
\* and with the last one the watch and the entry of the key.
GiveUp(s) ==
    LET c == on[s]
        last == subs[c] \subseteq {s} /\ watch[c] # "none"
    IN /\ client[s] \in {"waiting", "woken"}
       /\ subs' = [subs EXCEPT ![c] = @ \ {s}]
       /\ cancelled' = IF last /\ watch[c] # "done" THEN [cancelled EXCEPT ![c] = TRUE] ELSE cancelled
       /\ registry' = IF last THEN NULL ELSE registry
       /\ client' = [client EXCEPT ![s] = "left"]
       /\ stray' = (stray \/ (last /\ registry \notin {NULL, c}))
       /\ queue' = [queue EXCEPT ![s] = <<>>] /\ on' = [on EXCEPT ![s] = NULL]
       /\ UNCHANGED <<disk, made, snapshot, untold, ready, watch, seen, batch, told>>

Receive(s) ==
    LET m == Head(queue[s]) IN
    /\ client[s] = "streaming" /\ queue[s] # <<>>
    /\ queue' = [queue EXCEPT ![s] = Tail(@)]
    /\ IF m = Deleted
       THEN client' = [client EXCEPT ![s] = "leaving"] /\ UNCHANGED told
       ELSE told' = [told EXCEPT ![s] = m] /\ UNCHANGED client
    /\ UNCHANGED <<disk, channels, batch, on, stray>>

Disconnect(s) ==
    /\ client[s] = "streaming"
    /\ client' = [client EXCEPT ![s] = "leaving"]
    /\ UNCHANGED <<disk, channels, batch, on, queue, told, stray>>

\* mutant: the end of the stream leaves its queue with the channel
LeaveForgetful(s) ==
    /\ client[s] = "leaving"
    /\ client' = [client EXCEPT ![s] = "left"]
    /\ queue' = [queue EXCEPT ![s] = <<>>] /\ told' = [told EXCEPT ![s] = NULL]
    /\ on' = [on EXCEPT ![s] = NULL]
    /\ UNCHANGED <<disk, channels, batch, stray>>

\* _unsubscribe: from the channel the key has now, and _stop_watch with its
\* last subscriber.
Leave(s) ==
    /\ client[s] = "leaving"
    /\ client' = [client EXCEPT ![s] = "left"]
    /\ queue' = [queue EXCEPT ![s] = <<>>] /\ told' = [told EXCEPT ![s] = NULL]
    /\ on' = [on EXCEPT ![s] = NULL]
    /\ IF registry = NULL THEN UNCHANGED <<registry, subs, cancelled>>
       ELSE /\ subs' = [subs EXCEPT ![registry] = @ \ {s}]
            /\ IF subs[registry] \subseteq {s}
               THEN /\ registry' = NULL
                    /\ cancelled' = IF watch[registry] = "done" THEN cancelled
                                    ELSE [cancelled EXCEPT ![registry] = TRUE]
               ELSE UNCHANGED <<registry, cancelled>>
    /\ UNCHANGED <<disk, made, snapshot, untold, ready, watch, seen, batch, stray>>

ClientStep(s) == Join(s) \/ Opens(s) \/ Receive(s) \/ Leave(s)

-----------------------------------------------------------------------------
Next == \/ Change \/ DeleteProject \/ Recreate
        \/ \E c \in Channel : WatchStep(c) \/ ScanFails(c)
        \/ \E b \in Batch : Emitted(b) \/ BatchStep(b)
        \/ \E s \in Client : Enter(s) \/ ClientStep(s) \/ GiveUp(s) \/ Disconnect(s)

Spec == Init /\ [][Next]_vars

\* The event loop and its threads go on; files, clients and emitters need not.
FairSpec ==
    /\ Spec
    /\ \A c \in Channel : WF_vars(WatchStep(c))
    /\ \A b \in Batch : WF_vars(BatchStep(b))
    /\ \A s \in Client : WF_vars(ClientStep(s))

-----------------------------------------------------------------------------
(* Properties *)

Version == 0..MaxChanges

EventsTypeOK ==
    /\ exists \in BOOLEAN /\ version \in Version
    /\ troubles \in 0..MaxTroubles
    /\ registry \in Channel \cup {NULL} /\ made \in 0..MaxChannels
    /\ subs \in [Channel -> SUBSET Client]
    /\ snapshot \in [Channel -> Version \cup {NULL}]
    /\ untold \in [Channel -> BOOLEAN] /\ ready \in [Channel -> BOOLEAN]
    /\ watch \in [Channel -> {"none", "new", "scan", "read", "look", "gone", "poll", "done"}]
    /\ cancelled \in [Channel -> BOOLEAN] /\ seen \in [Channel -> Version \cup {NULL}]
    /\ batch \in [Batch -> [pc : {"none", "scan", "read", "gone", "done"},
                            on : Channel \cup {NULL}, seen : Version \cup {NULL}]]
    /\ client \in [Client -> {"out", "entering", "waiting", "woken", "streaming", "leaving", "left"}]
    /\ on \in [Client -> Channel \cup {NULL}]
    /\ \A s \in Client : queue[s] \in Seq(Version \cup {Deleted}) /\ Len(queue[s]) <= QueueMax
    /\ told \in [Client -> Version \cup {NULL}]

Working(c) == watch[c] \notin {"none", "done"} /\ ~cancelled[c]
Registered(s) == client[s] \in {"waiting", "woken", "streaming"} /\ s \in subs[on[s]]
ToldOfTheEnd(s) == \E i \in 1..Len(queue[s]) : queue[s][i] = Deleted

\* Nobody listens to a channel that nobody works for: a stream whose queue is
\* registered has a running watch on its channel, or the end of the project in
\* its queue.
WatchedOrTold ==
    stray \/ \A s \in Client : Registered(s) => Working(on[s]) \/ ToldOfTheEnd(s)

\* The files are scanned for one channel at a time, the one of the key, however
\* channels end and begin.
OneWatch == stray \/ \A c \in Channel : Working(c) => c = registry

\* A subscriber is on a watched channel or has been told that it ended, and
\* a channel has one watcher.
ChannelInv == EventsTypeOK /\ WatchedOrTold /\ OneWatch

\* Whoever listens is told of the present version in the end, whatever late
\* rebuild brought back an old snapshot; or the scan found nothing to tell of in
\* what changed, or the files are gone.
Listens(s) == client[s] = "streaming" /\ Registered(s)
CatchesUp ==
    \A s \in Client :
        []<>(Listens(s) /\ told[s] # NULL => told[s] = version \/ untold[on[s]] \/ ~exists)

\* A stream of a deleted project ends.
DeletionEnds == \A s \in Client : []<>(stray \/ exists \/ ~Listens(s))

\* A request that joined a channel gets its first event, unless the project was
\* deleted under it.
OpensInTheEnd == \A s \in Client : []<>(client[s] \notin {"waiting", "woken"} \/ ToldOfTheEnd(s))

\* With the last stream the scanning ends.
Nobody == \A s \in Client : client[s] \in {"out", "left"}
WatchEnds == []<>(stray \/ (Nobody => \A c \in Channel : watch[c] \in {"none", "done"}))

\* A subscriber gets its first snapshot, or the end when the project is
\* deleted; it catches up with the files; and nobody watches what nobody listens to.
StreamsServed == OpensInTheEnd /\ CatchesUp /\ WatchEnds /\ DeletionEnds

\* The cleaning up after a cancelled request takes out its own channel only.
OwnChannelOnly == ~stray

=============================================================================
