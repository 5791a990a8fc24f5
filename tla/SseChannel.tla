----------------------------- MODULE SseChannel -----------------------------
(***************************************************************************)
(* The fan-out of a message to bounded subscriber queues, and the two      *)
(* answers to a full queue (server/sse_channel.py).  A queue is a sequence;*)
(* subs is the set of subscribers whose queue is registered.               *)
(***************************************************************************)
EXTENDS Integers, Sequences, SequencesExt

CONSTANTS QueueMax,      \* queue_maxsize
          Critical(_),   \* is_critical
          END            \* _END_OF_STREAM

Full(q) == Len(q) >= QueueMax
Droppable(q) == {i \in 1..Len(q) : ~Critical(q[i])}

\* mutant: whatever is oldest is lost
EvictOldest(q) == Tail(q)

\* _evict_one_non_critical: the oldest message that may be lost.
EvictOne(q) ==
    IF Droppable(q) = {} THEN q
    ELSE RemoveAt(q, CHOOSE i \in Droppable(q) : \A j \in Droppable(q) : i <= j)

\* mutant: the bound of the queue is not looked at
DeliversAlways(q, m) == TRUE

\* EvictNonCriticalAndSignal.deliver
Delivers(q, m) == \/ ~Full(q)
                  \/ ~Critical(m)
                  \/ ~Full(EvictOne(q))
AfterDelivery(q, m) ==
    IF ~Full(q) THEN Append(q, m)
    ELSE IF ~Critical(m) THEN q ELSE Append(EvictOne(q), m)

\* finalize_removal: only the end of the stream is left to read.
Signalled == <<END>>

\* broadcast: who is still registered, and what the queues hold afterwards.
Kept(subs, queue, m) == {s \in subs : Delivers(queue[s], m)}
Delivered(subs, queue, m) ==
    [s \in DOMAIN queue |-> IF s \notin subs THEN queue[s]
                            ELSE IF Delivers(queue[s], m) THEN AfterDelivery(queue[s], m) ELSE Signalled]

\* The same of a channel [subs, queue].
Sent(chan, m) == [subs |-> Kept(chan.subs, chan.queue, m),
                  queue |-> Delivered(chan.subs, chan.queue, m)]

\* mutant: nobody is removed
KeptAlways(subs, queue) == subs

\* DropSubscriber.deliver: a full queue loses its subscriber, and its stream
\* goes on idling.
KeptDrop(subs, queue) == {s \in subs : ~Full(queue[s])}
DeliveredDrop(subs, queue, m) ==
    [s \in DOMAIN queue |-> IF s \in KeptDrop(subs, queue) THEN Append(queue[s], m) ELSE queue[s]]

=============================================================================
