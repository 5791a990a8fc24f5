----------------------------- MODULE QueueClient -----------------------------
(***************************************************************************)
(* The callers of the queue that wait (lib/generation_queue_client.py).    *)
(* One batch is followed: its specs are enqueued one after the other, each *)
(* after the one it depends on, then waited for all at once.  The rows are *)
(* those of TaskLifecycle, which TaskStore implements; workers and other   *)
(* callers move them as they like.  Of WorkerLease only is_worker_online   *)
(* is seen from here, and it may change at any time.                       *)
(*                                                                         *)
(* One poll of a wait is one action: what it decides does not depend on    *)
(* the order of its two reads.                                             *)
(***************************************************************************)
EXTENDS Integers, FiniteSets, Sequences

CONSTANTS Task, Key,
          NULL,
          Specs,       \* the batch: <<[key |-> ..., after |-> index or 0], ...>>
          MaxOthers,   \* bound on the rows other callers enqueue
          Grace,       \* read_worker_offline_grace
          Timeout      \* read_task_wait_timeout

ASSUME QueueClientAssumption ==
    /\ IsFiniteSet(Task) /\ NULL \notin Task /\ NULL \notin Key
    /\ MaxOthers \in Nat /\ Grace \in Nat \ {0} /\ Timeout \in Nat \ {0}
    /\ Specs \in Seq([key : Key, after : Nat])
    /\ \A i \in DOMAIN Specs : Specs[i].after < i

VARIABLES state, need, slot,   \* the rows
          online,     \* is_worker_online
          batch,      \* where the batch stands: the spec to enqueue, or a phase
          ids,        \* task_ids
          ours,       \* history: specs that were given a row of their own
          waited,     \* time since the waits began
          offline,    \* per spec: time since offline_since; -1 for None
          result,     \* BatchTaskResult.status
          others

rowVars == <<state, need, slot>>
clientVars == <<batch, ids, ours, waited, offline, result>>
queueVars == <<online, rowVars, clientVars, others>>

Rows == INSTANCE TaskLifecycle
Spec_ == DOMAIN Specs

\* mutant: a task that is being cancelled counts as finished
FinishedOrCancelling == {"succeeded", "failed", "cancelling", "cancelled"}
Finished == {"succeeded", "failed", "cancelled"}

QueueInit ==
    /\ online = FALSE /\ Rows!Init
    /\ batch = "off" /\ ours = {} /\ waited = 0 /\ others = 0
    /\ ids = [i \in Spec_ |-> NULL]
    /\ offline = [i \in Spec_ |-> -1]
    /\ result = [i \in Spec_ |-> "none"]

-----------------------------------------------------------------------------
(* Workers and other callers *)

LeaseChanges == online' = ~online /\ UNCHANGED <<rowVars, clientVars, others>>

\* Tasks move on whether or not the lease of their worker has run out.
RowsMove ==
    /\ \/ \E t \in Task : Rows!Start(t) \/ Rows!Succeed(t) \/ Rows!Fail(t) \/ Rows!AskToStop(t)
       \/ Rows!Cancel
       \/ Rows!SendBack
    /\ UNCHANGED <<online, clientVars, others>>

\* A route enqueues without a look at the lease and without a dependency.
OtherEnqueue ==
    /\ others < MaxOthers /\ others' = others + 1
    /\ Cardinality({t \in Task : state[t] = "absent"}) > Cardinality({i \in Spec_ : ids[i] = NULL})
    /\ \E t \in Task, k \in Key : Rows!Submit(t, NULL, k)
    /\ UNCHANGED <<online, clientVars>>

-----------------------------------------------------------------------------
(* batch_enqueue_and_wait *)

Next_ == Cardinality({i \in Spec_ : ids[i] # NULL}) + 1
Current == IF Next_ \in Spec_ THEN {Next_} ELSE {}

\* enqueue_task_only asks for a worker first; without one the whole batch
\* raises, and the rows of earlier specs stay.
AskOnline ==
    /\ batch \in {"off", "next"} /\ Current # {}
    /\ batch' = IF online THEN "enqueue" ELSE "raised"
    /\ UNCHANGED <<online, rowVars, ids, ours, waited, offline, result, others>>

\* mutant: a dependency that has been given no row of its own is forgotten
DependencyOfOurs(i) ==
    IF Specs[i].after \in ours THEN ids[Specs[i].after] ELSE NULL

\* dependency_resource_id, resolved among the specs enqueued before.
Dependency(i) == IF Specs[i].after = 0 THEN NULL ELSE ids[Specs[i].after]

\* The row of an active task with this key answers for the spec.
EnqueueSpec ==
    /\ batch = "enqueue"
    /\ \E i \in Current :
         \/ \E t \in Task :
              /\ Rows!Submit(t, Dependency(i), Specs[i].key)
              /\ ids' = [ids EXCEPT ![i] = t] /\ ours' = ours \cup {i}
         \/ \E t \in Task :
              /\ state[t] \in Rows!Held /\ slot[t] = Specs[i].key
              /\ ids' = [ids EXCEPT ![i] = t] /\ UNCHANGED <<rowVars, ours>>
    /\ batch' = IF \A i \in Spec_ : ids'[i] # NULL THEN "wait" ELSE "next"
    /\ UNCHANGED <<online, waited, offline, result, others>>

\* mutant: only a worker that is gone ends a wait for a row that does not end
PollUntimed(i) ==
    /\ batch = "wait" /\ result[i] = "none"
    /\ IF state[ids[i]] \in Finished
         THEN result' = [result EXCEPT ![i] = state[ids[i]]] /\ UNCHANGED offline
         ELSE IF ~online /\ offline[i] >= Grace
         THEN result' = [result EXCEPT ![i] = "offline"] /\ UNCHANGED offline
         ELSE /\ offline' = [offline EXCEPT ![i] = IF online THEN -1 ELSE IF @ = -1 THEN 0 ELSE @]
              /\ UNCHANGED result
    /\ UNCHANGED <<online, rowVars, batch, ids, ours, waited, others>>

\* One turn of the loop of wait_for_task, for the row of spec i.
Poll(i) ==
    /\ batch = "wait" /\ result[i] = "none"
    /\ CASE state[ids[i]] \in Finished ->
              result' = [result EXCEPT ![i] = state[ids[i]]] /\ UNCHANGED offline
         [] state[ids[i]] \notin Finished /\ waited >= Timeout ->
              result' = [result EXCEPT ![i] = "timeout"] /\ UNCHANGED offline
         [] OTHER ->
              IF ~online /\ offline[i] >= Grace
                THEN result' = [result EXCEPT ![i] = "offline"] /\ UNCHANGED offline
                ELSE /\ offline' = [offline EXCEPT ![i] = IF online THEN -1 ELSE IF @ = -1 THEN 0 ELSE @]
                     /\ UNCHANGED result
    /\ UNCHANGED <<online, rowVars, batch, ids, ours, waited, others>>

\* Timers count up to what they are compared with.
Time ==
    /\ waited' = IF batch = "wait" /\ waited < Timeout THEN waited + 1 ELSE waited
    /\ offline' = [i \in Spec_ |-> IF offline[i] \in 0..(Grace - 1) THEN offline[i] + 1 ELSE offline[i]]
    /\ UNCHANGED <<online, rowVars, batch, ids, ours, result, others>>

QueueNext ==
    \/ Time
    \/ LeaseChanges
    \/ RowsMove \/ OtherEnqueue
    \/ AskOnline \/ EnqueueSpec
    \/ \E i \in Spec_ : Poll(i)

QueueSpec == QueueInit /\ [][QueueNext]_queueVars

\* Clients go on polling and time passes; nothing is assumed of workers and
\* tasks: no task needs ever to end.
QueueFairSpec ==
    /\ QueueSpec
    /\ WF_queueVars(Time)
    /\ WF_queueVars(AskOnline \/ EnqueueSpec)
    /\ \A i \in Spec_ : WF_queueVars(Poll(i))

-----------------------------------------------------------------------------
QueueTypeOK ==
    /\ online \in BOOLEAN
    /\ need \in [Task -> Task \cup {NULL}] /\ slot \in [Task -> Key \cup {NULL}]
    /\ batch \in {"off", "next", "enqueue", "wait", "raised"}
    /\ \A i \in Spec_ : ids[i] # NULL => state[ids[i]] # "absent"
    /\ offline \in [Spec_ -> -1..Grace] /\ waited \in 0..Timeout
    /\ result \in [Spec_ -> {"none", "succeeded", "failed", "cancelled", "timeout", "offline"}]

\* A dependent is not reported as a success beside a dependency that failed or
\* was cancelled: its row started after the success of that dependency, be it
\* a row of this batch or one that another caller had enqueued.  (A dependent
\* whose own row is another caller's has that caller's dependency, not ours.)
SuccessesInOrder ==
    \A i \in ours : Specs[i].after # 0 =>
        /\ state[ids[i]] \in {"running", "cancelling", "succeeded"} => state[ids[Specs[i].after]] = "succeeded"
        /\ result[i] = "succeeded" => result[Specs[i].after] \notin {"failed", "cancelled"}

\* A batch's state is well formed and it reports its successes in the order
\* in which it was given the tasks.
BatchInv == QueueTypeOK /\ SuccessesInOrder

\* Every wait ends, though a dependent that was enqueued after its dependency
\* had failed stays queued for ever: no cascade reaches it any more.
BatchEnds == batch # "off" ~> batch = "raised" \/ \A i \in Spec_ : result[i] # "none"

=============================================================================
