----------------------------- MODULE TaskStore -----------------------------
(***************************************************************************)
(* The `tasks` table of the generation queue and every transaction the     *)
(* repository runs on it (lib/db/repositories/task_repo.py), together with *)
(* the in-process callbacks that GenerationQueue still owes the worker     *)
(* (lib/generation_queue.py).                                              *)
(*                                                                         *)
(* Granularity.  A repository call that starts with an UPDATE is one       *)
(* transaction and one action.  A call that SELECTs first and UPDATEs      *)
(* later (claim_next, cancel_task, cancel_all_queued) is two actions: the  *)
(* SELECT takes no lock, so another session may commit in between.  From   *)
(* its first UPDATE on a session holds the write lock of the default       *)
(* SQLite engine, so the rest of the call is atomic.                       *)
(*                                                                         *)
(* Only tasks of one project and one user are modelled (the scope of       *)
(* cancel_all_queued).  A refused write (0 rows) changes nothing and is a  *)
(* stuttering step.                                                        *)
(***************************************************************************)
EXTENDS Integers, FiniteSets

CONSTANTS Task,     \* the task ids (uuid4: never reused)
          Key,      \* the values of the columns of idx_tasks_dedupe_active
          NULL,     \* dependency_task_id IS NULL; no row selected
          MaxOpenCalls  \* bound on the cancel calls open at the same time

ASSUME TaskStoreAssumption == /\ IsFiniteSet(Task)
                              /\ NULL \notin Task
                              /\ NULL \notin Key
                              /\ MaxOpenCalls \in Nat

VARIABLES status,       \* Task.status; "absent" while there is no such row
          dep,          \* Task.dependency_task_id
          key,          \* the dedupe key of the row
          queuedAt,     \* Task.queued_at, as the rank of the INSERT
          cancelledBy,  \* Task.cancelled_by
          lastEvent,    \* status carried by the newest task_events row
          claimRead,    \* the row the SELECT of claim_next returned
          cancelRead,   \* per task: the status an open cancel_task has read
          allRead,      \* rows SELECTed by open cancel_all_queued calls
          signals       \* callbacks GenerationQueue has still to make

rowVars == <<status, dep, key, queuedAt, cancelledBy, lastEvent>>
sessionVars == <<claimRead, cancelRead, allRead, signals>>
storeVars == <<rowVars, sessionVars>>

Active == {"queued", "running", "cancelling"}
Terminal == {"succeeded", "failed", "cancelled"}
Status == Active \cup Terminal
Rows == {t \in Task : status[t] # "absent"}

StoreInit ==
    /\ status = [t \in Task |-> "absent"]
    /\ dep = [t \in Task |-> NULL]
    /\ key = [t \in Task |-> NULL]
    /\ queuedAt = [t \in Task |-> 0]
    /\ cancelledBy = [t \in Task |-> "none"]
    /\ lastEvent = [t \in Task |-> "none"]
    /\ claimRead = NULL
    /\ cancelRead = [t \in Task |-> "none"]
    /\ allRead = {}
    /\ signals = {}

-----------------------------------------------------------------------------
(* Helpers *)

\* The queued rows that wait, directly or through queued rows, for t.  The
\* code walks them recursively; here they are the least set closed under
\* "queued and depends on t or on a member".
QueuedBelow(t) ==
    {d \in Task :
        \A S \in SUBSET Task :
            (\A e \in Task : status[e] = "queued" /\ dep[e] \in S \cup {t} => e \in S)
                => d \in S}

\* One UPDATE of Task.status on the rows of S, and the events it appends.
SetStatus(S, s) ==
    /\ status' = [t \in Task |-> IF t \in S THEN s ELSE status[t]]
    /\ lastEvent' = [t \in Task |-> IF t \in S THEN s ELSE lastEvent[t]]

\* SQL COALESCE(cancelled_by, who)
Coalesce(old, who) == IF old = "none" THEN who ELSE old

\* _mark_cancelled(t, cascade=True) on a row that is not terminal: t and the
\* queued rows below it become cancelled; a running row met by the cascade
\* only becomes cancelling and is reported for a cancel signal.
CancelWithCascade(t, who) ==
    LET below == QueuedBelow(t) \ {t}
        gone == below \cup {t}
        hit == {d \in Task \ gone : status[d] = "running" /\ dep[d] \in gone}
        After(old) == [d \in Task |-> CASE d \in gone -> "cancelled"
                                        [] d \in hit  -> "cancelling"
                                        [] OTHER      -> old[d]]
    IN /\ status' = After(status)
       /\ lastEvent' = After(lastEvent)
       /\ cancelledBy' = [d \in Task |->
                            CASE d = t       -> Coalesce(cancelledBy[d], who)
                              [] d \in below -> Coalesce(cancelledBy[d], "cascade")
                              [] d \in hit   -> "cascade"
                              [] OTHER       -> cancelledBy[d]]
       /\ signals' = signals \cup hit

-----------------------------------------------------------------------------
(* Transactions *)

\* mutant: the partial unique index forgets the rows being cancelled
EnqueueBesideCancelling(t, d, k) ==
    /\ status[t] = "absent"
    /\ d \in Rows \cup {NULL}
    /\ \A x \in Task : status[x] \in {"queued", "running"} => key[x] # k
    /\ SetStatus({t}, "queued")
    /\ dep' = [dep EXCEPT ![t] = d]
    /\ key' = [key EXCEPT ![t] = k]
    /\ queuedAt' = [queuedAt EXCEPT ![t] = Cardinality(Rows) + 1]
    /\ UNCHANGED <<cancelledBy, sessionVars>>

\* enqueue: the unique index admits a row only when no active row has its key
\* (a duplicate answers with the existing task_id and changes nothing).
Enqueue(t, d, k) ==
    /\ status[t] = "absent"
    /\ d \in Rows \cup {NULL}
    /\ \A x \in Task : status[x] \in Active => key[x] # k
    /\ SetStatus({t}, "queued")
    /\ dep' = [dep EXCEPT ![t] = d]
    /\ key' = [key EXCEPT ![t] = k]
    /\ queuedAt' = [queuedAt EXCEPT ![t] = Cardinality(Rows) + 1]
    /\ UNCHANGED <<cancelledBy, sessionVars>>

\* mutant: a dependency that is merely finished lets its dependents start
ClaimableAfterAnyEnd(lane) ==
    {t \in lane : /\ status[t] = "queued"
                  /\ dep[t] # NULL => status[dep[t]] \in Terminal}

\* The rows claim_next may return for one media lane and one blacklist of
\* full providers; lane is the set of rows that pass both filters.
Claimable(lane) ==
    {t \in lane : /\ status[t] = "queued"
                  /\ dep[t] # NULL => status[dep[t]] = "succeeded"}

\* claim_next, SELECT ... ORDER BY queued_at LIMIT 1.
ClaimSelect(lane) ==
    /\ claimRead = NULL
    /\ \E t \in Claimable(lane) :
          /\ \A x \in Claimable(lane) : queuedAt[t] <= queuedAt[x]
          /\ claimRead' = t
    /\ UNCHANGED <<rowVars, cancelRead, allRead, signals>>

\* claim_next, UPDATE ... WHERE status = 'queued'.
ClaimUpdate ==
    /\ claimRead # NULL
    /\ IF status[claimRead] = "queued"
         THEN SetStatus({claimRead}, "running")
         ELSE UNCHANGED <<status, lastEvent>>
    /\ claimRead' = NULL
    /\ UNCHANGED <<dep, key, queuedAt, cancelledBy, cancelRead, allRead, signals>>

\* mutant: a late success wins over a cancel in progress
MarkSucceededLate(t) ==
    /\ status[t] \in {"running", "cancelling"}
    /\ SetStatus({t}, "succeeded")
    /\ UNCHANGED <<dep, key, queuedAt, cancelledBy, sessionVars>>

MarkSucceeded(t) ==
    /\ status[t] = "running"
    /\ SetStatus({t}, "succeeded")
    /\ UNCHANGED <<dep, key, queuedAt, cancelledBy, sessionVars>>

\* mutant: the cascade stops at the direct dependents
MarkFailedOneLevel(t) ==
    /\ status[t] = "running"
    /\ SetStatus({t} \cup {d \in Task : status[d] = "queued" /\ dep[d] = t}, "failed")
    /\ UNCHANGED <<dep, key, queuedAt, cancelledBy, sessionVars>>

\* mark_failed and its cascade over the queued rows below t.
MarkFailed(t) ==
    /\ status[t] = "running"
    /\ SetStatus({t} \cup QueuedBelow(t), "failed")
    /\ UNCHANGED <<dep, key, queuedAt, cancelledBy, sessionVars>>

\* finalize_cancelled: queued, running and cancelling rows all give way.
FinalizeCancelled(t) ==
    /\ status[t] \in Active
    /\ CancelWithCascade(t, "user")
    /\ UNCHANGED <<dep, key, queuedAt, claimRead, cancelRead, allRead>>

OpenCalls == Cardinality({t \in Task : cancelRead[t] # "none"}) + Cardinality(allRead)

\* cancel_task, SELECT.  A row read as cancelling or terminal ends the call.
CancelSelect(t) ==
    /\ cancelRead[t] = "none" /\ OpenCalls < MaxOpenCalls
    /\ status[t] \in {"queued", "running"}
    /\ cancelRead' = [cancelRead EXCEPT ![t] = status[t]]
    /\ UNCHANGED <<rowVars, claimRead, allRead, signals>>

\* cancel_task, the branch for a row read as queued: _mark_cancelled, whose
\* WHERE clause also accepts a row that has meanwhile started running.
CancelQueuedUpdate(t) ==
    /\ cancelRead[t] = "queued"
    /\ cancelRead' = [cancelRead EXCEPT ![t] = "none"]
    /\ IF status[t] \in Active
         THEN CancelWithCascade(t, "user")
         ELSE UNCHANGED <<status, lastEvent, cancelledBy, signals>>
    /\ UNCHANGED <<dep, key, queuedAt, claimRead, allRead>>

\* mutant: cancelled_by is left for the worker to fill in
CancelRunningUnsigned(t) ==
    /\ cancelRead[t] = "running"
    /\ cancelRead' = [cancelRead EXCEPT ![t] = "none"]
    /\ IF status[t] = "running"
         THEN SetStatus({t}, "cancelling") ELSE UNCHANGED <<status, lastEvent>>
    /\ signals' = IF status[t] \in {"running", "cancelling"}
                    THEN signals \cup {t} ELSE signals
    /\ UNCHANGED <<dep, key, queuedAt, cancelledBy, claimRead, allRead>>

\* cancel_task, the branch for a row read as running: _mark_cancelling, or a
\* refresh that reports a row another call has already made cancelling.
CancelRunningUpdate(t) ==
    /\ cancelRead[t] = "running"
    /\ cancelRead' = [cancelRead EXCEPT ![t] = "none"]
    /\ IF status[t] = "running"
         THEN /\ SetStatus({t}, "cancelling")
              /\ cancelledBy' = [cancelledBy EXCEPT ![t] = "user"]
         ELSE UNCHANGED <<status, lastEvent, cancelledBy>>
    /\ signals' = IF status[t] \in {"running", "cancelling"}
                    THEN signals \cup {t} ELSE signals
    /\ UNCHANGED <<dep, key, queuedAt, claimRead, allRead>>

\* cancel_all_queued, SELECT.
CancelAllSelect ==
    /\ allRead = {} /\ OpenCalls < MaxOpenCalls
    /\ allRead' = {{t \in Task : status[t] = "queued"}}
    /\ UNCHANGED <<rowVars, claimRead, cancelRead, signals>>

\* mutant: an event for every listed row, cancelled or not
CancelAllUpdateTellsAll ==
    \E seen \in allRead :
        LET queued == {t \in Task : status[t] = "queued"}
        IN /\ status' = [t \in Task |-> IF t \in queued THEN "cancelled" ELSE status[t]]
           /\ cancelledBy' = [t \in Task |-> IF t \in queued THEN "user" ELSE cancelledBy[t]]
           /\ lastEvent' = [t \in Task |-> IF t \in seen THEN "cancelled" ELSE lastEvent[t]]
           /\ allRead' = {}
           /\ UNCHANGED <<dep, key, queuedAt, claimRead, cancelRead, signals>>

\* cancel_all_queued, UPDATE of the rows queued now, then one event for each
\* row of the earlier SELECT that is now cancelled.
CancelAllUpdate ==
    \E seen \in allRead :
        LET queued == {t \in Task : status[t] = "queued"}
            told == {t \in seen : t \in queued \/ status[t] = "cancelled"}
        IN /\ status' = [t \in Task |-> IF t \in queued THEN "cancelled" ELSE status[t]]
           /\ cancelledBy' = [t \in Task |-> IF t \in queued THEN "user" ELSE cancelledBy[t]]
           /\ lastEvent' = [t \in Task |-> IF t \in told THEN "cancelled" ELSE lastEvent[t]]
           /\ allRead' = {}
           /\ UNCHANGED <<dep, key, queuedAt, claimRead, cancelRead, signals>>

\* GenerationWorker._requeue_single_task: no event is appended.
RequeueSingle(t) ==
    /\ status[t] = "running"
    /\ status' = [status EXCEPT ![t] = "queued"]
    /\ UNCHANGED <<dep, key, queuedAt, cancelledBy, lastEvent, sessionVars>>

\* requeue_running, the manual rescue: of the rows its SELECT has listed (up to
\* a limit), those that are still running at the UPDATE.
RequeueRunning ==
    \E S \in SUBSET {t \in Task : status[t] = "running"} :
        /\ S # {}
        /\ SetStatus(S, "queued")
        /\ UNCHANGED <<dep, key, queuedAt, cancelledBy, sessionVars>>

\* The synchronous callback loop at the end of cancel_task and
\* mark_task_cancelled; what it does to the worker is in GenerationWorker.
SignalSent(t) ==
    /\ t \in signals
    /\ signals' = signals \ {t}
    /\ UNCHANGED <<rowVars, claimRead, cancelRead, allRead>>

\* The process dies: the calls that were open in it are gone, the rows stay.
SessionsLost ==
    /\ claimRead' = NULL
    /\ cancelRead' = [t \in Task |-> "none"]
    /\ allRead' = {}
    /\ signals' = {}
    /\ UNCHANGED rowVars

StoreNext ==
    \/ \E t \in Task, d \in Task \cup {NULL}, k \in Key : Enqueue(t, d, k)
    \/ \E lane \in SUBSET Task : ClaimSelect(lane)
    \/ ClaimUpdate
    \/ CancelAllSelect
    \/ CancelAllUpdate
    \/ RequeueRunning
    \/ SessionsLost
    \/ \E t \in Task : \/ MarkSucceeded(t)
                       \/ MarkFailed(t)
                       \/ FinalizeCancelled(t)
                       \/ CancelSelect(t)
                       \/ CancelQueuedUpdate(t)
                       \/ CancelRunningUpdate(t)
                       \/ RequeueSingle(t)
                       \/ SignalSent(t)

StoreSpec == StoreInit /\ [][StoreNext]_storeVars

-----------------------------------------------------------------------------
(* Properties *)

\* The values every column and every open session can hold.
StoreTypeOK ==
    /\ status \in [Task -> Status \cup {"absent"}]
    /\ dep \in [Task -> Task \cup {NULL}]
    /\ key \in [Task -> Key \cup {NULL}]
    /\ queuedAt \in [Task -> Nat]
    /\ cancelledBy \in [Task -> {"none", "user", "cascade"}]
    /\ lastEvent \in [Task -> Status \cup {"none"}]
    /\ claimRead \in Task \cup {NULL}
    /\ cancelRead \in [Task -> {"none", "queued", "running"}]
    /\ allRead \in SUBSET SUBSET Task
    /\ signals \in SUBSET Task

\* Two rows that both still hold or await a slot never share a dedupe key,
\* through any mix of cancelling, requeueing and finishing: no later
\* transition may bring a row back under the partial unique index
\* idx_tasks_dedupe_active that a newer row now occupies.
UniqueActiveKey ==
    \A t, x \in Task :
        status[t] \in Active /\ status[x] \in Active /\ key[t] = key[x] => t = x

\* A row that has ever been claimed, and is not failed or cancelled since,
\* has a dependency that succeeded: claim_next checks it only in its SELECT,
\* so the check must still hold when the UPDATE, a requeue or a cancel comes.
RunsAfterDependency ==
    \A t \in Task :
        status[t] \in {"running", "cancelling", "succeeded"} /\ dep[t] # NULL
            => status[dep[t]] = "succeeded"

\* cancelled_by tells the truth: a row marked 'cascade' hangs below a row that
\* is itself cancelled, and no row in any other state carries a mark.
CancelAttribution ==
    \A t \in Task :
        /\ cancelledBy[t] # "none" <=> status[t] \in {"cancelling", "cancelled"}
        /\ cancelledBy[t] = "cascade"
              => dep[t] # NULL /\ status[dep[t]] = "cancelled"

\* A reader of task_events that trusts the newest event of a task is never
\* wrong about an outcome; it may only lag behind a silent requeue
\* (_requeue_single_task) or behind a row that cancel_all_queued cancelled
\* without having listed it.
EventsNeverLie ==
    \A t \in Task :
        \/ lastEvent[t] = status[t]
        \/ status[t] = "absent" /\ lastEvent[t] = "none"
        \/ status[t] = "queued" /\ lastEvent[t] = "running"
        \/ status[t] = "cancelled" /\ lastEvent[t] \in {"queued", "running"}

\* The transaction that fails or cancels a row takes every queued row that
\* depends on it along: mark_failed and _mark_cancelled cascade to grandchildren
\* and cancel_all_queued sweeps all, so none is left waiting for a lost input.
NoDependentLeftBehind ==
    [][\A t, d \in Task :
          /\ status[t] \in Active
          /\ status'[t] \in {"failed", "cancelled"}
          /\ dep[d] = t
          => status'[d] # "queued"]_storeVars

\* A terminal row never changes status again, and a cancelling row can only
\* become cancelled: the races of ADR 0006 between the cancel API and the
\* worker's late writes all end this way.
OneWayStates ==
    [][\A t \in Task :
          /\ status[t] \in Terminal => status'[t] = status[t]
          /\ status[t] = "cancelling" => status'[t] \in {"cancelling", "cancelled"}]_storeVars

\* Seen from outside, the two-step claims and cancels of several sessions are
\* single steps of the lifecycle the queue promises: the cascades take all
\* that waits along, a claim still finds its dependency succeeded, and the
\* branch of _mark_cancelled that would stop a running dependent finds none.
Lifecycle == INSTANCE TaskLifecycle WITH state <- status, need <- dep, slot <- key
ImplementsLifecycle == Lifecycle!Spec

=============================================================================
