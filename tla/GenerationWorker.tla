-------------------------- MODULE GenerationWorker --------------------------
(***************************************************************************)
(* The generation worker (lib/generation_worker.py) on top of the task     *)
(* table: the main loop (drain, orphan scan, claim), one asyncio task per  *)
(* claimed row (_process_task) or resumed row (_process_resume_task), the  *)
(* in-process cancel signal, shutdown, crash and restart, and the paid     *)
(* submissions to the provider.                                            *)
(*                                                                         *)
(* Every action is what one coroutine does between two of its awaits.      *)
(* Rows in Resumable are video rows of a provider with resume_video; all   *)
(* others (image, audio, Grok and Vidu video) cannot be resumed.  The two  *)
(* kinds use two provider pools of the same size.  Rows in NoProvider have *)
(* provider_id NULL, which the pool filter of claim_next lets through.     *)
(***************************************************************************)
EXTENDS TaskStore

CONSTANTS Resumable, NoProvider,
          Capacity,      \* slots of one provider pool
          MaxRestarts,   \* bound on crashes and shutdowns
          MaxFlaps       \* bound on leases lost long enough for a new scan

ASSUME WorkerAssumption == /\ Resumable \subseteq Task
                           /\ NoProvider \subseteq Task
                           /\ Capacity \in Nat \ {0}
                           /\ MaxRestarts \in Nat
                           /\ MaxFlaps \in Nat

VARIABLES loop,        \* where _run_loop stands
          cur,         \* the claimed row _claim_tasks has not dispatched yet
          exec,        \* per row: where its asyncio task stands
          slots,       \* task ids in the SlotTable
          sig,         \* asyncio tasks with a cancel() still to be thrown in
          shielded,    \* per row: shielded writes that outlived their awaiter
          drainQ,      \* cancelled tasks _drain_finished_tasks has to settle
          orphanRead,  \* per row: its status in the orphan list being handled
          resumeQ,     \* rows handed to the resume dispatcher
          batch,       \* per row: the orphan scan that handed it over
          handled,     \* _orphan_handled_once
          stopping,    \* _stop_event
          jobId,       \* rows with provider_job_id
          submits,     \* per row: paid submissions the provider has accepted
          restarts, flaps

loopVars == <<loop, cur, drainQ, orphanRead, handled, stopping>>
orphanVars == <<resumeQ, batch>>
taskVars == <<exec, slots, sig, shielded, orphanVars>>
envVars == <<jobId, submits, restarts, flaps>>
workerVars == <<loopVars, taskVars, envVars>>
vars == <<storeVars, workerVars>>

\* Phases of _process_task: created (its first await, before the try block),
\* executing, submitted (job accepted, id not yet stored), polling, and the
\* three awaits on a final write: ok, error, and cancelled after 0 rows or
\* after CancelledError.
Before == {"created", "executing"}
Working == {"executing", "submitted", "polling"}
Settling == {"settleOk", "settleErr", "settleZero", "settleCancel"}
Done == {"doneOk", "doneCancelled"}
\* Phases of _run_one around _process_resume_task: new (never scheduled),
\* waiting for the semaphore, polling, final writes; quit and exit are the
\* handler of CancelledError in _run_one, without and with the semaphore; dead
\* is a task cancelled before its first step.
Admitted == {"rPolling", "rOk", "rErr", "rZero", "rExit"}
Resuming == {"rNew", "rWait", "rQuit"} \cup Admitted
Phase == {"none", "created", "rDead"} \cup Working \cup Settling \cup Done \cup Resuming
Live == {"created"} \cup Working \cup Settling \cup Resuming
Outcome == {"succeeded", "failed", "cancelled"}

WorkerInit ==
    /\ loop = "top" /\ cur = NULL
    /\ exec = [t \in Task |-> "none"]
    /\ slots = {} /\ sig = {}
    /\ shielded = [t \in Task |-> {}]
    /\ drainQ = {}
    /\ orphanRead = [t \in Task |-> "none"]
    /\ resumeQ = {}
    /\ batch = [t \in Task |-> 0]
    /\ handled = FALSE /\ stopping = FALSE
    /\ jobId = {}
    /\ submits = [t \in Task |-> 0]
    /\ restarts = 0 /\ flaps = 0

Init == StoreInit /\ WorkerInit

-----------------------------------------------------------------------------
(* Helpers *)

Peers(t) == IF t \in Resumable THEN Resumable ELSE Task \ Resumable
HasRoom(t) == Cardinality(slots \cap Peers(t)) < Capacity

\* The guarded writes: a write that finds its row in another state is 0 rows.
TrySucceed(t) == MarkSucceeded(t) \/ (status[t] # "running" /\ UNCHANGED storeVars)
TryFail(t) == MarkFailed(t) \/ (status[t] # "running" /\ UNCHANGED storeVars)
TryCancel(t) == FinalizeCancelled(t) \/ (status[t] \notin Active /\ UNCHANGED storeVars)
\* mark_failed and, on 0 rows, mark_cancelled: the protocol of ADR 0006.
FailOrCancel(t) == MarkFailed(t) \/ (status[t] # "running" /\ TryCancel(t))

Go(t, phase) == exec' = [exec EXCEPT ![t] = phase]

-----------------------------------------------------------------------------
(* The API side *)

\* Clients: enqueue, cancel one task, cancel all queued tasks.
Client ==
    /\ \/ \E t \in Task, d \in Task \cup {NULL}, k \in Key : Enqueue(t, d, k)
       \/ \E t \in Task : \/ CancelSelect(t)
                          \/ CancelQueuedUpdate(t)
                          \/ CancelRunningUpdate(t)
       \/ CancelAllSelect
       \/ CancelAllUpdate
    /\ UNCHANGED workerVars

\* request_cancel: reaches the asyncio task only if it is in the SlotTable.
RequestCancel(t) ==
    /\ SignalSent(t)
    /\ sig' = IF t \in slots /\ exec[t] \in Live THEN sig \cup {t} ELSE sig
    /\ UNCHANGED <<loopVars, exec, slots, shielded, orphanVars, envVars>>

-----------------------------------------------------------------------------
(* The main loop *)

\* _drain_finished_tasks: finished tasks leave the table at once; those that
\* ended cancelled are then settled one await at a time.
Drain ==
    /\ loop = "top" /\ ~stopping
    /\ LET finished == {t \in slots : exec[t] \in Done}
       IN /\ slots' = slots \ finished
          /\ exec' = [t \in Task |-> IF t \in finished THEN "none" ELSE exec[t]]
          /\ drainQ' = {t \in finished : exec[t] = "doneCancelled"}
    /\ loop' = "drain"
    /\ UNCHANGED <<storeVars, cur, orphanRead, handled, stopping, sig, shielded,
                   orphanVars, envVars>>

DrainCancelled(t) ==
    /\ loop = "drain" /\ t \in drainQ
    /\ TryCancel(t)
    /\ drainQ' = drainQ \ {t}
    /\ UNCHANGED <<loop, cur, orphanRead, handled, stopping, taskVars, envVars>>

EndDrain ==
    /\ loop = "drain" /\ drainQ = {}
    /\ loop' = IF handled THEN "claim" ELSE "scan"
    /\ UNCHANGED <<storeVars, cur, drainQ, orphanRead, handled, stopping, taskVars, envVars>>

\* The lease came back after more than three TTLs: orphans are scanned again.
\* By then the dispatcher of an earlier scan has long created its tasks.
LeaseRegained ==
    /\ loop = "drain" /\ resumeQ = {} /\ flaps < MaxFlaps
    /\ handled' = FALSE
    /\ flaps' = flaps + 1
    /\ UNCHANGED <<storeVars, loop, cur, drainQ, orphanRead, stopping, taskVars,
                   jobId, submits, restarts>>

\* mutants: the SELECT lists every row; it lists only the cancelling ones
ListOrphansAll ==
    /\ loop = "scan"
    /\ orphanRead' = [t \in Task |-> IF status[t] = "absent" THEN "none" ELSE status[t]]
    /\ loop' = "filter"
    /\ UNCHANGED <<storeVars, cur, drainQ, handled, stopping, taskVars, envVars>>

ListOrphansCancelling ==
    /\ loop = "scan"
    /\ orphanRead' = [t \in Task |-> IF status[t] = "cancelling" THEN status[t] ELSE "none"]
    /\ loop' = "filter"
    /\ UNCHANGED <<storeVars, cur, drainQ, handled, stopping, taskVars, envVars>>

\* list_orphan_tasks_on_start: one SELECT, then the session is closed.
ListOrphans ==
    /\ loop = "scan"
    /\ orphanRead' = [t \in Task |-> IF status[t] \in {"running", "cancelling"}
                                     THEN status[t] ELSE "none"]
    /\ loop' = "filter"
    /\ UNCHANGED <<storeVars, cur, drainQ, handled, stopping, taskVars, envVars>>

\* mutant: no row is recognised as this process's own
SkipNothing ==
    /\ loop = "filter"
    /\ loop' = "orphans"
    /\ UNCHANGED <<storeVars, cur, drainQ, orphanRead, handled, stopping, taskVars, envVars>>

\* active_task_ids: rows this process still works on are no orphans.
SkipOwnTasks ==
    /\ loop = "filter"
    /\ orphanRead' = [t \in Task |-> IF t \in slots THEN "none" ELSE orphanRead[t]]
    /\ loop' = "orphans"
    /\ UNCHANGED <<storeVars, cur, drainQ, handled, stopping, taskVars, envVars>>

\* mutants: an orphan without a job goes back to the queue; it is passed over
HandleOrphanRequeue(t) ==
    /\ loop = "orphans" /\ orphanRead[t] # "none"
    /\ orphanRead' = [orphanRead EXCEPT ![t] = "none"]
    /\ \/ /\ orphanRead[t] = "cancelling"
          /\ TryCancel(t)
          /\ UNCHANGED orphanVars
       \/ /\ orphanRead[t] = "running" /\ t \notin Resumable \cap jobId
          /\ RequeueSingle(t) \/ (status[t] # "running" /\ TryCancel(t))
          /\ UNCHANGED orphanVars
       \/ /\ orphanRead[t] = "running" /\ t \in Resumable \cap jobId
          /\ resumeQ' = resumeQ \cup {t}
          /\ batch' = [batch EXCEPT ![t] = flaps]
          /\ UNCHANGED storeVars
    /\ UNCHANGED <<loop, cur, drainQ, handled, stopping, exec, slots, sig, shielded, envVars>>

HandleOrphanSkip(t) ==
    /\ loop = "orphans" /\ orphanRead[t] # "none"
    /\ orphanRead' = [orphanRead EXCEPT ![t] = "none"]
    /\ \/ /\ orphanRead[t] = "cancelling"
          /\ TryCancel(t)
          /\ UNCHANGED orphanVars
       \/ /\ orphanRead[t] = "running" /\ t \notin Resumable \cap jobId
          /\ UNCHANGED <<storeVars, orphanVars>>
       \/ /\ orphanRead[t] = "running" /\ t \in Resumable \cap jobId
          /\ resumeQ' = resumeQ \cup {t}
          /\ batch' = [batch EXCEPT ![t] = flaps]
          /\ UNCHANGED storeVars
    /\ UNCHANGED <<loop, cur, drainQ, handled, stopping, exec, slots, sig, shielded, envVars>>

HandleOrphan(t) ==
    /\ loop = "orphans" /\ orphanRead[t] # "none"
    /\ orphanRead' = [orphanRead EXCEPT ![t] = "none"]
    /\ \/ /\ orphanRead[t] = "cancelling"
          /\ TryCancel(t)
          /\ UNCHANGED orphanVars
       \/ /\ orphanRead[t] = "running" /\ t \notin Resumable \cap jobId
          /\ FailOrCancel(t)
          /\ UNCHANGED orphanVars
       \/ /\ orphanRead[t] = "running" /\ t \in Resumable \cap jobId
          /\ resumeQ' = resumeQ \cup {t}
          /\ batch' = [batch EXCEPT ![t] = flaps]
          /\ UNCHANGED storeVars
    /\ UNCHANGED <<loop, cur, drainQ, handled, stopping, exec, slots, sig, shielded, envVars>>

EndOrphans ==
    /\ loop = "orphans" /\ \A t \in Task : orphanRead[t] = "none"
    /\ handled' = TRUE
    /\ loop' = "claim"
    /\ UNCHANGED <<storeVars, cur, drainQ, orphanRead, stopping, taskVars, envVars>>

\* claim_next_task for one media lane, under the blacklist of full pools.  The
\* resume dispatcher, two turns of the event loop behind the orphan scan, has
\* registered its rows by the time a claim returns from the database thread.
ClaimNext ==
    /\ loop = "claim" /\ resumeQ = {}
    /\ \E kind \in {Resumable, Task \ Resumable} :
          ClaimSelect({t \in kind : t \in NoProvider \/ HasRoom(t)})
    /\ UNCHANGED workerVars

Claim ==
    /\ loop = "claim"
    /\ ClaimUpdate
    /\ IF status[claimRead] = "queued"
         THEN cur' = claimRead /\ loop' = "claimed"
         ELSE cur' = cur /\ loop' = "top"
    /\ UNCHANGED <<drainQ, orphanRead, handled, stopping, taskVars, envVars>>

NothingToClaim ==
    /\ loop = "claim" /\ claimRead = NULL
    /\ Claimable({t \in Task : t \in NoProvider \/ HasRoom(t)}) = {}
    /\ loop' = "top"
    /\ UNCHANGED <<storeVars, cur, drainQ, orphanRead, handled, stopping, taskVars, envVars>>

\* cap <= 0: the provider does not support the lane, or reload_limits has just
\* closed it.  The number of rows mark_task_failed reports is not looked at.
ClaimedUnsupported ==
    /\ loop = "claimed"
    /\ TryFail(cur)
    /\ cur' = NULL /\ loop' = "claim"
    /\ UNCHANGED <<drainQ, orphanRead, handled, stopping, taskVars, envVars>>

\* mutant: break without putting the row back
ClaimedNoRoomDropped ==
    /\ loop = "claimed" /\ ~HasRoom(cur)
    /\ cur' = NULL /\ loop' = "top"
    /\ UNCHANGED <<storeVars, drainQ, orphanRead, handled, stopping, taskVars, envVars>>

\* The pool is full after all: back to queued, if the row still is running.
ClaimedNoRoom ==
    /\ loop = "claimed" /\ ~HasRoom(cur)
    /\ RequeueSingle(cur) \/ (status[cur] # "running" /\ UNCHANGED storeVars)
    /\ cur' = NULL /\ loop' = "top"
    /\ UNCHANGED <<drainQ, orphanRead, handled, stopping, taskVars, envVars>>

Dispatch ==
    /\ loop = "claimed" /\ HasRoom(cur)
    /\ Go(cur, "created")
    /\ slots' = slots \cup {cur}
    /\ cur' = NULL /\ loop' = "claim"
    /\ UNCHANGED <<storeVars, drainQ, orphanRead, handled, stopping, sig, shielded,
                   orphanVars, envVars>>

-----------------------------------------------------------------------------
(* _process_task *)

\* The provider is resolved and execute_generation_task starts.
Begin(t) ==
    /\ exec[t] = "created" /\ t \notin sig
    /\ Go(t, "executing")
    /\ UNCHANGED <<storeVars, loopVars, slots, sig, shielded, orphanVars, envVars>>

\* The provider accepts (and charges) the request.
Submit(t) ==
    /\ exec[t] = "executing" /\ t \notin sig
    /\ submits' = [submits EXCEPT ![t] = @ + 1]
    /\ Go(t, IF t \in Resumable THEN "submitted" ELSE "polling")
    /\ UNCHANGED <<storeVars, loopVars, slots, sig, shielded, orphanVars, jobId, restarts, flaps>>

\* persist_provider_job_id, before the first poll; a write that fails for
\* good fails the whole task (PersistFailed is the "submitted" case of Fail).
PersistJobId(t) ==
    /\ exec[t] = "submitted" /\ t \notin sig
    /\ jobId' = jobId \cup {t}
    /\ Go(t, "polling")
    /\ UNCHANGED <<storeVars, loopVars, slots, sig, shielded, orphanVars, submits, restarts, flaps>>

\* execute_generation_task returns, or raises anything but CancelledError.
Return(t) ==
    /\ exec[t] = "polling" /\ t \notin sig
    /\ Go(t, "settleOk")
    /\ UNCHANGED <<storeVars, loopVars, slots, sig, shielded, orphanVars, envVars>>

Fail(t) ==
    /\ exec[t] \in Working /\ t \notin sig
    /\ Go(t, "settleErr")
    /\ UNCHANGED <<storeVars, loopVars, slots, sig, shielded, orphanVars, envVars>>

\* The final writes.  On 0 rows the row must have been cancelled from outside.
SettleOk(t) ==
    /\ exec[t] = "settleOk" /\ t \notin sig
    /\ TrySucceed(t)
    /\ Go(t, IF status[t] = "running" THEN "doneOk" ELSE "settleZero")
    /\ UNCHANGED <<loopVars, slots, sig, shielded, orphanVars, envVars>>

\* mutant: a failed row is retried through the queue
SettleErrRetry(t) ==
    /\ exec[t] = "settleErr" /\ t \notin sig
    /\ RequeueSingle(t) \/ (status[t] # "running" /\ UNCHANGED storeVars)
    /\ Go(t, IF status[t] = "running" THEN "doneOk" ELSE "settleZero")
    /\ UNCHANGED <<loopVars, slots, sig, shielded, orphanVars, envVars>>

SettleErr(t) ==
    /\ exec[t] = "settleErr" /\ t \notin sig
    /\ TryFail(t)
    /\ Go(t, IF status[t] = "running" THEN "doneOk" ELSE "settleZero")
    /\ UNCHANGED <<loopVars, slots, sig, shielded, orphanVars, envVars>>

SettleCancelled(t) ==
    /\ exec[t] \in {"settleZero", "settleCancel"} /\ t \notin sig
    /\ TryCancel(t)
    /\ Go(t, IF exec[t] = "settleZero" THEN "doneOk" ELSE "doneCancelled")
    /\ UNCHANGED <<loopVars, slots, sig, shielded, orphanVars, envVars>>

\* CancelledError is thrown in at the await where the coroutine stands.  A
\* shielded write goes on by itself.
OwnWrite(phase) ==
    CASE phase \in {"settleOk", "rOk"} -> {"succeeded"}
      [] phase \in {"settleErr", "rErr"} -> {"failed"}
      [] phase \in {"settleZero", "settleCancel", "rZero", "rQuit", "rExit"} -> {"cancelled"}
      [] OTHER -> {}

Interrupt(t) ==
    /\ t \in sig /\ exec[t] \in {"created"} \cup Working \cup Settling
    /\ sig' = sig \ {t}
    /\ shielded' = [shielded EXCEPT ![t] = @ \cup OwnWrite(exec[t])]
    /\ Go(t, IF exec[t] \in Working \cup {"settleOk"} THEN "settleCancel"
                                                     ELSE "doneCancelled")
    /\ UNCHANGED <<storeVars, loopVars, slots, orphanVars, envVars>>

\* A shielded write whose awaiter is gone completes.
ShieldedWrite(t, w) ==
    /\ w \in shielded[t]
    /\ shielded' = [shielded EXCEPT ![t] = @ \ {w}]
    /\ CASE w = "succeeded" -> TrySucceed(t)
         [] w = "failed"    -> TryFail(t)
         [] w = "cancelled" -> TryCancel(t)
    /\ UNCHANGED <<loopVars, exec, slots, sig, orphanVars, envVars>>

-----------------------------------------------------------------------------
(* Resuming orphans: _dispatch_provider_bucket, _run_one *)

\* mutant: a row that still waits for the semaphore takes no slot
ResumeDispatchUnregistered(t) ==
    /\ t \in resumeQ /\ loop # "orphans"
    /\ resumeQ' = resumeQ \ {t}
    /\ IF stopping THEN UNCHANGED exec ELSE Go(t, "rNew")
    /\ UNCHANGED <<storeVars, loopVars, slots, sig, shielded, batch, envVars>>

\* The dispatcher, started at the end of the scan, creates the asyncio task of
\* the row and registers it as pending; once the worker is stopping it leaves
\* the rest to the next start.
ResumeDispatch(t) ==
    /\ t \in resumeQ /\ loop # "orphans"
    /\ resumeQ' = resumeQ \ {t}
    /\ IF stopping
         THEN UNCHANGED <<exec, slots>>
         ELSE Go(t, "rNew") /\ slots' = slots \cup {t}
    /\ UNCHANGED <<storeVars, loopVars, sig, shielded, batch, envVars>>

\* The pool has no capacity for video (any more): the row is given up.
ResumeUnsupported(t) ==
    /\ t \in resumeQ /\ loop # "orphans"
    /\ resumeQ' = resumeQ \ {t}
    /\ FailOrCancel(t)
    /\ UNCHANGED <<loopVars, exec, slots, sig, shielded, batch, envVars>>

ResumeStart(t) ==
    /\ exec[t] = "rNew" /\ t \notin sig
    /\ Go(t, "rWait")
    /\ UNCHANGED <<storeVars, loopVars, slots, sig, shielded, orphanVars, envVars>>

\* The end of _run_one: its finally block gives the slot back.
LeaveSlot(t) == Go(t, "none") /\ slots' = slots \ {t}

\* The semaphore of the batch admits the row; a stopping worker leaves it.
ResumeAdmit(t) ==
    /\ exec[t] = "rWait" /\ t \notin sig
    /\ Cardinality({x \in Resumable : batch[x] = batch[t] /\ exec[x] \in Admitted}) < Capacity
    /\ IF stopping THEN LeaveSlot(t) ELSE Go(t, "rPolling") /\ UNCHANGED slots
    /\ UNCHANGED <<storeVars, loopVars, sig, shielded, orphanVars, envVars>>

\* execute_resume_video_task returns, or raises (expired, unsupported, ...).
ResumeResult(t) ==
    /\ exec[t] = "rPolling" /\ t \notin sig
    /\ Go(t, "rOk") \/ Go(t, "rErr")
    /\ UNCHANGED <<storeVars, loopVars, slots, sig, shielded, orphanVars, envVars>>

ResumeSettle(t) ==
    /\ t \notin sig
    /\ \/ exec[t] = "rOk" /\ TrySucceed(t)
       \/ exec[t] = "rErr" /\ TryFail(t)
    /\ IF status[t] = "running" THEN LeaveSlot(t) ELSE Go(t, "rZero") /\ UNCHANGED slots
    /\ UNCHANGED <<loopVars, sig, shielded, orphanVars, envVars>>

ResumeCancelled(t) ==
    /\ exec[t] \in {"rZero", "rQuit", "rExit"} /\ t \notin sig
    /\ TryCancel(t)
    /\ LeaveSlot(t)
    /\ UNCHANGED <<loopVars, sig, shielded, orphanVars, envVars>>

\* CancelledError in _run_one: its handler settles the row, unless the
\* coroutine never ran (no handler, no finally) or is in the handler already.
ResumeInterrupt(t) ==
    /\ t \in sig /\ exec[t] \in Resuming
    /\ sig' = sig \ {t}
    /\ shielded' = [shielded EXCEPT ![t] = @ \cup OwnWrite(exec[t])]
    /\ \/ exec[t] = "rNew" /\ Go(t, "rDead") /\ UNCHANGED slots
       \/ exec[t] = "rWait" /\ Go(t, "rQuit") /\ UNCHANGED slots
       \/ exec[t] \in Admitted \ {"rExit"} /\ Go(t, "rExit") /\ UNCHANGED slots
       \/ exec[t] \in {"rQuit", "rExit"} /\ LeaveSlot(t)
    /\ UNCHANGED <<storeVars, loopVars, orphanVars, envVars>>

-----------------------------------------------------------------------------
(* Stop, crash, restart *)

Stop ==
    /\ ~stopping /\ restarts < MaxRestarts
    /\ stopping' = TRUE
    /\ UNCHANGED <<storeVars, loop, cur, drainQ, orphanRead, handled, taskVars, envVars>>

\* All memory of the process is lost and a new process starts.
Reboot ==
    /\ SessionsLost
    /\ loop' = "top" /\ cur' = NULL
    /\ exec' = [t \in Task |-> "none"]
    /\ slots' = {} /\ sig' = {}
    /\ shielded' = [t \in Task |-> {}]
    /\ drainQ' = {}
    /\ orphanRead' = [t \in Task |-> "none"]
    /\ resumeQ' = {}
    /\ batch' = [t \in Task |-> 0]
    /\ handled' = FALSE /\ stopping' = FALSE
    /\ restarts' = restarts + 1
    /\ UNCHANGED <<jobId, submits, flaps>>

Crash == restarts < MaxRestarts /\ Reboot

\* _wait_inflight_completion: the loop has left, the dispatcher and every
\* task of the SlotTable are done.
Shutdown ==
    /\ loop = "top" /\ stopping
    /\ resumeQ = {} /\ \A t \in slots : exec[t] \notin Live
    /\ Reboot

-----------------------------------------------------------------------------
Loop ==
    \/ Drain \/ EndDrain \/ ListOrphans \/ SkipOwnTasks \/ EndOrphans
    \/ ClaimNext \/ Claim \/ NothingToClaim
    \/ ClaimedUnsupported \/ ClaimedNoRoom \/ Dispatch
    \/ \E t \in Task : DrainCancelled(t) \/ HandleOrphan(t)

AsyncTask(t) ==
    \/ Begin(t) \/ Submit(t) \/ PersistJobId(t) \/ Return(t) \/ Fail(t)
    \/ SettleOk(t) \/ SettleErr(t) \/ SettleCancelled(t) \/ Interrupt(t)
    \/ ResumeDispatch(t) \/ ResumeUnsupported(t) \/ ResumeStart(t) \/ ResumeAdmit(t)
    \/ ResumeResult(t) \/ ResumeSettle(t) \/ ResumeCancelled(t) \/ ResumeInterrupt(t)
    \/ \E w \in Outcome : ShieldedWrite(t, w)

Next ==
    \/ Client \/ Loop \/ LeaseRegained \/ Stop \/ Crash \/ Shutdown
    \/ \E t \in Task : RequestCancel(t) \/ AsyncTask(t)

Spec == Init /\ [][Next]_vars

\* The event loop runs every ready coroutine; a provider call ends at the
\* latest with the max_wait of poll_with_retry.  Nobody owes a Client step.
Fairness ==
    /\ WF_vars(Loop)
    /\ WF_vars(Shutdown)
    /\ \A t \in Task : WF_vars(AsyncTask(t)) /\ WF_vars(RequestCancel(t))

FairSpec == Spec /\ Fairness

-----------------------------------------------------------------------------
(* Properties *)

\* The values of the worker's own variables.
WorkerTypeOK ==
    /\ loop \in {"top", "drain", "scan", "filter", "orphans", "claim", "claimed"}
    /\ cur \in Task \cup {NULL}
    /\ loop = "claimed" <=> cur # NULL
    /\ exec \in [Task -> Phase]
    /\ slots \subseteq Task /\ sig \subseteq Task
    /\ shielded \in [Task -> SUBSET Outcome]
    /\ drainQ \subseteq Task
    /\ orphanRead \in [Task -> {"none", "running", "cancelling"}]
    /\ resumeQ \subseteq Task
    /\ batch \in [Task -> Nat]
    /\ handled \in BOOLEAN /\ stopping \in BOOLEAN
    /\ jobId \subseteq Task
    /\ submits \in [Task -> Nat]
    /\ restarts \in Nat /\ flaps \in Nat

\* No row is paid for twice, whatever crashes, lost leases, requeues and
\* cancels happen in between (the red line of ADR 0007).
AtMostOneSubmission == \A t \in Task : submits[t] <= 1

\* What goes back to, or waits in, the queue has never been submitted; what
\* succeeded was submitted.
PaidIffExecuted ==
    \A t \in Task : /\ status[t] = "queued" => submits[t] = 0
                    /\ status[t] = "succeeded" => submits[t] = 1

\* A row about to get an asyncio task has none: register would silently
\* replace the occupant of the SlotTable and two coroutines would work on it.
SoleExecutor ==
    \A t \in Task : cur = t \/ t \in resumeQ => exec[t] = "none" /\ t \notin slots

\* A running row always has somebody who will settle it: its coroutine, a
\* write that outlived it, the loop that claimed or drains it, or an orphan
\* scan still to come or under way.
RunningHasOwner ==
    \A t \in Task :
        status[t] = "running" =>
            \/ exec[t] \in Live \cup {"doneCancelled"}
            \/ shielded[t] # {}
            \/ t = cur \/ t \in drainQ \/ t \in resumeQ
            \/ orphanRead[t] = "running"
            \/ ~handled \/ stopping

\* The provider never sees more than Capacity calls of one pool at a time,
\* those of resumed rows included, for rows whose outcome is still open.  (A row
\* resumed after it settled, see ResumesUnsettled, polls beside them.)
InProgress == {t \in Task : exec[t] \in Working \cup {"rPolling"}}
Resettling == {t \in Task : exec[t] = "rPolling" /\ status[t] \in Terminal}
PoolWithinCapacity ==
    \A t \in Task : Cardinality((InProgress \ Resettling) \cap Peers(t)) <= Capacity

\* The worker's state is well formed, a job is paid for exactly when it was
\* submitted, a pool never runs more than it has room for, and no running row
\* is left without somebody who will settle it.
WorkerInv ==
    /\ WorkerTypeOK
    /\ PaidIffExecuted
    /\ PoolWithinCapacity
    /\ RunningHasOwner

\* Every claimed row leaves the running state: it is settled or requeued.
RunningSettles == \A t \in Task : status[t] = "running" ~> status[t] # "running"

-----------------------------------------------------------------------------
(* Properties the repository states and the code does not have *)

\* ADR 0006: a cancelling row gets its terminal state from the worker.
CancellingSettles == \A t \in Task : status[t] = "cancelling" ~> status[t] # "cancelling"

\* CONTEXT.md, cancel: it interrupts the work and frees the slot, for queued
\* and running rows alike, so no provider call starts for a cancelled row.
NoPaymentAfterCancel ==
    [][\A t \in Task : submits'[t] > submits[t] => status[t] # "cancelled"]_vars

\* _dispatch_cancel: a cancel that has read a running row never meets it queued
\* ("theoretically does not happen"), so no cancel call returns without effect
\* on a row that goes on to be executed.
CancelNotLost ==
    [][\A t \in Task :
          cancelRead[t] # "none" /\ cancelRead'[t] = "none" /\ restarts' = restarts
              => status'[t] # "queued"]_vars

\* _handle_orphan_tasks_on_start: skipping the rows this process works on
\* keeps it from resuming one of them a second time.
ResumesUnsettled ==
    \A t \in Task : exec[t] = "rNew" => status[t] \notin {"succeeded", "failed"}

\* _dispatch_provider_bucket: its semaphore and the phase flags of the SlotTable
\* keep the exact capacity ("精确容量") of the pool, whatever the calls are for.
AllWithinCapacity == \A t \in Task : Cardinality(InProgress \cap Peers(t)) <= Capacity

\* _run_one: all ways to cancel a resumed row end in its handler and finally
\* block, so its slot comes back.
SlotFreed == \A t \in Task : t \in slots ~> t \notin slots

=============================================================================
