---------------------------- MODULE ProviderCall ----------------------------
(***************************************************************************)
(* The paid call behind a video task: the ledger bracket of                *)
(* MediaGenerator.generate_video_async, the create-poll-download cycle of  *)
(* a video backend, the versions of the asset, and resume_video_async      *)
(* after a crash.                                                          *)
(*                                                                         *)
(* The tasks are those of one asset; the index on active tasks admits one  *)
(* at a time.  The task table is reduced to the row's status and the two   *)
(* ids a resume needs; GenerationWorker has the rest.  A backend call with *)
(* its retries is one action per outcome, except for the create call,      *)
(* where every attempt counts.  The provider may end a job, forget it, or  *)
(* leave it running for ever.                                              *)
(***************************************************************************)
EXTENDS Naturals, FiniteSets

CONSTANTS VideoTask, NoTask,
          Unguarded,    \* tasks of a backend whose create call has the default
                        \* retry (Ark, Gemini, OpenAI) instead of submit_post
          LateTooLarge, \* tasks whose result URL may answer 413
          Attempts,     \* max_attempts of the create call
          LadderSteps,  \* LADDER_STEPS of the reference compression
          MaxCrashes    \* bound on process crashes

ASSUME CallAssumption == /\ NoTask \notin VideoTask
                         /\ Unguarded \subseteq VideoTask
                         /\ LateTooLarge \subseteq VideoTask
                         /\ Attempts \in Nat \ {0}
                         /\ LadderSteps \in Nat
                         /\ MaxCrashes \in Nat

VARIABLES task,     \* status of the task row
          anchored, \* tasks whose payload has api_call_id
          jobId,    \* tasks with provider_job_id
          call,     \* per task: status of its ledger row
          jobs,     \* per task: jobs the provider has accepted and charged
          job,      \* per task: how the provider's latest job stands
          cur, at,  \* the task the worker executes, and where
          tries, step, \* attempts of the create call, step of the ladder
          file,     \* the task whose video is at output_path
          versions, \* the tasks whose video has a version
          crashes

taskVars == <<task, anchored, jobId>>
providerVars == <<jobs, job>>
coVars == <<cur, at, tries, step>>
assetVars == <<file, versions>>
vars == <<taskVars, call, providerVars, coVars, assetVars, crashes>>

\* opening: start_call; anchoring: persist_api_call_id; creating, persisting,
\* polling, downloading: inside the backend; settling, closing: finish_call;
\* recorded: settled, add_version to come; finishing: the asset is written back.
Generating == {"opening", "anchoring", "creating", "persisting", "polling", "downloading",
               "settling", "closing"}
Resuming == {"rPolling", "rDownloading", "rSettling", "rClosing"}
Phase == {"idle", "recorded", "finishing", "error"} \cup Generating \cup Resuming
Ended == {"succeeded", "failed", "cancelled"}

Init ==
    /\ task = [t \in VideoTask |-> "queued"]
    /\ anchored = {} /\ jobId = {}
    /\ call = [t \in VideoTask |-> "none"]
    /\ jobs = [t \in VideoTask |-> 0]
    /\ job = [t \in VideoTask |-> "none"]
    /\ cur = NoTask /\ at = "idle" /\ tries = 0 /\ step = 0
    /\ file = NoTask /\ versions = {}
    /\ crashes = 0

At(t, phase) == cur = t /\ at = phase
Goto(phase) == at' = phase /\ UNCHANGED <<cur, tries, step>>
Leave == cur' = NoTask /\ at' = "idle" /\ tries' = 0 /\ step' = 0

-----------------------------------------------------------------------------
(* generate_video_async up to the create call *)

\* A file nobody has versioned yet gets its version (ensure_current_tracked),
\* but only if the asset has no version at all.
Tracked == IF versions = {} /\ file # NoTask THEN {file} ELSE versions

Begin(t) ==
    /\ cur = NoTask /\ task[t] = "queued"
    /\ \A u \in VideoTask : task[u] # "running"
    /\ task' = [task EXCEPT ![t] = "running"]
    /\ cur' = t /\ at' = "opening" /\ tries' = 0 /\ step' = 0
    /\ versions' = Tracked
    /\ UNCHANGED <<anchored, jobId, call, providerVars, file, crashes>>

\* start_call; without its row the call does not begin.
Open(t) ==
    /\ At(t, "opening")
    /\ \/ call' = [call EXCEPT ![t] = "pending"] /\ Goto("anchoring")
       \/ UNCHANGED call /\ Goto("error")
    /\ UNCHANGED <<taskVars, providerVars, assetVars, crashes>>

\* mutant: a payload that could not be written does not end the call
AnchorSwallowed(t) ==
    /\ At(t, "anchoring")
    /\ anchored' = anchored \cup {t} \/ UNCHANGED anchored
    /\ Goto("creating")
    /\ UNCHANGED <<task, jobId, call, providerVars, assetVars, crashes>>

\* persist_api_call_id: no request goes out before the row knows its call.
Anchor(t) ==
    /\ At(t, "anchoring")
    /\ \/ anchored' = anchored \cup {t} /\ Goto("creating")
       \/ UNCHANGED anchored /\ Goto("closing")
    /\ UNCHANGED <<task, jobId, call, providerVars, assetVars, crashes>>

-----------------------------------------------------------------------------
(* The create call *)

\* mutant: one attempt more than max_attempts
RetryOneMore == IF tries < Attempts THEN tries' = tries + 1 /\ UNCHANGED <<cur, at, step>>
                                    ELSE Goto("closing")

\* with_retry_async: another attempt while there is one.
Retry == IF tries + 1 < Attempts THEN tries' = tries + 1 /\ UNCHANGED <<cur, at, step>>
                                 ELSE Goto("closing")

JobCreated(t) == /\ jobs' = [jobs EXCEPT ![t] = @ + 1]
                 /\ job' = [job EXCEPT ![t] = "running"]

Created(t) ==
    /\ At(t, "creating")
    /\ JobCreated(t)
    /\ Goto("persisting")
    /\ UNCHANGED <<taskVars, call, assetVars, crashes>>

\* mutant: every transport error is retried
AnswerLostRetried(t) ==
    /\ At(t, "creating")
    /\ JobCreated(t) \/ UNCHANGED providerVars
    /\ Retry
    /\ UNCHANGED <<taskVars, call, assetVars, crashes>>

\* The answer is lost; the job may exist.  submit_post makes it an
\* AmbiguousSubmitError, the default retry tries again.
AnswerLost(t) ==
    /\ At(t, "creating")
    /\ JobCreated(t) \/ UNCHANGED providerVars
    /\ IF t \in Unguarded THEN Retry ELSE Goto("closing")
    /\ UNCHANGED <<taskVars, call, assetVars, crashes>>

\* 5xx, 408, 425, 429 or never sent: there is no job.
CreateRefused(t) ==
    /\ At(t, "creating")
    /\ Retry
    /\ UNCHANGED <<taskVars, call, providerVars, assetVars, crashes>>

CreateFails(t) ==
    /\ At(t, "creating")
    /\ Goto("closing")
    /\ UNCHANGED <<taskVars, call, providerVars, assetVars, crashes>>

\* A 413 anywhere in backend.generate: once more, with smaller references.
OneStepDown ==
    IF step < LadderSteps THEN at' = "creating" /\ step' = step + 1 /\ tries' = 0 /\ cur' = cur
                          ELSE Goto("closing")

TooLarge(t) ==
    /\ At(t, "creating")
    /\ OneStepDown
    /\ UNCHANGED <<taskVars, call, providerVars, assetVars, crashes>>

\* persist_provider_job_id, before the first poll; if it fails for good the
\* job goes on at the provider, unknown to the row.
PersistJobId(t) ==
    /\ At(t, "persisting")
    /\ \/ jobId' = jobId \cup {t} /\ Goto("polling")
       \/ UNCHANGED jobId /\ Goto("closing")
    /\ UNCHANGED <<task, anchored, call, providerVars, assetVars, crashes>>

-----------------------------------------------------------------------------
(* poll_with_retry and download *)

JobEnds(t) ==
    /\ job[t] = "running"
    /\ \E state \in {"done", "failed"} : job' = [job EXCEPT ![t] = state]
    /\ UNCHANGED <<taskVars, call, jobs, coVars, assetVars, crashes>>

JobExpires(t) ==
    /\ job[t] \in {"running", "done", "failed"}
    /\ job' = [job EXCEPT ![t] = "expired"]
    /\ UNCHANGED <<taskVars, call, jobs, coVars, assetVars, crashes>>

\* mutant: no max_wait
PollJobUntimed(t) ==
    /\ At(t, "polling") \/ At(t, "rPolling")
    /\ \/ job[t] = "done" /\ Goto(IF at = "polling" THEN "downloading" ELSE "rDownloading")
       \/ job[t] = "failed" /\ Goto(IF at = "polling" THEN "closing" ELSE "error")
       \/ job[t] = "expired" /\ Goto(IF at = "polling" THEN "closing" ELSE "rClosing")
    /\ UNCHANGED <<taskVars, call, providerVars, assetVars, crashes>>

\* The job is done, failed or expired, or max_wait is over.  In a resume only
\* an expired job is closed in the ledger (ResumeExpiredError).
PollJob(t) ==
    /\ At(t, "polling") \/ At(t, "rPolling")
    /\ \/ job[t] = "done" /\ Goto(IF at = "polling" THEN "downloading" ELSE "rDownloading")
       \/ job[t] \in {"running", "failed"} /\ Goto(IF at = "polling" THEN "closing" ELSE "error")
       \/ job[t] = "expired" /\ Goto(IF at = "polling" THEN "closing" ELSE "rClosing")
    /\ UNCHANGED <<taskVars, call, providerVars, assetVars, crashes>>

Download(t) ==
    /\ At(t, "downloading") \/ At(t, "rDownloading")
    /\ \/ file' = t /\ Goto(IF at = "downloading" THEN "settling" ELSE "rSettling")
       \/ UNCHANGED file /\ Goto(IF at = "downloading" THEN "closing" ELSE "error")
    /\ UNCHANGED <<taskVars, call, providerVars, versions, crashes>>

DownloadTooLarge(t) ==
    /\ At(t, "downloading") /\ t \in LateTooLarge
    /\ OneStepDown
    /\ UNCHANGED <<taskVars, call, providerVars, assetVars, crashes>>

-----------------------------------------------------------------------------
(* The ledger *)

SetCall(t, state) == call' = [call EXCEPT ![t] = state]

\* mutant: a ledger write that fails is swallowed for a success, too
SettleSwallowed(t) ==
    /\ At(t, "settling")
    /\ SetCall(t, "success") \/ UNCHANGED call
    /\ Goto("recorded")
    /\ UNCHANGED <<taskVars, providerVars, assetVars, crashes>>

\* finish_call(success); if the write fails the bracket closes the call.
Settle(t) ==
    /\ At(t, "settling")
    /\ \/ SetCall(t, "success") /\ Goto("recorded")
       \/ UNCHANGED call /\ Goto("closing")
    /\ UNCHANGED <<taskVars, providerVars, assetVars, crashes>>

\* finish_call(failed); its own failure is logged and swallowed.
Close(t) ==
    /\ At(t, "closing")
    /\ SetCall(t, "failed") \/ UNCHANGED call
    /\ Goto("error")
    /\ UNCHANGED <<taskVars, providerVars, assetVars, crashes>>

\* mutant: no WHERE status = 'pending'
FinalizeAny(t, state) == IF t \in anchored THEN SetCall(t, state) ELSE UNCHANGED call

\* finalize_pending_by_call_id: settled rows stay as they are.
Finalize(t, state) ==
    IF t \in anchored /\ call[t] = "pending" THEN SetCall(t, state) ELSE UNCHANGED call

\* resume_success and resume_failed; an exception of theirs fails the task.
ResumeSettle(t) ==
    /\ At(t, "rSettling")
    /\ \/ Finalize(t, "success") /\ Goto("recorded")
       \/ UNCHANGED call /\ Goto("error")
    /\ UNCHANGED <<taskVars, providerVars, assetVars, crashes>>

ResumeClose(t) ==
    /\ At(t, "rClosing")
    /\ Finalize(t, "failed") \/ UNCHANGED call
    /\ Goto("error")
    /\ UNCHANGED <<taskVars, providerVars, assetVars, crashes>>

-----------------------------------------------------------------------------
(* The asset and the row *)

\* mutant: no new version if the asset has one
AddVersionOnce(t) ==
    /\ At(t, "recorded")
    /\ versions' = IF versions = {} THEN {t} ELSE versions
    /\ Goto("finishing")
    /\ UNCHANGED <<taskVars, call, providerVars, file, crashes>>

AddVersion(t) ==
    /\ At(t, "recorded")
    /\ versions' = versions \cup {t}
    /\ Goto("finishing")
    /\ UNCHANGED <<taskVars, call, providerVars, file, crashes>>

EndRow(t, state) ==
    /\ task' = [task EXCEPT ![t] = state]
    /\ Leave
    /\ UNCHANGED <<anchored, jobId, call, providerVars, assetVars, crashes>>

\* _finalize_video_task and mark_task_succeeded, or an error in between.
Finish(t) == At(t, "finishing") /\ \E state \in {"succeeded", "failed"} : EndRow(t, state)

\* The exception reaches _process_task: mark_task_failed.
Fail(t) == At(t, "error") /\ EndRow(t, "failed")

\* A user's cancel: CancelledError leaves the bracket without a ledger write.
Cancel(t) ==
    /\ task[t] \in {"queued", "running"}
    /\ IF cur = t THEN EndRow(t, "cancelled")
                  ELSE /\ task' = [task EXCEPT ![t] = "cancelled"]
                       /\ UNCHANGED <<anchored, jobId, call, providerVars, coVars, assetVars,
                                      crashes>>

ProcessDies ==
    /\ cur # NoTask /\ crashes < MaxCrashes
    /\ crashes' = crashes + 1
    /\ Leave
    /\ UNCHANGED <<taskVars, call, providerVars, assetVars>>

\* mutant: an orphan is simply generated again
RecoverAgain(t) ==
    /\ cur = NoTask /\ task[t] = "running"
    /\ cur' = t /\ at' = (IF t \in jobId THEN "rPolling" ELSE "creating") /\ tries' = 0 /\ step' = 0
    /\ UNCHANGED <<taskVars, call, providerVars, assetVars, crashes>>

\* The orphan scan: a row with a job is resumed, any other is given up.
Recover(t) ==
    /\ cur = NoTask /\ task[t] = "running"
    /\ IF t \in jobId
         THEN /\ cur' = t /\ at' = "rPolling" /\ tries' = 0 /\ step' = 0
              /\ UNCHANGED <<taskVars, call, providerVars, assetVars, crashes>>
         ELSE EndRow(t, "failed")

-----------------------------------------------------------------------------
Work(t) ==
    \/ Open(t) \/ Anchor(t)
    \/ Created(t) \/ AnswerLost(t) \/ CreateRefused(t) \/ CreateFails(t) \/ TooLarge(t)
    \/ PersistJobId(t) \/ PollJob(t) \/ Download(t) \/ DownloadTooLarge(t)
    \/ Settle(t) \/ Close(t) \/ ResumeSettle(t) \/ ResumeClose(t)
    \/ AddVersion(t) \/ Finish(t) \/ Fail(t) \/ Recover(t)

Next ==
    \/ \E t \in VideoTask : Begin(t) \/ Work(t) \/ Cancel(t) \/ JobEnds(t) \/ JobExpires(t)
    \/ ProcessDies

Spec == Init /\ [][Next]_vars

\* The worker goes on with what it has begun, and scans for orphans at its
\* start.  Nothing is owed by the provider or by the users.
CallFairSpec == Spec /\ \A t \in VideoTask : WF_vars(Work(t))

-----------------------------------------------------------------------------
(* Properties *)

\* The values of the variables; the coroutine stands where its task allows.
CallTypeOK ==
    /\ task \in [VideoTask -> {"queued", "running"} \cup Ended]
    /\ anchored \subseteq VideoTask /\ jobId \subseteq VideoTask
    /\ call \in [VideoTask -> {"none", "pending", "success", "failed"}]
    /\ jobs \in [VideoTask -> Nat]
    /\ job \in [VideoTask -> {"none", "running", "done", "failed", "expired"}]
    /\ cur \in VideoTask \cup {NoTask} /\ at \in Phase
    /\ at = "idle" <=> cur = NoTask
    /\ cur # NoTask => task[cur] = "running"
    /\ tries \in 0 .. Attempts - 1 /\ step \in 0 .. LadderSteps
    /\ file \in VideoTask \cup {NoTask} /\ versions \subseteq VideoTask
    /\ crashes \in 0 .. MaxCrashes

\* Retries, lost answers, smaller references, crashes and resumes included, a
\* provider behind submit_post creates (and charges) one job for a task at most.
OneJob == \A t \in VideoTask \ (Unguarded \cup LateTooLarge) : jobs[t] <= 1

\* What the provider may have charged has a ledger row, and the task row knows
\* which: a resume can settle it.
PaidIsAnchored == \A t \in VideoTask : jobs[t] > 0 => t \in anchored /\ call[t] # "none"

\* A task that succeeded has its video among the versions, so that no later
\* generation of the asset can lose it.
SucceededIsKept == \A t \in VideoTask : task[t] = "succeeded" => t \in versions

\* Unless the process crashed, the ledger shows a success for every task that
\* succeeded, and never shows one whose job the provider did not finish.
BilledAsDelivered ==
    \A t \in VideoTask : /\ task[t] = "succeeded" /\ crashes = 0 => call[t] = "success"
                         /\ call[t] = "success" => job[t] \in {"done", "expired"}

\* A call's records agree: a paid job can be found again from its row, a
\* recorded success has its version, and the ledger bills what was delivered.
CallInv ==
    /\ CallTypeOK
    /\ PaidIsAnchored
    /\ SucceededIsKept
    /\ BilledAsDelivered

\* A resume never reverses what the ledger has settled: a call that was
\* charged stays a success, even if the job has expired since.
SettledStays ==
    [][\A t \in VideoTask : call[t] \in {"success", "failed"} => call'[t] = call[t]]_vars

\* Every execution ends, even if the provider never finishes the job.
CallEnds == \A t \in VideoTask : task[t] = "running" ~> task[t] \in Ended

\* Every call ends, and its row in the ledger is settled once.
CallsSettle == SettledStays /\ CallEnds

-----------------------------------------------------------------------------
(* Properties the repository states and the code does not have *)

\* _download_video_with_retry of the Ark backend is retried by itself so that a
\* failed download does not have the video generated again.
OneJobEver == \A t \in VideoTask : jobs[t] <= 1

\* resume_video_async: its ledger write is equivalent to that of a generate, so
\* no video is delivered without its success in the ledger.
DeliveredIsBilled == \A t \in VideoTask : task[t] = "succeeded" => call[t] = "success"

\* generate_video_async, step 1: an existing file is recorded before it is
\* overwritten, so no downloaded video is lost.
OverwrittenIsKept == [][file' # file /\ file # NoTask => file \in versions]_vars

=============================================================================
