----------------------------- MODULE SomoimJobs -----------------------------
(***************************************************************************)
(* The Somoim automation queue: the table somoim_automation_jobs, the      *)
(* server's request handlers that read and write it one SQL statement at a *)
(* time, and the one worker process that claims a job, drives the tablet   *)
(* and reports.  Handlers run concurrently: the worker may lose a          *)
(* connection or die while the handler of its request is still running.    *)
(*                                                                         *)
(* What a handler reads from other tables (is the meetup cancelled, has    *)
(* the crawl seen such an event) is a parameter here; module               *)
(* SomoimRegistration supplies it.                                         *)
(***************************************************************************)
EXTENDS Integers, FiniteSets

CONSTANTS MaxJobs,      \* number of rows the table may get (bound)
          MaxAttempts,  \* SOMOIM_AUTOMATION_MAX_ATTEMPTS
          Handlers,     \* request handlers the server can run at once (bound)
          NoCall        \* the worker is not waiting for a handler

ASSUME JobsAssumption ==
    /\ MaxJobs \in Nat
    /\ MaxAttempts \in Nat \ {0}
    /\ NoCall \notin Handlers

VARIABLES status,     \* [Job -> Status]
          type,       \* [Job -> JobType]
          dryRun,     \* [Job -> BOOLEAN], payload.dryRun
          attempts,   \* [Job -> Nat]
          marked,     \* [Job -> BOOLEAN], submit_attempted_at IS NOT NULL
          at,         \* [Handlers -> Step], what a request handler does next
          arg,        \* [Handlers -> Job or NoJob], the :id of its request
          manual,     \* [Handlers -> BOOLEAN], needsManualReview of a fail
          exhausted,  \* [Handlers -> SUBSET Job], still to be told as failed
          answer,     \* [Handlers -> Answer], what it will answer
          wAt,        \* what the worker does
          wJob,       \* the job it has claimed
          wCall,      \* the handler it waits for
          taps        \* [Job -> Nat], presses of the irreversible button

tableVars == <<status, type, dryRun, attempts, marked>>
handlerVars == <<at, arg, manual, exhausted, answer>>
workerVars == <<wAt, wJob, wCall>>
jobsVars == <<tableVars, handlerVars, workerVars, taps>>
-----------------------------------------------------------------------------
\* Ids are given in order of created_at, so the oldest job is the smallest.
Job == 1..MaxJobs
NoJob == 0

JobType == {"create_meetup", "delete_meetup"}
Final == {"succeeded", "failed", "needs_manual_review"}
Status == {"absent", "pending", "claimed"} \cup Final

\* Where a handler is: the statement or the emit it runs next, or the answer
\* it has ready.
ClaimStep == {"requeueStaleJobs", "claimNextJob", "emitExhausted"}
Step == ClaimStep \cup
        {"idle", "getSubmitPreflight", "stopClaimedJob",
         "completeExistingEvent", "markSubmitAttempted", "recheckPreflight",
         "stopAfterRecheck", "completeJob", "getJob", "requeueJob", "failJob",
         "emitSucceeded", "createDeleteJob", "emitFailed", "reply"}
Answer == {"none", "ok", "proceed", "skip", "error"}

Waiting == {"claiming", "preflighting", "marking", "completing", "failing"}
WorkerAt == Waiting \cup {"down", "poll", "filling", "tapping", "confirming"}

TableTypeOK ==
    /\ status \in [Job -> Status]
    /\ type \in [Job -> JobType]
    /\ dryRun \in [Job -> BOOLEAN]
    /\ attempts \in [Job -> Nat]
    /\ marked \in [Job -> BOOLEAN]
    /\ taps \in [Job -> Nat]

HandlerTypeOK ==
    /\ at \in [Handlers -> Step]
    /\ arg \in [Handlers -> Job \cup {NoJob}]
    /\ manual \in [Handlers -> BOOLEAN]
    /\ exhausted \in [Handlers -> SUBSET Job]
    /\ answer \in [Handlers -> Answer]
    /\ \A h \in Handlers :
          arg[h] = NoJob => at[h] \in ClaimStep \cup {"idle", "reply"}

WorkerTypeOK ==
    /\ wAt \in WorkerAt
    /\ wJob \in Job \cup {NoJob}
    /\ wCall \in Handlers \cup {NoCall}
    /\ wJob = NoJob => wAt \in {"down", "poll", "claiming"}
    /\ wAt \in Waiting => wCall \in Handlers

\* Every variable has its type, only a claim has no job to speak of, and the
\* worker holds a job and waits for a handler where it must.
JobsTypeOK == TableTypeOK /\ HandlerTypeOK /\ WorkerTypeOK

JobsInit ==
    /\ status = [j \in Job |-> "absent"]
    /\ type = [j \in Job |-> "create_meetup"]
    /\ dryRun = [j \in Job |-> FALSE]
    /\ attempts = [j \in Job |-> 0]
    /\ marked = [j \in Job |-> FALSE]
    /\ at = [h \in Handlers |-> "idle"]
    /\ arg = [h \in Handlers |-> NoJob]
    /\ manual = [h \in Handlers |-> FALSE]
    /\ exhausted = [h \in Handlers |-> {}]
    /\ answer = [h \in Handlers |-> "none"]
    /\ wAt = "down" /\ wJob = NoJob /\ wCall = NoCall
    /\ taps = [j \in Job |-> 0]
-----------------------------------------------------------------------------
(* Rows enter the table through an admin route or a hook listener.         *)

IsNextId(j) ==
    /\ status[j] = "absent"
    /\ \A i \in Job : i < j => status[i] # "absent"

\* INSERT of a new pending row.
InsertJob(j, t, dry) ==
    /\ IsNextId(j)
    /\ status' = [status EXCEPT ![j] = "pending"]
    /\ type' = [type EXCEPT ![j] = t]
    /\ dryRun' = [dryRun EXCEPT ![j] = dry]
    /\ UNCHANGED <<attempts, marked>>

CreateJob(j, t, dry) ==
    /\ InsertJob(j, t, dry)
    /\ UNCHANGED <<handlerVars, workerVars, taps>>

\* The cancel hook stops a job nobody has claimed yet.
CancelPendingJob(j) ==
    /\ status[j] = "pending"
    /\ status' = [status EXCEPT ![j] = "failed"]
    /\ UNCHANGED <<type, dryRun, attempts, marked>>
    /\ UNCHANGED <<handlerVars, workerVars, taps>>
-----------------------------------------------------------------------------
(* Steps of the request handlers.                                          *)

Goto(h, step) ==
    /\ at' = [at EXCEPT ![h] = step]
    /\ UNCHANGED <<arg, manual, exhausted, answer>>
RespondAfter(h, step, a) ==
    /\ at' = [at EXCEPT ![h] = step]
    /\ answer' = [answer EXCEPT ![h] = a]
    /\ UNCHANGED <<arg, manual, exhausted>>
Respond(h, a) == RespondAfter(h, "reply", a)

Become(j, s) == status' = [status EXCEPT ![j] = s]

NoWorkerStep == UNCHANGED <<workerVars, taps>>
OnlyStatus == UNCHANGED <<type, dryRun, attempts, marked>>

\* A stale claim that is not run again: the button may have been pressed, or
\* the attempts are used up.
GivenUp_IgnoringMark(j) == attempts[j] >= MaxAttempts
GivenUp(j) == marked[j] \/ attempts[j] >= MaxAttempts

\* POST /jobs/claim, first statement.  stale is the set of rows claimed more
\* than staleClaimSeconds ago; time is not modelled, so any claimed row may be.
\* The meetup is told only of the given-up jobs that were never marked.
RequeueStaleJobs(h, stale) ==
    /\ at[h] = "requeueStaleJobs"
    /\ \A j \in stale : status[j] = "claimed"
    /\ status' = [j \in Job |->
          IF j \notin stale THEN status[j]
          ELSE IF GivenUp(j) THEN "needs_manual_review" ELSE "pending"]
    /\ at' = [at EXCEPT ![h] = "claimNextJob"]
    /\ exhausted' = [exhausted EXCEPT
          ![h] = {j \in stale : GivenUp(j) /\ ~marked[j]}]
    /\ UNCHANGED <<arg, manual, answer>>
    /\ OnlyStatus /\ NoWorkerStep

\* After its last statement the claim route emits somoimRegistrationFailed for
\* every exhausted job, then answers.
AfterClaim(h) == IF exhausted[h] = {} THEN "reply" ELSE "emitExhausted"

ClaimOldest_NoAttempt(j) ==
    Become(j, "claimed") /\ UNCHANGED attempts
ClaimOldest(j) ==
    /\ Become(j, "claimed")
    /\ attempts' = [attempts EXCEPT ![j] = @ + 1]

\* POST /jobs/claim, second statement: the oldest pending job, if any.
ClaimNextJob(h) ==
    /\ at[h] = "claimNextJob"
    /\ \/ /\ \A j \in Job : status[j] # "pending"
          /\ RespondAfter(h, AfterClaim(h), "ok")
          /\ UNCHANGED <<status, attempts>>
       \/ \E j \in Job :
             /\ status[j] = "pending"
             /\ \A i \in Job : i < j => status[i] # "pending"
             /\ ClaimOldest(j)
             /\ at' = [at EXCEPT ![h] = AfterClaim(h)]
             /\ arg' = [arg EXCEPT ![h] = j]
             /\ answer' = [answer EXCEPT ![h] = "ok"]
             /\ UNCHANGED <<manual, exhausted>>
    /\ UNCHANGED <<type, dryRun, marked>> /\ NoWorkerStep

\* One somoimRegistrationFailed of the claim route.
EmitExhausted(h, j) ==
    /\ at[h] = "emitExhausted"
    /\ j \in exhausted[h]
    /\ exhausted' = [exhausted EXCEPT ![h] = @ \ {j}]
    /\ at' = [at EXCEPT
          ![h] = IF exhausted[h] = {j} THEN "reply" ELSE "emitExhausted"]
    /\ UNCHANGED <<arg, manual, answer>>
    /\ UNCHANGED tableVars /\ NoWorkerStep

\* POST /jobs/:id/preflight: reads the job together with the two facts about
\* other tables, then acts on them in a second statement.
GetSubmitPreflight(h, cancelled, existing) ==
    /\ at[h] = "getSubmitPreflight"
    /\ IF status[arg[h]] # "claimed" THEN Respond(h, "error")
       ELSE IF cancelled THEN Goto(h, "stopClaimedJob")
       ELSE IF existing THEN Goto(h, "completeExistingEvent")
       ELSE Respond(h, "proceed")
    /\ UNCHANGED tableVars /\ NoWorkerStep

\* UPDATE ... WHERE id = $1 AND status = 'claimed', from preflight or from the
\* recheck of a refused submit-attempt (which answers 409 all the same).
StopClaimedJob(h) ==
    /\ at[h] \in {"stopClaimedJob", "stopAfterRecheck"}
    /\ LET j == arg[h]
       IN IF status[j] = "claimed" THEN Become(j, "failed") ELSE UNCHANGED status
    /\ Respond(h, IF at[h] = "stopClaimedJob" THEN "skip" ELSE "error")
    /\ OnlyStatus /\ NoWorkerStep

\* The route emits somoimRegistrationSucceeded whether or not a row changed.
CompleteExistingEvent(h) ==
    /\ at[h] = "completeExistingEvent"
    /\ LET j == arg[h]
       IN IF status[j] = "claimed" THEN Become(j, "succeeded")
          ELSE UNCHANGED status
    /\ RespondAfter(h, "emitSucceeded", "skip")
    /\ OnlyStatus /\ NoWorkerStep

MayMark_AnyStatus(j, cancelled) == ~cancelled
MayMark_IgnoringCancel(j, cancelled) == status[j] = "claimed"
MayMark(j, cancelled) == status[j] = "claimed" /\ ~cancelled

\* POST /jobs/:id/submit-attempt: the row is marked only while it is claimed
\* and its meetup is open, in one statement.
MarkSubmitAttempted(h, cancelled) ==
    /\ at[h] = "markSubmitAttempted"
    /\ LET j == arg[h]
       IN IF MayMark(j, cancelled)
          THEN /\ marked' = [marked EXCEPT ![j] = TRUE]
               /\ Respond(h, "ok")
          ELSE UNCHANGED marked /\ Goto(h, "recheckPreflight")
    /\ UNCHANGED <<status, type, dryRun, attempts>> /\ NoWorkerStep

\* A refused mark reads why; a cancelled meetup stops the job.
RecheckPreflight(h, cancelled) ==
    /\ at[h] = "recheckPreflight"
    /\ IF cancelled THEN Goto(h, "stopAfterRecheck") ELSE Respond(h, "error")
    /\ UNCHANGED tableVars /\ NoWorkerStep

\* POST /jobs/:id/complete.
CompleteJob(h) ==
    /\ at[h] = "completeJob"
    /\ LET j == arg[h]
       IN IF status[j] = "claimed"
          THEN Become(j, "succeeded") /\ RespondAfter(h, "emitSucceeded", "ok")
          ELSE UNCHANGED status /\ Respond(h, "error")
    /\ OnlyStatus /\ NoWorkerStep

CanRetry(h) ==
    ~manual[h] /\ ~marked[arg[h]] /\ attempts[arg[h]] < MaxAttempts

\* POST /jobs/:id/fail, first statement: the row decides between another
\* attempt and a final failure, which a mark turns into a manual review.
GetJob(h) ==
    /\ at[h] = "getJob"
    /\ at' = [at EXCEPT ![h] = IF CanRetry(h) THEN "requeueJob" ELSE "failJob"]
    /\ manual' = [manual EXCEPT ![h] = @ \/ marked[arg[h]]]
    /\ UNCHANGED <<arg, exhausted, answer>>
    /\ UNCHANGED tableVars /\ NoWorkerStep

RequeueJob(h) ==
    /\ at[h] = "requeueJob"
    /\ LET j == arg[h]
       IN IF status[j] = "claimed"
          THEN Become(j, "pending") /\ Respond(h, "ok")
          ELSE UNCHANGED status /\ Respond(h, "error")
    /\ OnlyStatus /\ NoWorkerStep

\* The meetup is told of a final failure unless the row, as the UPDATE returns
\* it, is marked.
AfterFailure_Always(h) == "emitFailed"
AfterFailure(h) == IF marked[arg[h]] THEN "reply" ELSE "emitFailed"

FailureStatus_Unknown(m) == IF m THEN "manual_review" ELSE "failed"
FailureStatus(m) == IF m THEN "needs_manual_review" ELSE "failed"

FailJob_AnyStatus(h) ==
    /\ at[h] = "failJob"
    /\ Become(arg[h], FailureStatus(manual[h]))
    /\ RespondAfter(h, AfterFailure(h), "ok")
    /\ OnlyStatus /\ NoWorkerStep

FailJob(h) ==
    /\ at[h] = "failJob"
    /\ LET j == arg[h]
       IN IF status[j] = "claimed"
          THEN /\ Become(j, FailureStatus(manual[h]))
               /\ RespondAfter(h, AfterFailure(h), "ok")
          ELSE UNCHANGED status /\ Respond(h, "error")
    /\ OnlyStatus /\ NoWorkerStep

\* Listeners of somoimRegistrationFailed change no job.
EmitFailed(h) ==
    /\ at[h] = "emitFailed"
    /\ Goto(h, "reply")
    /\ UNCHANGED tableVars /\ NoWorkerStep

\* The listener of somoimRegistrationSucceeded may go on to emit
\* meetupRegisteredAfterCancellation, whose listener creates a delete job.
EmitSucceeded(h, compensate) ==
    /\ at[h] = "emitSucceeded"
    /\ Goto(h, IF compensate THEN "createDeleteJob" ELSE "reply")
    /\ UNCHANGED tableVars /\ NoWorkerStep

\* INSERT ... ON CONFLICT DO NOTHING of that delete job; NoJob is the conflict.
CreateDeleteJob(h, j) ==
    /\ at[h] = "createDeleteJob"
    /\ IF j = NoJob THEN UNCHANGED tableVars
                    ELSE InsertJob(j, "delete_meetup", FALSE)
    /\ Goto(h, "reply")
    /\ NoWorkerStep

\* A statement throws: the route answers with an error and stops there.  A
\* listener that throws is caught by emit, so those steps are not here.
QueryFails(h) ==
    /\ at[h] \notin {"idle", "reply", "emitExhausted", "emitFailed",
                             "emitSucceeded", "createDeleteJob"}
    /\ Respond(h, "error")
    /\ UNCHANGED tableVars /\ NoWorkerStep

\* A handler slot serves a request, or nothing.
Serve(h, step, j, m) ==
    /\ at' = [at EXCEPT ![h] = step]
    /\ arg' = [arg EXCEPT ![h] = j]
    /\ manual' = [manual EXCEPT ![h] = m]
    /\ exhausted' = [exhausted EXCEPT ![h] = {}]
    /\ answer' = [answer EXCEPT ![h] = "none"]
Release(h) == Serve(h, "idle", NoJob, FALSE)

\* The answer of a handler the worker no longer waits for goes nowhere.
WorkerWaitsFor(h) == wAt \in Waiting /\ wCall = h

DropReply(h) ==
    /\ at[h] = "reply"
    /\ ~WorkerWaitsFor(h)
    /\ Release(h)
    /\ UNCHANGED tableVars /\ NoWorkerStep

\* The server process dies and comes back: running handlers are gone, the
\* table stays.
ServerCrashes ==
    /\ at' = [h \in Handlers |-> "idle"]
    /\ arg' = [h \in Handlers |-> NoJob]
    /\ manual' = [h \in Handlers |-> FALSE]
    /\ exhausted' = [h \in Handlers |-> {}]
    /\ answer' = [h \in Handlers |-> "none"]
    /\ UNCHANGED tableVars /\ NoWorkerStep
-----------------------------------------------------------------------------
(* The worker process: tick() of worker/index.js and the job handlers.     *)

TableUnchanged == UNCHANGED <<tableVars, taps>>
Free(h) == at[h] = "idle"

WorkerBecomes(where, j, h) == wAt' = where /\ wJob' = j /\ wCall' = h
Resume(where, j) == WorkerBecomes(where, j, NoCall)
PollAgain == Resume("poll", NoJob)

\* The worker posts a request, which handler h serves, and waits for it.
Post(h, step, m, where, j) ==
    /\ Serve(h, step, j, m)
    /\ WorkerBecomes(where, j, h)

PostFailure(h, m) == Post(h, "getJob", m, "failing", wJob)

Answered(where) == wAt = where /\ at[wCall] = "reply"

Poll(h) ==
    /\ wAt = "poll"
    /\ Free(h)
    /\ Post(h, "requeueStaleJobs", FALSE, "claiming", NoJob)
    /\ TableUnchanged

\* Only create jobs are checked before they start.
ClaimAnswered ==
    /\ Answered("claiming")
    /\ LET j == arg[wCall]
       IN IF answer[wCall] = "error" \/ j = NoJob
          THEN Release(wCall) /\ PollAgain
          ELSE IF type[j] = "create_meetup"
          THEN Post(wCall, "getSubmitPreflight", FALSE, "preflighting", j)
          ELSE Release(wCall) /\ Resume("filling", j)
    /\ TableUnchanged

PreflightAnswered ==
    /\ Answered("preflighting")
    /\ Release(wCall)
    /\ IF answer[wCall] = "proceed" THEN Resume("filling", wJob) ELSE PollAgain
    /\ TableUnchanged

\* Anything goes wrong before the last screen; only a launch that times out is
\* reported as worth another attempt.
FillFails(h, m) ==
    /\ wAt = "filling"
    /\ Free(h)
    /\ PostFailure(h, m)
    /\ TableUnchanged

\* Filling the form takes minutes on the device.  The bound on time assumed
\* here: a fail request of an earlier claim of this job is over by then.
NoOlderFailure(j) ==
    \A h \in Handlers : arg[h] = j => at[h] \notin {"getJob", "requeueJob"}

FillDone(h) ==
    /\ wAt = "filling"
    /\ Free(h)
    /\ NoOlderFailure(wJob)
    /\ IF dryRun[wJob]
       THEN Post(h, "completeJob", FALSE, "completing", wJob)
       ELSE Post(h, "markSubmitAttempted", FALSE, "marking", wJob)
    /\ TableUnchanged

\* Without the mark the button is not pressed: the create handler reports a
\* transient failure, the delete handler lets the error through.
ManualAfterMark == type[wJob] = "delete_meetup"

MarkAnswered ==
    /\ Answered("marking")
    /\ IF answer[wCall] = "ok" THEN Release(wCall) /\ Resume("tapping", wJob)
       ELSE PostFailure(wCall, ManualAfterMark)
    /\ TableUnchanged

Tap ==
    /\ wAt = "tapping"
    /\ taps' = [taps EXCEPT ![wJob] = @ + 1]
    /\ Resume("confirming", wJob)
    /\ UNCHANGED <<tableVars, handlerVars>>

\* The created post was seen (the deleted card is gone), or it was not.
Confirmed(h) ==
    /\ wAt = "confirming"
    /\ Free(h)
    /\ Post(h, "completeJob", FALSE, "completing", wJob)
    /\ TableUnchanged

Unconfirmed(h) ==
    /\ wAt = "confirming"
    /\ Free(h)
    /\ PostFailure(h, TRUE)
    /\ TableUnchanged

ReportAnswered ==
    /\ Answered("completing") \/ Answered("failing")
    /\ Release(wCall)
    /\ PollAgain
    /\ TableUnchanged

\* The connection breaks while the handler runs on.  The main loop logs it and
\* polls again: the job, if any, stays claimed.
CallBreaks ==
    /\ wAt \in Waiting \ {"marking"}
    /\ PollAgain
    /\ UNCHANGED handlerVars /\ TableUnchanged

\* A broken submit-attempt is caught by the job handler instead.
MarkCallBreaks(h) ==
    /\ wAt = "marking"
    /\ Free(h)
    /\ PostFailure(h, ManualAfterMark)
    /\ TableUnchanged

WorkerStops ==
    /\ wAt # "down"
    /\ Resume("down", NoJob)
    /\ UNCHANGED handlerVars /\ TableUnchanged

WorkerStarts ==
    /\ wAt = "down"
    /\ PollAgain
    /\ UNCHANGED handlerVars /\ TableUnchanged
-----------------------------------------------------------------------------
HandlerStep(h) ==
    \/ \E stale \in SUBSET Job : RequeueStaleJobs(h, stale)
    \/ ClaimNextJob(h)
    \/ \E j \in Job : EmitExhausted(h, j)
    \/ \E cancelled, existing \in BOOLEAN :
          GetSubmitPreflight(h, cancelled, existing)
    \/ StopClaimedJob(h)
    \/ CompleteExistingEvent(h)
    \/ \E cancelled \in BOOLEAN : MarkSubmitAttempted(h, cancelled)
    \/ \E cancelled \in BOOLEAN : RecheckPreflight(h, cancelled)
    \/ CompleteJob(h)
    \/ GetJob(h)
    \/ RequeueJob(h)
    \/ FailJob(h)
    \/ EmitFailed(h)
    \/ \E compensate \in BOOLEAN : EmitSucceeded(h, compensate)
    \/ \E j \in Job \cup {NoJob} : CreateDeleteJob(h, j)
    \/ DropReply(h)

\* The worker goes on with its job or its loop.
WorkerStep ==
    \/ ClaimAnswered \/ PreflightAnswered \/ MarkAnswered \/ ReportAnswered
    \/ Tap \/ CallBreaks
    \/ \E h \in Handlers :
          \/ Poll(h) \/ FillDone(h) \/ Confirmed(h) \/ Unconfirmed(h)
          \/ MarkCallBreaks(h)
          \/ \E m \in BOOLEAN : FillFails(h, m)

JobsEnvironment ==
    \/ \E j \in Job : CancelPendingJob(j)
    \/ \E j \in Job, t \in JobType, dry \in BOOLEAN : CreateJob(j, t, dry)
    \/ \E h \in Handlers : QueryFails(h)
    \/ ServerCrashes \/ WorkerStops \/ WorkerStarts

JobsNext ==
    \/ \E h \in Handlers : HandlerStep(h)
    \/ WorkerStep
    \/ JobsEnvironment

JobsSpec == JobsInit /\ [][JobsNext]_jobsVars
-----------------------------------------------------------------------------
(* Safety.                                                                 *)

\* The irreversible button is pressed at most once for a job, whatever is
\* lost, retried, recovered or restarted (submit_attempted_at, requeueStaleJobs
\* and failJob together; worker/handlers/create-meetup.js presses it).
AtMostOneTap == \A j \in Job : taps[j] <= 1

\* A job whose button was pressed is never again in the queue or anywhere
\* before the button: the worker can only report on it.
SubmittedNeverRerun ==
    \A j \in Job : taps[j] > 0 =>
        /\ status[j] # "pending"
        /\ wJob = j => wAt \in {"confirming", "completing", "failing"}

\* The meetup is told that its registration failed (which offers its host a
\* retry) only for a job that is over and was never marked, so that no event
\* can come of it any more (routes: fail, claim).
ToldFailed(j) ==
    \E h \in Handlers :
        \/ at[h] = "emitFailed" /\ arg[h] = j
        \/ j \in exhausted[h]

FailureNoticeIsSafe ==
    \A j \in Job : ToldFailed(j) =>
        status[j] \in Final /\ ~marked[j] /\ taps[j] = 0

-----------------------------------------------------------------------------
(* Why the properties above hold: an invariant that every step preserves.  *)

\* Nothing will run this job again.
NeverAgain(j) == marked[j] /\ status[j] \notin {"absent", "pending"}

\* Once the button was pressed the job stays out of the queue, and the worker,
\* if it still holds the job, has the report left to do.
SubmittedIsOver ==
    \A j \in Job : taps[j] > 0 =>
        /\ taps[j] = 1
        /\ NeverAgain(j)
        /\ wJob = j => wAt \in {"confirming", "completing", "failing"}

\* The worker presses only what is out of the queue and what no older request
\* can put back into it.
TapIsSafe == wAt = "tapping" => NeverAgain(wJob)
NothingOlder == wAt \in {"marking", "tapping"} => NoOlderFailure(wJob)

\* A job that is to be put back was not submitted.
RequeueIsSafe ==
    \A h \in Handlers : at[h] = "requeueJob" => taps[arg[h]] = 0

\* The answer the worker waits for is the answer to what it asked: a claim hands
\* out a job that was not submitted, a mark that was confirmed is in the table.
ClaimIsFresh ==
    wAt = "claiming" =>
        /\ at[wCall] \in ClaimStep \cup {"idle", "reply"}
        /\ arg[wCall] # NoJob => taps[arg[wCall]] = 0

MarkIsOurs ==
    wAt = "marking" =>
        /\ at[wCall] \in {"idle", "markSubmitAttempted", "recheckPreflight",
                           "stopAfterRecheck", "reply"}
        /\ at[wCall] # "idle" => arg[wCall] = wJob
        /\ at[wCall] = "reply" /\ answer[wCall] = "ok" => NeverAgain(wJob)

\* Every step preserves this conjunction, which implies the three invariants.
JobsInv ==
    /\ SubmittedIsOver /\ TapIsSafe /\ NothingOlder /\ RequeueIsSafe
    /\ ClaimIsFresh /\ MarkIsOurs /\ FailureNoticeIsSafe
-----------------------------------------------------------------------------
(* Refinement and order.                                                   *)

\* The queue implements the promise of SubmitContract.
OutcomeOf(j) ==
    CASE status[j] = "absent" -> "none"
      [] status[j] \in {"pending", "claimed"} -> "open"
      [] OTHER -> status[j]

Contract == INSTANCE SubmitContract WITH
    Job <- Job, outcome <- [j \in Job |-> OutcomeOf(j)], presses <- taps

ContractKept == Contract!ContractSpec

\* SOMOIM_AUTOMATION.md:228 says that a marked job does not go back to pending.
\* The fail route reads the mark before the statement that requeues the job,
\* and a submit-attempt whose connection broke can land in between.
MarkedNeverRequeued ==
    [][\A j \in Job : marked[j] => status'[j] # "pending"]_jobsVars
-----------------------------------------------------------------------------
(* Liveness.  The worker process is kept running and goes on with what it  *)
(* does; a statement that is tried again and again succeeds some time; and *)
(* a claim that nobody reports on is some time older than                  *)
(* staleClaimSeconds when the queue is polled.                             *)

RecoverEveryClaim ==
    \E h \in Handlers :
        RequeueStaleJobs(h, {j \in Job : status[j] = "claimed"})

JobsFairness ==
    /\ WF_jobsVars(WorkerStep)
    /\ WF_jobsVars(WorkerStarts)
    /\ \A h \in Handlers :
          /\ WF_jobsVars(HandlerStep(h))
          /\ SF_jobsVars(Poll(h))
          /\ SF_jobsVars(ClaimNextJob(h))
    /\ SF_jobsVars(RecoverEveryClaim)

FairJobsSpec == JobsSpec /\ JobsFairness

\* Every job in the queue gets a final outcome: recovery on every poll keeps
\* it from being claimed for ever and the attempts run out.
JobsSettle ==
    \A j \in Job : status[j] = "pending" ~> status[j] \in Final
=============================================================================
