-------------------------- MODULE SomoimJobsProofs --------------------------
(***************************************************************************)
(* Proofs about the automation queue for any number of jobs, attempts and  *)
(* concurrent request handlers.  JobsInv is the inductive invariant, given *)
(* the types; TypeCorrect and InvCorrect establish it, the other theorems  *)
(* follow from it.                                                         *)
(***************************************************************************)
EXTENDS SomoimJobs, TLAPS

-----------------------------------------------------------------------------
(* How the steps are put together: what keeps the types of the parts.      *)

\* A handler that starts or ends a request (Serve) stays well typed.
LEMMA ServeTypes ==
    ASSUME HandlerTypeOK,
           NEW h \in Handlers, NEW step \in Step, NEW j \in Job \cup {NoJob},
           NEW m \in BOOLEAN,
           j = NoJob => step \in ClaimStep \cup {"idle", "reply"},
           Serve(h, step, j, m)
    PROVE  HandlerTypeOK'
  BY DEF HandlerTypeOK, Serve, Answer

\* So does one that has answered (Release).
LEMMA ReleaseTypes ==
    ASSUME HandlerTypeOK, NEW h \in Handlers, Release(h)
    PROVE  HandlerTypeOK'
  BY ServeTypes DEF Release, Step, NoJob

\* A handler that goes on to its next statement, or to its answer.
LEMMA RespondTypes ==
    ASSUME HandlerTypeOK,
           NEW h \in Handlers, NEW step \in Step, NEW a \in Answer,
           arg[h] = NoJob => step \in ClaimStep \cup {"idle", "reply"},
           RespondAfter(h, step, a) \/ Goto(h, step)
    PROVE  HandlerTypeOK'
  BY DEF HandlerTypeOK, RespondAfter, Goto

\* A worker that goes to a state, with or without a request under way.
LEMMA WorkerTypes ==
    ASSUME NEW where \in WorkerAt, NEW j \in Job \cup {NoJob},
           NEW h \in Handlers \cup {NoCall},
           j = NoJob => where \in {"down", "poll", "claiming"},
           where \in Waiting => h \in Handlers,
           WorkerBecomes(where, j, h)
    PROVE  WorkerTypeOK'
  BY DEF WorkerBecomes, WorkerTypeOK

\* Nothing changes, for each of the parts.
LEMMA UnchangedTypes ==
    /\ TableTypeOK /\ UNCHANGED <<tableVars, taps>> => TableTypeOK'
    /\ HandlerTypeOK /\ UNCHANGED handlerVars => HandlerTypeOK'
    /\ WorkerTypeOK /\ UNCHANGED workerVars => WorkerTypeOK'
  BY DEF TableTypeOK, HandlerTypeOK, WorkerTypeOK, tableVars, handlerVars,
         workerVars

\* Only the status of one row changes.
LEMMA StatusTypes ==
    ASSUME TableTypeOK, NEW j \in Job, NEW s \in Status,
           Become(j, s) \/ UNCHANGED status, OnlyStatus, UNCHANGED taps
    PROVE  TableTypeOK'
  BY DEF TableTypeOK, Become, OnlyStatus
-----------------------------------------------------------------------------
(* Types.                                                                  *)

\* Every step of a request handler keeps the types.
LEMMA HandlerStepTypes ==
    ASSUME JobsTypeOK, NEW h \in Handlers, HandlerStep(h)
    PROVE  JobsTypeOK'
<1> USE DEF JobsTypeOK, NoWorkerStep
<1>0. WorkerTypeOK'
  BY UnchangedTypes
  DEF HandlerStep, RequeueStaleJobs, ClaimNextJob, EmitExhausted,
      GetSubmitPreflight, StopClaimedJob, CompleteExistingEvent,
      MarkSubmitAttempted, RecheckPreflight, CompleteJob, GetJob, RequeueJob,
      FailJob, EmitFailed, EmitSucceeded, CreateDeleteJob,
      DropReply
<1>1. ASSUME NEW stale \in SUBSET Job, RequeueStaleJobs(h, stale)
      PROVE  TableTypeOK' /\ HandlerTypeOK'
  BY <1>1
  DEF RequeueStaleJobs, OnlyStatus, TableTypeOK, HandlerTypeOK, Step, ClaimStep,
      Status, Final
<1>2. CASE ClaimNextJob(h)
  <2>1. AfterClaim(h) \in ClaimStep \cup {"reply"}
    BY DEF AfterClaim, ClaimStep
  <2>2. CASE RespondAfter(h, AfterClaim(h), "ok") /\ UNCHANGED <<status, attempts>>
    <3>1. TableTypeOK'
      BY <1>2, <2>2, UnchangedTypes DEF ClaimNextJob, tableVars
    <3>2. HandlerTypeOK'
      BY <2>1, <2>2, RespondTypes DEF Step, ClaimStep, Answer
    <3> QED BY <1>0, <3>1, <3>2
  <2>3. ASSUME NEW j \in Job, ClaimOldest(j),
               at' = [at EXCEPT ![h] = AfterClaim(h)],
               arg' = [arg EXCEPT ![h] = j],
               answer' = [answer EXCEPT ![h] = "ok"],
               UNCHANGED <<manual, exhausted>>
        PROVE  TableTypeOK' /\ HandlerTypeOK'
    <3>1. TableTypeOK'
      BY <1>2, <2>3
      DEF ClaimNextJob, ClaimOldest, Become, TableTypeOK, Status
    <3>2. HandlerTypeOK'
      BY <2>1, <2>3 DEF HandlerTypeOK, Step, ClaimStep, Answer, Job, NoJob
    <3> QED BY <3>1, <3>2
  <2> QED BY <1>0, <1>2, <2>2, <2>3 DEF ClaimNextJob
<1>3. ASSUME NEW j \in Job, EmitExhausted(h, j)
      PROVE  TableTypeOK' /\ HandlerTypeOK'
  <2>1. TableTypeOK'
    BY <1>3, UnchangedTypes DEF EmitExhausted
  <2>2. HandlerTypeOK'
    BY <1>3 DEF EmitExhausted, HandlerTypeOK, Step, ClaimStep
  <2> QED BY <2>1, <2>2
<1>4. ASSUME at[h] \notin ClaimStep \cup {"idle", "reply"}
      PROVE  arg[h] \in Job
  BY <1>4 DEF HandlerTypeOK
<1>5. ASSUME NEW c \in BOOLEAN, NEW e \in BOOLEAN, GetSubmitPreflight(h, c, e)
      PROVE  TableTypeOK' /\ HandlerTypeOK'
  <2>1. TableTypeOK'
    BY <1>5, UnchangedTypes DEF GetSubmitPreflight
  <2>2. arg[h] \in Job
    BY <1>4, <1>5 DEF GetSubmitPreflight, ClaimStep
  <2>3. HandlerTypeOK'
    BY <1>5, <2>2, RespondTypes
    DEF GetSubmitPreflight, Respond, Step, Answer, Job, NoJob
  <2> QED BY <2>1, <2>3
<1>6. CASE StopClaimedJob(h)
  <2>1. arg[h] \in Job
    BY <1>4, <1>6 DEF StopClaimedJob, ClaimStep
  <2>2. TableTypeOK'
    BY <1>6, <2>1, StatusTypes DEF StopClaimedJob, Status, Final
  <2>3. HandlerTypeOK'
    BY <1>6, RespondTypes DEF StopClaimedJob, Respond, Step, Answer
  <2> QED BY <1>0, <2>2, <2>3
<1>7. CASE CompleteExistingEvent(h)
  <2>1. arg[h] \in Job /\ arg[h] # NoJob
    BY <1>4, <1>7 DEF CompleteExistingEvent, ClaimStep, Job, NoJob
  <2>2. TableTypeOK'
    BY <1>7, <2>1, StatusTypes DEF CompleteExistingEvent, Status, Final
  <2>3. HandlerTypeOK'
    BY <1>7, <2>1, RespondTypes DEF CompleteExistingEvent, Step, Answer
  <2> QED BY <1>0, <2>2, <2>3
<1>8. ASSUME NEW c \in BOOLEAN, MarkSubmitAttempted(h, c)
      PROVE  TableTypeOK' /\ HandlerTypeOK'
  <2>1. arg[h] \in Job /\ arg[h] # NoJob
    BY <1>4, <1>8 DEF MarkSubmitAttempted, ClaimStep, Job, NoJob
  <2>2. TableTypeOK'
    BY <1>8, <2>1 DEF MarkSubmitAttempted, TableTypeOK
  <2>3. HandlerTypeOK'
    BY <1>8, <2>1, RespondTypes DEF MarkSubmitAttempted, Respond, Step, Answer
  <2> QED BY <2>2, <2>3
<1>9. ASSUME NEW c \in BOOLEAN, RecheckPreflight(h, c)
      PROVE  TableTypeOK' /\ HandlerTypeOK'
  <2>1. arg[h] \in Job /\ arg[h] # NoJob
    BY <1>4, <1>9 DEF RecheckPreflight, ClaimStep, Job, NoJob
  <2>2. TableTypeOK'
    BY <1>9, UnchangedTypes DEF RecheckPreflight
  <2>3. HandlerTypeOK'
    BY <1>9, <2>1, RespondTypes DEF RecheckPreflight, Respond, Step, Answer
  <2> QED BY <2>2, <2>3
<1>10. CASE CompleteJob(h)
  <2>1. arg[h] \in Job /\ arg[h] # NoJob
    BY <1>4, <1>10 DEF CompleteJob, ClaimStep, Job, NoJob
  <2>2. TableTypeOK'
    BY <1>10, <2>1, StatusTypes DEF CompleteJob, Status, Final
  <2>3. HandlerTypeOK'
    BY <1>10, <2>1, RespondTypes DEF CompleteJob, Respond, Step, Answer
  <2> QED BY <1>0, <2>2, <2>3
<1>11. CASE GetJob(h)
  <2>1. arg[h] \in Job /\ arg[h] # NoJob
    BY <1>4, <1>11 DEF GetJob, ClaimStep, Job, NoJob
  <2>2. TableTypeOK'
    BY <1>11, UnchangedTypes DEF GetJob
  <2>3. marked[arg[h]] \in BOOLEAN /\ manual[h] \in BOOLEAN
    BY <2>1 DEF TableTypeOK, HandlerTypeOK
  <2>4. at' \in [Handlers -> Step]
    BY <1>11 DEF GetJob, HandlerTypeOK, Step
  <2>5. manual' \in [Handlers -> BOOLEAN]
    BY <1>11, <2>3 DEF GetJob, HandlerTypeOK
  <2>6. \A g \in Handlers :
           arg'[g] = NoJob => at'[g] \in ClaimStep \cup {"idle", "reply"}
    BY <1>11, <2>1 DEF GetJob, HandlerTypeOK
  <2> QED BY <1>0, <1>11, <2>2, <2>4, <2>5, <2>6 DEF GetJob, HandlerTypeOK
<1>12. CASE RequeueJob(h)
  <2>1. arg[h] \in Job
    BY <1>4, <1>12 DEF RequeueJob, ClaimStep
  <2>2. TableTypeOK'
    BY <1>12, <2>1, StatusTypes DEF RequeueJob, Status
  <2>3. HandlerTypeOK'
    BY <1>12, RespondTypes DEF RequeueJob, Respond, Step, Answer
  <2> QED BY <1>0, <2>2, <2>3
<1>13. CASE FailJob(h)
  <2>1. arg[h] \in Job /\ arg[h] # NoJob
    BY <1>4, <1>13 DEF FailJob, ClaimStep, Job, NoJob
  <2>2. FailureStatus(manual[h]) \in Status
    BY DEF FailureStatus, Status, Final
  <2>3. TableTypeOK'
    BY <1>13, <2>1, <2>2, StatusTypes DEF FailJob
  <2>4. AfterFailure(h) \in Step
    BY DEF AfterFailure, Step
  <2>5. HandlerTypeOK'
    BY <1>13, <2>1, <2>4, RespondTypes DEF FailJob, Respond, Step, Answer
  <2> QED BY <1>0, <2>3, <2>5
<1>14. ASSUME EmitFailed(h) \/ CreateDeleteJob(h, NoJob)
              \/ \E c \in BOOLEAN : EmitSucceeded(h, c)
       PROVE  TableTypeOK' /\ HandlerTypeOK'
  <2>1. TableTypeOK'
    BY <1>14, UnchangedTypes
    DEF EmitFailed, CreateDeleteJob, EmitSucceeded
  <2>2. arg[h] \in Job /\ arg[h] # NoJob
    BY <1>4, <1>14
    DEF EmitFailed, CreateDeleteJob, EmitSucceeded, ClaimStep, Job, NoJob
  <2>3. PICK step \in {"reply", "createDeleteJob"} : Goto(h, step)
    BY <1>14 DEF EmitFailed, CreateDeleteJob, EmitSucceeded
  <2>4. HandlerTypeOK'
    BY <2>2, <2>3, RespondTypes DEF Step, Answer
  <2> QED BY <2>1, <2>4
<1>15. ASSUME NEW j \in Job, CreateDeleteJob(h, j)
       PROVE  TableTypeOK' /\ HandlerTypeOK'
  <2>0. j # NoJob
    BY DEF Job, NoJob
  <2>1. TableTypeOK'
    BY <1>15, <2>0
    DEF CreateDeleteJob, InsertJob, TableTypeOK, Status, JobType
  <2>2. HandlerTypeOK'
    BY <1>15, RespondTypes DEF CreateDeleteJob, Step, Answer
  <2> QED BY <2>1, <2>2
<1>16. CASE DropReply(h)
  BY <1>0, <1>16, UnchangedTypes, ReleaseTypes DEF DropReply
<1> QED
  BY <1>0, <1>1, <1>2, <1>3, <1>5, <1>6, <1>7, <1>8, <1>9, <1>10, <1>11, <1>12,
     <1>13, <1>14, <1>15, <1>16 DEF HandlerStep

\* Every step of the worker keeps the types.
LEMMA WorkerStepTypes ==
    ASSUME JobsTypeOK, WorkerStep
    PROVE  JobsTypeOK'
<1> USE DEF JobsTypeOK, TableUnchanged
<1>1. ASSUME NEW h \in Handlers, NEW where \in Waiting,
             NEW step \in Step \ (ClaimStep \cup {"idle", "reply"}),
             NEW m \in BOOLEAN, NEW j \in Job,
             Post(h, step, m, where, j), TableUnchanged
      PROVE  JobsTypeOK'
  <2>1. HandlerTypeOK'
    BY <1>1, ServeTypes DEF Post, Job, NoJob
  <2>2. WorkerTypeOK'
    BY <1>1, WorkerTypes DEF Post, Waiting, WorkerAt, Job, NoJob
  <2> QED BY <1>1, <2>1, <2>2, UnchangedTypes
<1>2. ASSUME NEW h \in Handlers, NEW j \in Job \cup {NoJob},
             NEW where \in WorkerAt \ Waiting, Release(h), Resume(where, j),
             TableUnchanged,
             j = NoJob => where = "poll"
      PROVE  JobsTypeOK'
  BY <1>2, ReleaseTypes, WorkerTypes, UnchangedTypes DEF Resume
<1>3. ASSUME NEW where \in Waiting, Answered(where)
      PROVE  wCall \in Handlers
  BY <1>3 DEF Answered, WorkerTypeOK
<1>4. ASSUME wAt \notin {"down", "poll", "claiming"}
      PROVE  wJob \in Job
  BY <1>4 DEF WorkerTypeOK
<1>5. "poll" \in WorkerAt \ Waiting /\ "filling" \in WorkerAt \ Waiting
      /\ "tapping" \in WorkerAt \ Waiting /\ "confirming" \in WorkerAt \ Waiting
      /\ "down" \in WorkerAt \ Waiting
  BY DEF WorkerAt, Waiting
<1>6. CASE ClaimAnswered
  <2>1. wCall \in Handlers
    BY <1>3, <1>6 DEF ClaimAnswered, Waiting
  <2>2. arg[wCall] \in Job \cup {NoJob}
    BY <2>1 DEF HandlerTypeOK
  <2>3. CASE Release(wCall) /\ PollAgain
    BY <1>2, <1>5, <1>6, <2>1, <2>3 DEF PollAgain, ClaimAnswered
  <2>4. CASE /\ arg[wCall] # NoJob
             /\ Release(wCall) /\ Resume("filling", arg[wCall])
    BY <1>2, <1>5, <1>6, <2>1, <2>2, <2>4 DEF ClaimAnswered
  <2>5. CASE /\ arg[wCall] # NoJob
             /\ Post(wCall, "getSubmitPreflight", FALSE, "preflighting",
                     arg[wCall])
    BY <1>1, <1>6, <2>1, <2>2, <2>5 DEF ClaimAnswered, Step, ClaimStep, Waiting
  <2> QED BY <1>6, <2>3, <2>4, <2>5 DEF ClaimAnswered
<1>7. CASE PreflightAnswered
  <2>1. wCall \in Handlers
    BY <1>3, <1>7 DEF PreflightAnswered, Waiting
  <2>2. wJob \in Job
    BY <1>4, <1>7 DEF PreflightAnswered, Answered
  <2>3. wJob # NoJob
    BY <2>2 DEF Job, NoJob
  <2> QED BY <1>2, <1>5, <1>7, <2>1, <2>2, <2>3 DEF PreflightAnswered, PollAgain
<1>8. CASE MarkAnswered
  <2>1. wCall \in Handlers
    BY <1>3, <1>8 DEF MarkAnswered, Waiting
  <2>2. wJob \in Job /\ wJob # NoJob
    BY <1>4, <1>8 DEF MarkAnswered, Answered, Job, NoJob
  <2>3. CASE Release(wCall) /\ Resume("tapping", wJob)
    BY <1>2, <1>5, <1>8, <2>1, <2>2, <2>3 DEF MarkAnswered
  <2>4. CASE PostFailure(wCall, ManualAfterMark)
    <3>1. ManualAfterMark \in BOOLEAN
      BY DEF ManualAfterMark
    <3> QED
      BY <1>1, <1>8, <2>1, <2>2, <2>4, <3>1
      DEF MarkAnswered, PostFailure, Step, ClaimStep, Waiting
  <2> QED BY <1>8, <2>3, <2>4 DEF MarkAnswered
<1>9. CASE ReportAnswered
  <2>1. wCall \in Handlers
    BY <1>3, <1>9 DEF ReportAnswered, Waiting
  <2> QED BY <1>2, <1>5, <1>9, <2>1 DEF ReportAnswered, PollAgain
<1>10. CASE Tap
  <2>1. wJob \in Job /\ wJob # NoJob
    BY <1>4, <1>10 DEF Tap, Job, NoJob
  <2>2. TableTypeOK'
    BY <1>10, <2>1 DEF Tap, TableTypeOK, tableVars
  <2>3. WorkerTypeOK'
    BY <1>5, <1>10, <2>1, WorkerTypes DEF Tap, Resume
  <2> QED BY <1>10, <2>2, <2>3, UnchangedTypes DEF Tap
<1>11. CASE CallBreaks
  BY <1>5, <1>11, UnchangedTypes, WorkerTypes DEF CallBreaks, PollAgain, Resume
<1>12. ASSUME NEW h \in Handlers, Poll(h)
       PROVE  JobsTypeOK'
  <2>1. HandlerTypeOK'
    BY <1>12, ServeTypes DEF Poll, Post, Step, ClaimStep
  <2>2. WorkerTypeOK'
    BY <1>12, WorkerTypes DEF Poll, Post, WorkerAt, Waiting
  <2> QED BY <1>12, <2>1, <2>2, UnchangedTypes DEF Poll
<1>13. ASSUME NEW h \in Handlers, FillDone(h)
       PROVE  JobsTypeOK'
  <2>1. wJob \in Job
    BY <1>4, <1>13 DEF FillDone
  <2>2. CASE Post(h, "completeJob", FALSE, "completing", wJob)
    BY <1>1, <1>13, <2>1, <2>2 DEF FillDone, Step, ClaimStep, Waiting
  <2>3. CASE Post(h, "markSubmitAttempted", FALSE, "marking", wJob)
    BY <1>1, <1>13, <2>1, <2>3 DEF FillDone, Step, ClaimStep, Waiting
  <2> QED BY <1>13, <2>2, <2>3 DEF FillDone
<1>14. ASSUME NEW h \in Handlers, Confirmed(h)
       PROVE  JobsTypeOK'
  <2>1. wJob \in Job
    BY <1>4, <1>14 DEF Confirmed
  <2> QED BY <1>1, <1>14, <2>1 DEF Confirmed, Step, ClaimStep, Waiting
<1>15. ASSUME NEW h \in Handlers, NEW m \in BOOLEAN,
              Unconfirmed(h) \/ MarkCallBreaks(h) \/ FillFails(h, m)
       PROVE  JobsTypeOK'
  <2>1. wJob \in Job
    BY <1>4, <1>15 DEF Unconfirmed, MarkCallBreaks, FillFails
  <2>2. PICK n \in BOOLEAN : PostFailure(h, n)
    BY <1>15 DEF Unconfirmed, MarkCallBreaks, FillFails, ManualAfterMark
  <2>3. TableUnchanged
    BY <1>15 DEF Unconfirmed, MarkCallBreaks, FillFails
  <2> QED BY <1>1, <2>1, <2>2, <2>3 DEF PostFailure, Step, ClaimStep, Waiting
<1> QED
  BY <1>6, <1>7, <1>8, <1>9, <1>10, <1>11, <1>12, <1>13, <1>14, <1>15
  DEF WorkerStep

\* Jobs that arrive or are cancelled, failing statements and crashes keep the
\* types.
LEMMA EnvironmentTypes ==
    ASSUME JobsTypeOK, JobsEnvironment
    PROVE  JobsTypeOK'
<1> USE DEF JobsTypeOK, NoWorkerStep
<1>1. ASSUME NEW j \in Job, CancelPendingJob(j)
      PROVE  JobsTypeOK'
  BY <1>1, UnchangedTypes DEF CancelPendingJob, TableTypeOK, Status, Final
<1>2. ASSUME NEW j \in Job, NEW t \in JobType, NEW dry \in BOOLEAN,
             CreateJob(j, t, dry)
      PROVE  JobsTypeOK'
  BY <1>2, UnchangedTypes DEF CreateJob, InsertJob, TableTypeOK, Status
<1>3. ASSUME NEW h \in Handlers, QueryFails(h)
      PROVE  JobsTypeOK'
  BY <1>3, UnchangedTypes, RespondTypes DEF QueryFails, Respond, Step, Answer
<1>4. CASE ServerCrashes
  <2>1. HandlerTypeOK'
    BY <1>4 DEF ServerCrashes, HandlerTypeOK, Step, Answer
  <2> QED BY <1>4, <2>1, UnchangedTypes DEF ServerCrashes
<1>5. CASE WorkerStops \/ WorkerStarts
  <2>1. PICK where \in {"down", "poll"} : Resume(where, NoJob)
    BY <1>5 DEF WorkerStops, WorkerStarts, PollAgain
  <2>2. WorkerTypeOK'
    BY <2>1, WorkerTypes DEF Resume, WorkerAt, Waiting
  <2> QED
    BY <1>5, <2>2, UnchangedTypes DEF WorkerStops, WorkerStarts, TableUnchanged
<1> QED
  BY <1>1, <1>2, <1>3, <1>4, <1>5 DEF JobsEnvironment

\* Types hold in every state of the queue, for any number of jobs, attempts and
\* concurrent handlers.
THEOREM TypeCorrect == JobsSpec => []JobsTypeOK
<1>1. JobsInit => JobsTypeOK
  BY DEF JobsInit, JobsTypeOK, TableTypeOK, HandlerTypeOK, WorkerTypeOK, NoJob,
         JobType, Status, Step, Answer, WorkerAt, Waiting
<1>2. JobsTypeOK /\ [JobsNext]_jobsVars => JobsTypeOK'
  BY HandlerStepTypes, WorkerStepTypes, EnvironmentTypes, UnchangedTypes
  DEF JobsNext, jobsVars, JobsTypeOK
<1> QED
  BY <1>1, <1>2, PTL DEF JobsSpec
-----------------------------------------------------------------------------
(* The inductive invariant.                                                *)

\* The steps of a request handler that leave requests and claims as they are:
\* what is over stays over, a job that is not to run again stays that way, and
\* the handler goes on to a step that is safe for its job.
LEMMA HandlerFrame ==
    ASSUME JobsTypeOK, JobsTypeOK', JobsInv, NEW h \in Handlers,
           UNCHANGED <<arg, exhausted, wAt, wJob, wCall, taps>>,
           \A g \in Handlers \ {h} : at'[g] = at[g] /\ answer'[g] = answer[g],
           \A j \in Job : status[j] \in Final =>
              status'[j] = status[j] /\ marked'[j] = marked[j],
           \A j \in Job :
              /\ NeverAgain(j)
              /\ taps[j] > 0 \/ (wJob = j /\ wAt \in {"marking", "tapping"})
              => NeverAgain(j)',
           at'[h] # "getJob",
           at'[h] = "requeueJob" => at[h] = "getJob" /\ taps[arg[h]] = 0,
           at'[h] = "emitFailed" =>
              status'[arg[h]] \in Final /\ ~marked'[arg[h]] /\ taps[arg[h]] = 0,
           at[h] \in ClaimStep \cup {"idle", "reply"} =>
              at'[h] \in ClaimStep \cup {"idle", "reply"},
           at[h] \in {"idle", "markSubmitAttempted", "recheckPreflight",
                      "stopAfterRecheck", "reply"} =>
              /\ at'[h] \in {"idle", "markSubmitAttempted", "recheckPreflight",
                             "stopAfterRecheck", "reply"}
              /\ at[h] = "idle" => at'[h] = "idle"
              /\ at'[h] = "reply" /\ answer'[h] = "ok" =>
                    \/ NeverAgain(arg[h])'
                    \/ at[h] = "reply" /\ answer[h] = "ok"
    PROVE  JobsInv'
<1>1. SubmittedIsOver'
  BY DEF JobsInv, SubmittedIsOver
<1>2. TapIsSafe'
  BY DEF JobsInv, TapIsSafe, JobsTypeOK, WorkerTypeOK, NoJob, Job
<1>3. NothingOlder'
  BY DEF JobsInv, NothingOlder, NoOlderFailure
<1>4. RequeueIsSafe'
  BY DEF JobsInv, RequeueIsSafe
<1>5. ClaimIsFresh'
  BY DEF JobsInv, ClaimIsFresh, JobsTypeOK, WorkerTypeOK, Waiting
<1>6. MarkIsOurs'
  <2> SUFFICES ASSUME wAt = "marking"
               PROVE  MarkIsOurs'
    BY DEF MarkIsOurs
  <2>1. wCall \in Handlers /\ wJob \in Job
    BY DEF JobsTypeOK, WorkerTypeOK, Waiting
  <2>2. CASE wCall # h
    BY <2>1, <2>2 DEF JobsInv, MarkIsOurs
  <2>3. CASE wCall = h
    BY <2>1, <2>3 DEF JobsInv, MarkIsOurs
  <2> QED BY <2>2, <2>3
<1>7. FailureNoticeIsSafe'
  <2> SUFFICES ASSUME NEW j \in Job, ToldFailed(j)'
               PROVE  status'[j] \in Final /\ ~marked'[j] /\ taps'[j] = 0
    BY DEF FailureNoticeIsSafe
  <2>1. CASE ToldFailed(j)
    BY <2>1 DEF JobsInv, FailureNoticeIsSafe
  <2>2. CASE ~ToldFailed(j)
    BY <2>2 DEF ToldFailed
  <2> QED BY <2>1, <2>2
<1> QED
  BY <1>1, <1>2, <1>3, <1>4, <1>5, <1>6, <1>7 DEF JobsInv

\* Recovery returns no submitted job to the queue, because a mark gives it up.
LEMMA RequeueStaleInv ==
    ASSUME JobsTypeOK, JobsInv, NEW h \in Handlers, NEW stale \in SUBSET Job,
           RequeueStaleJobs(h, stale)
    PROVE  JobsInv'
<1> USE DEF JobsTypeOK, TableTypeOK, HandlerTypeOK, WorkerTypeOK,
            RequeueStaleJobs, NoWorkerStep, OnlyStatus, workerVars
<1>1. \A j \in Job : NeverAgain(j) => NeverAgain(j)'
  BY DEF NeverAgain, GivenUp
<1>2. \A j \in Job : status[j] \in Final => status'[j] = status[j]
  BY DEF Final
<1>3. SubmittedIsOver'
  BY <1>1 DEF JobsInv, SubmittedIsOver
<1>4. TapIsSafe'
  BY <1>1 DEF JobsInv, TapIsSafe, NoJob
<1>5. NothingOlder'
  BY DEF JobsInv, NothingOlder, NoOlderFailure
<1>6. RequeueIsSafe'
  BY DEF JobsInv, RequeueIsSafe
<1>7. ClaimIsFresh'
  BY DEF JobsInv, ClaimIsFresh, ClaimStep
<1>8. MarkIsOurs'
  <2> SUFFICES ASSUME wAt = "marking"
               PROVE  MarkIsOurs'
    BY DEF MarkIsOurs
  <2>1. wCall \in Handlers /\ wJob \in Job /\ wCall # h
    BY DEF Waiting, JobsInv, MarkIsOurs
  <2> QED BY <1>1, <2>1 DEF JobsInv, MarkIsOurs
<1>9. FailureNoticeIsSafe'
  <2> SUFFICES ASSUME NEW j \in Job, ToldFailed(j)'
               PROVE  status'[j] \in Final /\ ~marked'[j] /\ taps'[j] = 0
    BY DEF FailureNoticeIsSafe
  <2>1. CASE ToldFailed(j)
    BY <1>2, <2>1 DEF JobsInv, FailureNoticeIsSafe
  <2>2. CASE j \in stale /\ GivenUp(j) /\ ~marked[j]
    BY <2>2 DEF JobsInv, SubmittedIsOver, NeverAgain, Final
  <2> QED BY <2>1, <2>2 DEF ToldFailed
<1> QED
  BY <1>3, <1>4, <1>5, <1>6, <1>7, <1>8, <1>9 DEF JobsInv

\* A claim takes a pending job, which was not submitted.
LEMMA ClaimNextInv ==
    ASSUME JobsTypeOK, JobsInv, NEW h \in Handlers, ClaimNextJob(h)
    PROVE  JobsInv'
<1> USE DEF JobsTypeOK, TableTypeOK, HandlerTypeOK, WorkerTypeOK,
            ClaimNextJob, NoWorkerStep, workerVars
<1>1. AfterClaim(h) \in {"reply", "emitExhausted"}
  BY DEF AfterClaim
<1>2. CASE RespondAfter(h, AfterClaim(h), "ok") /\ UNCHANGED <<status, attempts>>
  <2>1. JobsTypeOK'
    BY HandlerStepTypes DEF HandlerStep
  <2>2. wAt # "marking" \/ wCall # h
    BY DEF JobsInv, MarkIsOurs
  <2> QED
    BY <1>1, <1>2, <2>1, <2>2, HandlerFrame
    DEF RespondAfter, NeverAgain, ClaimStep
<1>3. ASSUME NEW j \in Job, status[j] = "pending", ClaimOldest(j),
             at' = [at EXCEPT ![h] = AfterClaim(h)],
             arg' = [arg EXCEPT ![h] = j],
             answer' = [answer EXCEPT ![h] = "ok"],
             UNCHANGED <<manual, exhausted>>
      PROVE  JobsInv'
  <2>1. taps[j] = 0 /\ j # NoJob
    BY <1>3 DEF JobsInv, SubmittedIsOver, NeverAgain, Job, NoJob
  <2>2. \A i \in Job : i # j => status'[i] = status[i]
    BY <1>3 DEF ClaimOldest, Become
  <2>3. \A i \in Job : NeverAgain(i) => NeverAgain(i)' /\ i # j
    BY <1>3, <2>2 DEF NeverAgain
  <2>4. SubmittedIsOver'
    BY <2>1, <2>3 DEF JobsInv, SubmittedIsOver
  <2>5. TapIsSafe'
    BY <2>3 DEF JobsInv, TapIsSafe
  <2>6. NothingOlder'
    BY <1>1, <1>3 DEF JobsInv, NothingOlder, NoOlderFailure
  <2>7. RequeueIsSafe'
    BY <1>1, <1>3 DEF JobsInv, RequeueIsSafe
  <2>8. ClaimIsFresh'
    BY <1>1, <1>3, <2>1 DEF JobsInv, ClaimIsFresh, ClaimStep, Waiting
  <2>9. MarkIsOurs'
    <3> SUFFICES ASSUME wAt = "marking"
                 PROVE  MarkIsOurs'
      BY DEF MarkIsOurs
    <3>1. wCall \in Handlers /\ wJob \in Job /\ wCall # h
      BY DEF Waiting, JobsInv, MarkIsOurs
    <3> QED BY <1>3, <2>3, <3>1 DEF JobsInv, MarkIsOurs
  <2>10. FailureNoticeIsSafe'
    <3> SUFFICES ASSUME NEW i \in Job, ToldFailed(i)'
                 PROVE  status'[i] \in Final /\ ~marked'[i] /\ taps'[i] = 0
      BY DEF FailureNoticeIsSafe
    <3>1. ToldFailed(i)
      BY <1>1, <1>3 DEF ToldFailed
    <3>2. i # j
      BY <1>3, <3>1 DEF JobsInv, FailureNoticeIsSafe, Final
    <3> QED BY <2>2, <3>1, <3>2 DEF JobsInv, FailureNoticeIsSafe
  <2> QED
    BY <2>4, <2>5, <2>6, <2>7, <2>8, <2>9, <2>10 DEF JobsInv
<1> QED
  BY <1>2, <1>3

\* The steps that only answer, go on to the next statement, or finish a claimed
\* job.
LEMMA HandlerStepInv ==
    ASSUME JobsTypeOK, JobsInv, NEW h \in Handlers, HandlerStep(h)
    PROVE  JobsInv'
<1>0. JobsTypeOK'
  BY HandlerStepTypes
<1> USE DEF NoWorkerStep, OnlyStatus, workerVars, tableVars, Goto, Respond,
            RespondAfter, Become, NeverAgain, ClaimStep, Final
<1>1. ASSUME NEW stale \in SUBSET Job, RequeueStaleJobs(h, stale)
      PROVE  JobsInv'
  BY <1>1, RequeueStaleInv
<1>2. CASE ClaimNextJob(h)
  BY <1>2, ClaimNextInv
<1>3. ASSUME NEW j \in Job, EmitExhausted(h, j)
      PROVE  JobsInv'
  <2> USE DEF EmitExhausted, JobsTypeOK, HandlerTypeOK
  <2>1. SubmittedIsOver' /\ TapIsSafe' /\ NothingOlder' /\ RequeueIsSafe'
    BY <1>3
    DEF JobsInv, SubmittedIsOver, TapIsSafe, NothingOlder, NoOlderFailure,
        RequeueIsSafe
  <2>2. ClaimIsFresh'
    BY <1>3 DEF JobsInv, ClaimIsFresh, WorkerTypeOK, Waiting
  <2>3. MarkIsOurs'
    <3>1. wAt = "marking" => wCall # h /\ wCall \in Handlers
      BY <1>3 DEF JobsInv, MarkIsOurs, WorkerTypeOK, Waiting
    <3> QED BY <1>3, <3>1 DEF JobsInv, MarkIsOurs
  <2>4. FailureNoticeIsSafe'
    BY <1>3 DEF JobsInv, FailureNoticeIsSafe, ToldFailed
  <2> QED BY <2>1, <2>2, <2>3, <2>4 DEF JobsInv
<1>4. ASSUME NEW c \in BOOLEAN, NEW e \in BOOLEAN, GetSubmitPreflight(h, c, e)
      PROVE  JobsInv'
  BY <1>0, <1>4, HandlerFrame
  DEF GetSubmitPreflight, JobsTypeOK, HandlerTypeOK, TableTypeOK
<1>5. ASSUME at[h] \notin ClaimStep \cup {"idle", "reply"}
      PROVE  arg[h] \in Job
  BY <1>5 DEF JobsTypeOK, HandlerTypeOK
<1>6. CASE StopClaimedJob(h)
  BY <1>0, <1>5, <1>6, HandlerFrame
  DEF StopClaimedJob, JobsTypeOK, HandlerTypeOK, TableTypeOK
<1>7. CASE CompleteExistingEvent(h)
  BY <1>0, <1>5, <1>7, HandlerFrame
  DEF CompleteExistingEvent, JobsTypeOK, HandlerTypeOK, TableTypeOK
<1>8. ASSUME NEW c \in BOOLEAN, MarkSubmitAttempted(h, c)
      PROVE  JobsInv'
  BY <1>0, <1>5, <1>8, HandlerFrame
  DEF MarkSubmitAttempted, MayMark, JobsTypeOK, HandlerTypeOK, TableTypeOK
<1>9. ASSUME NEW c \in BOOLEAN, RecheckPreflight(h, c)
      PROVE  JobsInv'
  BY <1>0, <1>9, HandlerFrame
  DEF RecheckPreflight, JobsTypeOK, HandlerTypeOK, TableTypeOK
<1>10. CASE CompleteJob(h)
  BY <1>0, <1>5, <1>10, HandlerFrame
  DEF CompleteJob, JobsTypeOK, HandlerTypeOK, TableTypeOK
<1>11. CASE GetJob(h)
  <2>1. arg[h] \in Job
    BY <1>5, <1>11 DEF GetJob
  <2>2. CanRetry(h) => taps[arg[h]] = 0
    BY <2>1 DEF CanRetry, JobsInv, SubmittedIsOver, JobsTypeOK, TableTypeOK
  <2>3. at'[h] \in {"requeueJob", "failJob"}
    BY <1>11 DEF GetJob, JobsTypeOK, HandlerTypeOK
  <2>4. at'[h] = "requeueJob" => taps[arg[h]] = 0
    BY <1>11, <2>2 DEF GetJob, JobsTypeOK, HandlerTypeOK
  <2> QED
    BY <1>0, <1>11, <2>3, <2>4, HandlerFrame
    DEF GetJob, JobsTypeOK, HandlerTypeOK, TableTypeOK
<1>12. CASE RequeueJob(h)
  <2>1. arg[h] \in Job /\ taps[arg[h]] = 0
    BY <1>5, <1>12 DEF RequeueJob, JobsInv, RequeueIsSafe
  <2>2. wAt \in {"marking", "tapping"} => wJob # arg[h]
    BY <1>12 DEF RequeueJob, JobsInv, NothingOlder, NoOlderFailure
  <2> QED
    BY <1>0, <1>12, <2>1, <2>2, HandlerFrame
    DEF RequeueJob, JobsTypeOK, HandlerTypeOK, TableTypeOK
<1>13. CASE FailJob(h)
  <2>1. arg[h] \in Job
    BY <1>5, <1>13 DEF FailJob
  <2>2. ~marked[arg[h]] => taps[arg[h]] = 0
    BY <2>1 DEF JobsInv, SubmittedIsOver, JobsTypeOK, TableTypeOK
  <2> QED
    BY <1>0, <1>13, <2>1, <2>2, HandlerFrame
    DEF FailJob, FailureStatus, AfterFailure, JobsTypeOK, HandlerTypeOK,
        TableTypeOK
<1>14. CASE EmitFailed(h)
  BY <1>0, <1>14, HandlerFrame
  DEF EmitFailed, JobsTypeOK, HandlerTypeOK, TableTypeOK
<1>15. ASSUME NEW c \in BOOLEAN, EmitSucceeded(h, c)
       PROVE  JobsInv'
  BY <1>0, <1>15, HandlerFrame
  DEF EmitSucceeded, JobsTypeOK, HandlerTypeOK, TableTypeOK
<1>16. CASE CreateDeleteJob(h, NoJob)
  BY <1>0, <1>16, HandlerFrame
  DEF CreateDeleteJob, JobsTypeOK, HandlerTypeOK, TableTypeOK
<1>17. ASSUME NEW j \in Job, CreateDeleteJob(h, j)
       PROVE  JobsInv'
  BY <1>0, <1>17, HandlerFrame
  DEF CreateDeleteJob, Job, NoJob, InsertJob, IsNextId, JobsTypeOK, HandlerTypeOK,
      TableTypeOK
<1>18. CASE DropReply(h)
  <2> USE DEF DropReply, WorkerWaitsFor, Release, Serve, JobsTypeOK,
              HandlerTypeOK, WorkerTypeOK
  <2>1. SubmittedIsOver' /\ TapIsSafe' /\ NothingOlder' /\ RequeueIsSafe'
    BY <1>18
    DEF JobsInv, SubmittedIsOver, TapIsSafe, NothingOlder, NoOlderFailure,
        RequeueIsSafe
  <2>2. ClaimIsFresh' /\ MarkIsOurs'
    BY <1>18 DEF JobsInv, ClaimIsFresh, MarkIsOurs, Waiting
  <2>3. FailureNoticeIsSafe'
    BY <1>18 DEF JobsInv, FailureNoticeIsSafe, ToldFailed
  <2> QED BY <2>1, <2>2, <2>3 DEF JobsInv
<1> QED
  BY <1>1, <1>2, <1>3, <1>4, <1>6, <1>7, <1>8, <1>9, <1>10, <1>11, <1>12,
     <1>13, <1>14, <1>15, <1>16, <1>17, <1>18 DEF HandlerStep

\* What the worker does: it presses only after its own mark was confirmed, and
\* never holds a submitted job in front of the button.
LEMMA WorkerStepInv ==
    ASSUME JobsTypeOK, JobsInv, WorkerStep
    PROVE  JobsInv'
<1> USE DEF TableUnchanged, tableVars, NeverAgain
<1> DEFINE Harmless(h) ==
             /\ at'[h] \notin {"requeueJob", "emitFailed"}
             /\ exhausted'[h] = {}
             /\ \A g \in Handlers \ {h} :
                   at'[g] = at[g] /\ arg'[g] = arg[g] /\ exhausted'[g] = exhausted[g]
\* A request of the worker, or none, that puts a handler into a harmless step.
<1>1. ASSUME NEW h \in Handlers, TableUnchanged,
             UNCHANGED handlerVars \/ Harmless(h)
      PROVE  RequeueIsSafe' /\ FailureNoticeIsSafe'
  <2> USE <1>1 DEF handlerVars
  <2>1. RequeueIsSafe'
    BY DEF JobsInv, RequeueIsSafe
  <2>2. FailureNoticeIsSafe'
    BY DEF JobsInv, FailureNoticeIsSafe, ToldFailed
  <2> QED BY <2>1, <2>2
\* The worker ends up away from the button.
<1>2. ASSUME TableUnchanged,
             wAt' \notin {"claiming", "marking", "tapping"},
             wJob' \in Job => taps[wJob'] = 0
                \/ wAt' \in {"confirming", "completing", "failing"}
      PROVE  /\ SubmittedIsOver' /\ TapIsSafe' /\ NothingOlder'
             /\ ClaimIsFresh' /\ MarkIsOurs'
  BY <1>2
  DEF JobsInv, SubmittedIsOver, TapIsSafe, NothingOlder, ClaimIsFresh,
      MarkIsOurs, JobsTypeOK, TableTypeOK
<1>3. ASSUME NEW where \in Waiting, wAt = where
      PROVE  wCall \in Handlers
  BY <1>3 DEF JobsTypeOK, WorkerTypeOK
<1>4. wJob \notin Job => wJob = NoJob
  BY DEF JobsTypeOK, WorkerTypeOK
<1>5. NoJob \notin Job
  BY DEF NoJob, Job
<1>6. CASE ClaimAnswered
  <2>1. wCall \in Handlers
    BY <1>3, <1>6 DEF ClaimAnswered, Answered, Waiting
  <2>2. arg[wCall] \in Job => taps[arg[wCall]] = 0
    BY <1>5, <1>6 DEF ClaimAnswered, Answered, JobsInv, ClaimIsFresh
  <2>3. wAt' \in {"poll", "preflighting", "filling"}
    BY <1>6 DEF ClaimAnswered, PollAgain, Resume, Post, WorkerBecomes
  <2>4. wJob' \in {NoJob, arg[wCall]}
    BY <1>6 DEF ClaimAnswered, PollAgain, Resume, Post, WorkerBecomes
  <2>5. Harmless(wCall)
    BY <1>6, <2>1
    DEF ClaimAnswered, Release, Post, Serve, JobsTypeOK, HandlerTypeOK
  <2>6. TableUnchanged
    BY <1>6 DEF ClaimAnswered
  <2> QED
    BY <1>1, <1>2, <1>5, <2>1, <2>2, <2>3, <2>4, <2>5, <2>6 DEF JobsInv
<1>7. CASE PreflightAnswered \/ ReportAnswered
  <2>1. wCall \in Handlers
    BY <1>3, <1>7 DEF PreflightAnswered, ReportAnswered, Answered, Waiting
  <2>2. wAt' \in {"poll", "filling"} /\ wJob' \in {NoJob, wJob}
    BY <1>7
    DEF PreflightAnswered, ReportAnswered, PollAgain, Resume, WorkerBecomes
  <2>3. wJob' \in Job => taps[wJob'] = 0
    BY <1>5, <1>7
    DEF PreflightAnswered, ReportAnswered, Answered, PollAgain, Resume,
        WorkerBecomes, JobsInv, SubmittedIsOver, JobsTypeOK, TableTypeOK
  <2>4. TableUnchanged /\ Harmless(wCall)
    BY <1>7, <2>1
    DEF PreflightAnswered, ReportAnswered, Release, Serve, JobsTypeOK,
        HandlerTypeOK
  <2> QED BY <1>1, <1>2, <2>1, <2>2, <2>3, <2>4 DEF JobsInv
\* A request of the worker that reports on its job, or a poll.
<1>8. ASSUME NEW h \in Handlers, NEW m \in BOOLEAN,
             TableUnchanged,
             \/ PostFailure(h, m)
             \/ Post(h, "completeJob", FALSE, "completing", wJob)
      PROVE  JobsInv'
  <2>1. Harmless(h)
    BY <1>8
    DEF Post, PostFailure, Serve, JobsTypeOK, HandlerTypeOK
  <2>2. wAt' \in {"failing", "completing"}
    BY <1>8 DEF Post, PostFailure, WorkerBecomes
  <2> HIDE DEF Harmless
  <2> QED BY <1>1, <1>2, <1>8, <2>1, <2>2 DEF JobsInv
<1>9. CASE MarkAnswered
  <2>1. wCall \in Handlers /\ wJob \in Job
    BY <1>3, <1>4, <1>9
    DEF MarkAnswered, Answered, Waiting, JobsTypeOK, WorkerTypeOK
  <2>2. CASE PostFailure(wCall, ManualAfterMark)
    <3>1. ManualAfterMark \in BOOLEAN
      BY DEF ManualAfterMark
    <3> QED BY <1>8, <1>9, <2>1, <2>2, <3>1 DEF MarkAnswered
  <2>3. CASE answer[wCall] = "ok" /\ Release(wCall) /\ Resume("tapping", wJob)
    <3>1. NeverAgain(wJob) /\ taps[wJob] = 0
      BY <1>9, <2>1, <2>3
      DEF MarkAnswered, Answered, JobsInv, MarkIsOurs, SubmittedIsOver,
          JobsTypeOK, TableTypeOK
    <3>2. NothingOlder'
      BY <1>9, <2>1, <2>3
      DEF MarkAnswered, Answered, JobsInv, NothingOlder, NoOlderFailure, Release,
          Serve, Resume, WorkerBecomes, JobsTypeOK, HandlerTypeOK
    <3>3. SubmittedIsOver' /\ TapIsSafe' /\ ClaimIsFresh' /\ MarkIsOurs'
      BY <1>9, <2>3, <3>1
      DEF MarkAnswered, JobsInv, SubmittedIsOver, TapIsSafe, ClaimIsFresh,
          MarkIsOurs, Resume, WorkerBecomes
    <3>4. TableUnchanged /\ Harmless(wCall)
      BY <1>9, <2>1, <2>3
      DEF MarkAnswered, Release, Serve, JobsTypeOK, HandlerTypeOK
    <3> HIDE DEF Harmless
    <3> QED BY <1>1, <2>1, <3>2, <3>3, <3>4 DEF JobsInv
  <2> QED BY <1>9, <2>2, <2>3 DEF MarkAnswered
<1>10. CASE Tap
  <2> USE DEF Tap, Resume, WorkerBecomes, JobsTypeOK, TableTypeOK, handlerVars
  <2>1. wJob \in Job /\ taps[wJob] = 0 /\ NeverAgain(wJob)
    BY <1>10, <1>4 DEF JobsInv, SubmittedIsOver, TapIsSafe, WorkerTypeOK
  <2>2. SubmittedIsOver'
    BY <1>10, <2>1 DEF JobsInv, SubmittedIsOver
  <2>3. RequeueIsSafe'
    BY <1>10, <2>1
    DEF JobsInv, RequeueIsSafe, NothingOlder, NoOlderFailure, HandlerTypeOK
  <2>4. FailureNoticeIsSafe'
    BY <1>10, <2>1 DEF JobsInv, FailureNoticeIsSafe, ToldFailed
  <2>5. TapIsSafe' /\ NothingOlder' /\ ClaimIsFresh' /\ MarkIsOurs'
    BY <1>10 DEF TapIsSafe, NothingOlder, ClaimIsFresh, MarkIsOurs
  <2> QED BY <2>2, <2>3, <2>4, <2>5 DEF JobsInv
<1>11. CASE CallBreaks
  <2>1. wAt' = "poll" /\ wJob' = NoJob /\ wCall \in Handlers
    BY <1>3, <1>11 DEF CallBreaks, PollAgain, Resume, WorkerBecomes
  <2>2. TableUnchanged /\ UNCHANGED handlerVars
    BY <1>11 DEF CallBreaks
  <2> QED BY <1>1, <1>2, <1>5, <2>1, <2>2 DEF JobsInv
<1>12. ASSUME NEW h \in Handlers, Poll(h)
       PROVE  JobsInv'
  <2> USE DEF Poll, Post, Serve, WorkerBecomes, JobsTypeOK, HandlerTypeOK,
              TableTypeOK
  <2>1. RequeueIsSafe' /\ FailureNoticeIsSafe'
    <3>1. Harmless(h) /\ TableUnchanged
      BY <1>12
    <3> HIDE DEF Harmless
    <3> QED BY <1>1, <3>1
  <2>2. SubmittedIsOver' /\ TapIsSafe' /\ NothingOlder' /\ MarkIsOurs'
    BY <1>5, <1>12
    DEF JobsInv, SubmittedIsOver, TapIsSafe, NothingOlder, MarkIsOurs
  <2>3. ClaimIsFresh'
    BY <1>12 DEF ClaimIsFresh, ClaimStep
  <2> QED BY <2>1, <2>2, <2>3 DEF JobsInv
<1>13. ASSUME NEW h \in Handlers, FillDone(h)
       PROVE  JobsInv'
  <2>1. CASE Post(h, "completeJob", FALSE, "completing", wJob)
    BY <1>8, <1>13, <2>1 DEF FillDone
  <2>2. CASE Post(h, "markSubmitAttempted", FALSE, "marking", wJob)
    <3>1. TableUnchanged /\ Harmless(h)
      BY <1>13, <2>2 DEF FillDone, Post, Serve, JobsTypeOK, HandlerTypeOK
    <3> HIDE DEF Harmless
    <3>2. RequeueIsSafe' /\ FailureNoticeIsSafe'
      BY <1>1, <3>1
    <3> USE <1>13, <2>2
        DEF FillDone, Post, Serve, WorkerBecomes, JobsTypeOK, HandlerTypeOK,
            TableTypeOK
    <3>3. SubmittedIsOver' /\ TapIsSafe' /\ ClaimIsFresh'
      BY DEF JobsInv, SubmittedIsOver, TapIsSafe, ClaimIsFresh
    <3>4. NothingOlder'
      BY DEF NothingOlder, NoOlderFailure
    <3>5. MarkIsOurs'
      BY DEF MarkIsOurs
    <3> QED BY <3>2, <3>3, <3>4, <3>5 DEF JobsInv
  <2> QED BY <1>13, <2>1, <2>2 DEF FillDone
<1>14. ASSUME NEW h \in Handlers, NEW m \in BOOLEAN,
              Confirmed(h) \/ Unconfirmed(h) \/ MarkCallBreaks(h) \/ FillFails(h, m)
       PROVE  JobsInv'
  <2>1. TableUnchanged
    BY <1>14 DEF Confirmed, Unconfirmed, MarkCallBreaks, FillFails
  <2>2. CASE Confirmed(h)
    BY <1>8, <2>1, <2>2 DEF Confirmed
  <2>3. CASE Unconfirmed(h)
    BY <1>8, <2>1, <2>3 DEF Unconfirmed
  <2>4. CASE MarkCallBreaks(h)
    <3>1. ManualAfterMark \in BOOLEAN
      BY DEF ManualAfterMark
    <3> QED BY <1>8, <2>1, <2>4, <3>1 DEF MarkCallBreaks
  <2>5. CASE FillFails(h, m)
    BY <1>8, <2>1, <2>5 DEF FillFails
  <2> QED BY <1>14, <2>2, <2>3, <2>4, <2>5
<1> QED
  BY <1>6, <1>7, <1>9, <1>10, <1>11, <1>12, <1>13, <1>14 DEF WorkerStep

\* Jobs that arrive or are cancelled, failing statements and crashes.
LEMMA EnvironmentInv ==
    ASSUME JobsTypeOK, JobsInv, JobsEnvironment
    PROVE  JobsInv'
<1> USE DEF NoWorkerStep, OnlyStatus, NeverAgain, workerVars, tableVars,
            handlerVars
\* Nothing but the table changes, and there only rows that are not yet final.
<1>1. ASSUME UNCHANGED <<handlerVars, workerVars, taps, marked>>,
             NEW j \in Job, status[j] \in {"absent", "pending"},
             \A i \in Job \ {j} : status'[i] = status[i]
      PROVE  JobsInv'
  <2>1. \A i \in Job : NeverAgain(i) => i # j
    BY <1>1
  <2>2. SubmittedIsOver' /\ TapIsSafe' /\ NothingOlder' /\ RequeueIsSafe'
    BY <1>1, <2>1
    DEF JobsInv, SubmittedIsOver, TapIsSafe, NothingOlder, NoOlderFailure,
        RequeueIsSafe, JobsTypeOK, WorkerTypeOK, NoJob, Job
  <2>3. ClaimIsFresh' /\ MarkIsOurs'
    BY <1>1, <2>1
    DEF JobsInv, ClaimIsFresh, MarkIsOurs, JobsTypeOK, WorkerTypeOK, NoJob, Job
  <2>4. FailureNoticeIsSafe'
    BY <1>1 DEF JobsInv, FailureNoticeIsSafe, ToldFailed, Final
  <2> QED BY <2>2, <2>3, <2>4 DEF JobsInv
<1>2. ASSUME NEW j \in Job, CancelPendingJob(j)
      PROVE  JobsInv'
  BY <1>1, <1>2 DEF CancelPendingJob, JobsTypeOK, TableTypeOK
<1>3. ASSUME NEW j \in Job, NEW t \in JobType, NEW dry \in BOOLEAN,
             CreateJob(j, t, dry)
      PROVE  JobsInv'
  BY <1>1, <1>3
  DEF CreateJob, InsertJob, IsNextId, JobsTypeOK, TableTypeOK
<1>4. ASSUME NEW h \in Handlers, QueryFails(h)
      PROVE  JobsInv'
  <2>1. JobsTypeOK'
    BY <1>4, EnvironmentTypes DEF JobsEnvironment
  <2> QED
    BY <1>4, <2>1, HandlerFrame
    DEF QueryFails, Respond, RespondAfter, JobsTypeOK, HandlerTypeOK, TableTypeOK
<1>5. CASE ServerCrashes
  <2> USE <1>5 DEF ServerCrashes, JobsTypeOK, WorkerTypeOK
  <2>1. SubmittedIsOver' /\ TapIsSafe' /\ NothingOlder' /\ RequeueIsSafe'
    BY DEF JobsInv, SubmittedIsOver, TapIsSafe, NothingOlder, NoOlderFailure,
           RequeueIsSafe
  <2>2. ClaimIsFresh' /\ MarkIsOurs'
    BY DEF ClaimIsFresh, MarkIsOurs, Waiting
  <2>3. FailureNoticeIsSafe'
    BY DEF FailureNoticeIsSafe, ToldFailed
  <2> QED BY <2>1, <2>2, <2>3 DEF JobsInv
<1>6. CASE WorkerStops \/ WorkerStarts
  <2>1. /\ wAt' \in {"down", "poll"} /\ wJob' = NoJob
        /\ UNCHANGED <<handlerVars, tableVars, taps>>
    BY <1>6 DEF WorkerStops, WorkerStarts, PollAgain, Resume, WorkerBecomes,
                TableUnchanged
  <2>2. wJob' \notin Job
    BY <2>1 DEF NoJob, Job
  <2>3. SubmittedIsOver' /\ TapIsSafe' /\ NothingOlder' /\ RequeueIsSafe'
    BY <2>1, <2>2
    DEF JobsInv, SubmittedIsOver, TapIsSafe, NothingOlder, NoOlderFailure,
        RequeueIsSafe
  <2>4. ClaimIsFresh' /\ MarkIsOurs' /\ FailureNoticeIsSafe'
    BY <2>1
    DEF JobsInv, ClaimIsFresh, MarkIsOurs, FailureNoticeIsSafe, ToldFailed
  <2> QED BY <2>3, <2>4 DEF JobsInv
<1> QED
  BY <1>2, <1>3, <1>4, <1>5, <1>6 DEF JobsEnvironment

\* JobsInv holds in every state: the queue, the request handlers and the worker
\* agree on which jobs were submitted.
THEOREM InvCorrect == JobsSpec => []JobsInv
<1>1. JobsInit => JobsInv
  BY DEF JobsInit, JobsInv, SubmittedIsOver, TapIsSafe, NothingOlder,
         RequeueIsSafe, ClaimIsFresh, MarkIsOurs, FailureNoticeIsSafe, ToldFailed
<1>2. JobsTypeOK /\ JobsInv /\ UNCHANGED jobsVars => JobsInv'
  BY DEF jobsVars, tableVars, handlerVars, workerVars, JobsInv, SubmittedIsOver,
         TapIsSafe, NothingOlder, NoOlderFailure, RequeueIsSafe, ClaimIsFresh,
         MarkIsOurs, FailureNoticeIsSafe, ToldFailed, NeverAgain
<1>3. JobsTypeOK /\ JobsInv /\ [JobsNext]_jobsVars => JobsInv'
  BY <1>2, HandlerStepInv, WorkerStepInv, EnvironmentInv DEF JobsNext
<1> QED
  BY <1>1, <1>3, TypeCorrect, PTL DEF JobsSpec

\* The irreversible button is pressed at most once for a job, for any number of
\* jobs, attempts and concurrent requests.
THEOREM TapOnce == JobsSpec => []AtMostOneTap
<1>1. JobsTypeOK /\ JobsInv => AtMostOneTap
  BY DEF JobsInv, SubmittedIsOver, AtMostOneTap, JobsTypeOK, TableTypeOK
<1> QED
  BY <1>1, TypeCorrect, InvCorrect, PTL

\* A submitted job is not in the queue and the worker does not go back to it.
THEOREM NoRerun == JobsSpec => []SubmittedNeverRerun
<1>1. JobsInv => SubmittedNeverRerun
  BY DEF JobsInv, SubmittedIsOver, SubmittedNeverRerun, NeverAgain
<1> QED
  BY <1>1, InvCorrect, PTL

\* The meetup is told of a failure only if no event can come of the job.
THEOREM FailureNotice == JobsSpec => []FailureNoticeIsSafe
<1>1. JobsInv => FailureNoticeIsSafe
  BY DEF JobsInv
<1> QED
  BY <1>1, InvCorrect, PTL
-----------------------------------------------------------------------------
(* The queue implements SubmitContract.                                    *)

\* Steps that keep every outcome and press nothing are stutters of the contract.
LEMMA StutterRefines ==
    ASSUME \A j \in Job : OutcomeOf(j)' = OutcomeOf(j), UNCHANGED taps
    PROVE  UNCHANGED Contract!contractVars
  BY DEF Contract!contractVars

\* A step that finishes the claimed or pending jobs S with one outcome.
LEMMA FinishRefines ==
    ASSUME NEW S \in SUBSET Job, NEW o \in Final, UNCHANGED taps,
           \A j \in S : status[j] \in {"pending", "claimed"} /\ status'[j] = o,
           \A j \in Job \ S : OutcomeOf(j)' = OutcomeOf(j)
    PROVE  Contract!ContractNext
<1>1. \A j \in S : OutcomeOf(j) = "open" /\ OutcomeOf(j)' = o
  BY DEF OutcomeOf, Final
<1>2. Contract!Finish(S, o)
  BY <1>1 DEF Contract!Finish
<1> QED
  BY <1>2 DEF Contract!ContractNext, Contract!Final, Final

\* A step that inserts a row.
LEMMA OpenRefines ==
    ASSUME JobsTypeOK, NEW j \in Job, status[j] = "absent",
           status' = [status EXCEPT ![j] = "pending"], UNCHANGED taps
    PROVE  Contract!ContractNext
<1>1. OutcomeOf(j) = "none" /\ OutcomeOf(j)' = "open"
  BY DEF OutcomeOf, JobsTypeOK, TableTypeOK
<1>2. \A i \in Job : i # j => OutcomeOf(i)' = OutcomeOf(i)
  BY DEF OutcomeOf, JobsTypeOK, TableTypeOK
<1>3. Contract!Open(j)
  BY <1>1, <1>2 DEF Contract!Open
<1> QED
  BY <1>3 DEF Contract!ContractNext

\* The statement UPDATE ... WHERE id = j AND status = 'claimed', which finishes
\* the job or changes nothing.
LEMMA UpdateRefines ==
    ASSUME JobsTypeOK, NEW j \in Job, NEW o \in Final, UNCHANGED taps,
           \/ status[j] \in {"pending", "claimed"} /\ Become(j, o)
           \/ UNCHANGED status
    PROVE  Contract!ContractNext \/ UNCHANGED Contract!contractVars
<1>1. CASE UNCHANGED status
  BY <1>1, StutterRefines DEF OutcomeOf
<1>2. CASE status[j] \in {"pending", "claimed"} /\ Become(j, o)
  <2> DEFINE S == {j}
  <2>1. \A i \in Job \ S : OutcomeOf(i)' = OutcomeOf(i)
    BY <1>2 DEF Become, OutcomeOf, JobsTypeOK, TableTypeOK
  <2>2. \A i \in S : status[i] \in {"pending", "claimed"} /\ status'[i] = o
    BY <1>2 DEF Become, JobsTypeOK, TableTypeOK
  <2>3. S \in SUBSET Job
    OBVIOUS
  <2> HIDE DEF S
  <2> QED BY <2>1, <2>2, <2>3, FinishRefines
<1> QED BY <1>1, <1>2

\* Every step of a handler is a step of the contract or none.
LEMMA HandlerStepRefines ==
    ASSUME JobsTypeOK, JobsInv, NEW h \in Handlers, HandlerStep(h)
    PROVE  Contract!ContractNext \/ UNCHANGED Contract!contractVars
<1> USE DEF NoWorkerStep, OnlyStatus, tableVars
<1>1. ASSUME NEW stale \in SUBSET Job, RequeueStaleJobs(h, stale)
      PROVE  Contract!ContractNext \/ UNCHANGED Contract!contractVars
  <2> DEFINE S == {j \in stale : GivenUp(j)}
  <2>1. \A j \in S : /\ status[j] \in {"pending", "claimed"}
                     /\ status'[j] = "needs_manual_review"
    BY <1>1 DEF RequeueStaleJobs
  <2>2. \A j \in Job \ S : OutcomeOf(j)' = OutcomeOf(j)
    BY <1>1 DEF RequeueStaleJobs, OutcomeOf
  <2>3. S \in SUBSET Job /\ UNCHANGED taps
    BY <1>1 DEF RequeueStaleJobs
  <2> HIDE DEF S
  <2> QED BY <2>1, <2>2, <2>3, FinishRefines DEF Final
<1>2. CASE ClaimNextJob(h)
  <2>1. \A j \in Job : OutcomeOf(j)' = OutcomeOf(j)
    BY <1>2
    DEF ClaimNextJob, ClaimOldest, Become, OutcomeOf, JobsTypeOK, TableTypeOK
  <2> QED BY <1>2, <2>1, StutterRefines DEF ClaimNextJob
<1>3. ASSUME UNCHANGED <<status, taps>>
      PROVE  UNCHANGED Contract!contractVars
  BY <1>3, StutterRefines DEF OutcomeOf
<1>4. ASSUME at[h] \notin ClaimStep \cup {"idle", "reply"}
      PROVE  arg[h] \in Job
  BY <1>4 DEF JobsTypeOK, HandlerTypeOK
<1>5. CASE StopClaimedJob(h)
  <2>1. arg[h] \in Job
    BY <1>4, <1>5 DEF StopClaimedJob, ClaimStep
  <2> QED BY <1>5, <2>1, UpdateRefines DEF StopClaimedJob, Final
<1>6. CASE CompleteExistingEvent(h)
  <2>1. arg[h] \in Job
    BY <1>4, <1>6 DEF CompleteExistingEvent, ClaimStep
  <2> QED BY <1>6, <2>1, UpdateRefines DEF CompleteExistingEvent, Final
<1>7. CASE CompleteJob(h)
  <2>1. arg[h] \in Job
    BY <1>4, <1>7 DEF CompleteJob, ClaimStep
  <2> QED BY <1>7, <2>1, UpdateRefines DEF CompleteJob, Final
<1>8. CASE FailJob(h)
  <2>1. arg[h] \in Job /\ FailureStatus(manual[h]) \in Final
    BY <1>4, <1>8 DEF FailJob, ClaimStep, FailureStatus, Final
  <2> QED BY <1>8, <2>1, UpdateRefines DEF FailJob
<1>9. CASE RequeueJob(h)
  <2>1. arg[h] \in Job
    BY <1>4, <1>9 DEF RequeueJob, ClaimStep
  <2>2. \A j \in Job : OutcomeOf(j)' = OutcomeOf(j)
    BY <1>9, <2>1
    DEF RequeueJob, Become, OutcomeOf, JobsTypeOK, TableTypeOK
  <2> QED BY <1>9, <2>2, StutterRefines DEF RequeueJob
<1>10. ASSUME NEW j \in Job, CreateDeleteJob(h, j)
       PROVE  Contract!ContractNext
  BY <1>10, OpenRefines DEF CreateDeleteJob, Job, NoJob, InsertJob, IsNextId
<1>11. CASE \/ \E j \in Job : EmitExhausted(h, j)
            \/ \E c, e \in BOOLEAN : GetSubmitPreflight(h, c, e)
            \/ \E c \in BOOLEAN : MarkSubmitAttempted(h, c)
            \/ \E c \in BOOLEAN : RecheckPreflight(h, c)
            \/ GetJob(h) \/ EmitFailed(h) \/ CreateDeleteJob(h, NoJob)
            \/ \E c \in BOOLEAN : EmitSucceeded(h, c)
            \/ DropReply(h)
  BY <1>3, <1>11
  DEF EmitExhausted, GetSubmitPreflight, MarkSubmitAttempted, RecheckPreflight,
      GetJob, EmitFailed, CreateDeleteJob, EmitSucceeded, DropReply
<1> QED
  BY <1>1, <1>2, <1>5, <1>6, <1>7, <1>8, <1>9, <1>10, <1>11 DEF HandlerStep

\* The press itself, and the steps around it.
LEMMA WorkerStepRefines ==
    ASSUME JobsTypeOK, JobsInv, WorkerStep
    PROVE  Contract!ContractNext \/ UNCHANGED Contract!contractVars
<1>1. CASE Tap
  <2>1. wJob \in Job
    BY <1>1 DEF Tap, JobsTypeOK, WorkerTypeOK
  <2>2. taps[wJob] = 0 /\ status[wJob] # "absent"
    BY <1>1, <2>1
    DEF Tap, JobsInv, SubmittedIsOver, TapIsSafe, NeverAgain, JobsTypeOK,
        TableTypeOK
  <2>3. OutcomeOf(wJob) # "none"
    BY <2>1, <2>2 DEF OutcomeOf, JobsTypeOK, TableTypeOK, Status, Final
  <2>4. \A j \in Job : OutcomeOf(j)' = OutcomeOf(j)
    BY <1>1 DEF Tap, tableVars, OutcomeOf
  <2>5. taps' = [taps EXCEPT ![wJob] = 1]
    BY <1>1, <2>1, <2>2 DEF Tap, JobsTypeOK, TableTypeOK
  <2>6. Contract!Press(wJob)
    BY <2>1, <2>2, <2>3, <2>4, <2>5 DEF Contract!Press
  <2> QED BY <2>1, <2>6 DEF Contract!ContractNext
<1>2. CASE ~Tap
  <2>1. TableUnchanged
    BY <1>2
    DEF WorkerStep, ClaimAnswered, PreflightAnswered, MarkAnswered,
        ReportAnswered, CallBreaks, Poll, FillDone, Confirmed, Unconfirmed,
        MarkCallBreaks, FillFails
  <2> QED BY <2>1, StutterRefines DEF TableUnchanged, tableVars, OutcomeOf
<1> QED BY <1>1, <1>2

\* New jobs open, cancelled jobs finish; the rest is invisible.
LEMMA EnvironmentRefines ==
    ASSUME JobsTypeOK, JobsEnvironment
    PROVE  Contract!ContractNext \/ UNCHANGED Contract!contractVars
<1>1. ASSUME NEW j \in Job, CancelPendingJob(j)
      PROVE  Contract!ContractNext \/ UNCHANGED Contract!contractVars
  BY <1>1, UpdateRefines DEF CancelPendingJob, Become, Final
<1>2. ASSUME NEW j \in Job, NEW t \in JobType, NEW dry \in BOOLEAN,
             CreateJob(j, t, dry)
      PROVE  Contract!ContractNext
  BY <1>2, OpenRefines DEF CreateJob, InsertJob, IsNextId
<1>3. ASSUME UNCHANGED <<status, taps>>
      PROVE  UNCHANGED Contract!contractVars
  BY <1>3, StutterRefines DEF OutcomeOf
<1>4. CASE \/ \E h \in Handlers : QueryFails(h)
           \/ ServerCrashes \/ WorkerStops \/ WorkerStarts
  BY <1>3, <1>4
  DEF QueryFails, ServerCrashes, WorkerStops, WorkerStarts, NoWorkerStep,
      TableUnchanged, tableVars
<1> QED
  BY <1>1, <1>2, <1>4 DEF JobsEnvironment

\* The queue keeps the promise of SubmitContract: one press for each job, and
\* an outcome that is never revised, with retries and recovery in between.
THEOREM QueueKeepsContract == JobsSpec => ContractKept
<1>1. JobsInit => Contract!ContractInit
  BY DEF JobsInit, Contract!ContractInit, OutcomeOf
<1>2. /\ JobsTypeOK /\ JobsInv /\ [JobsNext]_jobsVars
      => [Contract!ContractNext]_(Contract!contractVars)
  <2>1. UNCHANGED jobsVars => UNCHANGED Contract!contractVars
    BY StutterRefines DEF jobsVars, tableVars, OutcomeOf
  <2> QED
    BY <2>1, HandlerStepRefines, WorkerStepRefines, EnvironmentRefines
    DEF JobsNext
<1> QED
  BY <1>1, <1>2, TypeCorrect, InvCorrect, PTL
  DEF JobsSpec, ContractKept, Contract!ContractSpec
=============================================================================
