---------------------- MODULE SomoimRegistrationProofs ----------------------
(***************************************************************************)
(* The meetups, the host requests and the queue composed: the composition  *)
(* implements the queue, so that all that SomoimJobsProofs proves holds of *)
(* it, and a meetup is retried safely and submitted once.  For any number  *)
(* of meetups, requests, handlers, jobs and faults.                        *)
(***************************************************************************)
EXTENDS SomoimRegistration, SomoimJobsProofs

USE JobsAssumption, RegistrationAssumption

LEMMA RegistrationInitInv == RegistrationInit => RegistrationInv
<1> SUFFICES ASSUME RegistrationInit PROVE RegistrationInv
  OBVIOUS
<1> USE DEF RegistrationInit
<1>1. /\ \A m \in Meetups : rowStatus[m] = "none" /\ somoim[m] = "none" /\ link[m] = NoJob
      /\ \A r \in Requests : rAt[r] = "idle" /\ rMeetup[r] = NoMeetup
  OBVIOUS
<1>2. \A j \in Job : status[j] = "absent"
  BY DEF JobsInit
<1>3. RegistrationTypeOK
  BY <1>1, <1>2 DEF RegistrationTypeOK, SomoimState, RequestStep, NoJob
<1>4. RowsAreNew /\ CreatedFirst
  BY <1>1 DEF RowsAreNew, CreatedFirst, Creating
<1>5. JobIsOwn /\ LinkIsOwn /\ OldIsUntouched /\ RetryIsSafe
  BY <1>1 DEF JobIsOwn, LinkIsOwn, OldIsUntouched, RetryIsSafe
<1> QED BY <1>3, <1>4, <1>5 DEF RegistrationInv
-----------------------------------------------------------------------------
(* The composition implements the queue.                                   *)

\* Every statement and emit of a queue handler is one the queue allows,
\* whatever it finds in the other tables.
LEMMA HandlerActsRefine ==
    ASSUME NEW h \in Handlers, HandlerActs(h)
    PROVE  HandlerStep(h)
<1>1. CASE QueueStatement(h)
  BY <1>1 DEF QueueStatement, HandlerStep
<1>2. CASE CheckMeetup(h)
  <2>1. Cancelled(arg[h]) \in BOOLEAN /\ ExistingEvent(arg[h]) \in BOOLEAN
    BY DEF Cancelled, ExistingEvent
  <2>2. CASE GetSubmitPreflight(h, Cancelled(arg[h]), ExistingEvent(arg[h]))
    <3>1. \E cancelled, existing \in BOOLEAN : GetSubmitPreflight(h, cancelled, existing)
      <4> USE <2>1
      <4>1. WITNESS Cancelled(arg[h]) \in BOOLEAN, ExistingEvent(arg[h]) \in BOOLEAN
      <4> QED BY <2>2
    <3> QED BY <3>1 DEF HandlerStep
  <2>3. CASE MarkSubmitAttempted(h, Cancelled(arg[h]))
    <3>1. \E cancelled \in BOOLEAN : MarkSubmitAttempted(h, cancelled)
      <4> USE <2>1
      <4>1. WITNESS Cancelled(arg[h]) \in BOOLEAN
      <4> QED BY <2>3
    <3> QED BY <3>1 DEF HandlerStep
  <2>4. CASE RecheckPreflight(h, Cancelled(arg[h]))
    <3>1. \E cancelled \in BOOLEAN : RecheckPreflight(h, cancelled)
      <4> USE <2>1
      <4>1. WITNESS Cancelled(arg[h]) \in BOOLEAN
      <4> QED BY <2>4
    <3> QED BY <3>1 DEF HandlerStep
  <2> QED BY <1>2, <2>2, <2>3, <2>4 DEF CheckMeetup
<1>3. CASE NotifyFailed(h)
  BY <1>3 DEF NotifyFailed, HandlerStep
<1>4. CASE \E j \in Job : NotifyExhausted(h, j)
  BY <1>4 DEF NotifyExhausted, HandlerStep
<1>5. CASE NotifySucceeded(h)
  <2>1. MustCompensate(arg[h]) \in BOOLEAN
    BY DEF MustCompensate
  <2>2. CASE EmitSucceeded(h, MustCompensate(arg[h]))
    <3>1. \E compensate \in BOOLEAN : EmitSucceeded(h, compensate)
      <4> USE <2>1
      <4>1. WITNESS MustCompensate(arg[h]) \in BOOLEAN
      <4> QED BY <2>2
    <3> QED BY <3>1 DEF HandlerStep
  <2>3. CASE EmitSucceeded(h, FALSE)
    <3>1. \E compensate \in BOOLEAN : EmitSucceeded(h, compensate)
      <4>1. WITNESS FALSE \in BOOLEAN
      <4> QED BY <2>3
    <3> QED BY <3>1 DEF HandlerStep
  <2> QED BY <1>5, <2>2, <2>3 DEF NotifySucceeded
<1>6. CASE Compensate(h)
  <2>1. \E j \in Job \cup {NoJob} : CreateDeleteJob(h, j)
    BY <1>6 DEF Compensate
  <2> QED BY <2>1 DEF HandlerStep
<1> QED BY <1>1, <1>2, <1>3, <1>4, <1>5, <1>6 DEF HandlerActs

LEMMA WorkerActsRefine == WorkerActs => WorkerStep
  BY DEF WorkerActs, WorkerTaps, EventExpected, WorkerStep

\* Host requests create jobs and stop jobs that nobody has claimed.
LEMMA RequestRefines ==
    ASSUME RegistrationTypeOK, NEW r \in Requests, RequestStepOf(r)
    PROVE  JobsNext \/ UNCHANGED jobsVars
<1> USE DEF JobsNext, JobsEnvironment, NoJobChange, OnlyRequest
<1>1. ASSUME NEW j \in Job, NEW t \in JobType, NEW m, InsertFor(j, t, m)
      PROVE  JobsNext
  BY <1>1 DEF InsertFor
<1>2. ASSUME NEW j \in Job, EmitForJob(r, j) PROVE JobsNext
  BY <1>1, <1>2 DEF EmitForJob, JobType
<1>3. CASE \/ JobRejected(r) \/ SetPending(r) \/ SetFailed(r) \/ SetRetried(r)
           \/ CloseRow(r) \/ CheckAttempt(r)
  BY <1>3 DEF JobRejected, SetPending, SetFailed, SetRetried, CloseRow, CheckAttempt
<1>4. CASE EmitCancelled(r)
  <2>1. rJob[r] # NoJob => rJob[r] \in Job
    BY DEF RegistrationTypeOK
  <2> QED BY <1>4, <2>1 DEF EmitCancelled
<1>5. CASE DeleteJob(r)
  BY <1>1, <1>5 DEF DeleteJob, JobType
<1> QED BY <1>2, <1>3, <1>4, <1>5 DEF RequestStepOf

LEMMA StepRefines ==
    ASSUME RegistrationTypeOK, [RegistrationNext]_registrationVars
    PROVE  [JobsNext]_jobsVars
<1>1. ASSUME NEW r \in Requests, RequestStepOf(r) PROVE [JobsNext]_jobsVars
  BY <1>1, RequestRefines
<1>2. ASSUME NEW r \in Requests, RequestFails(r) PROVE UNCHANGED jobsVars
  BY <1>2 DEF RequestFails, NoJobChange
<1>3. ASSUME NEW r \in Requests, NEW m \in Meetups, HostActs(r, m)
      PROVE  UNCHANGED jobsVars
  BY <1>3 DEF HostActs, CreateMeetup, RetryRegistration, CancelMeetup, Read, NoJobChange
<1>4. ASSUME NEW h \in Handlers, HandlerActs(h) PROVE JobsNext
  BY <1>4, HandlerActsRefine DEF JobsNext
<1>5. ASSUME NEW h \in Handlers, HandlerFails(h) PROVE JobsNext
  BY <1>5 DEF HandlerFails, JobsNext, JobsEnvironment
<1>6. CASE WorkerActs
  BY <1>6, WorkerActsRefine DEF JobsNext
<1>7. CASE WorkerStops \/ WorkerStarts
  BY <1>7 DEF JobsNext, JobsEnvironment
<1>8. CASE Crash
  BY <1>8 DEF Crash, JobsNext, JobsEnvironment
<1>9. CASE SyncEvents \/ \E k \in Keys : HandEdit(k)
  BY <1>9 DEF SyncEvents, HandEdit
<1>10. CASE UNCHANGED registrationVars
  BY <1>10 DEF registrationVars
<1> QED BY <1>1, <1>2, <1>3, <1>4, <1>5, <1>6, <1>7, <1>8, <1>9, <1>10
     DEF RegistrationNext

\* What a step of the queue leaves of its rows: none disappears, and a job that
\* came to nothing stays so.
LEMMA QueueFacts ==
    ASSUME JobsTypeOK, JobsInv, [JobsNext]_jobsVars
    PROVE  /\ JobsTypeOK' /\ JobsInv'
           /\ \A j \in Job : status[j] # "absent" => status'[j] # "absent"
           /\ \A j \in Job : Untouched(j) => Untouched(j)'
<1>1. JobsTypeOK'
  BY HandlerStepTypes, WorkerStepTypes, EnvironmentTypes, UnchangedTypes
  DEF JobsNext, jobsVars, JobsTypeOK
<1>2. JobsInv'
  <2>1. UNCHANGED jobsVars => JobsInv'
    BY DEF jobsVars, tableVars, handlerVars, workerVars, JobsInv, SubmittedIsOver,
       TapIsSafe, NothingOlder, NoOlderFailure, RequeueIsSafe, ClaimIsFresh,
       MarkIsOurs, FailureNoticeIsSafe, ToldFailed, NeverAgain
  <2> QED BY <2>1, HandlerStepInv, WorkerStepInv, EnvironmentInv DEF JobsNext
<1>3. Contract!ContractNext \/ UNCHANGED Contract!contractVars
  <2>1. UNCHANGED jobsVars => UNCHANGED Contract!contractVars
    BY StutterRefines DEF jobsVars, tableVars, OutcomeOf
  <2> QED BY <2>1, HandlerStepRefines, WorkerStepRefines, EnvironmentRefines DEF JobsNext
<1>4. \A j \in Job : /\ OutcomeOf(j) # "none" => OutcomeOf(j)' # "none"
                     /\ OutcomeOf(j) \in Final => OutcomeOf(j)' = OutcomeOf(j)
  <2>1. CASE UNCHANGED Contract!contractVars
    BY <2>1 DEF Contract!contractVars
  <2>2. CASE \E i \in Job : Contract!Open(i)
    BY <2>2 DEF Contract!Open, Final
  <2>3. CASE \E i \in Job : Contract!Press(i)
    BY <2>3 DEF Contract!Press
  <2>4. CASE \E S \in SUBSET Job, o \in Contract!Final : Contract!Finish(S, o)
    BY <2>4 DEF Contract!Finish, Contract!Final, Final
  <2> QED BY <1>3, <2>1, <2>2, <2>3, <2>4 DEF Contract!ContractNext
<1>5. \A j \in Job : /\ status[j] = "absent" <=> OutcomeOf(j) = "none"
                     /\ status[j] \in Final => OutcomeOf(j) = status[j]
                     /\ OutcomeOf(j) \in Final => status[j] = OutcomeOf(j)
  BY DEF OutcomeOf, JobsTypeOK, TableTypeOK, Status, Final
<1>6. \A j \in Job : /\ status'[j] = "absent" <=> OutcomeOf(j)' = "none"
                     /\ OutcomeOf(j)' \in Final => status'[j] = OutcomeOf(j)'
  BY <1>1 DEF OutcomeOf, JobsTypeOK, TableTypeOK, Status, Final
<1>7. ASSUME NEW j \in Job, Untouched(j)
      PROVE  ~marked'[j] /\ taps'[j] = 0
  <2>1. status[j] \in Final /\ ~marked[j] /\ taps[j] = 0
    BY <1>7 DEF Untouched
  <2>2. UNCHANGED marked \/ \E h \in Handlers, c \in BOOLEAN : MarkSubmitAttempted(h, c)
    BY DEF JobsNext, HandlerStep, WorkerStep, JobsEnvironment, RequeueStaleJobs,
       ClaimNextJob, EmitExhausted, GetSubmitPreflight, StopClaimedJob,
       CompleteExistingEvent, RecheckPreflight, CompleteJob, GetJob, RequeueJob,
       FailJob, EmitFailed, EmitSucceeded, CreateDeleteJob, InsertJob, DropReply,
       ClaimAnswered, PreflightAnswered, MarkAnswered, ReportAnswered, Tap,
       CallBreaks, Poll, FillDone, Confirmed, Unconfirmed, MarkCallBreaks, FillFails,
       CancelPendingJob, CreateJob, QueryFails, ServerCrashes, WorkerStops,
       WorkerStarts, OnlyStatus, TableUnchanged, tableVars, jobsVars
  <2>3. ASSUME NEW h \in Handlers, NEW c \in BOOLEAN, MarkSubmitAttempted(h, c)
        PROVE  ~marked'[j]
    BY <2>1, <2>3 DEF MarkSubmitAttempted, MayMark, Final, JobsTypeOK, TableTypeOK
  <2>4. ~marked'[j]
    BY <2>1, <2>2, <2>3
  <2>5. UNCHANGED taps \/ Tap
    BY DEF JobsNext, HandlerStep, WorkerStep, JobsEnvironment, RequeueStaleJobs,
       ClaimNextJob, EmitExhausted, GetSubmitPreflight, StopClaimedJob,
       CompleteExistingEvent, MarkSubmitAttempted, RecheckPreflight, CompleteJob,
       GetJob, RequeueJob, FailJob, EmitFailed, EmitSucceeded, CreateDeleteJob,
       DropReply, ClaimAnswered, PreflightAnswered, MarkAnswered, ReportAnswered,
       CallBreaks, Poll, FillDone, Confirmed, Unconfirmed, MarkCallBreaks, FillFails,
       CancelPendingJob, CreateJob, QueryFails, ServerCrashes, WorkerStops,
       WorkerStarts, NoWorkerStep, TableUnchanged, jobsVars
  <2>6. Tap => wJob # j
    BY <2>1 DEF Tap, JobsInv, TapIsSafe, NeverAgain
  <2>7. taps'[j] = 0
    BY <2>1, <2>5, <2>6 DEF Tap, JobsTypeOK, TableTypeOK
  <2> QED BY <2>4, <2>7
<1>8. \A j \in Job : status[j] # "absent" => status'[j] # "absent"
  BY <1>4, <1>5, <1>6
<1>9. \A j \in Job : Untouched(j) => Untouched(j)'
  <2> SUFFICES ASSUME NEW j \in Job, Untouched(j) PROVE Untouched(j)'
    OBVIOUS
  <2>1. status[j] \in Final
    BY DEF Untouched
  <2>2. status'[j] \in Final
    BY <1>4, <1>5, <1>6, <2>1
  <2> QED BY <1>7, <2>2 DEF Untouched
<1> QED BY <1>1, <1>2, <1>8, <1>9
-----------------------------------------------------------------------------
(* What every step keeps of the links.                                     *)

\* No row of the table disappears, and each keeps its meetup.
TableGrows ==
    \A j \in Job : status[j] # "absent" =>
        status'[j] # "absent" /\ payload'[j] = payload[j]
UntouchedStays == \A j \in Job : Untouched(j) => Untouched(j)'
NoNewRows == \A j \in Job : status[j] = "absent" => status'[j] = "absent"

\* Steps that link no job: a meetup fails only if it may be retried.
LEMMA LinksFrame ==
    ASSUME RegistrationInv, TableGrows, UntouchedStays, UNCHANGED <<link, linked>>,
           \A m \in Meetups : somoim'[m] = "failed" =>
              somoim[m] = "failed" \/ link[m] = NoJob \/ Untouched(link[m])'
    PROVE  LinkIsOwn' /\ OldIsUntouched' /\ RetryIsSafe'
<1> USE DEF RegistrationInv
<1>1. linked \subseteq Job /\ \A m \in Meetups : link[m] \in Job \cup {NoJob}
  BY DEF RegistrationTypeOK
<1>2. LinkIsOwn'
  BY <1>1 DEF LinkIsOwn, TableGrows
<1>3. OldIsUntouched'
  BY <1>1 DEF LinkIsOwn, OldIsUntouched, TableGrows, UntouchedStays
<1>4. RetryIsSafe'
  <2> SUFFICES ASSUME NEW m \in Meetups, somoim'[m] = "failed", link'[m] # NoJob
               PROVE  Untouched(link[m])'
    BY DEF RetryIsSafe, Untouched
  <2>1. CASE somoim[m] = "failed"
    <3>1. link[m] \in Job /\ Untouched(link[m])
      BY <1>1, <2>1 DEF RetryIsSafe, Untouched
    <3> QED BY <3>1 DEF UntouchedStays
  <2> QED BY <2>1
<1> QED BY <1>2, <1>3, <1>4

\* Steps that bring no request closer to a link.
LEMMA RequestsFrame ==
    ASSUME RegistrationInv, TableGrows, UNCHANGED link,
           \A m \in Meetups : /\ rowStatus'[m] = "none" => rowStatus[m] = "none"
                              /\ somoim'[m] # somoim[m] => somoim[m] = "pending",
           \A r \in Requests :
              \/ rAt'[r] = rAt[r] /\ rMeetup'[r] = rMeetup[r] /\ rJob'[r] = rJob[r]
              \/ /\ rAt'[r] \notin Creating \cup {"setRetried"}
                 /\ \A m \in Meetups : rMeetup'[r] = m =>
                       rMeetup[r] = m \/ rowStatus[m] # "none"
    PROVE  RowsAreNew' /\ CreatedFirst' /\ JobIsOwn'
<1> USE DEF RegistrationInv
<1>1. RowsAreNew'
  BY DEF RowsAreNew
<1>2. CreatedFirst'
  <2> SUFFICES ASSUME NEW r \in Requests, rAt'[r] \in Creating
               PROVE  /\ somoim'[rMeetup'[r]] = "none" /\ link'[rMeetup'[r]] = NoJob
                      /\ \A q \in Requests \ {r} :
                            rMeetup'[q] = rMeetup'[r] => rAt'[q] \notin Creating
    BY DEF CreatedFirst
  <2>1. rAt'[r] = rAt[r] /\ rMeetup'[r] = rMeetup[r]
    OBVIOUS
  <2>2. rMeetup[r] \in Meetups
    BY <2>1 DEF RegistrationTypeOK, Creating
  <2>3. somoim[rMeetup[r]] = "none" /\ link[rMeetup[r]] = NoJob
    BY <2>1 DEF CreatedFirst
  <2>4. ASSUME NEW q \in Requests \ {r}, rMeetup'[q] = rMeetup'[r], rAt'[q] \in Creating
        PROVE  FALSE
    <3>1. rAt[q] \in Creating /\ rMeetup[q] = rMeetup[r]
      BY <2>1, <2>4
    <3> QED BY <2>1, <3>1 DEF CreatedFirst
  <2> QED BY <2>1, <2>2, <2>3, <2>4
<1>3. JobIsOwn'
  <2> SUFFICES ASSUME NEW r \in Requests, rAt'[r] \in {"setPending", "setRetried"}
               PROVE  /\ rJob'[r] \in Job /\ status'[rJob'[r]] # "absent"
                      /\ payload'[rJob'[r]] = rMeetup'[r]
    BY DEF JobIsOwn
  <2>1. rAt'[r] = rAt[r] /\ rMeetup'[r] = rMeetup[r] /\ rJob'[r] = rJob[r]
    BY DEF Creating
  <2> QED BY <2>1 DEF JobIsOwn, TableGrows
<1> QED BY <1>1, <1>2, <1>3

\* Steps of the queue alone, and of the app.
LEMMA QuietFrame ==
    ASSUME RegistrationInv, RegistrationTypeOK', TableGrows, UntouchedStays,
           UNCHANGED <<meetupVars, requestVars>>
    PROVE  RegistrationInv'
<1> USE DEF RegistrationInv, meetupVars, requestVars
<1>1. LinkIsOwn' /\ OldIsUntouched' /\ RetryIsSafe'
  BY LinksFrame
<1>2. RowsAreNew' /\ CreatedFirst' /\ JobIsOwn'
  BY RequestsFrame
<1> QED BY <1>1, <1>2

\* A new row, for the event of a meetup.
LEMMA InsertFacts ==
    ASSUME RegistrationTypeOK, JobsTypeOK, NEW j \in Job, NEW m \in Meetups,
           status[j] = "absent", status' = [status EXCEPT ![j] = "pending"],
           payload' = [payload EXCEPT ![j] = m]
    PROVE  /\ TableGrows
           /\ payload' \in [Job -> Meetups \cup {NoMeetup}]
           /\ status'[j] # "absent" /\ payload'[j] = m
           /\ \A i \in Job : status'[i] # "absent" => payload'[i] \in Meetups
BY DEF RegistrationTypeOK, JobsTypeOK, TableTypeOK, TableGrows
-----------------------------------------------------------------------------
(* The host requests.                                                      *)

LEMMA CreateMeetupKeepsInv ==
    ASSUME RegistrationInv, NEW r \in Requests, NEW m \in Meetups, CreateMeetup(r, m)
    PROVE  RegistrationInv'
<1> USE DEF RegistrationInv, CreateMeetup, NoJobChange, NoAppChange, jobsVars, tableVars
<1>1. RegistrationTypeOK'
  BY DEF RegistrationTypeOK, RequestStep, appVars
<1>2. /\ somoim[m] = "none" /\ link[m] = NoJob /\ \A q \in Requests : rMeetup[q] # m
      /\ rowStatus[m] = "none"
  BY DEF RowsAreNew
<1>3. /\ rAt' = [rAt EXCEPT ![r] = "emitCreated"]
      /\ rMeetup' = [rMeetup EXCEPT ![r] = m]
      /\ rowStatus' = [rowStatus EXCEPT ![m] = "open"]
      /\ UNCHANGED <<somoim, link, linked, rJob, status, marked, taps, payload>>
  OBVIOUS
<1>4. RowsAreNew'
  BY <1>2, <1>3 DEF RowsAreNew, RegistrationTypeOK
<1>5. CreatedFirst'
  BY <1>2, <1>3 DEF CreatedFirst, RegistrationTypeOK
<1>6. JobIsOwn'
  BY <1>3 DEF JobIsOwn, RegistrationTypeOK
<1>7. LinkIsOwn' /\ OldIsUntouched' /\ RetryIsSafe'
  BY <1>3 DEF LinkIsOwn, OldIsUntouched, RetryIsSafe, Untouched
<1> QED BY <1>1, <1>4, <1>5, <1>6, <1>7

\* Reads, and requests that end or go on without a job.
LEMMA ReadKeepsInv ==
    ASSUME RegistrationInv, NEW r \in Requests,
           \/ \E m \in Meetups : RetryRegistration(r, m) \/ CancelMeetup(r, m)
           \/ CloseRow(r) \/ CheckAttempt(r) \/ RequestFails(r)
           \/ JobRejected(r) /\ rAt[r] = "emitRetry"
    PROVE  RegistrationInv'
<1> USE DEF RegistrationInv, NoJobChange, NoAppChange, OnlyRequest, jobsVars, tableVars,
            meetupVars, appVars
<1>1. /\ UNCHANGED <<status, marked, taps, payload, somoim, link, linked, app, crawled>>
      /\ rowStatus' \in [Meetups -> {"none", "open", "closed"}]
      /\ \A m \in Meetups : rowStatus'[m] = "none" => rowStatus[m] = "none"
      /\ faults' \in 0..MaxFaults
  BY DEF RetryRegistration, CancelMeetup, Read, CloseRow, CheckAttempt, RequestFails,
         JobRejected, Fault, RegistrationTypeOK
<1>2. /\ rAt' \in [Requests -> RequestStep]
      /\ rMeetup' \in [Requests -> Meetups \cup {NoMeetup}]
      /\ rState' \in [Requests -> SomoimState]
      /\ rJob' \in [Requests -> Job \cup {NoJob}]
      /\ \A q \in Requests : rAt'[q] # "idle" => rMeetup'[q] \in Meetups
      /\ \A q \in Requests \ {r} :
            rAt'[q] = rAt[q] /\ rMeetup'[q] = rMeetup[q] /\ rJob'[q] = rJob[q]
      /\ rAt'[r] \notin Creating \cup {"setRetried"}
      /\ \A m \in Meetups : rMeetup'[r] = m => rMeetup[r] = m \/ rowStatus[m] # "none"
  BY DEF RetryRegistration, CancelMeetup, Read, CloseRow, CheckAttempt, RequestFails,
         JobRejected, Continue, EndRequest, RegistrationTypeOK, RequestStep,
         SomoimState, Creating
<1>3. RegistrationTypeOK'
  BY <1>1, <1>2 DEF RegistrationTypeOK
<1>4. TableGrows /\ UntouchedStays
  BY <1>1 DEF TableGrows, UntouchedStays, Untouched
<1>5. LinkIsOwn' /\ OldIsUntouched' /\ RetryIsSafe'
  BY <1>1, <1>4, LinksFrame
<1>6. RowsAreNew' /\ CreatedFirst' /\ JobIsOwn'
  BY <1>1, <1>2, <1>4, RequestsFrame
<1> QED BY <1>3, <1>5, <1>6

\* A request that has the job for its meetup has only to link it.
LEMMA EmitForJobKeepsInv ==
    ASSUME RegistrationInv, JobsTypeOK, UntouchedStays,
           NEW r \in Requests, NEW j \in Job, EmitForJob(r, j)
    PROVE  RegistrationInv'
<1> USE DEF RegistrationInv, NoAppChange, meetupVars, appVars, EmitForJob, ContinueWith
<1>1. rMeetup[r] \in Meetups
  BY DEF RegistrationTypeOK
<1>2. /\ status[j] = "absent" /\ status' = [status EXCEPT ![j] = "pending"]
      /\ payload' = [payload EXCEPT ![j] = rMeetup[r]]
  BY DEF InsertFor, CreateJob, InsertJob, IsNextId
<1>3. /\ TableGrows /\ payload' \in [Job -> Meetups \cup {NoMeetup}]
      /\ status'[j] # "absent" /\ payload'[j] = rMeetup[r]
      /\ \A i \in Job : status'[i] # "absent" => payload'[i] \in Meetups
  BY <1>1, <1>2, InsertFacts
<1>4. /\ rAt' = [rAt EXCEPT ![r] = rAt'[r]]
      /\ rAt'[r] \in {"setPending", "setRetried"}
      /\ rAt'[r] = "setPending" => rAt[r] = "emitCreated"
      /\ rJob' = [rJob EXCEPT ![r] = j]
      /\ UNCHANGED <<rMeetup, rState, rowStatus, somoim, link, linked, app, crawled, faults>>
  BY DEF RegistrationTypeOK
<1>5. RegistrationTypeOK'
  BY <1>1, <1>3, <1>4 DEF RegistrationTypeOK, RequestStep
<1>6. LinkIsOwn' /\ OldIsUntouched' /\ RetryIsSafe'
  BY <1>3, <1>4, LinksFrame
<1>7. RowsAreNew'
  BY <1>4 DEF RowsAreNew
<1>8. CreatedFirst'
  <2>1. \A q \in Requests : rAt'[q] \in Creating => rAt[q] \in Creating
    BY <1>4 DEF Creating, RegistrationTypeOK
  <2> QED BY <1>4, <2>1 DEF CreatedFirst
<1>9. JobIsOwn'
  BY <1>3, <1>4 DEF JobIsOwn, TableGrows, RegistrationTypeOK
<1> QED BY <1>5, <1>6, <1>7, <1>8, <1>9

\* The input is rejected: a new meetup is to become failed, with no job.
LEMMA RejectedKeepsInv ==
    ASSUME RegistrationInv, NEW r \in Requests,
           JobRejected(r), rAt[r] = "emitCreated"
    PROVE  RegistrationInv'
<1> USE DEF RegistrationInv, NoJobChange, NoAppChange, OnlyRequest, jobsVars, tableVars,
            meetupVars, appVars, JobRejected, Continue
<1>1. RegistrationTypeOK'
  BY DEF RegistrationTypeOK, RequestStep
<1>2. /\ rAt' = [rAt EXCEPT ![r] = "setFailed"]
      /\ UNCHANGED <<rMeetup, rJob, rowStatus, somoim, link, linked, status, marked,
                     taps, payload>>
  OBVIOUS
<1>3. RowsAreNew' /\ JobIsOwn'
  BY <1>2 DEF RowsAreNew, JobIsOwn, RegistrationTypeOK
<1>4. CreatedFirst'
  <2>1. \A q \in Requests : rAt'[q] \in Creating => rAt[q] \in Creating
    BY <1>2 DEF Creating, RegistrationTypeOK
  <2> QED BY <1>2, <2>1 DEF CreatedFirst
<1>5. LinkIsOwn' /\ OldIsUntouched' /\ RetryIsSafe'
  BY <1>2 DEF LinkIsOwn, OldIsUntouched, RetryIsSafe, Untouched
<1> QED BY <1>1, <1>3, <1>4, <1>5

\* A job is linked where no other was, or where the last came to nothing.
LEMMA LinkKeepsInv ==
    ASSUME RegistrationInv, NEW r \in Requests,
           rAt[r] \in {"setPending", "setRetried"},
           rAt[r] = "setRetried" => somoim[rMeetup[r]] = "failed",
           LinkRow(rMeetup[r], rJob[r]), EndRequest(r),
           UNCHANGED <<status, marked, taps, payload, rowStatus, app, crawled, faults>>
    PROVE  RegistrationInv'
<1> USE DEF RegistrationInv
<1> DEFINE m == rMeetup[r]
           j == rJob[r]
<1>1. /\ m \in Meetups /\ j \in Job /\ status[j] # "absent" /\ payload[j] = m
      /\ j # NoJob /\ linked \subseteq Job
  BY DEF RegistrationTypeOK, JobIsOwn, Job, NoJob
<1>2. link[m] # NoJob => link[m] \in Job /\ Untouched(link[m])
  BY <1>1 DEF CreatedFirst, Creating, RetryIsSafe, Untouched, RegistrationTypeOK
<1>3. rowStatus[m] # "none"
  BY <1>1 DEF RowsAreNew
<1>4. /\ somoim' = [somoim EXCEPT ![m] = "pending"]
      /\ link' = [link EXCEPT ![m] = j] /\ linked' = linked \cup {j}
      /\ rAt' = [rAt EXCEPT ![r] = "idle"] /\ rMeetup' = [rMeetup EXCEPT ![r] = NoMeetup]
      /\ rState' = [rState EXCEPT ![r] = "none"] /\ rJob' = [rJob EXCEPT ![r] = NoJob]
  BY DEF LinkRow, EndRequest
<1>5. \A q \in Requests \ {r} : rAt[q] \in Creating => rMeetup[q] # m
  BY <1>1 DEF CreatedFirst, Creating
<1>6. NoMeetup \notin Meetups
  OBVIOUS
<1> HIDE DEF m, j
<1>7. RegistrationTypeOK'
  BY <1>1, <1>4 DEF RegistrationTypeOK, SomoimState, RequestStep
<1>8. RowsAreNew'
  BY <1>3, <1>4, <1>6 DEF RowsAreNew, RegistrationTypeOK
<1>9. CreatedFirst'
  <2> SUFFICES ASSUME NEW p \in Requests, rAt'[p] \in Creating
               PROVE  /\ somoim'[rMeetup'[p]] = "none" /\ link'[rMeetup'[p]] = NoJob
                      /\ \A q \in Requests \ {p} :
                            rMeetup'[q] = rMeetup'[p] => rAt'[q] \notin Creating
    BY DEF CreatedFirst
  <2>1. p # r /\ rAt[p] \in Creating /\ rMeetup'[p] = rMeetup[p] /\ rMeetup[p] \in Meetups
    BY <1>4 DEF RegistrationTypeOK, Creating
  <2>2. rMeetup[p] # m
    BY <1>5, <2>1
  <2>3. somoim'[rMeetup[p]] = "none" /\ link'[rMeetup[p]] = NoJob
    BY <1>4, <2>1, <2>2 DEF CreatedFirst, RegistrationTypeOK
  <2>4. ASSUME NEW q \in Requests \ {p}, rMeetup'[q] = rMeetup'[p], rAt'[q] \in Creating
        PROVE  FALSE
    <3>1. q # r /\ rAt[q] \in Creating /\ rMeetup[q] = rMeetup[p]
      BY <1>4, <2>1, <2>4 DEF RegistrationTypeOK, Creating
    <3> QED BY <2>1, <3>1 DEF CreatedFirst
  <2> QED BY <2>1, <2>3, <2>4
<1>10. JobIsOwn'
  BY <1>4 DEF JobIsOwn, RegistrationTypeOK
<1>11. LinkIsOwn'
  BY <1>1, <1>4 DEF LinkIsOwn, RegistrationTypeOK
<1>12. OldIsUntouched'
  <2> SUFFICES ASSUME NEW i \in linked', link'[payload[i]] # i
               PROVE  Untouched(i)
    BY DEF OldIsUntouched, Untouched
  <2>1. i # j /\ i \in linked
    BY <1>1, <1>4 DEF RegistrationTypeOK
  <2>2. CASE payload[i] = m /\ link[m] = i
    BY <1>1, <1>2, <2>1, <2>2 DEF NoJob, Job
  <2>3. CASE payload[i] # m \/ link[m] # i
    <3>1. link[payload[i]] # i
      BY <1>1, <1>4, <2>3 DEF RegistrationTypeOK
    <3> QED BY <2>1, <3>1 DEF OldIsUntouched
  <2> QED BY <2>2, <2>3
<1>13. RetryIsSafe'
  BY <1>4 DEF RetryIsSafe, RegistrationTypeOK
<1> QED BY <1>7, <1>8, <1>9, <1>10, <1>11, <1>12, <1>13

\* The last statements of the create and the retry request.
LEMMA StateKeepsInv ==
    ASSUME RegistrationInv, NEW r \in Requests,
           SetPending(r) \/ SetFailed(r) \/ SetRetried(r)
    PROVE  RegistrationInv'
<1> USE DEF NoJobChange, NoAppChange, jobsVars, tableVars, appVars
<1>1. CASE SetPending(r)
  BY <1>1, LinkKeepsInv DEF SetPending
<1>2. CASE SetRetried(r) /\ MayRetry(rMeetup[r])
  BY <1>2, LinkKeepsInv DEF SetRetried, MayRetry
<1>3. CASE SetRetried(r) /\ ~MayRetry(rMeetup[r])
  <2>1. /\ UNCHANGED <<somoim, link, linked, status, marked, taps, payload, rowStatus,
                      app, crawled, faults>>
        /\ EndRequest(r)
    BY <1>3 DEF SetRetried
  <2>2. RegistrationTypeOK'
    BY <2>1 DEF EndRequest, RegistrationInv, RegistrationTypeOK, SomoimState, RequestStep
  <2>3. TableGrows /\ UntouchedStays
    BY <2>1 DEF TableGrows, UntouchedStays, Untouched
  <2>4. \A q \in Requests :
           \/ rAt'[q] = rAt[q] /\ rMeetup'[q] = rMeetup[q] /\ rJob'[q] = rJob[q]
           \/ rAt'[q] = "idle" /\ rMeetup'[q] = NoMeetup
    BY <2>1 DEF EndRequest, RegistrationInv, RegistrationTypeOK
  <2>5. LinkIsOwn' /\ OldIsUntouched' /\ RetryIsSafe'
    BY <2>1, <2>3, LinksFrame
  <2>6. RowsAreNew' /\ CreatedFirst' /\ JobIsOwn'
    BY <2>1, <2>3, <2>4, RequestsFrame DEF Creating
  <2> QED BY <2>2, <2>5, <2>6 DEF RegistrationInv
<1>4. CASE SetFailed(r)
  <2> DEFINE m == rMeetup[r]
  <2>1. /\ somoim' = [somoim EXCEPT ![m] = "failed"] /\ EndRequest(r)
        /\ rAt[r] = "setFailed"
        /\ UNCHANGED <<link, linked, status, marked, taps, payload, rowStatus, app,
                       crawled, faults>>
    BY <1>4 DEF SetFailed
  <2>2. /\ m \in Meetups /\ link[m] = NoJob /\ rowStatus[m] # "none"
        /\ \A q \in Requests \ {r} : rAt[q] \in Creating => rMeetup[q] # m
    BY <2>1 DEF RegistrationInv, RegistrationTypeOK, CreatedFirst, Creating, RowsAreNew
  <2>3. RegistrationTypeOK'
    BY <2>1 DEF EndRequest, RegistrationInv, RegistrationTypeOK, SomoimState, RequestStep
  <2>4. TableGrows /\ UntouchedStays
    BY <2>1 DEF TableGrows, UntouchedStays, Untouched
  <2>5. LinkIsOwn' /\ OldIsUntouched' /\ RetryIsSafe'
    <3>1. \A q \in Meetups : somoim'[q] = "failed" => somoim[q] = "failed" \/ link[q] = NoJob
      BY <2>1, <2>2 DEF RegistrationInv, RegistrationTypeOK
    <3> QED BY <2>1, <2>4, <3>1, LinksFrame
  <2>6. /\ rAt' = [rAt EXCEPT ![r] = "idle"]
        /\ rMeetup' = [rMeetup EXCEPT ![r] = NoMeetup]
        /\ rJob' = [rJob EXCEPT ![r] = NoJob]
    BY <2>1 DEF EndRequest
  <2> HIDE DEF m
  <2>7. RowsAreNew' /\ JobIsOwn'
    BY <2>1, <2>2, <2>6 DEF RegistrationInv, RegistrationTypeOK, RowsAreNew, JobIsOwn
  <2>8. CreatedFirst'
    <3>1. \A q \in Requests : rAt'[q] \in Creating =>
             /\ q # r /\ rAt[q] \in Creating /\ rMeetup'[q] = rMeetup[q]
             /\ rMeetup[q] \in Meetups /\ rMeetup[q] # m
      BY <2>2, <2>6 DEF RegistrationInv, RegistrationTypeOK, Creating
    <3>2. \A q \in Requests : rAt'[q] \in Creating =>
             somoim'[rMeetup'[q]] = "none" /\ link'[rMeetup'[q]] = NoJob
      BY <2>1, <3>1 DEF RegistrationInv, RegistrationTypeOK, CreatedFirst
    <3>3. \A q \in Requests : rAt'[q] \in Creating =>
             \A p \in Requests \ {q} :
                rMeetup'[p] = rMeetup'[q] => rAt'[p] \notin Creating
      BY <3>1 DEF RegistrationInv, CreatedFirst
    <3> QED BY <3>2, <3>3 DEF CreatedFirst
  <2> QED BY <2>3, <2>5, <2>7, <2>8 DEF RegistrationInv
<1> QED BY <1>1, <1>2, <1>3, <1>4

\* A cancel stops a job that nobody claimed, or goes on to the delete job.
LEMMA EmitCancelledKeepsInv ==
    ASSUME RegistrationInv, JobsTypeOK, UntouchedStays, TableGrows,
           NEW r \in Requests, EmitCancelled(r)
    PROVE  RegistrationInv'
<1> USE DEF RegistrationInv, NoJobChange, NoAppChange, meetupVars, appVars
<1>1. /\ UNCHANGED <<meetupVars, payload, app, crawled, faults>>
      /\ \A j \in Job : status[j] = "absent" => status'[j] = "absent"
  BY DEF EmitCancelled, CancelPendingJob, JobsTypeOK, TableTypeOK, jobsVars, tableVars
<1>2. Continue(r, "deleteJob") \/ Continue(r, "didAttemptSubmit") \/ EndRequest(r)
  BY DEF EmitCancelled
<1>3. /\ rAt' \in [Requests -> RequestStep]
      /\ rMeetup' \in [Requests -> Meetups \cup {NoMeetup}]
      /\ rState' \in [Requests -> SomoimState]
      /\ rJob' \in [Requests -> Job \cup {NoJob}]
      /\ \A q \in Requests : rAt'[q] # "idle" => rMeetup'[q] \in Meetups
      /\ \A q \in Requests \ {r} :
            rAt'[q] = rAt[q] /\ rMeetup'[q] = rMeetup[q] /\ rJob'[q] = rJob[q]
      /\ rAt'[r] \notin Creating \cup {"setRetried"}
      /\ \A m \in Meetups : rMeetup'[r] = m => rMeetup[r] = m
  <2>1. rAt[r] = "emitCancelled" /\ rMeetup[r] \in Meetups
    BY DEF EmitCancelled, RegistrationTypeOK
  <2> QED BY <1>2, <2>1 DEF Continue, EndRequest, RegistrationTypeOK, RequestStep,
             SomoimState, Creating
<1>4. RegistrationTypeOK'
  BY <1>1, <1>3 DEF RegistrationTypeOK
<1>5. LinkIsOwn' /\ OldIsUntouched' /\ RetryIsSafe'
  BY <1>1, LinksFrame
<1>6. RowsAreNew' /\ CreatedFirst' /\ JobIsOwn'
  BY <1>1, <1>3, RequestsFrame
<1> QED BY <1>4, <1>5, <1>6

LEMMA DeleteJobKeepsInv ==
    ASSUME RegistrationInv, JobsTypeOK, UntouchedStays, NEW r \in Requests, DeleteJob(r)
    PROVE  RegistrationInv'
<1> USE DEF RegistrationInv, NoAppChange, meetupVars, appVars
<1>1. rMeetup[r] \in Meetups
  BY DEF DeleteJob, RegistrationTypeOK
<1>2. /\ TableGrows /\ payload' \in [Job -> Meetups \cup {NoMeetup}]
      /\ \A i \in Job : status'[i] # "absent" => payload'[i] \in Meetups
  <2>1. CASE NoJobChange
    BY <2>1 DEF NoJobChange, jobsVars, tableVars, TableGrows, RegistrationTypeOK
  <2>2. ASSUME NEW j \in Job, InsertFor(j, "delete_meetup", rMeetup[r])
        PROVE  /\ TableGrows /\ payload' \in [Job -> Meetups \cup {NoMeetup}]
               /\ \A i \in Job : status'[i] # "absent" => payload'[i] \in Meetups
    BY <1>1, <2>2, InsertFacts DEF InsertFor, CreateJob, InsertJob, IsNextId
  <2> QED BY <2>1, <2>2 DEF DeleteJob
<1>3. EndRequest(r) /\ UNCHANGED <<rowStatus, somoim, link, linked, app, crawled, faults>>
  BY DEF DeleteJob
<1>4. RegistrationTypeOK'
  BY <1>2, <1>3 DEF EndRequest, RegistrationTypeOK, SomoimState, RequestStep
<1>5. LinkIsOwn' /\ OldIsUntouched' /\ RetryIsSafe'
  BY <1>2, <1>3, LinksFrame
<1>6. \A q \in Requests :
         \/ rAt'[q] = rAt[q] /\ rMeetup'[q] = rMeetup[q] /\ rJob'[q] = rJob[q]
         \/ rAt'[q] = "idle" /\ rMeetup'[q] = NoMeetup
  BY <1>3 DEF EndRequest, RegistrationTypeOK
<1>7. RowsAreNew' /\ CreatedFirst' /\ JobIsOwn'
  BY <1>2, <1>3, <1>6, RequestsFrame DEF Creating
<1> QED BY <1>4, <1>5, <1>7
-----------------------------------------------------------------------------
(* The queue, the worker and the app.                                      *)

\* Only an insert makes a row.
LEMMA NothingInserted ==
    ASSUME JobsTypeOK, NEW h \in Handlers,
           QueueStatement(h) \/ CheckMeetup(h) \/ QueryFails(h) \/ EmitFailed(h)
    PROVE  NoNewRows
<1> USE DEF NoNewRows, JobsTypeOK, TableTypeOK, Become, OnlyStatus, tableVars
<1>1. ASSUME NEW stale \in SUBSET Job, RequeueStaleJobs(h, stale) PROVE NoNewRows
  BY <1>1 DEF RequeueStaleJobs
<1>2. CASE ClaimNextJob(h)
  BY <1>2 DEF ClaimNextJob, ClaimOldest
<1>3. CASE StopClaimedJob(h) \/ CompleteExistingEvent(h) \/ CompleteJob(h)
  BY <1>3 DEF StopClaimedJob, CompleteExistingEvent, CompleteJob
<1>4. CASE RequeueJob(h) \/ FailJob(h)
  BY <1>4 DEF RequeueJob, FailJob
<1>5. CASE GetJob(h) \/ DropReply(h) \/ QueryFails(h) \/ EmitFailed(h)
  BY <1>5 DEF GetJob, DropReply, QueryFails, EmitFailed
<1>6. CASE CheckMeetup(h)
  BY <1>6 DEF CheckMeetup, GetSubmitPreflight, MarkSubmitAttempted, RecheckPreflight
<1> QED BY <1>1, <1>2, <1>3, <1>4, <1>5, <1>6 DEF QueueStatement

\* Steps that leave the meetups and the requests alone and insert no row.
LEMMA QueueKeepsInv ==
    ASSUME RegistrationInv, JobsTypeOK, UntouchedStays, NoNewRows,
           \A j \in Job : status[j] # "absent" => status'[j] # "absent",
           UNCHANGED <<meetupVars, requestVars, payload>>,
           app' \in [Keys -> Nat], crawled' \subseteq Keys, faults' \in 0..MaxFaults
    PROVE  RegistrationInv'
<1>1. TableGrows
  BY DEF TableGrows
<1>2. RegistrationTypeOK'
  BY DEF RegistrationInv, RegistrationTypeOK, NoNewRows, meetupVars, requestVars
<1> QED BY <1>1, <1>2, QuietFrame

\* A press makes or removes an event of the app.
LEMMA TapTypes ==
    ASSUME RegistrationTypeOK, JobsTypeOK, WorkerTaps, JobKey(wJob) \in Keys
    PROVE  app' \in [Keys -> Nat]
<1>1. app[JobKey(wJob)] \in Nat
  BY DEF RegistrationTypeOK
<1>2. app[JobKey(wJob)] + 1 \in Nat
  BY <1>1
<1>3. app[JobKey(wJob)] > 0 => app[JobKey(wJob)] - 1 \in Nat
  BY <1>1
<1>4. app \in [Keys -> Nat]
  BY DEF RegistrationTypeOK
<1>5. CASE UNCHANGED app
  BY <1>4, <1>5
<1>6. CASE app' = [app EXCEPT ![JobKey(wJob)] = @ + 1]
  BY <1>2, <1>4, <1>6
<1>7. CASE app[JobKey(wJob)] > 0 /\ app' = [app EXCEPT ![JobKey(wJob)] = @ - 1]
  BY <1>3, <1>4, <1>7
<1> QED BY <1>5, <1>6, <1>7 DEF WorkerTaps, TapEffect

LEMMA WorkerActsKeepInv ==
    ASSUME RegistrationInv, JobsTypeOK, JobsInv, UntouchedStays,
           WorkerActs \/ ((WorkerStops \/ WorkerStarts) /\ UNCHANGED hostVars)
    PROVE  RegistrationInv'
<1> USE DEF RegistrationInv
<1>1. UNCHANGED <<status, payload, meetupVars, requestVars, crawled, faults>>
  BY DEF WorkerActs, WorkerTaps, Tap, ClaimAnswered, PreflightAnswered, MarkAnswered,
     ReportAnswered, CallBreaks, Poll, EventExpected, FillDone, Confirmed, Unconfirmed,
     MarkCallBreaks, FillFails, WorkerStops, WorkerStarts, TableUnchanged, tableVars,
     hostVars, appVars
<1>2. UNCHANGED app \/ WorkerTaps
  BY DEF WorkerActs, hostVars, appVars
<1>3. app' \in [Keys -> Nat]
  <2>1. CASE UNCHANGED app
    BY <2>1 DEF RegistrationTypeOK
  <2>2. CASE WorkerTaps
    <3>1. wJob \in Job /\ status[wJob] # "absent"
      BY <2>2 DEF WorkerTaps, Tap, JobsInv, TapIsSafe, NeverAgain, JobsTypeOK, WorkerTypeOK
    <3>2. JobKey(wJob) \in Keys
      BY <3>1 DEF JobKey, RegistrationTypeOK
    <3> QED BY <2>2, <3>2, TapTypes
  <2> QED BY <1>2, <2>1, <2>2
<1>4. crawled' \subseteq Keys /\ faults' \in 0..MaxFaults
  BY <1>1 DEF RegistrationTypeOK
<1>5. NoNewRows /\ \A j \in Job : status[j] # "absent" => status'[j] # "absent"
  BY <1>1 DEF NoNewRows
<1> QED BY <1>1, <1>3, <1>4, <1>5, QueueKeepsInv

LEMMA AppKeepsInv ==
    ASSUME RegistrationInv, JobsTypeOK, SyncEvents \/ \E k \in Keys : HandEdit(k)
    PROVE  RegistrationInv'
<1> USE DEF RegistrationInv
<1>1. UNCHANGED <<jobsVars, payload, meetupVars, requestVars, faults>>
  BY DEF SyncEvents, HandEdit
<1>2. app' \in [Keys -> Nat] /\ crawled' \subseteq Keys
  BY DEF SyncEvents, HandEdit, Live, RegistrationTypeOK
<1>3. /\ UntouchedStays /\ NoNewRows /\ faults' \in 0..MaxFaults
      /\ \A j \in Job : status[j] # "absent" => status'[j] # "absent"
  BY <1>1 DEF UntouchedStays, Untouched, NoNewRows, jobsVars, tableVars, RegistrationTypeOK
<1> QED BY <1>1, <1>2, <1>3, QueueKeepsInv

LEMMA CrashKeepsInv ==
    ASSUME RegistrationInv, Crash
    PROVE  RegistrationInv'
<1> USE DEF RegistrationInv
<1>1. /\ UNCHANGED <<status, marked, taps, payload, meetupVars, app, crawled>>
      /\ faults' \in 0..MaxFaults
  BY DEF Crash, ServerCrashes, Fault, tableVars, NoWorkerStep, appVars, RegistrationTypeOK
<1>2. /\ rAt' = [r \in Requests |-> "idle"] /\ rMeetup' = [r \in Requests |-> NoMeetup]
      /\ rState' = [r \in Requests |-> "none"] /\ rJob' = [r \in Requests |-> NoJob]
  BY DEF Crash
<1>3. RegistrationTypeOK'
  BY <1>1, <1>2 DEF RegistrationTypeOK, SomoimState, RequestStep, meetupVars
<1>4. TableGrows /\ UntouchedStays
  BY <1>1 DEF TableGrows, UntouchedStays, Untouched
<1>5. LinkIsOwn' /\ OldIsUntouched' /\ RetryIsSafe'
  BY <1>1, <1>4, LinksFrame DEF meetupVars
<1>6. RowsAreNew' /\ CreatedFirst' /\ JobIsOwn'
  BY <1>1, <1>2, <1>4, RequestsFrame DEF meetupVars, Creating
<1> QED BY <1>3, <1>5, <1>6
-----------------------------------------------------------------------------
(* The listeners of the queue's events.                                    *)

\* A meetup is told of an outcome of the job it is linked to.
LEMMA TellKeepsInv ==
    ASSUME RegistrationInv, UntouchedStays, NEW j \in Job, NEW s \in {"failed", "registered"},
           TellOrThrow(j, s), OnlySomoim, UNCHANGED <<status, faults>> \/ UNCHANGED status,
           s = "failed" => Untouched(j)'
    PROVE  RegistrationInv'
<1> USE DEF RegistrationInv, OnlySomoim, NoAppChange, appVars, requestVars
<1>1. /\ UNCHANGED <<status, payload, rowStatus, link, linked, rAt, rMeetup, rState, rJob,
                     app, crawled>>
      /\ faults' \in 0..MaxFaults
  BY DEF TellOrThrow, Fault, RegistrationTypeOK
<1>2. /\ somoim' \in [Meetups -> SomoimState]
      /\ \A m \in Meetups : somoim'[m] # somoim[m] =>
            somoim[m] = "pending" /\ link[m] = j /\ somoim'[m] = s
  BY DEF TellOrThrow, Tell, Told, RegistrationTypeOK, SomoimState
<1>3. RegistrationTypeOK'
  BY <1>1, <1>2 DEF RegistrationTypeOK
<1>4. TableGrows
  BY <1>1 DEF TableGrows
<1>5. LinkIsOwn' /\ OldIsUntouched' /\ RetryIsSafe'
  BY <1>1, <1>2, <1>4, LinksFrame
<1>6. RowsAreNew' /\ CreatedFirst' /\ JobIsOwn'
  BY <1>1, <1>2, <1>4, RequestsFrame
<1> QED BY <1>3, <1>5, <1>6

LEMMA NoticesKeepInv ==
    ASSUME RegistrationInv, JobsTypeOK, JobsInv, UntouchedStays, NEW h \in Handlers,
           NotifyFailed(h) \/ NotifySucceeded(h) \/ \E j \in Job : NotifyExhausted(h, j)
    PROVE  RegistrationInv'
<1>1. CASE NotifyFailed(h)
  <2>1. arg[h] \in Job
    BY <1>1 DEF NotifyFailed, EmitFailed, JobsTypeOK, HandlerTypeOK, ClaimStep
  <2>2. Untouched(arg[h])
    BY <1>1, <2>1 DEF NotifyFailed, EmitFailed, JobsInv, FailureNoticeIsSafe, ToldFailed,
       Untouched
  <2>3. Untouched(arg[h])' /\ UNCHANGED <<status, arg>>
    BY <1>1, <2>1, <2>2 DEF NotifyFailed, EmitFailed, Goto, tableVars, NoWorkerStep,
       Untouched
  <2> DEFINE j == arg[h]
  <2>4. /\ j \in Job /\ TellOrThrow(j, "failed") /\ OnlySomoim /\ UNCHANGED status
        /\ status'[j] \in Final /\ ~marked'[j] /\ taps'[j] = 0
    BY <1>1, <2>1, <2>3 DEF NotifyFailed, Untouched
  <2> HIDE DEF j
  <2> QED BY <2>4, TellKeepsInv DEF Untouched
<1>2. ASSUME NEW j \in Job, NotifyExhausted(h, j) PROVE RegistrationInv'
  <2>1. Untouched(j)
    BY <1>2 DEF NotifyExhausted, EmitExhausted, JobsInv, FailureNoticeIsSafe, ToldFailed,
       Untouched
  <2>2. Untouched(j)' /\ UNCHANGED status
    BY <1>2, <2>1 DEF NotifyExhausted, EmitExhausted, tableVars, UntouchedStays
  <2> QED BY <1>2, <2>2, TellKeepsInv DEF NotifyExhausted
<1>3. CASE NotifySucceeded(h)
  <2>1. arg[h] \in Job
    BY <1>3 DEF NotifySucceeded, EmitSucceeded, JobsTypeOK, HandlerTypeOK, ClaimStep
  <2>2. TellOrThrow(arg[h], "registered") /\ OnlySomoim /\ UNCHANGED status
    BY <1>3 DEF NotifySucceeded, TellOrThrow, EmitSucceeded, tableVars
  <2> QED BY <2>1, <2>2, TellKeepsInv
<1> QED BY <1>1, <1>2, <1>3

\* The delete job of a meetup that was registered after its cancellation.
LEMMA CompensateKeepsInv ==
    ASSUME RegistrationInv, JobsTypeOK, UntouchedStays, NEW h \in Handlers, Compensate(h)
    PROVE  RegistrationInv'
<1> USE DEF RegistrationInv, NoAppChange, appVars
<1>1. /\ UNCHANGED <<meetupVars, requestVars, app, crawled>>
      /\ faults' \in 0..MaxFaults
  BY DEF Compensate, Fault, RegistrationTypeOK
<1>2. /\ TableGrows /\ payload' \in [Job -> Meetups \cup {NoMeetup}]
      /\ \A i \in Job : status'[i] # "absent" => payload'[i] \in Meetups
  <2>1. CASE CreateDeleteJob(h, NoJob) /\ UNCHANGED payload
    BY <2>1 DEF CreateDeleteJob, tableVars, TableGrows, RegistrationTypeOK
  <2>2. ASSUME NEW m \in Meetups, NEW j \in Job, CreateDeleteJob(h, j),
               payload' = [payload EXCEPT ![j] = m]
        PROVE  /\ TableGrows /\ payload' \in [Job -> Meetups \cup {NoMeetup}]
               /\ \A i \in Job : status'[i] # "absent" => payload'[i] \in Meetups
    <3>1. j # NoJob
      BY DEF Job, NoJob
    <3> QED BY <2>2, <3>1, InsertFacts DEF CreateDeleteJob, InsertJob, IsNextId
  <2> QED BY <2>1, <2>2 DEF Compensate
<1>3. RegistrationTypeOK'
  BY <1>1, <1>2 DEF RegistrationTypeOK, meetupVars, requestVars
<1> QED BY <1>1, <1>2, <1>3, QuietFrame
-----------------------------------------------------------------------------
LEMMA HandlersKeepInv ==
    ASSUME RegistrationInv, JobsTypeOK, JobsInv, UntouchedStays,
           \A j \in Job : status[j] # "absent" => status'[j] # "absent",
           NEW h \in Handlers, HandlerActs(h) \/ HandlerFails(h)
    PROVE  RegistrationInv'
<1>1. CASE QueueStatement(h) \/ CheckMeetup(h) \/ HandlerFails(h)
  <2>1. NoNewRows
    BY <1>1, NothingInserted DEF HandlerFails
  <2>2. /\ UNCHANGED <<meetupVars, requestVars, payload, app, crawled>>
        /\ faults' \in 0..MaxFaults
    BY <1>1 DEF QueueStatement, CheckMeetup, HandlerFails, Fault, hostVars, appVars,
       RegistrationInv, RegistrationTypeOK
  <2>3. app' \in [Keys -> Nat] /\ crawled' \subseteq Keys
    BY <2>2 DEF RegistrationInv, RegistrationTypeOK
  <2> QED BY <2>1, <2>2, <2>3, QueueKeepsInv
<1>2. CASE NotifyFailed(h) \/ NotifySucceeded(h) \/ \E j \in Job : NotifyExhausted(h, j)
  BY <1>2, NoticesKeepInv
<1>3. CASE Compensate(h)
  BY <1>3, CompensateKeepsInv
<1> QED BY <1>1, <1>2, <1>3 DEF HandlerActs

LEMMA RequestsKeepInv ==
    ASSUME RegistrationInv, JobsTypeOK, UntouchedStays,
           \A j \in Job : status[j] # "absent" => status'[j] # "absent",
           NEW r \in Requests,
           \/ RequestStepOf(r) \/ RequestFails(r)
           \/ \E m \in Meetups : HostActs(r, m)
    PROVE  RegistrationInv'
<1>1. ASSUME NEW j \in Job, EmitForJob(r, j) PROVE RegistrationInv'
  BY <1>1, EmitForJobKeepsInv
<1>2. CASE JobRejected(r)
  <2>1. rAt[r] \in {"emitCreated", "emitRetry"}
    BY <1>2 DEF JobRejected
  <2> QED BY <1>2, <2>1, RejectedKeepsInv, ReadKeepsInv
<1>3. CASE SetPending(r) \/ SetFailed(r) \/ SetRetried(r)
  BY <1>3, StateKeepsInv
<1>4. CASE CloseRow(r) \/ CheckAttempt(r) \/ RequestFails(r)
  BY <1>4, ReadKeepsInv
<1>5. CASE EmitCancelled(r)
  <2>1. TableGrows
    BY <1>5 DEF TableGrows, EmitCancelled, NoJobChange
  <2> QED BY <1>5, <2>1, EmitCancelledKeepsInv
<1>6. CASE DeleteJob(r)
  BY <1>6, DeleteJobKeepsInv
<1>7. ASSUME NEW m \in Meetups, HostActs(r, m) PROVE RegistrationInv'
  BY <1>7, CreateMeetupKeepsInv, ReadKeepsInv DEF HostActs
<1> QED BY <1>1, <1>2, <1>3, <1>4, <1>5, <1>6, <1>7 DEF RequestStepOf

LEMMA RegistrationStep ==
    ASSUME RegistrationInv, JobsTypeOK, JobsInv, [RegistrationNext]_registrationVars
    PROVE  RegistrationInv' /\ JobsTypeOK' /\ JobsInv'
<1>1. [JobsNext]_jobsVars
  BY StepRefines DEF RegistrationInv
<1>2. /\ JobsTypeOK' /\ JobsInv' /\ UntouchedStays
      /\ \A j \in Job : status[j] # "absent" => status'[j] # "absent"
  BY <1>1, QueueFacts DEF UntouchedStays
<1>3. CASE UNCHANGED registrationVars
  <2>1. /\ UNCHANGED <<jobsVars, meetupVars, requestVars, payload, app, crawled, faults>>
    BY <1>3 DEF registrationVars, hostVars, appVars
  <2>2. NoNewRows
    BY <2>1 DEF NoNewRows, jobsVars, tableVars
  <2>3. app' \in [Keys -> Nat] /\ crawled' \subseteq Keys /\ faults' \in 0..MaxFaults
    BY <2>1 DEF RegistrationInv, RegistrationTypeOK
  <2> QED BY <1>2, <2>1, <2>2, <2>3, QueueKeepsInv
<1>4. ASSUME NEW r \in Requests,
             \/ RequestStepOf(r) \/ RequestFails(r)
             \/ \E m \in Meetups : HostActs(r, m)
      PROVE  RegistrationInv'
  BY <1>2, <1>4, RequestsKeepInv
<1>5. ASSUME NEW h \in Handlers, HandlerActs(h) \/ HandlerFails(h) PROVE RegistrationInv'
  BY <1>2, <1>5, HandlersKeepInv
<1>6. ASSUME WorkerActs \/ ((WorkerStops \/ WorkerStarts) /\ UNCHANGED hostVars)
      PROVE  RegistrationInv'
  BY <1>2, <1>6, WorkerActsKeepInv
<1>7. ASSUME Crash PROVE RegistrationInv'
  BY <1>7, CrashKeepsInv
<1>8. ASSUME SyncEvents \/ \E k \in Keys : HandEdit(k) PROVE RegistrationInv'
  BY <1>8, AppKeepsInv
<1>9. RegistrationInv'
  <2> DEFINE ByRequest == \E r \in Requests :
                              \/ RequestStepOf(r) \/ RequestFails(r)
                              \/ \E m \in Meetups : HostActs(r, m)
             ByHandler == \E h \in Handlers : HandlerActs(h) \/ HandlerFails(h)
             ByWorker  == WorkerActs \/ ((WorkerStops \/ WorkerStarts) /\ UNCHANGED hostVars)
             ByOthers  == SyncEvents \/ \E k \in Keys : HandEdit(k)
  <2>1. RegistrationNext => ByRequest \/ ByHandler \/ ByWorker \/ ByOthers \/ Crash
    BY DEF RegistrationNext
  <2>2. ByRequest => RegistrationInv'
    BY <1>4
  <2>3. ByHandler => RegistrationInv'
    BY <1>5
  <2>4. ByWorker => RegistrationInv'
    BY <1>6
  <2>5. ByOthers => RegistrationInv'
    BY <1>8
  <2> HIDE DEF ByRequest, ByHandler, ByWorker, ByOthers
  <2> QED BY <1>3, <1>7, <2>1, <2>2, <2>3, <2>4, <2>5
<1> QED BY <1>2, <1>9

\* The invariant holds in every state of the composition, with the types and the
\* invariant of the queue it is composed with: whoever links, closes or retries a
\* meetup, and whatever the handlers and the worker do meanwhile
\* (meetup.service.js, meetup.hooks.js).
THEOREM RegistrationInvCorrect ==
    RegistrationSpec => [](RegistrationInv /\ JobsTypeOK /\ JobsInv)
<1>1. RegistrationInit => RegistrationInv /\ JobsTypeOK /\ JobsInv
  <2>1. RegistrationInit => JobsInit
    BY DEF RegistrationInit
  <2>2. JobsInit => JobsTypeOK
    BY DEF JobsInit, JobsTypeOK, TableTypeOK, HandlerTypeOK, WorkerTypeOK, NoJob,
           JobType, Status, Step, Answer, WorkerAt, Waiting
  <2>3. JobsInit => JobsInv
    BY DEF JobsInit, JobsInv, SubmittedIsOver, TapIsSafe, NothingOlder,
           RequeueIsSafe, ClaimIsFresh, MarkIsOurs, FailureNoticeIsSafe, ToldFailed
  <2> QED BY <2>1, <2>2, <2>3, RegistrationInitInv
<1>2. /\ RegistrationInv /\ JobsTypeOK /\ JobsInv /\ [RegistrationNext]_registrationVars
      => RegistrationInv' /\ JobsTypeOK' /\ JobsInv'
  BY RegistrationStep
<1> QED BY <1>1, <1>2, PTL DEF RegistrationSpec

\* Type correctness: the meetups, the requests, the payloads and the app keep
\* their types beside the queue.
THEOREM RegistrationTypeCorrect == RegistrationSpec => []RegistrationTypeOK
<1>1. RegistrationInv => RegistrationTypeOK
  BY DEF RegistrationInv
<1> QED BY <1>1, RegistrationInvCorrect, PTL

\* A meetup that offers its host another try has no job left that has made or
\* can make an event (MeetupCard's retry, retrySomoimRegistration).
THEOREM RetryCorrect == RegistrationSpec => []RetryIsSafe
<1>1. RegistrationInv => RetryIsSafe
  BY DEF RegistrationInv
<1> QED BY <1>1, RegistrationInvCorrect, PTL

\* Of the jobs a meetup was ever linked to one at most was submitted, because a
\* job that another has replaced was never pressed.
THEOREM OneSubmitCorrect == RegistrationSpec => []OneSubmitPerMeetup
<1>1. RegistrationInv => OneSubmitPerMeetup
  BY DEF RegistrationInv, OldIsUntouched, Untouched, OneSubmitPerMeetup
<1> QED BY <1>1, RegistrationInvCorrect, PTL

\* With meetups, requests, listeners, faults and hand edits around it the queue
\* still only takes steps of its own specification: each theorem about JobsSpec
\* holds of the composition.
THEOREM RegistrationImplementsQueue == RegistrationSpec => JobsSpec
<1>1. RegistrationInit => JobsInit
  BY DEF RegistrationInit
<1>2. RegistrationInv /\ [RegistrationNext]_registrationVars => [JobsNext]_jobsVars
  BY StepRefines DEF RegistrationInv
<1> QED BY <1>1, <1>2, RegistrationInvCorrect, PTL DEF RegistrationSpec, JobsSpec
-----------------------------------------------------------------------------
(* What a cancel is worth: a job that was not marked by then is stopped.   *)

\* The job came to nothing already, or it is not marked and its meetup is closed,
\* which is what a mark asks for.
Stopped(m, j) == Untouched(j) \/ (Closed(m) /\ link[m] = j /\ ~marked[j])

\* No step opens a closed row, and a row that is linked to a job gets another
\* only while it says that its registration failed.
LinkStays(m) == link'[m] = link[m] \/ link[m] = NoJob \/ somoim[m] = "failed"

LEMMA RowSteps ==
    ASSUME RegistrationInv, [RegistrationNext]_registrationVars, NEW m \in Meetups
    PROVE  /\ Closed(m) => Closed(m)'
           /\ LinkStays(m)
<1> USE DEF RegistrationInv, Closed, LinkStays
<1>1. /\ rowStatus \in [Meetups -> {"none", "open", "closed"}]
      /\ link \in [Meetups -> Job \cup {NoJob}]
  BY DEF RegistrationTypeOK
<1>2. UNCHANGED <<rowStatus, link>> => Closed(m)' = Closed(m) /\ LinkStays(m)
  OBVIOUS
<1>3. ASSUME NEW r \in Requests, RequestStepOf(r)
      PROVE  (Closed(m) => Closed(m)') /\ LinkStays(m)
  <2>1. CASE (\E j \in Job : EmitForJob(r, j)) \/ JobRejected(r) \/ EmitCancelled(r)
             \/ CheckAttempt(r) \/ DeleteJob(r)
    BY <1>2, <2>1 DEF EmitForJob, JobRejected, EmitCancelled, CheckAttempt, DeleteJob,
       OnlyRequest, meetupVars
  <2>2. CASE SetPending(r)
    <3>1. link[rMeetup[r]] = NoJob /\ UNCHANGED rowStatus
      BY <2>2 DEF SetPending, CreatedFirst, Creating
    <3>2. link' = [link EXCEPT ![rMeetup[r]] = rJob[r]]
      BY <2>2 DEF SetPending, LinkRow
    <3> QED BY <1>1, <3>1, <3>2
  <2>3. CASE SetFailed(r)
    BY <1>2, <2>3 DEF SetFailed
  <2>4. CASE SetRetried(r)
    <3>1. CASE MayRetry(rMeetup[r])
      <4>1. link' = [link EXCEPT ![rMeetup[r]] = rJob[r]] /\ UNCHANGED rowStatus
        BY <2>4, <3>1 DEF SetRetried, LinkRow
      <4>2. somoim[rMeetup[r]] = "failed"
        BY <3>1 DEF MayRetry
      <4> QED BY <1>1, <4>1, <4>2
    <3>2. CASE ~MayRetry(rMeetup[r])
      BY <1>2, <2>4, <3>2 DEF SetRetried
    <3> QED BY <3>1, <3>2
  <2>5. CASE CloseRow(r)
    BY <1>1, <2>5 DEF CloseRow
  <2> QED BY <1>3, <2>1, <2>2, <2>3, <2>4, <2>5 DEF RequestStepOf
<1>4. ASSUME NEW r \in Requests, NEW n \in Meetups, HostActs(r, n)
      PROVE  (Closed(m) => Closed(m)') /\ LinkStays(m)
  <2>1. CASE CreateMeetup(r, n)
    BY <1>1, <2>1 DEF CreateMeetup
  <2>2. CASE RetryRegistration(r, n) \/ CancelMeetup(r, n)
    BY <1>2, <2>2 DEF RetryRegistration, CancelMeetup, Read, meetupVars
  <2> QED BY <1>4, <2>1, <2>2 DEF HostActs
<1>5. ASSUME NEW r \in Requests, RequestFails(r)
      PROVE  UNCHANGED <<rowStatus, link>>
  BY <1>5 DEF RequestFails, meetupVars
<1>6. ASSUME NEW h \in Handlers, HandlerActs(h) \/ HandlerFails(h)
      PROVE  UNCHANGED <<rowStatus, link>>
  BY <1>6 DEF HandlerActs, QueueStatement, CheckMeetup, NotifyFailed, NotifySucceeded,
     Compensate, NotifyExhausted, HandlerFails, OnlySomoim, hostVars, meetupVars
<1>7. WorkerActs \/ ((WorkerStops \/ WorkerStarts) /\ UNCHANGED hostVars)
      => UNCHANGED <<rowStatus, link>>
  BY DEF WorkerActs, WorkerTaps, hostVars, meetupVars
<1>8. SyncEvents \/ Crash \/ (\E k \in Keys : HandEdit(k)) \/ UNCHANGED registrationVars
      => UNCHANGED <<rowStatus, link>>
  BY DEF SyncEvents, Crash, HandEdit, registrationVars, hostVars, meetupVars
<1> QED BY <1>2, <1>3, <1>4, <1>5, <1>6, <1>7, <1>8 DEF RegistrationNext

\* Only the submit-attempt marks a job, and only while no cancelled meetup is
\* linked to it: the check and the mark are one statement.
LEMMA MarkSteps ==
    ASSUME RegistrationInv, JobsTypeOK, [RegistrationNext]_registrationVars,
           NEW j \in Job, marked'[j], ~marked[j]
    PROVE  ~Cancelled(j)
<1>1. ASSUME UNCHANGED marked PROVE FALSE
  BY <1>1
<1>2. ASSUME NEW r \in Requests, RequestStepOf(r) PROVE UNCHANGED marked
  BY <1>2 DEF RequestStepOf, EmitForJob, InsertFor, CreateJob, InsertJob, JobRejected,
     SetPending, SetFailed, SetRetried, CloseRow, EmitCancelled, CancelPendingJob,
     CheckAttempt, DeleteJob, OnlyRequest, NoJobChange, jobsVars, tableVars
<1>3. ASSUME NEW r \in Requests, NEW n \in Meetups, HostActs(r, n) PROVE UNCHANGED marked
  BY <1>3 DEF HostActs, CreateMeetup, RetryRegistration, CancelMeetup, Read, NoJobChange,
     jobsVars, tableVars
<1>4. ASSUME NEW r \in Requests, RequestFails(r) PROVE UNCHANGED marked
  BY <1>4 DEF RequestFails, NoJobChange, jobsVars, tableVars
<1>5. ASSUME NEW h \in Handlers, HandlerActs(h) PROVE ~Cancelled(j)
  <2>1. CASE QueueStatement(h)
    BY <1>1, <2>1 DEF QueueStatement, RequeueStaleJobs, ClaimNextJob, StopClaimedJob,
       CompleteExistingEvent, CompleteJob, GetJob, RequeueJob, FailJob, DropReply,
       OnlyStatus, tableVars
  <2>2. CASE MarkSubmitAttempted(h, Cancelled(arg[h]))
    <3>1. CASE MayMark(arg[h], Cancelled(arg[h]))
      <4>1. marked' = [marked EXCEPT ![arg[h]] = TRUE]
        BY <2>2, <3>1 DEF MarkSubmitAttempted
      <4>2. arg[h] = j
        BY <4>1 DEF JobsTypeOK, TableTypeOK
      <4> QED BY <3>1, <4>2 DEF MayMark
    <3>2. CASE ~MayMark(arg[h], Cancelled(arg[h]))
      BY <1>1, <2>2, <3>2 DEF MarkSubmitAttempted
    <3> QED BY <3>1, <3>2
  <2>3. CASE GetSubmitPreflight(h, Cancelled(arg[h]), ExistingEvent(arg[h]))
             \/ RecheckPreflight(h, Cancelled(arg[h]))
    BY <1>1, <2>3 DEF GetSubmitPreflight, RecheckPreflight, tableVars
  <2>4. CASE NotifyFailed(h) \/ NotifySucceeded(h) \/ \E i \in Job : NotifyExhausted(h, i)
    BY <1>1, <2>4 DEF NotifyFailed, NotifySucceeded, NotifyExhausted, EmitFailed,
       EmitSucceeded, EmitExhausted, tableVars
  <2>5. CASE Compensate(h)
    BY <1>1, <2>5 DEF Compensate, CreateDeleteJob, InsertJob, tableVars
  <2> QED BY <1>5, <2>1, <2>2, <2>3, <2>4, <2>5 DEF HandlerActs, CheckMeetup
<1>6. ASSUME NEW h \in Handlers, HandlerFails(h) PROVE UNCHANGED marked
  BY <1>6 DEF HandlerFails, QueryFails, tableVars
<1>7. WorkerActs \/ WorkerStops \/ WorkerStarts => UNCHANGED marked
  BY DEF WorkerActs, WorkerTaps, Tap, ClaimAnswered, PreflightAnswered, MarkAnswered,
     ReportAnswered, CallBreaks, Poll, EventExpected, FillDone, Confirmed, Unconfirmed,
     MarkCallBreaks, FillFails, WorkerStops, WorkerStarts, TableUnchanged, tableVars
<1>8. SyncEvents \/ Crash \/ (\E k \in Keys : HandEdit(k)) \/ UNCHANGED registrationVars
      => UNCHANGED marked
  BY DEF SyncEvents, Crash, ServerCrashes, HandEdit, registrationVars, jobsVars, tableVars
<1> QED BY <1>1, <1>2, <1>3, <1>4, <1>5, <1>6, <1>7, <1>8 DEF RegistrationNext

LEMMA StoppedStays ==
    ASSUME RegistrationInv, JobsTypeOK, JobsInv, [RegistrationNext]_registrationVars,
           NEW m \in Meetups, NEW j \in Job, Stopped(m, j)
    PROVE  Stopped(m, j)'
<1>1. Untouched(j) => Untouched(j)'
  BY StepRefines, QueueFacts DEF RegistrationInv
<1>2. ASSUME Closed(m), link[m] = j, ~marked[j], somoim[m] # "failed"
      PROVE  Closed(m)' /\ link'[m] = j /\ ~marked'[j]
  <2>1. Closed(m)' /\ link'[m] = j
    BY <1>2, RowSteps DEF LinkStays, Job, NoJob
  <2>2. Cancelled(j)
    BY <1>2 DEF Cancelled
  <2> QED BY <1>2, <2>1, <2>2, MarkSteps
<1>3. ASSUME Closed(m), link[m] = j, somoim[m] = "failed"
      PROVE  Untouched(j)
  BY <1>3 DEF RegistrationInv, RetryIsSafe, Untouched, Job, NoJob
<1> QED BY <1>1, <1>2, <1>3 DEF Stopped

\* Once the host has cancelled, the linked job, if it has no mark by then, never
\* gets to the button, whatever the worker, the retries and later cancels do
\* (markSubmitAttempted, meetup.service.js, the routes of the queue).
THEOREM CancelStopsSubmitCorrect == RegistrationSpec => CancelStopsSubmit
<1>1. ASSUME NEW m \in Meetups, NEW j \in Job
      PROVE  RegistrationSpec =>
                [](Closed(m) /\ link[m] = j /\ ~marked[j] => [](taps[j] = 0))
  <2>1. Closed(m) /\ link[m] = j /\ ~marked[j] => Stopped(m, j)
    BY DEF Stopped
  <2>2. /\ RegistrationInv /\ JobsTypeOK /\ JobsInv /\ [RegistrationNext]_registrationVars
        /\ Stopped(m, j)
        => Stopped(m, j)'
    BY StoppedStays
  <2>3. JobsTypeOK /\ JobsInv /\ Stopped(m, j) => taps[j] = 0
    BY DEF Stopped, Untouched, JobsInv, SubmittedIsOver, NeverAgain, JobsTypeOK, TableTypeOK
  <2> DEFINE P == Closed(m) /\ link[m] = j /\ ~marked[j]
             S == Stopped(m, j)
             Q == taps[j] = 0
  <2>4. RegistrationSpec => [](P => []Q)
    <3>1. P => S
      BY <2>1
    <3>2. /\ RegistrationInv /\ JobsTypeOK /\ JobsInv /\ [RegistrationNext]_registrationVars
          /\ S
          => S'
      BY <2>2
    <3>3. JobsTypeOK /\ JobsInv /\ S => Q
      BY <2>3
    <3> HIDE DEF P, S, Q
    <3> QED BY <3>1, <3>2, <3>3, RegistrationInvCorrect, PTL DEF RegistrationSpec
  <2> QED BY <2>4
<1> QED BY <1>1 DEF CancelStopsSubmit
-----------------------------------------------------------------------------
(* A cancelled submission is cleaned up.  First what each kind of step     *)
(* leaves alone.                                                           *)

HostStep(r) ==
    \/ RequestStepOf(r) \/ RequestFails(r)
    \/ \E m \in Meetups : HostActs(r, m)
QueueStep(h) == HandlerActs(h) \/ HandlerFails(h)
WorkerMoves == WorkerActs \/ ((WorkerStops \/ WorkerStarts) /\ UNCHANGED hostVars)
AppMoves ==
    SyncEvents \/ (\E k \in Keys : HandEdit(k)) \/ UNCHANGED registrationVars

LEMMA StepKinds ==
    ASSUME [RegistrationNext]_registrationVars
    PROVE  \/ \E r \in Requests : HostStep(r)
           \/ \E h \in Handlers : QueueStep(h)
           \/ WorkerMoves \/ AppMoves \/ Crash
  BY DEF RegistrationNext, HostStep, QueueStep, WorkerMoves, AppMoves

LEMMA HostStepFrame ==
    ASSUME NEW r \in Requests, HostStep(r)
    PROVE  UNCHANGED <<marked, taps, handlerVars, workerVars>>
<1> USE DEF NoJobChange, jobsVars, tableVars
<1>1. CASE RequestStepOf(r)
  BY <1>1 DEF RequestStepOf, EmitForJob, InsertFor, CreateJob, InsertJob, JobRejected,
     SetPending, SetFailed, SetRetried, CloseRow, EmitCancelled, CancelPendingJob,
     CheckAttempt, DeleteJob, OnlyRequest
<1>2. CASE RequestFails(r)
  BY <1>2 DEF RequestFails
<1>3. ASSUME NEW m \in Meetups, HostActs(r, m)
      PROVE  UNCHANGED <<marked, taps, handlerVars, workerVars>>
  BY <1>3 DEF HostActs, CreateMeetup, RetryRegistration, CancelMeetup, Read
<1> QED BY <1>1, <1>2, <1>3 DEF HostStep

LEMMA QueueStepFrame ==
    ASSUME NEW h \in Handlers, QueueStep(h)
    PROVE  UNCHANGED <<rowStatus, link, requestVars, taps, workerVars>>
<1> USE DEF NoWorkerStep, hostVars, meetupVars, OnlySomoim
<1>1. CASE QueueStatement(h)
  BY <1>1 DEF QueueStatement, RequeueStaleJobs, ClaimNextJob, StopClaimedJob,
     CompleteExistingEvent, CompleteJob, GetJob, RequeueJob, FailJob, DropReply
<1>2. CASE CheckMeetup(h)
  BY <1>2 DEF CheckMeetup, GetSubmitPreflight, MarkSubmitAttempted, RecheckPreflight
<1>3. CASE NotifyFailed(h) \/ NotifySucceeded(h) \/ \E j \in Job : NotifyExhausted(h, j)
  BY <1>3 DEF NotifyFailed, NotifySucceeded, NotifyExhausted, EmitFailed, EmitSucceeded,
     EmitExhausted
<1>4. CASE Compensate(h) \/ HandlerFails(h)
  BY <1>4 DEF Compensate, CreateDeleteJob, HandlerFails, QueryFails
<1> QED BY <1>1, <1>2, <1>3, <1>4 DEF QueueStep, HandlerActs

LEMMA WorkerFrame ==
    ASSUME WorkerMoves
    PROVE  UNCHANGED <<tableVars, rowStatus, somoim, link, payload, requestVars, faults>>
  BY DEF WorkerMoves, WorkerActs, WorkerTaps, Tap, ClaimAnswered, PreflightAnswered,
     MarkAnswered, ReportAnswered, CallBreaks, Poll, EventExpected, FillDone, Confirmed,
     Unconfirmed, MarkCallBreaks, FillFails, WorkerStops, WorkerStarts, TableUnchanged,
     hostVars, meetupVars

LEMMA AppFrame ==
    ASSUME AppMoves
    PROVE  UNCHANGED <<jobsVars, rowStatus, somoim, link, payload, requestVars, faults>>
  BY DEF AppMoves, SyncEvents, HandEdit, registrationVars, hostVars, meetupVars

LEMMA CrashFrame ==
    ASSUME RegistrationTypeOK, Crash
    PROVE  /\ UNCHANGED <<tableVars, workerVars, taps, rowStatus, somoim, link, payload>>
           /\ faults' # 0
           /\ \A h \in Handlers : at'[h] = "idle"
           /\ \A r \in Requests : rAt'[r] = "idle"
  BY DEF Crash, ServerCrashes, Fault, NoWorkerStep, meetupVars, RegistrationTypeOK

\* Faults are only counted up.
LEMMA FaultsStay ==
    ASSUME RegistrationTypeOK, [RegistrationNext]_registrationVars, faults' = 0
    PROVE  faults = 0 /\ ~Crash
<1>1. faults' = faults \/ faults' = faults + 1
  <2>1. ASSUME NEW r \in Requests, HostStep(r)
        PROVE  faults' = faults \/ faults' = faults + 1
    <3>1. CASE RequestStepOf(r)
      BY <3>1 DEF RequestStepOf, EmitForJob, JobRejected, SetPending, SetFailed, SetRetried,
         CloseRow, EmitCancelled, CheckAttempt, DeleteJob, OnlyRequest
    <3>2. CASE RequestFails(r)
      BY <3>2 DEF RequestFails, Fault
    <3>3. ASSUME NEW m \in Meetups, HostActs(r, m) PROVE UNCHANGED faults
      BY <3>3 DEF HostActs, CreateMeetup, RetryRegistration, CancelMeetup, Read
    <3> QED BY <2>1, <3>1, <3>2, <3>3 DEF HostStep
  <2>2. ASSUME NEW h \in Handlers, QueueStep(h)
        PROVE  faults' = faults \/ faults' = faults + 1
    BY <2>2 DEF QueueStep, HandlerActs, QueueStatement, CheckMeetup, NotifyFailed,
       NotifySucceeded, NotifyExhausted, TellOrThrow, Compensate, HandlerFails, Fault,
       hostVars
  <2>3. Crash => faults' = faults + 1
    BY DEF Crash, Fault
  <2> QED BY <2>1, <2>2, <2>3, StepKinds, WorkerFrame, AppFrame
<1>2. faults \in Nat
  BY DEF RegistrationTypeOK
<1>3. Crash => faults' = faults + 1
  BY DEF Crash, Fault
<1> QED BY <1>1, <1>2, <1>3
-----------------------------------------------------------------------------
(* What a step does to a meetup, to a request and to a handler.            *)

MeetupSame(m) == somoim'[m] = somoim[m] /\ link'[m] = link[m]
MeetupLinked(m) ==
    /\ somoim'[m] = "pending" /\ link'[m] \in Job
    /\ link[m] = NoJob \/ somoim[m] = "failed"
    /\ \E q \in Requests : rMeetup[q] = m /\ rAt[q] \in {"setPending", "setRetried"}
MeetupRejected(m) ==
    /\ somoim'[m] = "failed" /\ link'[m] = link[m] /\ link[m] = NoJob
    /\ \E q \in Requests : rMeetup[q] = m /\ rAt[q] = "setFailed"
MeetupTold(m) ==
    /\ somoim[m] = "pending" /\ link'[m] = link[m]
    /\ \/ somoim'[m] = "failed"
       \/ /\ somoim'[m] = "registered"
          /\ Closed(m)' =>
                \E h \in Handlers : at'[h] = "createDeleteJob" /\ arg'[h] = link'[m]

LEMMA HostStepOnMeetup ==
    ASSUME RegistrationInv, NEW r \in Requests, HostStep(r), NEW m \in Meetups
    PROVE  MeetupSame(m) \/ MeetupLinked(m) \/ MeetupRejected(m)
<1> USE DEF RegistrationInv
<1>1. /\ link \in [Meetups -> Job \cup {NoJob}] /\ somoim \in [Meetups -> SomoimState]
      /\ rAt[r] # "idle" => rMeetup[r] \in Meetups
  BY DEF RegistrationTypeOK
<1>2. UNCHANGED <<somoim, link>> => MeetupSame(m)
  BY DEF MeetupSame
<1>3. ASSUME LinkRow(rMeetup[r], rJob[r]), rAt[r] \in {"setPending", "setRetried"},
             rAt[r] = "setRetried" => somoim[rMeetup[r]] = "failed"
      PROVE  MeetupSame(m) \/ MeetupLinked(m)
  <2>1. rJob[r] \in Job /\ rMeetup[r] \in Meetups
    BY <1>1, <1>3 DEF JobIsOwn
  <2>2. rAt[r] = "setPending" => link[rMeetup[r]] = NoJob
    BY DEF CreatedFirst, Creating
  <2>3. /\ somoim' = [somoim EXCEPT ![rMeetup[r]] = "pending"]
        /\ link' = [link EXCEPT ![rMeetup[r]] = rJob[r]]
    BY <1>3 DEF LinkRow
  <2>4. CASE rMeetup[r] = m
    BY <1>1, <1>3, <2>1, <2>2, <2>3, <2>4 DEF MeetupLinked
  <2>5. CASE rMeetup[r] # m
    BY <1>1, <2>3, <2>5 DEF MeetupSame
  <2> QED BY <2>4, <2>5
<1>4. CASE SetPending(r)
  BY <1>3, <1>4 DEF SetPending
<1>5. CASE SetRetried(r)
  BY <1>2, <1>3, <1>5 DEF SetRetried, MayRetry
<1>6. CASE SetFailed(r)
  <2>1. /\ somoim' = [somoim EXCEPT ![rMeetup[r]] = "failed"] /\ UNCHANGED link
        /\ rAt[r] = "setFailed"
    BY <1>6 DEF SetFailed
  <2>2. link[rMeetup[r]] = NoJob
    BY <2>1 DEF CreatedFirst, Creating
  <2>3. CASE rMeetup[r] = m
    BY <1>1, <2>1, <2>2, <2>3 DEF MeetupRejected
  <2>4. CASE rMeetup[r] # m
    BY <1>1, <2>1, <2>4 DEF MeetupSame
  <2> QED BY <2>3, <2>4
<1>7. CASE (\E j \in Job : EmitForJob(r, j)) \/ JobRejected(r) \/ CloseRow(r)
           \/ EmitCancelled(r) \/ CheckAttempt(r) \/ DeleteJob(r) \/ RequestFails(r)
  BY <1>2, <1>7 DEF EmitForJob, JobRejected, CloseRow, EmitCancelled, CheckAttempt,
     DeleteJob, RequestFails, OnlyRequest, meetupVars
<1>8. ASSUME NEW n \in Meetups, HostActs(r, n) PROVE MeetupSame(m)
  BY <1>2, <1>8 DEF HostActs, CreateMeetup, RetryRegistration, CancelMeetup, Read,
     meetupVars
<1> QED BY <1>4, <1>5, <1>6, <1>7, <1>8 DEF HostStep, RequestStepOf

LEMMA QueueStepOnMeetup ==
    ASSUME RegistrationInv, JobsTypeOK, NEW h \in Handlers, QueueStep(h), NEW m \in Meetups
    PROVE  MeetupSame(m) \/ MeetupTold(m)
<1> USE DEF RegistrationInv
<1>1. UNCHANGED <<rowStatus, link>> /\ somoim \in [Meetups -> SomoimState]
  BY QueueStepFrame DEF RegistrationTypeOK
<1>2. UNCHANGED somoim => MeetupSame(m)
  BY <1>1 DEF MeetupSame
<1>3. ASSUME NEW j, Tell(j, "failed") PROVE MeetupSame(m) \/ MeetupTold(m)
  BY <1>1, <1>3 DEF Tell, Told, MeetupSame, MeetupTold
<1>4. CASE QueueStatement(h) \/ CheckMeetup(h) \/ Compensate(h) \/ HandlerFails(h)
  BY <1>2, <1>4 DEF QueueStatement, CheckMeetup, Compensate, HandlerFails, hostVars,
     meetupVars
<1>5. CASE NotifyFailed(h) \/ \E j \in Job : NotifyExhausted(h, j)
  BY <1>2, <1>3, <1>5 DEF NotifyFailed, NotifyExhausted, TellOrThrow
<1>6. CASE NotifySucceeded(h)
  <2>1. CASE EmitSucceeded(h, MustCompensate(arg[h])) /\ Tell(arg[h], "registered")
    <3>1. CASE m \in Told(arg[h])
      <4>1. somoim[m] = "pending" /\ link[m] = arg[h] /\ somoim'[m] = "registered"
        BY <2>1, <3>1 DEF Tell, Told
      <4>2. Closed(m)' => MustCompensate(arg[h])
        BY <1>1, <3>1 DEF Closed, MustCompensate
      <4>3. MustCompensate(arg[h]) => at'[h] = "createDeleteJob" /\ arg'[h] = arg[h]
        BY <2>1 DEF EmitSucceeded, Goto, JobsTypeOK, HandlerTypeOK
      <4> QED BY <1>1, <4>1, <4>2, <4>3 DEF MeetupTold
    <3>2. CASE m \notin Told(arg[h])
      BY <1>1, <2>1, <3>2 DEF Tell, MeetupSame
    <3> QED BY <3>1, <3>2
  <2>2. CASE UNCHANGED somoim
    BY <1>2, <2>2
  <2> QED BY <1>6, <2>1, <2>2 DEF NotifySucceeded
<1> QED BY <1>4, <1>5, <1>6 DEF QueueStep, HandlerActs

LEMMA MeetupSteps ==
    ASSUME RegistrationInv, JobsTypeOK, [RegistrationNext]_registrationVars,
           NEW m \in Meetups
    PROVE  MeetupSame(m) \/ MeetupLinked(m) \/ MeetupRejected(m) \/ MeetupTold(m)
<1>1. WorkerMoves \/ AppMoves \/ Crash => MeetupSame(m)
  BY WorkerFrame, AppFrame, CrashFrame DEF MeetupSame, RegistrationInv
<1> QED BY <1>1, StepKinds, HostStepOnMeetup, QueueStepOnMeetup

LEMMA MarksStay ==
    ASSUME JobsTypeOK, [RegistrationNext]_registrationVars, RegistrationTypeOK,
           NEW j \in Job, marked[j]
    PROVE  marked'[j]
<1>1. ASSUME NEW h \in Handlers, QueueStep(h) PROVE marked'[j]
  <2> USE DEF OnlyStatus, tableVars
  <2>1. CASE QueueStatement(h)
    BY <2>1 DEF QueueStatement, RequeueStaleJobs, ClaimNextJob, StopClaimedJob,
       CompleteExistingEvent, CompleteJob, GetJob, RequeueJob, FailJob, DropReply
  <2>2. CASE CheckMeetup(h)
    BY <2>2 DEF CheckMeetup, GetSubmitPreflight, MarkSubmitAttempted, RecheckPreflight,
       JobsTypeOK, TableTypeOK
  <2>3. CASE NotifyFailed(h) \/ NotifySucceeded(h) \/ \E i \in Job : NotifyExhausted(h, i)
    BY <2>3 DEF NotifyFailed, NotifySucceeded, NotifyExhausted, EmitFailed, EmitSucceeded,
       EmitExhausted
  <2>4. CASE Compensate(h) \/ HandlerFails(h)
    BY <2>4 DEF Compensate, CreateDeleteJob, InsertJob, HandlerFails, QueryFails
  <2> QED BY <1>1, <2>1, <2>2, <2>3, <2>4 DEF QueueStep, HandlerActs
<1>2. ASSUME NEW r \in Requests, HostStep(r) PROVE marked'[j]
  BY <1>2, HostStepFrame
<1>3. WorkerMoves \/ AppMoves \/ Crash => marked'[j]
  BY WorkerFrame, AppFrame, CrashFrame DEF tableVars, jobsVars
<1> QED BY <1>1, <1>2, <1>3, StepKinds

\* A meetup that is registered or whose job is marked keeps that job, and its
\* registration.
LEMMA SettledStays ==
    ASSUME RegistrationInv, JobsTypeOK, [RegistrationNext]_registrationVars,
           NEW m \in Meetups, Settled(m)
    PROVE  /\ Settled(m)' /\ link'[m] = link[m]
           /\ somoim[m] = "registered" => somoim'[m] = "registered"
<1>1. link[m] \in Job /\ link[m] # NoJob
  BY DEF RegistrationInv, RegistrationTypeOK, Settled
<1>2. ~MeetupRejected(m)
  BY <1>1 DEF MeetupRejected
<1>3. ~MeetupLinked(m)
  BY <1>1 DEF MeetupLinked, RegistrationInv, RetryIsSafe, Settled
<1>4. MeetupSame(m) \/ MeetupTold(m)
  BY <1>2, <1>3, MeetupSteps
<1>5. link'[m] = link[m]
  BY <1>4 DEF MeetupSame, MeetupTold
<1>6. somoim[m] = "registered" => somoim'[m] = "registered"
  BY <1>4 DEF MeetupSame, MeetupTold
<1>7. marked[link[m]] => marked'[link[m]]
  BY <1>1, MarksStay DEF RegistrationInv
<1> QED BY <1>1, <1>5, <1>6, <1>7 DEF Settled

\* A row is closed by its cancel request.
LEMMA ClosedSteps ==
    ASSUME RegistrationInv, [RegistrationNext]_registrationVars,
           NEW m \in Meetups, Closed(m)', ~Closed(m)
    PROVE  \E r \in Requests : rMeetup'[r] = m /\ rAt'[r] = "emitCancelled"
<1> USE DEF RegistrationInv, Closed
<1>1. ~UNCHANGED rowStatus
  OBVIOUS
<1>2. ~WorkerMoves /\ ~AppMoves /\ ~Crash
  BY <1>1, WorkerFrame, AppFrame, CrashFrame
<1>3. ASSUME NEW h \in Handlers, QueueStep(h) PROVE FALSE
  BY <1>1, <1>3, QueueStepFrame
<1>4. PICK r \in Requests : HostStep(r)
  BY <1>2, <1>3, StepKinds
<1>5. CASE CloseRow(r)
  <2>1. /\ rowStatus' = [rowStatus EXCEPT ![rMeetup[r]] = "closed"]
        /\ rAt' = [rAt EXCEPT ![r] = "emitCancelled"] /\ rMeetup' = rMeetup
    BY <1>5 DEF CloseRow, Continue
  <2>2. rMeetup[r] = m
    BY <2>1 DEF RegistrationTypeOK
  <2> QED BY <2>1, <2>2 DEF RegistrationTypeOK
<1>6. ~CloseRow(r) /\ RequestStepOf(r) => UNCHANGED rowStatus
  BY DEF RequestStepOf, EmitForJob, JobRejected, SetPending, SetFailed, SetRetried,
     EmitCancelled, CheckAttempt, DeleteJob, OnlyRequest, meetupVars
<1>7. ASSUME NEW n \in Meetups, HostActs(r, n) PROVE FALSE
  BY <1>7 DEF HostActs, CreateMeetup, RetryRegistration, CancelMeetup, Read, meetupVars,
     RegistrationTypeOK
<1>8. RequestFails(r) => UNCHANGED rowStatus
  BY DEF RequestFails, meetupVars
<1> QED BY <1>1, <1>4, <1>5, <1>6, <1>7, <1>8 DEF HostStep
-----------------------------------------------------------------------------
(* The rows of the queue.                                                  *)

SameRows ==
    /\ UNCHANGED <<type, payload>>
    /\ \A j \in Job : status'[j] = "absent" <=> status[j] = "absent"
NewRow(j, t, m) ==
    /\ IsNextId(j)
    /\ status' = [status EXCEPT ![j] = "pending"]
    /\ type' = [type EXCEPT ![j] = t]
    /\ payload' = [payload EXCEPT ![j] = m]

\* A new row is a create job, or the delete job of a meetup that has its job.
NewRows ==
    \/ SameRows
    \/ \E j \in Job, m \in Meetups : NewRow(j, "create_meetup", m)
    \/ \E j \in Job, m \in Meetups : NewRow(j, "delete_meetup", m) /\ Settled(m)

LEMMA HostStepRows ==
    ASSUME RegistrationInv, JobsTypeOK, CancelIsCurrent,
           \A j \in Job : status[j] # "absent" => status'[j] # "absent",
           NEW r \in Requests, HostStep(r)
    PROVE  NewRows
<1> USE DEF NoJobChange, jobsVars, tableVars
<1>1. UNCHANGED <<tableVars, payload>> => SameRows
  BY DEF SameRows
<1>2. rAt[r] # "idle" => rMeetup[r] \in Meetups
  BY DEF RegistrationInv, RegistrationTypeOK
<1>3. ASSUME NEW j \in Job, NEW t, InsertFor(j, t, rMeetup[r])
      PROVE  NewRow(j, t, rMeetup[r])
  BY <1>3 DEF InsertFor, CreateJob, InsertJob, NewRow
<1>4. ASSUME NEW j \in Job, EmitForJob(r, j) PROVE NewRows
  <2>1. NewRow(j, "create_meetup", rMeetup[r]) /\ rMeetup[r] \in Meetups
    BY <1>2, <1>3, <1>4 DEF EmitForJob
  <2> QED BY <2>1 DEF NewRows
<1>5. CASE DeleteJob(r)
  <2>1. rMeetup[r] \in Meetups /\ Settled(rMeetup[r])
    BY <1>2, <1>5 DEF DeleteJob, CancelIsCurrent, Cancelling
  <2>2. ASSUME NEW j \in Job, InsertFor(j, "delete_meetup", rMeetup[r]) PROVE NewRows
    <3>1. NewRow(j, "delete_meetup", rMeetup[r])
      BY <1>3, <2>2
    <3> QED BY <2>1, <3>1 DEF NewRows
  <2> QED BY <1>1, <1>5, <2>2 DEF DeleteJob, NewRows
<1>6. CASE EmitCancelled(r)
  <2>1. UNCHANGED <<type, payload>>
    BY <1>6 DEF EmitCancelled, CancelPendingJob
  <2>2. \A j \in Job : status[j] = "absent" => status'[j] = "absent"
    BY <1>6 DEF EmitCancelled, CancelPendingJob, JobsTypeOK, TableTypeOK
  <2> QED BY <2>1, <2>2 DEF SameRows, NewRows
<1>7. CASE JobRejected(r) \/ SetPending(r) \/ SetFailed(r) \/ SetRetried(r) \/ CloseRow(r)
           \/ CheckAttempt(r) \/ RequestFails(r)
  BY <1>1, <1>7 DEF JobRejected, SetPending, SetFailed, SetRetried, CloseRow, CheckAttempt,
     RequestFails, OnlyRequest, NewRows
<1>8. ASSUME NEW m \in Meetups, HostActs(r, m) PROVE NewRows
  BY <1>1, <1>8 DEF HostActs, CreateMeetup, RetryRegistration, CancelMeetup, Read, NewRows
<1> QED BY <1>4, <1>5, <1>6, <1>7, <1>8 DEF HostStep, RequestStepOf

\* The listener of a late registration asks for the deletion of a meetup that is
\* registered with the job of its handler.
LEMMA QueueStepRows ==
    ASSUME RegistrationInv, JobsTypeOK, CompensatesOwn,
           \A j \in Job : status[j] # "absent" => status'[j] # "absent",
           NEW h \in Handlers, QueueStep(h)
    PROVE  NewRows
<1>1. CASE QueueStatement(h) \/ CheckMeetup(h) \/ HandlerFails(h)
  <2>1. NoNewRows
    BY <1>1, NothingInserted DEF HandlerFails
  <2>2. UNCHANGED <<type, payload>>
    BY <1>1 DEF QueueStatement, CheckMeetup, HandlerFails, hostVars, RequeueStaleJobs,
       ClaimNextJob, StopClaimedJob, CompleteExistingEvent, CompleteJob, GetJob, RequeueJob,
       FailJob, DropReply, GetSubmitPreflight, MarkSubmitAttempted, RecheckPreflight,
       QueryFails, OnlyStatus, tableVars
  <2> QED BY <2>1, <2>2 DEF NewRows, SameRows, NoNewRows
<1>2. CASE NotifyFailed(h) \/ NotifySucceeded(h) \/ \E j \in Job : NotifyExhausted(h, j)
  <2>1. UNCHANGED <<type, payload, status>>
    BY <1>2 DEF NotifyFailed, NotifySucceeded, NotifyExhausted, EmitFailed, EmitSucceeded,
       EmitExhausted, OnlySomoim, tableVars
  <2> QED BY <2>1 DEF NewRows, SameRows
<1>3. CASE Compensate(h)
  <2>1. CASE CreateDeleteJob(h, NoJob) /\ UNCHANGED payload
    BY <2>1 DEF CreateDeleteJob, tableVars, NewRows, SameRows
  <2>2. ASSUME NEW m \in Meetups, NEW j \in Job, link[m] = arg[h], CreateDeleteJob(h, j),
               payload' = [payload EXCEPT ![j] = m]
        PROVE  NewRows
    <3>1. NewRow(j, "delete_meetup", m)
      BY <2>2 DEF CreateDeleteJob, InsertJob, NewRow, Job, NoJob
    <3>2. PICK n \in Meetups : link[n] = arg[h] /\ somoim[n] = "registered"
      BY <2>2 DEF CreateDeleteJob, CompensatesOwn
    <3>3. arg[h] \in Job /\ arg[h] # NoJob
      BY <2>2 DEF CreateDeleteJob, JobsTypeOK, HandlerTypeOK, ClaimStep, Job, NoJob
    <3>4. n = m
      BY <2>2, <3>2, <3>3 DEF RegistrationInv, LinkIsOwn
    <3> QED BY <3>1, <3>2, <3>3, <3>4 DEF NewRows, Settled
  <2> QED BY <1>3, <2>1, <2>2 DEF Compensate
<1> QED BY <1>1, <1>2, <1>3 DEF QueueStep, HandlerActs

LEMMA RowsOfStep ==
    ASSUME RegistrationInv, JobsTypeOK, JobsInv, CancelIsCurrent, CompensatesOwn,
           [RegistrationNext]_registrationVars
    PROVE  /\ NewRows
           /\ \A j \in Job : status[j] # "absent" =>
                 /\ status'[j] # "absent"
                 /\ type'[j] = type[j] /\ payload'[j] = payload[j]
<1>1. \A j \in Job : status[j] # "absent" => status'[j] # "absent"
  BY StepRefines, QueueFacts DEF RegistrationInv
<1>2. WorkerMoves \/ AppMoves \/ Crash => NewRows
  BY WorkerFrame, AppFrame, CrashFrame DEF tableVars, jobsVars, NewRows, SameRows,
     RegistrationInv
<1>3. NewRows
  BY <1>1, <1>2, StepKinds, HostStepRows, QueueStepRows
<1>4. /\ type \in [Job -> JobType] /\ payload \in [Job -> Meetups \cup {NoMeetup}]
      /\ status \in [Job -> Status]
  BY DEF JobsTypeOK, TableTypeOK, RegistrationInv, RegistrationTypeOK
<1>5. ASSUME NEW i \in Job, status[i] # "absent"
      PROVE  type'[i] = type[i] /\ payload'[i] = payload[i]
  <2>1. CASE SameRows
    BY <2>1 DEF SameRows
  <2>2. ASSUME NEW j \in Job, NEW t, NEW m, NewRow(j, t, m)
        PROVE  type'[i] = type[i] /\ payload'[i] = payload[i]
    BY <1>4, <1>5, <2>2 DEF NewRow, IsNextId
  <2> QED BY <1>3, <2>1, <2>2 DEF NewRows
<1> QED BY <1>1, <1>3, <1>5
-----------------------------------------------------------------------------
(* The handlers, the worker and the button.                                *)

HandlerSame(h) == at'[h] = at[h] /\ arg'[h] = arg[h] /\ answer'[h] = answer[h]

LEMMA QueueStepOthers ==
    ASSUME JobsTypeOK, NEW g \in Handlers, QueueStep(g), NEW h \in Handlers \ {g}
    PROVE  HandlerSame(h)
<1> USE DEF HandlerSame, Goto, Respond, RespondAfter
<1>1. /\ at \in [Handlers -> Step] /\ arg \in [Handlers -> Job \cup {NoJob}]
      /\ answer \in [Handlers -> Answer]
  BY DEF JobsTypeOK, HandlerTypeOK
<1>2. ASSUME NEW stale \in SUBSET Job, RequeueStaleJobs(g, stale) PROVE HandlerSame(h)
  BY <1>1, <1>2 DEF RequeueStaleJobs
<1>3. CASE ClaimNextJob(g)
  BY <1>1, <1>3 DEF ClaimNextJob
<1>4. CASE StopClaimedJob(g) \/ CompleteExistingEvent(g) \/ CompleteJob(g)
  BY <1>1, <1>4 DEF StopClaimedJob, CompleteExistingEvent, CompleteJob
<1>5. CASE GetJob(g) \/ RequeueJob(g) \/ FailJob(g)
  BY <1>1, <1>5 DEF GetJob, RequeueJob, FailJob
<1>6. CASE DropReply(g)
  BY <1>1, <1>6 DEF DropReply, Release, Serve
<1>7. CASE CheckMeetup(g)
  BY <1>1, <1>7 DEF CheckMeetup, GetSubmitPreflight, MarkSubmitAttempted, RecheckPreflight
<1>8. CASE NotifyFailed(g) \/ NotifySucceeded(g) \/ \E j \in Job : NotifyExhausted(g, j)
  BY <1>1, <1>8 DEF NotifyFailed, NotifySucceeded, NotifyExhausted, EmitFailed,
     EmitSucceeded, EmitExhausted
<1>9. CASE Compensate(g) \/ HandlerFails(g)
  BY <1>1, <1>9 DEF Compensate, CreateDeleteJob, HandlerFails, QueryFails
<1> QED BY <1>2, <1>3, <1>4, <1>5, <1>6, <1>7, <1>8, <1>9
        DEF QueueStep, HandlerActs, QueueStatement

\* The worker posts to handlers that are free and takes the answers of those that
\* are done.
WorkerPosts(h) ==
    /\ at[h] \in {"idle", "reply"}
    /\ at'[h] \in {"idle", "requeueStaleJobs", "getSubmitPreflight", "getJob",
                   "completeJob", "markSubmitAttempted"}

LEMMA WorkerOnHandlers ==
    ASSUME JobsTypeOK, WorkerMoves, NEW h \in Handlers
    PROVE  HandlerSame(h) \/ WorkerPosts(h)
<1> USE DEF HandlerSame, WorkerPosts, Post, PostFailure, Serve, Release, Free, Answered
<1>1. /\ at \in [Handlers -> Step] /\ arg \in [Handlers -> Job \cup {NoJob}]
      /\ answer \in [Handlers -> Answer]
  BY DEF JobsTypeOK, HandlerTypeOK
<1>2. CASE ClaimAnswered \/ PreflightAnswered
  BY <1>1, <1>2 DEF ClaimAnswered, PreflightAnswered
<1>3. CASE MarkAnswered \/ ReportAnswered
  BY <1>1, <1>3 DEF MarkAnswered, ReportAnswered
<1>4. CASE WorkerTaps \/ CallBreaks \/ WorkerStops \/ WorkerStarts
  BY <1>1, <1>4 DEF WorkerTaps, Tap, CallBreaks, WorkerStops, WorkerStarts, handlerVars
<1>5. ASSUME NEW g \in Handlers,
             \/ Poll(g) \/ Unconfirmed(g) \/ MarkCallBreaks(g)
             \/ \E b \in BOOLEAN : FillFails(g, b)
      PROVE  HandlerSame(h) \/ WorkerPosts(h)
  BY <1>1, <1>5 DEF Poll, Unconfirmed, MarkCallBreaks, FillFails
<1>6. ASSUME NEW g \in Handlers, EventExpected(g)
      PROVE  HandlerSame(h) \/ WorkerPosts(h)
  BY <1>1, <1>6 DEF EventExpected, FillDone, Confirmed
<1> QED BY <1>2, <1>3, <1>4, <1>5, <1>6 DEF WorkerMoves, WorkerActs

\* The worker comes to the button only through a mark that was answered.
LEMMA WorkerToButton ==
    ASSUME JobsTypeOK, WorkerMoves
    PROVE  /\ wAt' = "tapping" =>
                 /\ wAt = "marking" /\ at[wCall] = "reply" /\ answer[wCall] = "ok"
                 /\ wJob' = wJob
           /\ wAt' = "marking" => at'[wCall'] = "markSubmitAttempted"
<1> USE DEF Post, PostFailure, Resume, PollAgain, WorkerBecomes
<1>1. CASE \/ ClaimAnswered \/ PreflightAnswered \/ ReportAnswered \/ CallBreaks
           \/ WorkerTaps \/ WorkerStops \/ WorkerStarts
  BY <1>1 DEF ClaimAnswered, PreflightAnswered, ReportAnswered, CallBreaks, WorkerTaps, Tap,
     WorkerStops, WorkerStarts
<1>2. CASE MarkAnswered
  BY <1>2 DEF MarkAnswered, Answered
<1>3. ASSUME NEW h \in Handlers,
             \/ Poll(h) \/ Unconfirmed(h) \/ MarkCallBreaks(h) \/ Confirmed(h)
             \/ \E b \in BOOLEAN : FillFails(h, b)
      PROVE  wAt' # "tapping" /\ wAt' # "marking"
  BY <1>3 DEF Poll, Unconfirmed, MarkCallBreaks, Confirmed, FillFails
<1>4. ASSUME NEW h \in Handlers, FillDone(h)
      PROVE  /\ wAt' # "tapping"
             /\ wAt' = "marking" => at'[wCall'] = "markSubmitAttempted"
  BY <1>4 DEF FillDone, Serve, JobsTypeOK, HandlerTypeOK
<1> QED BY <1>1, <1>2, <1>3, <1>4 DEF WorkerMoves, WorkerActs, EventExpected

\* Whoever is about to press has marked a job that nothing puts back.
LEMMA PressingIsOver ==
    ASSUME JobsTypeOK, JobsInv, NEW j \in Job, Pressing(j)
    PROVE  NeverAgain(j)
<1>1. taps[j] > 0 => NeverAgain(j)
  BY DEF JobsInv, SubmittedIsOver
<1>2. wAt = "tapping" /\ wJob = j => NeverAgain(j)
  BY DEF JobsInv, TapIsSafe
<1>3. wAt = "marking" /\ wJob = j /\ at[wCall] = "reply" /\ answer[wCall] = "ok"
      => NeverAgain(j)
  BY DEF JobsInv, MarkIsOurs
<1> QED BY <1>1, <1>2, <1>3 DEF Pressing

\* A job comes to the button only by a mark, and no cancelled meetup is linked to
\* it then.
LEMMA PressingSteps ==
    ASSUME RegistrationInv, JobsTypeOK, JobsInv, [RegistrationNext]_registrationVars,
           NEW j \in Job, Pressing(j)'
    PROVE  Pressing(j) \/ (~Cancelled(j) /\ UNCHANGED hostVars)
<1>1. ASSUME UNCHANGED <<taps, wAt, wJob, wCall, at, answer>> PROVE Pressing(j)
  BY <1>1 DEF Pressing
<1>2. ASSUME NEW r \in Requests, HostStep(r) PROVE Pressing(j)
  BY <1>1, <1>2, HostStepFrame DEF handlerVars, workerVars
<1>3. CASE AppMoves
  BY <1>1, <1>3, AppFrame DEF jobsVars, handlerVars, workerVars
<1>4. CASE Crash
  <2>1. UNCHANGED <<taps, wAt, wJob, wCall>> /\ at' = [h \in Handlers |-> "idle"]
    BY <1>4, CrashFrame DEF workerVars, RegistrationInv, Crash, ServerCrashes
  <2>2. wAt = "marking" => wCall \in Handlers
    BY DEF JobsTypeOK, WorkerTypeOK, Waiting
  <2> QED BY <2>1, <2>2 DEF Pressing
<1>5. CASE WorkerMoves
  <2>1. UNCHANGED taps \/ Tap
    BY <1>5 DEF WorkerMoves, WorkerActs, WorkerTaps, ClaimAnswered, PreflightAnswered,
       MarkAnswered, ReportAnswered, CallBreaks, Poll, EventExpected, FillDone, Confirmed,
       Unconfirmed, MarkCallBreaks, FillFails, WorkerStops, WorkerStarts, TableUnchanged
  <2>2. taps'[j] > 0 => Pressing(j)
    BY <2>1 DEF Tap, Pressing, JobsTypeOK, TableTypeOK
  <2>3. wAt' = "tapping" /\ wJob' = j => Pressing(j)
    BY <1>5, WorkerToButton DEF Pressing
  <2>4. wAt' = "marking" => at'[wCall'] # "reply"
    BY <1>5, WorkerToButton
  <2> QED BY <2>2, <2>3, <2>4 DEF Pressing
<1>6. ASSUME NEW h \in Handlers, QueueStep(h)
      PROVE  Pressing(j) \/ (~Cancelled(j) /\ UNCHANGED hostVars)
  <2>1. UNCHANGED <<taps, wAt, wJob, wCall>>
    BY <1>6, QueueStepFrame DEF workerVars
  <2>2. CASE taps'[j] > 0 \/ (wAt' = "tapping" /\ wJob' = j)
    BY <2>1, <2>2 DEF Pressing
  <2>3. CASE wAt' = "marking" /\ wJob' = j /\ at'[wCall'] = "reply" /\ answer'[wCall'] = "ok"
    <3>1. wAt = "marking" /\ wJob = j /\ at'[wCall] = "reply" /\ answer'[wCall] = "ok"
      BY <2>1, <2>3
    <3>2. CASE h # wCall
      <4>1. wCall \in Handlers \ {h}
        BY <3>1, <3>2 DEF JobsTypeOK, WorkerTypeOK, Waiting
      <4>2. HandlerSame(wCall)
        BY <1>6, <4>1, QueueStepOthers
      <4> QED BY <3>1, <4>2 DEF HandlerSame, Pressing
    <3>3. CASE h = wCall
      <4>1. /\ at[h] \in {"idle", "markSubmitAttempted", "recheckPreflight",
                          "stopAfterRecheck", "reply"}
            /\ at[h] # "idle" => arg[h] = j
            /\ at'[h] = "reply" /\ answer'[h] = "ok"
        BY <3>1, <3>3 DEF JobsInv, MarkIsOurs
      <4>2. at \in [Handlers -> Step] /\ answer \in [Handlers -> Answer]
        BY DEF JobsTypeOK, HandlerTypeOK
      <4>3. CASE MarkSubmitAttempted(h, Cancelled(arg[h])) /\ UNCHANGED hostVars
        <5>1. arg[h] = j
          BY <4>1, <4>3 DEF MarkSubmitAttempted
        <5>2. ~MayMark(j, Cancelled(j)) => at'[h] = "recheckPreflight"
          BY <4>2, <4>3, <5>1 DEF MarkSubmitAttempted, Goto
        <5>3. ~Cancelled(j)
          BY <4>1, <5>2 DEF MayMark
        <5> QED BY <4>3, <5>3
      <4>4. CASE RecheckPreflight(h, Cancelled(arg[h])) \/ StopClaimedJob(h) \/ HandlerFails(h)
        <5>1. answer'[h] # "ok" \/ at'[h] # "reply"
          BY <4>2, <4>4, <4>1 DEF RecheckPreflight, StopClaimedJob, HandlerFails, QueryFails,
             Goto, Respond, RespondAfter
        <5> QED BY <4>1, <5>1
      <4>5. CASE DropReply(h)
        BY <3>1, <3>3, <4>5 DEF DropReply, WorkerWaitsFor, Waiting
      <4>6. ~(\E stale \in SUBSET Job : RequeueStaleJobs(h, stale)) /\ ~ClaimNextJob(h)
        BY <4>1 DEF RequeueStaleJobs, ClaimNextJob
      <4>7. /\ ~CompleteExistingEvent(h) /\ ~CompleteJob(h) /\ ~GetJob(h) /\ ~RequeueJob(h)
            /\ ~FailJob(h)
            /\ ~GetSubmitPreflight(h, Cancelled(arg[h]), ExistingEvent(arg[h]))
        BY <4>1 DEF CompleteExistingEvent, CompleteJob, GetJob, RequeueJob, FailJob,
           GetSubmitPreflight
      <4>8. /\ ~NotifyFailed(h) /\ ~NotifySucceeded(h) /\ ~Compensate(h)
            /\ ~\E i \in Job : NotifyExhausted(h, i)
        BY <4>1 DEF NotifyFailed, NotifySucceeded, NotifyExhausted, EmitFailed, EmitSucceeded,
           EmitExhausted, Compensate, CreateDeleteJob
      <4> QED BY <1>6, <4>3, <4>4, <4>5, <4>6, <4>7, <4>8 DEF QueueStep, HandlerActs,
              QueueStatement, CheckMeetup
    <3> QED BY <3>2, <3>3
  <2> QED BY <2>2, <2>3 DEF Pressing
<1> QED BY <1>2, <1>3, <1>4, <1>5, <1>6, StepKinds
-----------------------------------------------------------------------------
(* What a cancel request reads and what it leaves behind.                  *)

RequestSame(r) ==
    rAt'[r] = rAt[r] /\ rMeetup'[r] = rMeetup[r] /\ rState'[r] = rState[r] /\ rJob'[r] = rJob[r]
CancelStarts(r) ==
    /\ rAt'[r] = "closeRow" /\ UNCHANGED <<somoim, link>>
    /\ \E m \in Meetups :
          rMeetup'[r] = m /\ rState'[r] = somoim[m] /\ rJob'[r] = link[m]
CancelMoves(r) ==
    /\ UNCHANGED <<somoim, link, marked>>
    /\ rMeetup'[r] = rMeetup[r] /\ rState'[r] = rState[r] /\ rJob'[r] = rJob[r]
    /\ \/ rAt[r] = "closeRow" /\ rAt'[r] = "emitCancelled"
       \/ rAt[r] = "emitCancelled" /\ rState[r] = "registered" /\ rAt'[r] = "deleteJob"
       \/ /\ rAt[r] = "emitCancelled" /\ rState[r] = "pending" /\ rJob[r] # NoJob
          /\ rAt'[r] = "didAttemptSubmit"
       \/ rAt[r] = "didAttemptSubmit" /\ marked[rJob[r]] /\ rAt'[r] = "deleteJob"

LEMMA OtherRequests ==
    ASSUME RegistrationTypeOK, NEW q \in Requests, HostStep(q), NEW r \in Requests \ {q}
    PROVE  RequestSame(r)
<1> USE DEF RequestSame, Continue, ContinueWith, EndRequest
<1>1. /\ rAt \in [Requests -> RequestStep] /\ rMeetup \in [Requests -> Meetups \cup {NoMeetup}]
      /\ rState \in [Requests -> SomoimState] /\ rJob \in [Requests -> Job \cup {NoJob}]
  BY DEF RegistrationTypeOK
<1>2. EndRequest(q) => RequestSame(r)
  BY <1>1
<1>3. ASSUME NEW step, Continue(q, step) PROVE RequestSame(r)
  BY <1>1, <1>3
<1>4. ASSUME NEW step, NEW j, ContinueWith(q, step, j) PROVE RequestSame(r)
  BY <1>1, <1>4
<1>5. ASSUME NEW m \in Meetups, NEW step, Read(q, m, step) PROVE RequestSame(r)
  BY <1>1, <1>5 DEF Read
<1> HIDE DEF RequestSame, Continue, ContinueWith, EndRequest
<1>6. ASSUME NEW j \in Job, EmitForJob(q, j) PROVE RequestSame(r)
  BY <1>4, <1>6 DEF EmitForJob
<1>7. CASE JobRejected(q) \/ SetPending(q) \/ SetFailed(q) \/ SetRetried(q) \/ CloseRow(q)
  BY <1>2, <1>3, <1>7 DEF JobRejected, SetPending, SetFailed, SetRetried, CloseRow
<1>8. CASE EmitCancelled(q) \/ CheckAttempt(q) \/ DeleteJob(q) \/ RequestFails(q)
  BY <1>2, <1>3, <1>8 DEF EmitCancelled, CheckAttempt, DeleteJob, RequestFails
<1>9. ASSUME NEW m \in Meetups, HostActs(q, m) PROVE RequestSame(r)
  <2>1. CASE CreateMeetup(q, m)
    BY <1>1, <2>1 DEF CreateMeetup, RequestSame
  <2>2. CASE RetryRegistration(q, m) \/ CancelMeetup(q, m)
    BY <1>5, <2>2 DEF RetryRegistration, CancelMeetup
  <2> QED BY <1>9, <2>1, <2>2 DEF HostActs
<1> QED BY <1>6, <1>7, <1>8, <1>9 DEF HostStep, RequestStepOf

LEMMA OwnRequest ==
    ASSUME RegistrationTypeOK, NEW r \in Requests, HostStep(r)
    PROVE  CancelMoves(r) \/ CancelStarts(r) \/ rAt'[r] \notin Cancelling
<1> USE DEF Cancelling
<1>1. /\ rAt \in [Requests -> RequestStep] /\ rMeetup \in [Requests -> Meetups \cup {NoMeetup}]
      /\ rState \in [Requests -> SomoimState] /\ rJob \in [Requests -> Job \cup {NoJob}]
  BY DEF RegistrationTypeOK
<1>2. EndRequest(r) => rAt'[r] = "idle"
  BY <1>1 DEF EndRequest
<1>3. ASSUME NEW step, Continue(r, step)
      PROVE  /\ rAt'[r] = step /\ rMeetup'[r] = rMeetup[r] /\ rState'[r] = rState[r]
             /\ rJob'[r] = rJob[r]
  BY <1>1, <1>3 DEF Continue
<1>4. ASSUME NEW step, NEW j, ContinueWith(r, step, j) PROVE rAt'[r] = step
  BY <1>1, <1>4 DEF ContinueWith
<1>5. ASSUME NEW j \in Job, EmitForJob(r, j) PROVE rAt'[r] \notin Cancelling
  <2>1. rAt'[r] = IF rAt[r] = "emitCreated" THEN "setPending" ELSE "setRetried"
    BY <1>4, <1>5 DEF EmitForJob
  <2> QED BY <2>1
<1>6. CASE JobRejected(r) \/ SetPending(r) \/ SetFailed(r) \/ SetRetried(r) \/ DeleteJob(r)
           \/ RequestFails(r)
  <2>1. CASE JobRejected(r)
    BY <1>2, <1>3, <2>1 DEF JobRejected
  <2>2. CASE ~JobRejected(r)
    BY <1>2, <1>6, <2>2 DEF SetPending, SetFailed, SetRetried, DeleteJob, RequestFails
  <2> QED BY <2>1, <2>2
<1>7. CASE CloseRow(r)
  <2>1. UNCHANGED <<somoim, link, marked>>
    BY <1>7 DEF CloseRow, NoJobChange, jobsVars, tableVars
  <2> QED BY <1>3, <1>7, <2>1 DEF CloseRow, CancelMoves
<1>8. CASE EmitCancelled(r)
  <2>1. UNCHANGED <<somoim, link, marked>>
    BY <1>8, HostStepFrame DEF EmitCancelled, meetupVars
  <2>2. CASE rState[r] = "registered" /\ Continue(r, "deleteJob")
    BY <1>3, <1>8, <2>1, <2>2 DEF CancelMoves, EmitCancelled
  <2>3. CASE rState[r] = "pending" /\ rJob[r] # NoJob /\ Continue(r, "didAttemptSubmit")
    BY <1>3, <1>8, <2>1, <2>3 DEF CancelMoves, EmitCancelled
  <2>4. CASE EndRequest(r)
    BY <1>2, <2>4
  <2> QED BY <1>8, <2>2, <2>3, <2>4 DEF EmitCancelled
<1>9. CASE CheckAttempt(r)
  <2>1. UNCHANGED <<somoim, link, marked>>
    BY <1>9, HostStepFrame DEF CheckAttempt, OnlyRequest, meetupVars
  <2>2. CASE DidAttemptSubmit(r)
    BY <1>3, <1>9, <2>1, <2>2 DEF CheckAttempt, CancelMoves, DidAttemptSubmit
  <2>3. CASE ~DidAttemptSubmit(r)
    BY <1>2, <1>9, <2>3 DEF CheckAttempt
  <2> QED BY <2>2, <2>3
<1>10. ASSUME NEW m \in Meetups, HostActs(r, m)
       PROVE  CancelStarts(r) \/ rAt'[r] \notin Cancelling
  <2>1. CASE CreateMeetup(r, m)
    BY <1>1, <2>1 DEF CreateMeetup
  <2>2. CASE RetryRegistration(r, m)
    BY <1>1, <2>2 DEF RetryRegistration, Read
  <2>3. CASE CancelMeetup(r, m)
    BY <1>1, <2>3 DEF CancelMeetup, Read, CancelStarts, meetupVars
  <2> QED BY <1>10, <2>1, <2>2, <2>3 DEF HostActs
<1> QED BY <1>5, <1>6, <1>7, <1>8, <1>9, <1>10 DEF HostStep, RequestStepOf

LEMMA RequestSteps ==
    ASSUME RegistrationTypeOK, [RegistrationNext]_registrationVars, NEW r \in Requests
    PROVE  \/ RequestSame(r) \/ CancelMoves(r) \/ CancelStarts(r)
           \/ rAt'[r] \notin Cancelling
<1>1. ASSUME NEW h \in Handlers, QueueStep(h) PROVE RequestSame(r)
  BY <1>1, QueueStepFrame DEF RequestSame, requestVars
<1>2. WorkerMoves \/ AppMoves => RequestSame(r)
  BY WorkerFrame, AppFrame DEF RequestSame, requestVars
<1>3. Crash => rAt'[r] \notin Cancelling
  BY CrashFrame DEF Cancelling
<1>4. ASSUME NEW q \in Requests, HostStep(q), q # r PROVE RequestSame(r)
  BY <1>4, OtherRequests
<1> QED BY <1>1, <1>2, <1>3, <1>4, OwnRequest, StepKinds

\* A cancel of a registered meetup whose job comes or came to the button does not
\* end before there is a delete job for it.
LEMMA CancelGoesOn ==
    ASSUME RegistrationInv, JobsTypeOK, JobsInv, CancelIsCurrent, OwnKeys,
           [RegistrationNext]_registrationVars, faults' = 0,
           NEW m \in Meetups, NEW r \in Requests, rMeetup[r] = m,
           rAt[r] \in Cancelling \ {"closeRow"},
           somoim[m] = "registered", link[m] # NoJob, Pressing(link[m])
    PROVE  \/ rMeetup'[r] = m /\ rAt'[r] \in Cancelling \ {"closeRow"}
           \/ \E j \in Job : IsDelete(j)' /\ payload'[j] = m
<1> USE DEF Cancelling
<1>1. /\ link[m] \in Job /\ rJob[r] = link[m] /\ rState[r] \in {"registered", "pending"}
      /\ KeyOf \in [Meetups -> Keys]
  BY DEF RegistrationInv, RegistrationTypeOK, CancelIsCurrent
<1>2. marked[link[m]] /\ status[link[m]] # "pending"
  BY <1>1, PressingIsOver DEF NeverAgain
<1>3. CASE RequestSame(r)
  BY <1>3 DEF RequestSame
<1>4. CASE CancelMoves(r)
  BY <1>4 DEF CancelMoves
<1>5. ASSUME HostStep(r)
      PROVE  \/ CancelMoves(r)
             \/ \E j \in Job : IsDelete(j)' /\ payload'[j] = m
  <2>1. CASE EmitCancelled(r)
    <3>1. Continue(r, "deleteJob") \/ Continue(r, "didAttemptSubmit")
      BY <1>1, <1>2, <2>1 DEF EmitCancelled, Job, NoJob
    <3>2. rAt'[r] \in {"deleteJob", "didAttemptSubmit"}
      BY <3>1 DEF Continue, RegistrationInv, RegistrationTypeOK
    <3> QED BY <1>5, <3>2, OwnRequest DEF RegistrationInv, CancelStarts
  <2>2. CASE CheckAttempt(r)
    <3>1. Continue(r, "deleteJob")
      BY <1>1, <1>2, <2>2 DEF CheckAttempt, DidAttemptSubmit
    <3>2. rAt'[r] = "deleteJob"
      BY <3>1 DEF Continue, RegistrationInv, RegistrationTypeOK
    <3> QED BY <1>5, <3>2, OwnRequest DEF RegistrationInv, CancelStarts
  <2>3. CASE DeleteJob(r)
    <3>1. CASE ActiveDelete(KeyOf[m]) /\ NoJobChange
      <4>1. PICK j \in Job : /\ status[j] \in {"pending", "claimed"}
                             /\ type[j] = "delete_meetup" /\ JobKey(j) = KeyOf[m]
        BY <3>1 DEF ActiveDelete
      <4>2. status[j] # "absent" /\ payload[j] \in Meetups
        BY <4>1 DEF RegistrationInv, RegistrationTypeOK
      <4>3. payload[j] = m
        BY <4>1, <4>2 DEF OwnKeys, JobKey
      <4>4. UNCHANGED <<status, type, payload>>
        BY <3>1 DEF NoJobChange, jobsVars, tableVars
      <4> QED BY <4>1, <4>2, <4>3, <4>4 DEF IsDelete
    <3>2. ASSUME NEW j \in Job, InsertFor(j, "delete_meetup", m)
          PROVE  IsDelete(j)' /\ payload'[j] = m
      BY <3>2 DEF InsertFor, CreateJob, InsertJob, IsDelete, JobsTypeOK, TableTypeOK,
         RegistrationInv, RegistrationTypeOK
    <3> QED BY <2>3, <3>1, <3>2 DEF DeleteJob
  <2>4. ~RequestFails(r)
    <3>1. faults = 0
      BY FaultsStay DEF RegistrationInv
    <3> QED BY <3>1 DEF RequestFails, Fault
  <2>5. ~(\E j \in Job : EmitForJob(r, j)) /\ ~JobRejected(r) /\ ~SetPending(r)
    BY DEF EmitForJob, JobRejected, SetPending
  <2>6. ~SetFailed(r) /\ ~SetRetried(r) /\ ~CloseRow(r)
    BY DEF SetFailed, SetRetried, CloseRow
  <2>7. ~\E n \in Meetups : HostActs(r, n)
    BY DEF HostActs, CreateMeetup, RetryRegistration, CancelMeetup, Read
  <2> QED BY <1>5, <2>1, <2>2, <2>3, <2>4, <2>5, <2>6, <2>7 DEF HostStep, RequestStepOf
<1>6. ASSUME NEW h \in Handlers, QueueStep(h) PROVE RequestSame(r)
  BY <1>6, QueueStepFrame DEF RequestSame, requestVars
<1>7. WorkerMoves \/ AppMoves => RequestSame(r)
  BY WorkerFrame, AppFrame DEF RequestSame, requestVars
<1>8. ~Crash
  BY FaultsStay DEF RegistrationInv
<1>9. ASSUME NEW q \in Requests, HostStep(q), q # r PROVE RequestSame(r)
  BY <1>9, OtherRequests DEF RegistrationInv
<1> QED BY <1>3, <1>4, <1>5, <1>6, <1>7, <1>8, <1>9, StepKinds

\* A handler comes to the delete job only from the registration of a meetup that
\* is linked to its job, and leaves that step only with a delete job in the queue.
LEMMA CompensationSteps ==
    ASSUME RegistrationInv, JobsTypeOK, OwnKeys, [RegistrationNext]_registrationVars,
           NEW h \in Handlers
    PROVE  /\ at'[h] = "createDeleteJob" =>
                 \/ at[h] = "createDeleteJob" /\ arg'[h] = arg[h]
                 \/ \E m \in Meetups : link'[m] = arg'[h] /\ somoim'[m] = "registered"
           /\ at[h] = "createDeleteJob" /\ faults' = 0 =>
                 \/ at'[h] = "createDeleteJob" /\ arg'[h] = arg[h]
                 \/ \E m \in Meetups : /\ link[m] = arg[h]
                                       /\ \E j \in Job : IsDelete(j)' /\ payload'[j] = m
<1> DEFINE Begins == at'[h] = "createDeleteJob" =>
               \/ at[h] = "createDeleteJob" /\ arg'[h] = arg[h]
               \/ \E m \in Meetups : link'[m] = arg'[h] /\ somoim'[m] = "registered"
           Ends == at[h] = "createDeleteJob" /\ faults' = 0 =>
               \/ at'[h] = "createDeleteJob" /\ arg'[h] = arg[h]
               \/ \E m \in Meetups : /\ link[m] = arg[h]
                                     /\ \E j \in Job : IsDelete(j)' /\ payload'[j] = m
<1>1. HandlerSame(h) => Begins /\ Ends
  BY DEF HandlerSame
<1>2. ASSUME NEW r \in Requests, HostStep(r) PROVE HandlerSame(h)
  BY <1>2, HostStepFrame DEF HandlerSame, handlerVars
<1>3. AppMoves => HandlerSame(h)
  BY AppFrame DEF HandlerSame, handlerVars, jobsVars
<1>4. WorkerMoves => HandlerSame(h) \/ WorkerPosts(h)
  BY WorkerOnHandlers
<1>5. WorkerPosts(h) => Begins /\ Ends
  BY DEF WorkerPosts
<1>6. Crash => Begins /\ Ends
  <2>1. Crash => at'[h] # "createDeleteJob"
    BY CrashFrame DEF RegistrationInv
  <2>2. Crash => faults' # 0
    BY CrashFrame DEF RegistrationInv
  <2> QED BY <2>1, <2>2
<1>7. ASSUME NEW g \in Handlers, QueueStep(g), g # h PROVE HandlerSame(h)
  BY <1>7, QueueStepOthers
<1>8. ASSUME QueueStep(h) PROVE Begins /\ Ends
  <2>1. at \in [Handlers -> Step] /\ arg \in [Handlers -> Job \cup {NoJob}]
    BY DEF JobsTypeOK, HandlerTypeOK
  <2>2. CASE NotifySucceeded(h)
    <3>1. at[h] = "emitSucceeded" /\ arg' = arg
      BY <2>2 DEF NotifySucceeded, EmitSucceeded, Goto
    <3>2. CASE EmitSucceeded(h, FALSE)
      <4>1. at'[h] = "reply"
        BY <2>1, <3>2 DEF EmitSucceeded, Goto
      <4> QED BY <3>1, <4>1
    <3>3. CASE EmitSucceeded(h, MustCompensate(arg[h])) /\ Tell(arg[h], "registered")
      <4>1. ~MustCompensate(arg[h]) => at'[h] = "reply"
        BY <2>1, <3>3 DEF EmitSucceeded, Goto
      <4>2. ASSUME MustCompensate(arg[h])
            PROVE  \E m \in Meetups : link'[m] = arg'[h] /\ somoim'[m] = "registered"
        <5>1. PICK m \in Told(arg[h]) : Closed(m)
          BY <4>2 DEF MustCompensate
        <5>2. m \in Meetups /\ link[m] = arg[h] /\ somoim'[m] = "registered"
          BY <3>3, <5>1 DEF Told, Tell
        <5>3. link' = link
          BY <2>2 DEF NotifySucceeded, OnlySomoim
        <5> QED BY <3>1, <5>2, <5>3
      <4> QED BY <3>1, <4>1, <4>2
    <3> QED BY <2>2, <3>2, <3>3 DEF NotifySucceeded
  <2>3. CASE Compensate(h)
    <3>1. at'[h] = "reply"
      BY <2>1, <2>3 DEF Compensate, CreateDeleteJob, Goto
    <3>2. ASSUME faults' = 0
          PROVE  \E m \in Meetups : /\ link[m] = arg[h]
                                    /\ \E j \in Job : IsDelete(j)' /\ payload'[j] = m
      <4>1. ~Fault
        BY <3>2, FaultsStay DEF Fault, RegistrationInv
      <4>2. PICK m \in Meetups :
               /\ link[m] = arg[h]
               /\ \/ \E j \in Job : /\ CreateDeleteJob(h, j)
                                    /\ payload' = [payload EXCEPT ![j] = m]
                  \/ /\ ActiveDelete(KeyOf[m])
                     /\ CreateDeleteJob(h, NoJob)
                     /\ UNCHANGED payload
        BY <2>3, <4>1 DEF Compensate
      <4>3. ASSUME NEW j \in Job, CreateDeleteJob(h, j), payload' = [payload EXCEPT ![j] = m]
            PROVE  IsDelete(j)' /\ payload'[j] = m
        BY <4>3 DEF CreateDeleteJob, InsertJob, IsDelete, JobsTypeOK, TableTypeOK,
           RegistrationInv, RegistrationTypeOK, Job, NoJob
      <4>4. CASE ActiveDelete(KeyOf[m]) /\ CreateDeleteJob(h, NoJob) /\ UNCHANGED payload
        <5>1. PICK j \in Job : /\ status[j] \in {"pending", "claimed"}
                               /\ type[j] = "delete_meetup" /\ JobKey(j) = KeyOf[m]
          BY <4>4 DEF ActiveDelete
        <5>2. status[j] # "absent" /\ payload[j] \in Meetups
          BY <5>1 DEF RegistrationInv, RegistrationTypeOK
        <5>3. payload[j] = m
          BY <5>1, <5>2 DEF OwnKeys, JobKey
        <5>4. UNCHANGED <<status, type, payload>>
          BY <4>4 DEF CreateDeleteJob, tableVars
        <5>5. IsDelete(j)' /\ payload'[j] = m
          BY <5>1, <5>2, <5>3, <5>4 DEF IsDelete
        <5> QED BY <4>2, <5>5
      <4> QED BY <4>2, <4>3, <4>4
    <3> QED BY <3>1, <3>2
  <2>4. ASSUME at'[h] # "createDeleteJob", at[h] # "createDeleteJob" PROVE Begins /\ Ends
    BY <2>4
  <2>5. CASE QueueStatement(h)
    <3>1. at[h] # "createDeleteJob"
      BY <2>5 DEF QueueStatement, RequeueStaleJobs, ClaimNextJob, StopClaimedJob,
         CompleteExistingEvent, CompleteJob, GetJob, RequeueJob, FailJob, DropReply
    <3>2. at'[h] # "createDeleteJob"
      BY <2>1, <2>5 DEF QueueStatement, RequeueStaleJobs, ClaimNextJob, AfterClaim,
         StopClaimedJob, CompleteExistingEvent, CompleteJob, GetJob, RequeueJob, FailJob,
         AfterFailure, DropReply, Release, Serve, Goto, Respond, RespondAfter
    <3> QED BY <2>4, <3>1, <3>2
  <2>6. CASE CheckMeetup(h)
    BY <2>1, <2>4, <2>6 DEF CheckMeetup, GetSubmitPreflight, MarkSubmitAttempted,
       RecheckPreflight, Goto, Respond, RespondAfter
  <2>7. CASE NotifyFailed(h) \/ HandlerFails(h) \/ \E j \in Job : NotifyExhausted(h, j)
    BY <2>1, <2>4, <2>7 DEF NotifyFailed, EmitFailed, HandlerFails, QueryFails,
       NotifyExhausted, EmitExhausted, Goto, Respond, RespondAfter
  <2> QED BY <1>8, <2>2, <2>3, <2>5, <2>6, <2>7 DEF QueueStep, HandlerActs
<1> QED BY <1>1, <1>2, <1>3, <1>4, <1>5, <1>6, <1>7, <1>8, StepKinds
-----------------------------------------------------------------------------
(* The invariant.                                                          *)

LEMMA CleanUpInit == RegistrationInit => CleanUpInv
<1> SUFFICES ASSUME RegistrationInit PROVE CleanUpInv
  OBVIOUS
<1> USE DEF RegistrationInit, JobsInit
<1>1. NoGaps /\ PendingIsLinked /\ DeletesAreLater
  BY DEF NoGaps, PendingIsLinked, DeletesAreLater, IsDelete
<1>2. CancelIsCurrent /\ CompensatesOwn /\ CleanUpUnderWay
  BY DEF CancelIsCurrent, Cancelling, CompensatesOwn, CleanUpUnderWay
<1> QED BY <1>1, <1>2 DEF CleanUpInv

LEMMA RowsKeepOrder ==
    ASSUME RegistrationInv, JobsTypeOK, JobsInv, CleanUpInv,
           [RegistrationNext]_registrationVars
    PROVE  NoGaps' /\ DeletesAreLater'
<1>1. /\ NewRows
      /\ \A j \in Job : status[j] # "absent" =>
            status'[j] # "absent" /\ type'[j] = type[j] /\ payload'[j] = payload[j]
  BY RowsOfStep DEF CleanUpInv
<1>2. /\ type \in [Job -> JobType] /\ payload \in [Job -> Meetups \cup {NoMeetup}]
      /\ status \in [Job -> Status] /\ link \in [Meetups -> Job \cup {NoJob}]
      /\ \A j \in Job : status[j] # "absent" => payload[j] \in Meetups
  BY DEF JobsTypeOK, TableTypeOK, RegistrationInv, RegistrationTypeOK
<1>3. NoGaps'
  <2>1. CASE SameRows
    BY <2>1 DEF SameRows, NoGaps, CleanUpInv
  <2>2. ASSUME NEW j \in Job, NEW t, NEW m, NewRow(j, t, m) PROVE NoGaps'
    <3>1. \A i \in Job : i # j => status'[i] = status[i]
      BY <1>2, <2>2 DEF NewRow
    <3>2. status'[j] # "absent" /\ \A i \in Job : i < j => status[i] # "absent"
      BY <1>2, <2>2 DEF NewRow, IsNextId
    <3> QED BY <3>1, <3>2 DEF NoGaps, CleanUpInv, Job
  <2> QED BY <1>1, <2>1, <2>2 DEF NewRows
<1>4. ASSUME NEW i \in Job, NEW m \in Meetups, IsDelete(i), payload[i] = m
      PROVE  (Settled(payload[i]) /\ i > link[payload[i]])'
  <2>1. payload'[i] = m
    BY <1>1, <1>4 DEF IsDelete
  <2>2. Settled(m) /\ i > link[m]
    BY <1>4 DEF CleanUpInv, DeletesAreLater
  <2>3. Settled(m)' /\ link'[m] = link[m]
    BY <2>2, SettledStays
  <2> QED BY <2>1, <2>2, <2>3 DEF Settled
<1>5. DeletesAreLater'
  <2> SUFFICES ASSUME NEW i \in Job, IsDelete(i)'
               PROVE  (Settled(payload[i]) /\ i > link[payload[i]])'
    BY DEF DeletesAreLater
  <2>1. CASE IsDelete(i)
    <3>1. payload[i] \in Meetups
      BY <1>2, <2>1 DEF IsDelete
    <3> QED BY <1>4, <2>1, <3>1
  <2>2. CASE SameRows
    BY <2>1, <2>2 DEF SameRows, IsDelete
  <2>3. ASSUME NEW j \in Job, NEW m \in Meetups, NewRow(j, "create_meetup", m)
        PROVE  IsDelete(i)
    BY <1>2, <2>3 DEF NewRow, IsDelete
  <2>4. ASSUME NEW j \in Job, NEW m \in Meetups, NewRow(j, "delete_meetup", m), Settled(m)
        PROVE  IsDelete(i) \/ (Settled(payload[i]) /\ i > link[payload[i]])'
    <3>1. CASE i # j
      BY <1>2, <2>4, <3>1 DEF NewRow, IsDelete
    <3>2. CASE i = j
      <4>1. payload'[i] = m
        BY <1>2, <2>4, <3>2 DEF NewRow
      <4>2. Settled(m)' /\ link'[m] = link[m]
        BY <2>4, SettledStays
      <4>3. link[m] \in Job /\ status[link[m]] # "absent"
        BY <1>2, <2>4 DEF Settled, RegistrationInv, LinkIsOwn
      <4>4. i > link[m]
        BY <2>4, <3>2, <4>3 DEF NewRow, IsNextId, NoGaps, CleanUpInv, Job
      <4> QED BY <4>1, <4>2, <4>4 DEF Settled
    <3> QED BY <3>1, <3>2
  <2> QED BY <1>1, <2>1, <2>2, <2>3, <2>4 DEF NewRows
<1> QED BY <1>3, <1>5

LEMMA ReadsStayCurrent ==
    ASSUME RegistrationInv, JobsTypeOK, CleanUpInv, CancelIsAlone,
           [RegistrationNext]_registrationVars
    PROVE  PendingIsLinked' /\ CancelIsCurrent'
<1> USE DEF CleanUpInv
<1>1. PendingIsLinked'
  <2> SUFFICES ASSUME NEW m \in Meetups, somoim'[m] \in {"pending", "registered"}
               PROVE  link'[m] # NoJob
    BY DEF PendingIsLinked
  <2>1. MeetupLinked(m) => link'[m] # NoJob
    BY DEF MeetupLinked, Job, NoJob
  <2>2. MeetupSame(m) \/ MeetupTold(m) => link'[m] # NoJob
    BY DEF MeetupSame, MeetupTold, PendingIsLinked
  <2>3. ~MeetupRejected(m)
    BY DEF MeetupRejected
  <2> QED BY <2>1, <2>2, <2>3, MeetupSteps
<1>2. CancelIsCurrent'
  <2> SUFFICES ASSUME NEW r \in Requests, rAt'[r] \in Cancelling
               PROVE  /\ rJob'[r] = link'[rMeetup'[r]]
                      /\ rState'[r] \in {somoim'[rMeetup'[r]], "pending"}
                      /\ rAt'[r] = "didAttemptSubmit" => rJob'[r] # NoJob
                      /\ rAt'[r] = "deleteJob" => Settled(rMeetup[r])'
    BY DEF CancelIsCurrent
  <2>1. CASE CancelStarts(r)
    BY <2>1 DEF CancelStarts
  <2>2. ASSUME NEW m \in Meetups, rMeetup[r] = m, rAt[r] \in Cancelling
        PROVE  /\ rJob[r] = link[m] /\ rState[r] \in {somoim[m], "pending"}
               /\ rAt[r] = "didAttemptSubmit" => rJob[r] # NoJob
               /\ rAt[r] = "deleteJob" => Settled(m)
    BY <2>2 DEF CancelIsCurrent
  <2>3. rAt[r] \in Cancelling => rMeetup[r] \in Meetups
    BY DEF RegistrationInv, RegistrationTypeOK, Cancelling
  <2>4. CASE RequestSame(r)
    <3>1. rAt[r] \in Cancelling
      BY <2>4 DEF RequestSame
    <3>2. PICK m \in Meetups : rMeetup[r] = m
      BY <2>3, <3>1
    <3>3. ~MeetupLinked(m) /\ ~MeetupRejected(m)
      BY <3>1, <3>2 DEF MeetupLinked, MeetupRejected, CancelIsAlone, Creating
    <3>4. MeetupSame(m) \/ MeetupTold(m)
      BY <3>3, MeetupSteps
    <3>5. link'[m] = link[m] /\ rState[r] \in {somoim'[m], "pending"}
      BY <2>2, <3>1, <3>2, <3>4 DEF MeetupSame, MeetupTold
    <3>6. rAt[r] = "deleteJob" => Settled(m)'
      BY <2>2, <3>1, <3>2, SettledStays
    <3> QED BY <2>2, <2>4, <3>1, <3>2, <3>5, <3>6 DEF RequestSame, Settled
  <2>5. CASE CancelMoves(r)
    <3>1. rAt[r] \in Cancelling
      BY <2>5 DEF CancelMoves, Cancelling
    <3>2. PICK m \in Meetups : rMeetup[r] = m
      BY <2>3, <3>1
    <3>3. UNCHANGED <<somoim, link, marked>> /\ rMeetup'[r] = m
      BY <2>5, <3>2 DEF CancelMoves
    <3>4. rAt'[r] = "deleteJob" => Settled(m)
      <4>1. CASE rAt[r] = "emitCancelled" /\ rState[r] = "registered"
        BY <2>2, <3>1, <3>2, <4>1 DEF Settled, PendingIsLinked
      <4>2. CASE rAt[r] = "didAttemptSubmit" /\ marked[rJob[r]]
        BY <2>2, <3>1, <3>2, <4>2 DEF Settled
      <4> QED BY <2>5, <4>1, <4>2 DEF CancelMoves
    <3>5. rAt'[r] = "didAttemptSubmit" => rJob[r] # NoJob
      BY <2>5 DEF CancelMoves
    <3> QED BY <2>2, <2>5, <3>1, <3>2, <3>3, <3>4, <3>5 DEF CancelMoves, Settled
  <2> QED BY <2>1, <2>4, <2>5, RequestSteps DEF RegistrationInv
<1> QED BY <1>1, <1>2

LEMMA CompensationStaysOwn ==
    ASSUME RegistrationInv, JobsTypeOK, CleanUpInv, OwnKeys,
           [RegistrationNext]_registrationVars
    PROVE  CompensatesOwn'
<1> SUFFICES ASSUME NEW h \in Handlers, at'[h] = "createDeleteJob"
             PROVE  \E m \in Meetups : link'[m] = arg'[h] /\ somoim'[m] = "registered"
  BY DEF CompensatesOwn
<1>1. ASSUME at[h] = "createDeleteJob", arg'[h] = arg[h]
      PROVE  \E m \in Meetups : link'[m] = arg'[h] /\ somoim'[m] = "registered"
  <2>1. PICK m \in Meetups : link[m] = arg[h] /\ somoim[m] = "registered"
    BY <1>1 DEF CleanUpInv, CompensatesOwn
  <2>2. Settled(m)
    BY <2>1 DEF CleanUpInv, PendingIsLinked, Settled
  <2>3. link'[m] = link[m] /\ somoim'[m] = "registered"
    BY <2>1, <2>2, SettledStays
  <2> QED BY <1>1, <2>1, <2>3
<1> QED BY <1>1, CompensationSteps

\* Whoever is about to take the event of a registered meetup out of the app hands
\* over to a delete job.
LEMMA WithdrawingStays ==
    ASSUME RegistrationInv, JobsTypeOK, JobsInv, CleanUpInv, OwnKeys,
           [RegistrationNext]_registrationVars, faults' = 0,
           NEW m \in Meetups, somoim[m] = "registered", Pressing(link[m]), Withdrawing(m)
    PROVE  Withdrawing(m)'
<1>1. link[m] # NoJob /\ link'[m] = link[m]
  <2>1. Settled(m)
    BY DEF CleanUpInv, PendingIsLinked, Settled
  <2> QED BY <2>1, SettledStays DEF Settled
<1>2. CASE \E j \in Job : IsDelete(j) /\ payload[j] = m
  <2>1. PICK j \in Job : IsDelete(j) /\ payload[j] = m
    BY <1>2
  <2>2. IsDelete(j)' /\ payload'[j] = m
    BY <2>1, RowsOfStep DEF CleanUpInv, IsDelete
  <2> QED BY <2>2 DEF Withdrawing
<1>3. ASSUME NEW r \in Requests, rMeetup[r] = m, rAt[r] \in Cancelling \ {"closeRow"}
      PROVE  Withdrawing(m)'
  <2>1. \/ rMeetup'[r] = m /\ rAt'[r] \in Cancelling \ {"closeRow"}
        \/ \E j \in Job : IsDelete(j)' /\ payload'[j] = m
    BY <1>1, <1>3, CancelGoesOn DEF CleanUpInv
  <2> QED BY <2>1 DEF Withdrawing
<1>4. ASSUME NEW h \in Handlers, at[h] = "createDeleteJob", arg[h] = link[m]
      PROVE  Withdrawing(m)'
  <2>1. CASE at'[h] = "createDeleteJob" /\ arg'[h] = arg[h]
    BY <1>1, <1>4, <2>1 DEF Withdrawing
  <2>2. ASSUME NEW n \in Meetups, link[n] = arg[h],
               \E j \in Job : IsDelete(j)' /\ payload'[j] = n
        PROVE  Withdrawing(m)'
    <3>1. n = m
      BY <1>1, <1>4, <2>2 DEF RegistrationInv, LinkIsOwn
    <3> QED BY <2>2, <3>1 DEF Withdrawing
  <2> QED BY <1>4, <2>1, <2>2, CompensationSteps
<1> QED BY <1>2, <1>3, <1>4 DEF Withdrawing

LEMMA CleanUpStays ==
    ASSUME RegistrationInv, JobsTypeOK, JobsInv, CleanUpInv, OwnKeys,
           [RegistrationNext]_registrationVars
    PROVE  CleanUpUnderWay'
<1> SUFFICES ASSUME NEW m \in Meetups, faults' = 0, Closed(m)',
                    somoim'[m] = "registered", Pressing(link[m])'
             PROVE  Withdrawing(m)'
  BY DEF CleanUpUnderWay
<1>1. faults = 0
  BY FaultsStay DEF RegistrationInv
<1>2. MeetupSame(m) \/ MeetupTold(m)
  BY MeetupSteps DEF MeetupLinked, MeetupRejected
<1>3. CASE MeetupTold(m)
  BY <1>3 DEF MeetupTold, Withdrawing
<1>4. CASE MeetupSame(m)
  <2>1. somoim[m] = "registered" /\ link'[m] = link[m]
    BY <1>4 DEF MeetupSame
  <2>2. PICK j \in Job : link[m] = j
    BY <2>1 DEF CleanUpInv, PendingIsLinked, RegistrationInv, RegistrationTypeOK
  <2>3. CASE ~Closed(m)
    BY <2>3, ClosedSteps DEF Withdrawing, Cancelling
  <2>4. CASE Closed(m)
    <3>1. Pressing(j)'
      BY <2>1, <2>2 DEF Pressing
    <3>2. Cancelled(j)
      BY <2>2, <2>4 DEF Cancelled
    <3>3. Pressing(j)
      BY <3>1, <3>2, PressingSteps
    <3>4. Withdrawing(m)
      BY <1>1, <2>1, <2>2, <2>4, <3>3 DEF CleanUpInv, CleanUpUnderWay
    <3> QED BY <2>1, <2>2, <3>3, <3>4, WithdrawingStays
  <2> QED BY <2>3, <2>4
<1> QED BY <1>2, <1>3, <1>4

\* The invariant behind the clean-up, for any number of meetups, requests,
\* handlers and jobs: as long as the host does not cancel a meetup while a create
\* or a retry of it is running, and no two meetups have the same title and minute
\* (deleteMeetup, meetup.hooks.js, createDeleteJobIfMissing).
THEOREM CleanUpInvCorrect ==
    ASSUME OwnKeys
    PROVE  RegistrationSpec /\ []CancelIsAlone => []CleanUpInv
<1>1. RegistrationInit => CleanUpInv
  BY CleanUpInit
<1>2. /\ RegistrationInv /\ JobsTypeOK /\ JobsInv /\ CancelIsAlone
      /\ CleanUpInv /\ [RegistrationNext]_registrationVars
      => CleanUpInv'
  <2> SUFFICES ASSUME RegistrationInv, JobsTypeOK, JobsInv, CancelIsAlone, CleanUpInv,
                      [RegistrationNext]_registrationVars
               PROVE  CleanUpInv'
    OBVIOUS
  <2>1. NoGaps' /\ DeletesAreLater'
    BY RowsKeepOrder
  <2>2. PendingIsLinked' /\ CancelIsCurrent'
    BY ReadsStayCurrent
  <2>3. CompensatesOwn' /\ CleanUpUnderWay'
    BY CompensationStaysOwn, CleanUpStays
  <2> QED BY <2>1, <2>2, <2>3 DEF CleanUpInv
<1> QED BY <1>1, <1>2, RegistrationInvCorrect, PTL DEF RegistrationSpec

\* A meetup that was submitted and registered and is now cancelled has a job that
\* takes its event out of the app, in whatever order the cancel, the press and
\* the success come (meetup.service.js, meetup.hooks.js, automation.hooks.js).
THEOREM CleanUpCorrect ==
    ASSUME OwnKeys
    PROVE  RegistrationSpec /\ []CancelIsAlone => []SubmittedIsCleanedUp
<1>1. RegistrationInv /\ CleanUpInv => SubmittedIsCleanedUp
  <2> SUFFICES ASSUME RegistrationInv, CleanUpInv,
                      NEW m \in Meetups, faults = 0, Quiet(m), Closed(m),
                      somoim[m] = "registered", taps[link[m]] > 0
               PROVE  HasDeleteJob(m)
    BY DEF SubmittedIsCleanedUp
  <2>1. Withdrawing(m)
    BY DEF CleanUpInv, CleanUpUnderWay, Pressing
  <2>2. PICK j \in Job : IsDelete(j) /\ payload[j] = m
    BY <2>1 DEF Withdrawing, Quiet, Cancelling
  <2>3. j > link[m]
    BY <2>2 DEF CleanUpInv, DeletesAreLater
  <2> QED BY <2>2, <2>3 DEF HasDeleteJob, IsDelete, JobKey
<1> QED BY <1>1, CleanUpInvCorrect, RegistrationInvCorrect, PTL
=============================================================================
