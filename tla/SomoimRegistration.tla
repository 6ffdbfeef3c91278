------------------------- MODULE SomoimRegistration -------------------------
(***************************************************************************)
(* Registration of a meetup in the Somoim app: the meetups rows, the host  *)
(* requests that create, cancel and retry (meetup.service.js), the hooks   *)
(* between the meetups and the automation features, the queue and worker   *)
(* of SomoimJobs, the events that exist in the app and the crawled copy of *)
(* them.  Each host request runs one statement or one emit at a time,      *)
(* between the statements of other requests.                               *)
(*                                                                         *)
(* Jobs that an admin asks for by hand are in SomoimJobs and not here.     *)
(***************************************************************************)
EXTENDS SomoimJobs

CONSTANTS Meetups,    \* ids of meetups
          Keys,       \* title and minute, by which an event is recognised
          KeyOf,      \* the key of each meetup; two meetups may share one
          Requests,   \* host requests the server can run at once (bound)
          NoMeetup,
          MaxFaults   \* failed statements and server crashes (bound)

ASSUME RegistrationAssumption ==
    /\ KeyOf \in [Meetups -> Keys]
    /\ NoMeetup \notin Meetups
    /\ MaxFaults \in Nat

VARIABLES rowStatus,  \* [Meetups -> "none" | "open" | "closed"]
          somoim,     \* [Meetups -> SomoimState], somoim_state
          link,       \* [Meetups -> Job or NoJob], somoim_job_id
          payload,    \* [Job -> Meetups or NoMeetup], whose title and time
          linked,     \* jobs that some meetup pointed to at some time (history)
          app,        \* [Keys -> Nat], the events in the Somoim app
          crawled,    \* keys in somoim_events
          rAt,        \* [Requests -> RequestStep]
          rMeetup,    \* [Requests -> Meetups or NoMeetup]
          rState,     \* [Requests -> SomoimState], as the request read it
          rJob,       \* [Requests -> Job or NoJob], as it read or created it
          faults      \* failed statements and crashes so far

meetupVars == <<rowStatus, somoim, link, linked>>
requestVars == <<rAt, rMeetup, rState, rJob>>
appVars == <<app, crawled>>
hostVars == <<meetupVars, payload, requestVars, appVars, faults>>
registrationVars == <<jobsVars, hostVars>>
-----------------------------------------------------------------------------
SomoimState == {"none", "pending", "registered", "failed"}
RequestStep ==
    {"idle",
     "emitCreated", "setPending", "setFailed",              \* create
     "closeRow", "emitCancelled", "didAttemptSubmit", "deleteJob", \* cancel
     "emitRetry", "setRetried"}                             \* retry

RegistrationTypeOK ==
    /\ rowStatus \in [Meetups -> {"none", "open", "closed"}]
    /\ somoim \in [Meetups -> SomoimState]
    /\ link \in [Meetups -> Job \cup {NoJob}]
    /\ payload \in [Job -> Meetups \cup {NoMeetup}]
    /\ linked \subseteq Job
    /\ app \in [Keys -> Nat]
    /\ crawled \subseteq Keys
    /\ rAt \in [Requests -> RequestStep]
    /\ rMeetup \in [Requests -> Meetups \cup {NoMeetup}]
    /\ rState \in [Requests -> SomoimState]
    /\ rJob \in [Requests -> Job \cup {NoJob}]
    /\ faults \in 0..MaxFaults
    /\ \A j \in Job : status[j] # "absent" => payload[j] \in Meetups
    /\ \A r \in Requests : rAt[r] # "idle" => rMeetup[r] \in Meetups

RegistrationInit ==
    /\ JobsInit
    /\ rowStatus = [m \in Meetups |-> "none"]
    /\ somoim = [m \in Meetups |-> "none"]
    /\ link = [m \in Meetups |-> NoJob]
    /\ payload = [j \in Job |-> NoMeetup]
    /\ linked = {}
    /\ app = [k \in Keys |-> 0]
    /\ crawled = {}
    /\ rAt = [r \in Requests |-> "idle"]
    /\ rMeetup = [r \in Requests |-> NoMeetup]
    /\ rState = [r \in Requests |-> "none"]
    /\ rJob = [r \in Requests |-> NoJob]
    /\ faults = 0

Fault == faults < MaxFaults /\ faults' = faults + 1

Closed(m) == rowStatus[m] = "closed"
JobKey(j) == KeyOf[payload[j]]

\* The two EXISTS of getSubmitPreflight.
Cancelled(j) == \E m \in Meetups : link[m] = j /\ Closed(m)
ExistingEvent(j) == JobKey(j) \in crawled

\* The unique index on the delete jobs that are not over.
ActiveDelete(k) ==
    \E j \in Job : /\ status[j] \in {"pending", "claimed"}
                   /\ type[j] = "delete_meetup"
                   /\ JobKey(j) = k

\* A row for the event of meetup m, inserted by a hook listener.
InsertFor(j, t, m) ==
    /\ CreateJob(j, t, FALSE)
    /\ payload' = [payload EXCEPT ![j] = m]
-----------------------------------------------------------------------------
(* Host requests.                                                          *)

Continue(r, step) ==
    /\ rAt' = [rAt EXCEPT ![r] = step]
    /\ UNCHANGED <<rMeetup, rState, rJob>>
ContinueWith(r, step, j) ==
    /\ rAt' = [rAt EXCEPT ![r] = step]
    /\ rJob' = [rJob EXCEPT ![r] = j]
    /\ UNCHANGED <<rMeetup, rState>>
EndRequest(r) ==
    /\ rAt' = [rAt EXCEPT ![r] = "idle"]
    /\ rMeetup' = [rMeetup EXCEPT ![r] = NoMeetup]
    /\ rState' = [rState EXCEPT ![r] = "none"]
    /\ rJob' = [rJob EXCEPT ![r] = NoJob]

\* getMeetupById: what the request knows of the row from here on.
Read(r, m, step) ==
    /\ rAt[r] = "idle"
    /\ rowStatus[m] # "none"
    /\ rAt' = [rAt EXCEPT ![r] = step]
    /\ rMeetup' = [rMeetup EXCEPT ![r] = m]
    /\ rState' = [rState EXCEPT ![r] = somoim[m]]
    /\ rJob' = [rJob EXCEPT ![r] = link[m]]
    /\ UNCHANGED <<jobsVars, meetupVars, payload, appVars, faults>>

NoJobChange == UNCHANGED <<jobsVars, payload>>
NoAppChange == UNCHANGED appVars
OnlyRequest == NoJobChange /\ NoAppChange /\ UNCHANGED <<meetupVars, faults>>

\* POST /meetups: the row and its host as first participant, in a transaction.
CreateMeetup(r, m) ==
    /\ rAt[r] = "idle"
    /\ rowStatus[m] = "none"
    /\ rowStatus' = [rowStatus EXCEPT ![m] = "open"]
    /\ rAt' = [rAt EXCEPT ![r] = "emitCreated"]
    /\ rMeetup' = [rMeetup EXCEPT ![r] = m]
    /\ UNCHANGED <<somoim, link, linked, rState, rJob, faults>>
    /\ NoJobChange /\ NoAppChange

\* createJobForMeetup, from meetupCreated or meetupSomoimRetryRequested.
EmitForJob(r, j) ==
    /\ rAt[r] \in {"emitCreated", "emitRetry"}
    /\ InsertFor(j, "create_meetup", rMeetup[r])
    /\ ContinueWith(r, IF rAt[r] = "emitCreated" THEN "setPending"
                       ELSE "setRetried", j)
    /\ UNCHANGED <<meetupVars, faults>> /\ NoAppChange

\* The input breaks a rule of the Somoim app (title, place, a time gone by).
JobRejected(r) ==
    /\ rAt[r] \in {"emitCreated", "emitRetry"}
    /\ IF rAt[r] = "emitCreated" THEN Continue(r, "setFailed") ELSE EndRequest(r)
    /\ OnlyRequest

\* setSomoimState of a new meetup: unconditional.
LinkRow(m, j) ==
    /\ somoim' = [somoim EXCEPT ![m] = "pending"]
    /\ link' = [link EXCEPT ![m] = j]
    /\ linked' = linked \cup {j}

SetPending(r) ==
    /\ rAt[r] = "setPending"
    /\ LinkRow(rMeetup[r], rJob[r])
    /\ EndRequest(r)
    /\ NoJobChange /\ NoAppChange /\ UNCHANGED <<rowStatus, faults>>

SetFailed(r) ==
    /\ rAt[r] = "setFailed"
    /\ somoim' = [somoim EXCEPT ![rMeetup[r]] = "failed"]
    /\ EndRequest(r)
    /\ NoJobChange /\ NoAppChange /\ UNCHANGED <<rowStatus, link, linked, faults>>

\* POST /meetups/:id/retry-somoim, only if the row was read as failed; the
\* second statement repeats that condition.
RetryRegistration(r, m) == somoim[m] = "failed" /\ Read(r, m, "emitRetry")

MayRetry_Unchecked(m) == TRUE
MayRetry(m) == somoim[m] = "failed"

SetRetried(r) ==
    /\ rAt[r] = "setRetried"
    /\ IF MayRetry(rMeetup[r]) THEN LinkRow(rMeetup[r], rJob[r])
       ELSE UNCHANGED <<somoim, link, linked>>
    /\ EndRequest(r)
    /\ NoJobChange /\ NoAppChange /\ UNCHANGED <<rowStatus, faults>>

\* DELETE /meetups/:id.
CancelMeetup(r, m) == Read(r, m, "closeRow")

CloseRow(r) ==
    /\ rAt[r] = "closeRow"
    /\ rowStatus' = [rowStatus EXCEPT ![rMeetup[r]] = "closed"]
    /\ Continue(r, "emitCancelled")
    /\ NoJobChange /\ NoAppChange /\ UNCHANGED <<somoim, link, linked, faults>>

\* The listener of meetupCancelled works from what the request read before it
\* closed the row: a registered meetup gets a delete job; a pending one loses
\* its job if nobody claimed it, and if the button may have been pressed it
\* gets a delete job as well.
EmitCancelled(r) ==
    /\ rAt[r] = "emitCancelled"
    /\ LET j == rJob[r]
       IN \/ /\ rState[r] = "registered"
             /\ Continue(r, "deleteJob")
             /\ NoJobChange
          \/ /\ rState[r] # "registered"
             /\ rState[r] # "pending" \/ j = NoJob
             /\ EndRequest(r)
             /\ NoJobChange
          \/ /\ rState[r] = "pending" /\ j # NoJob
             /\ IF status[j] = "pending"
                THEN CancelPendingJob(j) /\ EndRequest(r)
                ELSE UNCHANGED jobsVars /\ Continue(r, "didAttemptSubmit")
             /\ UNCHANGED payload
    /\ UNCHANGED <<meetupVars, faults>> /\ NoAppChange

DidAttemptSubmit(r) == marked[rJob[r]]

CheckAttempt(r) ==
    /\ rAt[r] = "didAttemptSubmit"
    /\ IF DidAttemptSubmit(r) THEN Continue(r, "deleteJob") ELSE EndRequest(r)
    /\ OnlyRequest

\* createDeleteJobIfMissing.
DeleteJob(r) ==
    /\ rAt[r] = "deleteJob"
    /\ IF ActiveDelete(KeyOf[rMeetup[r]]) THEN NoJobChange
       ELSE \E j \in Job : InsertFor(j, "delete_meetup", rMeetup[r])
    /\ EndRequest(r)
    /\ UNCHANGED <<meetupVars, faults>> /\ NoAppChange

\* A statement of a host request throws.  Inside a listener emit catches it, in
\* a create request the row then stays as it is, and the request is over either
\* way.
RequestFails(r) ==
    /\ rAt[r] # "idle"
    /\ Fault
    /\ EndRequest(r)
    /\ NoJobChange /\ NoAppChange /\ UNCHANGED meetupVars

RequestStepOf(r) ==
    \/ \E j \in Job : EmitForJob(r, j)
    \/ JobRejected(r) \/ SetPending(r) \/ SetFailed(r) \/ SetRetried(r)
    \/ CloseRow(r) \/ EmitCancelled(r) \/ CheckAttempt(r) \/ DeleteJob(r)

HostActs(r, m) ==
    CreateMeetup(r, m) \/ RetryRegistration(r, m) \/ CancelMeetup(r, m)
-----------------------------------------------------------------------------
(* The steps of the queue's handlers, with what they do to the meetups.    *)

\* Statements that read and write jobs only.
QueueStatement(h) ==
    /\ \/ \E stale \in SUBSET Job : RequeueStaleJobs(h, stale)
       \/ ClaimNextJob(h) \/ StopClaimedJob(h) \/ CompleteExistingEvent(h)
       \/ CompleteJob(h) \/ GetJob(h) \/ RequeueJob(h) \/ FailJob(h)
       \/ DropReply(h)
    /\ UNCHANGED hostVars

\* Statements that also look at the meetups, and at the crawled events.
CheckMeetup(h) ==
    /\ \/ GetSubmitPreflight(h, Cancelled(arg[h]), ExistingEvent(arg[h]))
       \/ MarkSubmitAttempted(h, Cancelled(arg[h]))
       \/ RecheckPreflight(h, Cancelled(arg[h]))
    /\ UNCHANGED hostVars

\* UPDATE meetups ... WHERE somoim_job_id = j AND somoim_state = 'pending'.
Told(j) == {m \in Meetups : link[m] = j /\ somoim[m] = "pending"}
Tell(j, s) ==
    somoim' = [m \in Meetups |-> IF m \in Told(j) THEN s ELSE somoim[m]]

\* A listener that throws leaves the row as it is; emit catches that.
TellOrThrow(j, s) ==
    \/ Tell(j, s) /\ UNCHANGED faults
    \/ Fault /\ UNCHANGED somoim

OnlySomoim ==
    UNCHANGED <<rowStatus, link, linked, payload, requestVars>> /\ NoAppChange

\* markSomoimFailedByJob.
NotifyFailed(h) ==
    /\ EmitFailed(h)
    /\ TellOrThrow(arg[h], "failed")
    /\ OnlySomoim

NotifyExhausted(h, j) ==
    /\ EmitExhausted(h, j)
    /\ TellOrThrow(j, "failed")
    /\ OnlySomoim

\* markSomoimRegisteredByJob; a meetup that turns out to be cancelled is to be
\* removed from the app again.
MustCompensate_Never(j) == FALSE
MustCompensate(j) == \E m \in Told(j) : Closed(m)

NotifySucceeded(h) ==
    /\ \/ /\ EmitSucceeded(h, MustCompensate(arg[h]))
          /\ Tell(arg[h], "registered")
          /\ UNCHANGED faults
       \/ EmitSucceeded(h, FALSE) /\ Fault /\ UNCHANGED somoim
    /\ OnlySomoim

\* The listener of meetupRegisteredAfterCancellation.
Compensate(h) ==
    /\ \E m \in Meetups :
          /\ link[m] = arg[h]
          /\ \/ /\ ~ActiveDelete(KeyOf[m])
                /\ \E j \in Job : /\ CreateDeleteJob(h, j)
                                  /\ payload' = [payload EXCEPT ![j] = m]
                /\ UNCHANGED faults
             \/ /\ ActiveDelete(KeyOf[m])
                /\ CreateDeleteJob(h, NoJob)
                /\ UNCHANGED <<payload, faults>>
             \/ CreateDeleteJob(h, NoJob) /\ Fault /\ UNCHANGED payload
    /\ UNCHANGED <<meetupVars, requestVars>> /\ NoAppChange

HandlerActs(h) ==
    \/ QueueStatement(h) \/ CheckMeetup(h)
    \/ NotifyFailed(h) \/ NotifySucceeded(h) \/ Compensate(h)
    \/ \E j \in Job : NotifyExhausted(h, j)
-----------------------------------------------------------------------------
(* The worker, on the events of the app.                                   *)

\* The press creates (deletes) an event, unless the device fails just then.
TapEffect ==
    \/ UNCHANGED app
    \/ /\ type[wJob] = "create_meetup"
       /\ app' = [app EXCEPT ![JobKey(wJob)] = @ + 1]
    \/ /\ type[wJob] = "delete_meetup"
       /\ app[JobKey(wJob)] > 0
       /\ app' = [app EXCEPT ![JobKey(wJob)] = @ - 1]

WorkerTaps ==
    /\ Tap /\ TapEffect
    /\ UNCHANGED <<meetupVars, payload, requestVars, crawled, faults>>

\* A delete job goes on only if its event is found; a created event has to be
\* seen, a deleted one to be gone.
EventExpected(h) ==
    \/ FillDone(h) /\ (type[wJob] = "delete_meetup" => app[JobKey(wJob)] > 0)
    \/ Confirmed(h) /\ (type[wJob] = "create_meetup" <=> app[JobKey(wJob)] > 0)

WorkerActs ==
    \/ WorkerTaps
    \/ /\ \/ ClaimAnswered \/ PreflightAnswered \/ MarkAnswered
          \/ ReportAnswered \/ CallBreaks
          \/ \E h \in Handlers :
                \/ Poll(h) \/ EventExpected(h) \/ Unconfirmed(h)
                \/ MarkCallBreaks(h)
                \/ \E m \in BOOLEAN : FillFails(h, m)
       /\ UNCHANGED hostVars
-----------------------------------------------------------------------------
(* What else happens.                                                      *)

\* syncMembers: the copy of the events is replaced, unless the crawl saw none.
Live == {k \in Keys : app[k] > 0}
SyncEvents ==
    /\ crawled' = IF Live = {} THEN crawled ELSE Live
    /\ UNCHANGED <<jobsVars, meetupVars, payload, requestVars, app, faults>>

\* Members make and remove events in the app by hand.
HandEdit(k) ==
    /\ app' = [app EXCEPT ![k] = IF @ = 0 THEN 1 ELSE 0]
    /\ UNCHANGED <<jobsVars, meetupVars, payload, requestVars, crawled, faults>>

\* A failing statement of a queue handler; a crash ends all requests.
HandlerFails(h) ==
    /\ QueryFails(h) /\ Fault
    /\ UNCHANGED <<meetupVars, payload, requestVars, appVars>>

Crash ==
    /\ ServerCrashes /\ Fault
    /\ rAt' = [r \in Requests |-> "idle"]
    /\ rMeetup' = [r \in Requests |-> NoMeetup]
    /\ rState' = [r \in Requests |-> "none"]
    /\ rJob' = [r \in Requests |-> NoJob]
    /\ UNCHANGED <<meetupVars, payload, appVars>>

RegistrationNext ==
    \/ \E r \in Requests :
          \/ RequestStepOf(r) \/ RequestFails(r)
          \/ \E m \in Meetups : HostActs(r, m)
    \/ \E h \in Handlers : HandlerActs(h) \/ HandlerFails(h)
    \/ WorkerActs
    \/ (WorkerStops \/ WorkerStarts) /\ UNCHANGED hostVars
    \/ SyncEvents \/ Crash
    \/ \E k \in Keys : HandEdit(k)

RegistrationSpec == RegistrationInit /\ [][RegistrationNext]_registrationVars
-----------------------------------------------------------------------------
(* Safety.                                                                 *)

\* A meetup that offers its host another try has no job left that has made or
\* can make an event: its job is over and never came to the button.
RetryIsSafe ==
    \A m \in Meetups : somoim[m] = "failed" /\ link[m] # NoJob =>
        /\ status[link[m]] \in Final
        /\ ~marked[link[m]] /\ taps[link[m]] = 0

\* Of the jobs a meetup was ever linked to, one at most was submitted, however
\* often it was retried.  (A job whose retry lost the race is never linked; the
\* comment at meetup.service.js:122 accepts that it may run.)
OneSubmitPerMeetup ==
    \A i, j \in linked :
        /\ payload[i] = payload[j] /\ taps[i] > 0 /\ taps[j] > 0
        => i = j

\* Once the host has cancelled, the linked job, if it has not got its mark by
\* then, never gets to the button, wherever the worker is with it and whatever
\* happens to the link afterwards (markSubmitAttempted checks the meetup in the
\* statement that marks the job).
CancelStopsSubmit ==
    \A m \in Meetups, j \in Job :
        [](Closed(m) /\ link[m] = j /\ ~marked[j] => [](taps[j] = 0))

\* No request works on the meetup and no listener is about to.
Quiet(m) ==
    /\ \A r \in Requests : rMeetup[r] # m
    /\ \A h \in Handlers :
          arg[h] = link[m] => at[h] \notin {"emitSucceeded", "createDeleteJob"}
    /\ ~ToldFailed(link[m])

\* A job that deletes the event of the meetup, from after its registration or
\* still under way.
HasDeleteJob(m) ==
    \E j \in Job : /\ status[j] # "absent"
                   /\ type[j] = "delete_meetup" /\ JobKey(j) = KeyOf[m]
                   /\ j > link[m] \/ status[j] \in {"pending", "claimed"}

\* A meetup whose job pressed the button, that was registered and is cancelled,
\* has a job that takes its event out of the app, in whatever order the cancel
\* and the success arrive; unless a statement failed or the server crashed.
SubmittedIsCleanedUp ==
    \A m \in Meetups :
        /\ faults = 0 /\ Quiet(m) /\ Closed(m)
        /\ somoim[m] = "registered" /\ taps[link[m]] > 0
        => HasDeleteJob(m)
-----------------------------------------------------------------------------
(* What comments and messages of the code say, and what it does.           *)

\* meetup.hooks.js:3 and :14 say that a meetup becomes failed when its job fails
\* and registered when it succeeds: it does not stay pending once the job is
\* over.  (A job that fails after its mark is left pending on purpose.)
OutcomeReachesMeetup ==
    \A m \in Meetups :
        /\ faults = 0 /\ Quiet(m) /\ ~Closed(m) /\ somoim[m] = "pending"
        => /\ status[link[m]] # "succeeded"
           /\ status[link[m]] \in Final => marked[link[m]]
-----------------------------------------------------------------------------
(* Why a retry is safe and one submission is the most: an invariant that   *)
(* every step preserves.                                                   *)

\* The job is over, was never marked and never came to the button.
Untouched(j) == status[j] \in Final /\ ~marked[j] /\ taps[j] = 0

\* Before its create request is over, nobody else has linked a meetup.
Creating == {"emitCreated", "setPending", "setFailed"}
RowsAreNew ==
    \A m \in Meetups : rowStatus[m] = "none" =>
        /\ somoim[m] = "none" /\ link[m] = NoJob
        /\ \A r \in Requests : rMeetup[r] # m
CreatedFirst ==
    \A r \in Requests : rAt[r] \in Creating =>
        /\ somoim[rMeetup[r]] = "none" /\ link[rMeetup[r]] = NoJob
        /\ \A q \in Requests \ {r} :
              rMeetup[q] = rMeetup[r] => rAt[q] \notin Creating

\* A job is linked, or about to be, to the meetup whose event it makes.
JobIsOwn ==
    \A r \in Requests : rAt[r] \in {"setPending", "setRetried"} =>
        /\ rJob[r] \in Job /\ status[rJob[r]] # "absent"
        /\ payload[rJob[r]] = rMeetup[r]
LinkIsOwn ==
    /\ \A j \in linked : status[j] # "absent"
    /\ \A m \in Meetups : link[m] # NoJob =>
          link[m] \in linked /\ payload[link[m]] = m

\* A job that another has replaced came to nothing.
OldIsUntouched ==
    \A j \in linked : link[payload[j]] # j => Untouched(j)

RegistrationInv ==
    /\ RegistrationTypeOK
    /\ RowsAreNew /\ CreatedFirst /\ JobIsOwn /\ LinkIsOwn
    /\ OldIsUntouched /\ RetryIsSafe
-----------------------------------------------------------------------------
(* Why a cancelled submission is cleaned up: an invariant that every step  *)
(* preserves as long as no cancel runs beside a create or a retry of the   *)
(* same meetup and no two meetups share a key.                             *)

Cancelling == {"closeRow", "emitCancelled", "didAttemptSubmit", "deleteJob"}
CancelIsAlone ==
    \A r, q \in Requests :
        /\ rAt[r] \in Cancelling
        /\ rAt[q] \in Creating \cup {"emitRetry", "setRetried"}
        => rMeetup[r] # rMeetup[q]
OwnKeys == \A m, n \in Meetups : KeyOf[m] = KeyOf[n] => m = n

\* The button was pressed, or the worker has the confirmed mark it waits for.
Pressing(j) ==
    \/ taps[j] > 0
    \/ wAt = "tapping" /\ wJob = j
    \/ wAt = "marking" /\ wJob = j /\ at[wCall] = "reply" /\ answer[wCall] = "ok"

\* The ids that are given are the first ones, so a new one is the largest.
NoGaps == \A i, j \in Job : i < j /\ status[j] # "absent" => status[i] # "absent"

\* An outcome, or the wait for one, is that of a job.
PendingIsLinked ==
    \A m \in Meetups : somoim[m] \in {"pending", "registered"} => link[m] # NoJob

\* The meetup gets no other job any more.
Settled(m) == link[m] # NoJob /\ (somoim[m] = "registered" \/ marked[link[m]])

IsDelete(j) == status[j] # "absent" /\ type[j] = "delete_meetup"
DeletesAreLater ==
    \A j \in Job : IsDelete(j) => Settled(payload[j]) /\ j > link[payload[j]]

\* What a cancel has read is still so, but for the success of its job.
CancelIsCurrent ==
    \A r \in Requests : rAt[r] \in Cancelling =>
        /\ rJob[r] = link[rMeetup[r]]
        /\ rState[r] \in {somoim[rMeetup[r]], "pending"}
        /\ rAt[r] = "didAttemptSubmit" => rJob[r] # NoJob
        /\ rAt[r] = "deleteJob" => Settled(rMeetup[r])

CompensatesOwn ==
    \A h \in Handlers : at[h] = "createDeleteJob" =>
        \E m \in Meetups : link[m] = arg[h] /\ somoim[m] = "registered"

\* Somebody is about to take the event out of the app, or has asked for it.
Withdrawing(m) ==
    \/ \E j \in Job : IsDelete(j) /\ payload[j] = m
    \/ \E r \in Requests : rMeetup[r] = m /\ rAt[r] \in Cancelling \ {"closeRow"}
    \/ \E h \in Handlers : at[h] = "createDeleteJob" /\ arg[h] = link[m]
CleanUpUnderWay ==
    \A m \in Meetups :
        /\ faults = 0 /\ Closed(m)
        /\ somoim[m] = "registered" /\ Pressing(link[m])
        => Withdrawing(m)

CleanUpInv ==
    /\ NoGaps /\ PendingIsLinked /\ DeletesAreLater /\ CancelIsCurrent
    /\ CompensatesOwn /\ CleanUpUnderWay
=============================================================================
