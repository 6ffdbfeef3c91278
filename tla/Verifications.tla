--------------------------- MODULE Verifications ---------------------------
(***************************************************************************)
(* Attendance verifications of one user: the upload tickets in the table   *)
(* verification_uploads, the photos in the object storage, the table       *)
(* verifications, the two requests that work on them one statement or one  *)
(* storage call at a time, the user's uploads, and the hourly garbage      *)
(* collection.  Everything is per user in the code, the row lock and the   *)
(* object keys included, so one user is enough.                            *)
(*                                                                         *)
(* The ledger point_logs and the sum users.total_points change in the      *)
(* transaction that inserts the verification and nowhere else here; they   *)
(* are left out.  What the check of the meetup and of the image bytes      *)
(* answers is a choice.                                                    *)
(***************************************************************************)
EXTENDS Integers, FiniteSets

CONSTANTS Meetups,
          MaxTickets,   \* tickets the user may ever get (bound)
          MaxPending,   \* verificationMaxPending
          MaxPerHour,   \* verificationMaxPerHour
          ExpireAge,    \* uploadTtlSeconds, in ticks of the clock
          CollectAge,   \* ten minutes more, in ticks
          HourAge,      \* one hour, in ticks
          Handlers,     \* requests of the user that run at once (bound)
          NoHandler,    \* nobody holds the lock on the user's row
          MaxFaults     \* failing calls, lost answers and crashes (bound)

ASSUME VerificationsAssumption ==
    /\ Meetups # {}
    /\ MaxTickets \in Nat /\ MaxPending \in Nat /\ MaxPerHour \in Nat
    /\ ExpireAge \in Nat /\ CollectAge \in Nat /\ HourAge \in Nat
    /\ 0 < ExpireAge /\ ExpireAge < CollectAge /\ CollectAge < HourAge
    /\ MaxFaults \in Nat
    /\ NoHandler \notin Handlers

VARIABLES status,         \* [Ticket -> Status]
          meetup,         \* [Ticket -> Meetups]
          age,            \* [Ticket -> Age], ticks since it was issued
          urls,           \* tickets whose upload URL was given out
          objects,        \* keys that are in the object storage
          verifications,  \* the table: [meetup, photo]
          unacked,        \* photos whose COMMIT was not acknowledged
          at,             \* [Handlers -> Step], what a request does next
          ticket,         \* [Handlers -> Ticket or NoTicket] it works on
          todo,           \* [Handlers -> SUBSET Key], still to be deleted
          userLock,       \* who holds users FOR UPDATE
          batch,          \* tickets the running collection will remove
          collected,      \* the collected ticket whose row is still there
          faults

ticketVars == <<status, meetup, age, urls>>
storeVars == <<objects, verifications, unacked>>
requestVars == <<at, ticket, todo, userLock>>
gcVars == <<batch, collected>>
vars == <<ticketVars, storeVars, requestVars, gcVars, faults>>
-----------------------------------------------------------------------------
\* Tickets are numbered in order of created_at.
Ticket == 1..MaxTickets
NoTicket == 0

Status == {"absent", "pending", "finalizing", "consumed", "failed", "deleted"}

\* Nothing in the code tells ages of more than an hour apart.
Age == 0..HourAge

StagingKey(t) == [kind |-> "staging", id |-> t]
FinalKey_PerMeetup(t) == [kind |-> "final", id |-> NoTicket]
FinalKey(t) == [kind |-> "final", id |-> t]
Key == [kind : {"staging", "final"}, id : Ticket]

Step == {"idle", "countTickets", "insertTicket", "signUrl", "readObject",
         "copyObject", "deleteSource", "createVerification",
         "failUploadTicket", "cleanUp"}

\* createVerification has claimed the ticket and is not done with it.
Finalizing == {"readObject", "copyObject", "deleteSource",
               "createVerification", "failUploadTicket", "cleanUp"}

VerificationsTypeOK ==
    /\ status \in [Ticket -> Status]
    /\ meetup \in [Ticket -> Meetups]
    /\ age \in [Ticket -> Age]
    /\ urls \subseteq Ticket
    /\ objects \subseteq Key
    /\ verifications \subseteq [meetup : Meetups, photo : Key]
    /\ unacked \subseteq Key
    /\ at \in [Handlers -> Step]
    /\ ticket \in [Handlers -> Ticket \cup {NoTicket}]
    /\ todo \in [Handlers -> SUBSET Key]
    /\ userLock \in Handlers \cup {NoHandler}
    /\ batch \subseteq Ticket
    /\ collected \in Ticket \cup {NoTicket}
    /\ faults \in Nat
    /\ \A h \in Handlers :
          at[h] \in Finalizing \cup {"signUrl"} => ticket[h] \in Ticket

VerificationsInit ==
    /\ status = [t \in Ticket |-> "absent"]
    /\ meetup = [t \in Ticket |-> CHOOSE m \in Meetups : TRUE]
    /\ age = [t \in Ticket |-> 0]
    /\ urls = {} /\ objects = {} /\ verifications = {} /\ unacked = {}
    /\ at = [h \in Handlers |-> "idle"]
    /\ ticket = [h \in Handlers |-> NoTicket]
    /\ todo = [h \in Handlers |-> {}]
    /\ userLock = NoHandler
    /\ batch = {} /\ collected = NoTicket
    /\ faults = 0
-----------------------------------------------------------------------------
Goto(h, step) == at' = [at EXCEPT ![h] = step]

Fault == faults < MaxFaults /\ faults' = faults + 1

HasRow(t) == status[t] \notin {"absent", "deleted"}
Issued == {t \in Ticket : status[t] # "absent"}

\* What failUploadTicket does to the rows.
MayFail(t) == HasRow(t) /\ status[t] # "consumed"
FailTicket(t) ==
    status' = IF MayFail(t) THEN [status EXCEPT ![t] = "failed"] ELSE status

PendingTickets ==
    {t \in Ticket :
        status[t] \in {"pending", "finalizing"} /\ age[t] < ExpireAge}
HourlyTickets == {t \in Ticket : HasRow(t) /\ age[t] < HourAge}
-----------------------------------------------------------------------------
(* createUploadUrl: the ticket is counted and inserted in one transaction, *)
(* under the lock on the user's row, and the URL is signed afterwards.     *)

MayLock_Unchecked == TRUE
MayLock == userLock = NoHandler
LockUser(h) ==
    /\ at[h] = "idle"
    /\ MayLock
    /\ Issued # Ticket
    /\ userLock' = h
    /\ Goto(h, "countTickets")
    /\ UNCHANGED <<ticketVars, storeVars, ticket, todo, gcVars, faults>>

\* Over a limit the transaction inserts nothing and the answer is 429.
WithinLimits ==
    /\ Cardinality(PendingTickets) < MaxPending
    /\ Cardinality(HourlyTickets) < MaxPerHour

CountTickets(h) ==
    /\ at[h] = "countTickets"
    /\ IF WithinLimits
         THEN Goto(h, "insertTicket") /\ UNCHANGED userLock
         ELSE Goto(h, "idle") /\ userLock' = NoHandler
    /\ UNCHANGED <<ticketVars, storeVars, ticket, todo, gcVars, faults>>

\* The random id of the ticket is new; the meetup is one that the user may
\* verify, as ensureCanVerify has found.
InsertTicket(h) ==
    /\ at[h] = "insertTicket"
    /\ \E t \in Ticket :
          /\ \A u \in Ticket : status[u] = "absent" <=> u >= t
          /\ status' = [status EXCEPT ![t] = "pending"]
          /\ \E m \in Meetups : meetup' = [meetup EXCEPT ![t] = m]
          /\ ticket' = [ticket EXCEPT ![h] = t]
    /\ userLock' = NoHandler
    /\ Goto(h, "signUrl")
    /\ UNCHANGED <<age, urls, storeVars, todo, gcVars, faults>>

SignUrl(h) ==
    /\ at[h] = "signUrl"
    /\ urls' = urls \cup {ticket[h]}
    /\ Goto(h, "idle")
    /\ ticket' = [ticket EXCEPT ![h] = NoTicket]
    /\ UNCHANGED <<status, meetup, age, storeVars, todo, userLock, gcVars,
                   faults>>

\* Signing fails, and the statement that notes it may fail as well.
SignFails(h) ==
    /\ at[h] = "signUrl"
    /\ Fault
    /\ FailTicket(ticket[h]) \/ UNCHANGED status
    /\ Goto(h, "idle")
    /\ ticket' = [ticket EXCEPT ![h] = NoTicket]
    /\ UNCHANGED <<meetup, age, urls, storeVars, todo, userLock, gcVars>>

\* A statement of the transaction fails, or its COMMIT: nothing is inserted.
IssueFails(h) ==
    /\ at[h] \in {"countTickets", "insertTicket"}
    /\ Fault
    /\ userLock' = NoHandler
    /\ Goto(h, "idle")
    /\ UNCHANGED <<ticketVars, storeVars, ticket, todo, gcVars>>

\* The browser puts the photo under the URL while it is valid.  Nothing keeps
\* the PUT from arriving late or twice.
Upload(t) ==
    /\ t \in urls
    /\ age[t] < ExpireAge
    /\ objects' = objects \cup {StagingKey(t)}
    /\ UNCHANGED <<ticketVars, verifications, unacked, requestVars, gcVars,
                   faults>>
-----------------------------------------------------------------------------
(* createVerification.                                                     *)

MayClaim_Twice(t) ==
    status[t] \in {"pending", "finalizing"} /\ age[t] < ExpireAge
MayClaim(t) == status[t] = "pending" /\ age[t] < ExpireAge

ClaimUploadTicket(h, t) ==
    /\ at[h] = "idle"
    /\ t \in urls
    /\ MayClaim(t)
    /\ status' = [status EXCEPT ![t] = "finalizing"]
    /\ ticket' = [ticket EXCEPT ![h] = t]
    /\ Goto(h, "readObject")
    /\ UNCHANGED <<meetup, age, urls, storeVars, todo, userLock, gcVars,
                   faults>>

\* The object is missing, too large or not the image that was announced, or
\* reading it fails.
RejectObject(h) ==
    /\ at[h] = "readObject"
    /\ Goto(h, "failUploadTicket")
    /\ UNCHANGED <<ticketVars, storeVars, ticket, todo, userLock, gcVars,
                   faults>>

AcceptObject(h) ==
    /\ at[h] = "readObject"
    /\ StagingKey(ticket[h]) \in objects
    /\ Goto(h, "copyObject")
    /\ UNCHANGED <<ticketVars, storeVars, ticket, todo, userLock, gcVars,
                   faults>>

\* moveObject is a copy and a delete.
CopyObject(h) ==
    /\ at[h] = "copyObject"
    /\ IF StagingKey(ticket[h]) \in objects
         THEN /\ objects' = objects \cup {FinalKey(ticket[h])}
              /\ Goto(h, "deleteSource")
         ELSE UNCHANGED objects /\ Goto(h, "failUploadTicket")
    /\ UNCHANGED <<ticketVars, verifications, unacked, ticket, todo, userLock,
                   gcVars, faults>>

DeleteSource(h) ==
    /\ at[h] = "deleteSource"
    /\ objects' = objects \ {StagingKey(ticket[h])}
    /\ Goto(h, "createVerification")
    /\ UNCHANGED <<ticketVars, verifications, unacked, ticket, todo, userLock,
                   gcVars, faults>>

\* A storage call fails, and the storage may have done it all the same.
StorageFails(h) ==
    /\ Fault
    /\ \/ /\ at[h] \in {"copyObject", "deleteSource"}
          /\ UNCHANGED objects
       \/ /\ at[h] = "copyObject"
          /\ StagingKey(ticket[h]) \in objects
          /\ objects' = objects \cup {FinalKey(ticket[h])}
       \/ /\ at[h] = "deleteSource"
          /\ objects' = objects \ {StagingKey(ticket[h])}
    /\ Goto(h, "failUploadTicket")
    /\ UNCHANGED <<ticketVars, verifications, unacked, ticket, todo, userLock,
                   gcVars>>

\* UNIQUE (meetup_id, user_id) of the table verifications.
Verified(m) == \E v \in verifications : v.meetup = m

\* The transaction consumes the ticket and inserts the verification and its
\* points, which update the user's row and so wait for its lock.
Consume(h) ==
    LET t == ticket[h] IN
    /\ status[t] = "finalizing"
    /\ ~Verified(meetup[t])
    /\ userLock = NoHandler
    /\ status' = [status EXCEPT ![t] = "consumed"]
    /\ verifications' =
          verifications \cup {[meetup |-> meetup[t], photo |-> FinalKey(t)]}

CreateVerification(h) ==
    /\ at[h] = "createVerification"
    /\ Consume(h)
    /\ Goto(h, "idle")
    /\ ticket' = [ticket EXCEPT ![h] = NoTicket]
    /\ UNCHANGED <<meetup, age, urls, objects, unacked, todo, userLock,
                   gcVars, faults>>

\* COMMIT is done but its answer is lost; db.transaction throws.
CommitUnanswered(h) ==
    /\ at[h] = "createVerification"
    /\ Fault
    /\ Consume(h)
    /\ unacked' = unacked \cup {FinalKey(ticket[h])}
    /\ Goto(h, "failUploadTicket")
    /\ UNCHANGED <<meetup, age, urls, objects, ticket, todo, userLock,
                   gcVars>>

\* The ticket is not claimed any more, or the meetup is verified already.
RejectVerification(h) ==
    /\ at[h] = "createVerification"
    /\ status[ticket[h]] # "finalizing" \/ Verified(meetup[ticket[h]])
    /\ Goto(h, "failUploadTicket")
    /\ UNCHANGED <<ticketVars, storeVars, ticket, todo, userLock, gcVars,
                   faults>>

TransactionFails(h) ==
    /\ at[h] = "createVerification"
    /\ Fault
    /\ Goto(h, "failUploadTicket")
    /\ UNCHANGED <<ticketVars, storeVars, ticket, todo, userLock, gcVars>>

\* The error path: the ticket fails, and both objects are deleted at a time.
CleanUpKeys_SourceOnly(t) == {StagingKey(t)}
CleanUpKeys(t) == {StagingKey(t), FinalKey(t)}

FailUploadTicket(h) ==
    /\ at[h] = "failUploadTicket"
    /\ \/ FailTicket(ticket[h]) /\ UNCHANGED faults
       \/ UNCHANGED status /\ Fault
    /\ todo' = [todo EXCEPT ![h] = CleanUpKeys(ticket[h])]
    /\ Goto(h, "cleanUp")
    /\ UNCHANGED <<meetup, age, urls, storeVars, ticket, userLock, gcVars>>

CleanUp(h, k) ==
    /\ at[h] = "cleanUp"
    /\ \/ objects' = objects \ {k} /\ UNCHANGED faults
       \/ UNCHANGED objects /\ Fault
    /\ todo' = [todo EXCEPT ![h] = @ \ {k}]
    /\ UNCHANGED <<ticketVars, verifications, unacked, at, ticket, userLock,
                   gcVars>>

AnswerError(h) ==
    /\ at[h] = "cleanUp"
    /\ todo[h] = {}
    /\ Goto(h, "idle")
    /\ ticket' = [ticket EXCEPT ![h] = NoTicket]
    /\ UNCHANGED <<ticketVars, storeVars, todo, userLock, gcVars, faults>>
-----------------------------------------------------------------------------
(* Garbage collection, one run at a time.                                  *)

Collectable_NotFinalizing(t) ==
    status[t] \in {"pending", "failed"} /\ age[t] >= CollectAge
Collectable(t) ==
    HasRow(t) /\ status[t] # "consumed" /\ age[t] >= CollectAge

StartCollection ==
    /\ batch = {} /\ collected = NoTicket
    /\ batch' = {t \in Ticket : Collectable(t)}
    /\ UNCHANGED <<ticketVars, storeVars, requestVars, collected, faults>>

\* A delete that fails is ignored.
CollectObject ==
    /\ collected = NoTicket
    /\ \E t \in batch :
          /\ \A u \in batch : t <= u
          /\ \/ objects' = objects \ {StagingKey(t)} /\ UNCHANGED faults
             \/ UNCHANGED objects /\ Fault
          /\ collected' = t
    /\ UNCHANGED <<ticketVars, verifications, unacked, requestVars, batch>>

MayCollect_AnyStatus(t) == HasRow(t)
MayCollect(t) == HasRow(t) /\ status[t] # "consumed"
CollectRow ==
    /\ collected # NoTicket
    /\ status' = IF MayCollect(collected)
                   THEN [status EXCEPT ![collected] = "deleted"] ELSE status
    /\ batch' = batch \ {collected}
    /\ collected' = NoTicket
    /\ UNCHANGED <<meetup, age, urls, storeVars, requestVars, faults>>

\* A failing statement ends the run.
CollectionFails ==
    /\ collected # NoTicket
    /\ Fault
    /\ batch' = {} /\ collected' = NoTicket
    /\ UNCHANGED <<ticketVars, storeVars, requestVars>>
-----------------------------------------------------------------------------
\* The clock ticks for every ticket alike.
Tick ==
    /\ age' = [t \in Ticket |-> IF t \in Issued /\ age[t] < HourAge
                                THEN age[t] + 1 ELSE age[t]]
    /\ UNCHANGED <<status, meetup, urls, storeVars, requestVars, gcVars,
                   faults>>

\* The server process dies and starts again: its requests and its collection
\* are gone, open transactions are rolled back.
Crash ==
    /\ Fault
    /\ at' = [h \in Handlers |-> "idle"]
    /\ ticket' = [h \in Handlers |-> NoTicket]
    /\ todo' = [h \in Handlers |-> {}]
    /\ userLock' = NoHandler
    /\ batch' = {} /\ collected' = NoTicket
    /\ UNCHANGED <<ticketVars, storeVars>>
-----------------------------------------------------------------------------
IssueStep(h) ==
    \/ CountTickets(h) \/ InsertTicket(h) \/ SignUrl(h)
    \/ SignFails(h) \/ IssueFails(h)

VerifyStep(h) ==
    \/ RejectObject(h) \/ AcceptObject(h) \/ CopyObject(h) \/ DeleteSource(h)
    \/ StorageFails(h) \/ CreateVerification(h) \/ CommitUnanswered(h)
    \/ RejectVerification(h) \/ TransactionFails(h) \/ FailUploadTicket(h)
    \/ \E k \in todo[h] : CleanUp(h, k)
    \/ AnswerError(h)

Collect == StartCollection \/ CollectObject \/ CollectRow \/ CollectionFails

VerificationsNext ==
    \/ \E h \in Handlers :
          \/ LockUser(h) \/ IssueStep(h) \/ VerifyStep(h)
          \/ \E t \in Ticket : ClaimUploadTicket(h, t)
    \/ \E t \in Ticket : Upload(t)
    \/ Tick
    \/ Collect
    \/ Crash

VerificationsSpec == VerificationsInit /\ [][VerificationsNext]_vars
-----------------------------------------------------------------------------
(* Safety.                                                                 *)

\* A stored verification has its photo, whatever else of the same user fails,
\* is cleaned up or collected around it.  The one exception is in the code: a
\* COMMIT that is not acknowledged counts as failed, and the error path then
\* deletes the photo of a verification that is there.
PhotoKept ==
    \A v \in verifications : v.photo \in objects \/ v.photo \in unacked

\* While no call fails and the server does not crash, a request that was
\* turned down, as a duplicate or because its ticket was collected, leaves no
\* photo behind: one in the trusted path is in the table or on its way.
NoOrphanPhoto ==
    faults = 0 =>
        \A t \in Ticket : FinalKey(t) \in objects =>
            \/ \E v \in verifications : v.photo = FinalKey(t)
            \/ \E h \in Handlers :
                  /\ ticket[h] = t
                  /\ \/ at[h] \in {"deleteSource", "createVerification",
                                   "failUploadTicket"}
                     \/ FinalKey(t) \in todo[h]

\* Concurrent requests for upload URLs do not get past the limit on tickets
\* that are under way.
PendingLimit == Cardinality(PendingTickets) <= MaxPending

\* Why photos are kept and the limit holds.  A claimed ticket has one request,
\* which alone touches its photo; once the ticket is consumed, that request is
\* gone or believes it has failed; and the requests that count tickets take
\* turns.
OneOwner ==
    \A h, g \in Handlers :
        at[h] \in Finalizing /\ at[g] \in Finalizing /\ ticket[h] = ticket[g]
            => h = g

ClaimedIsTaken ==
    \A h \in Handlers :
        at[h] \in Finalizing => status[ticket[h]] \notin {"absent", "pending"}

ConsumedIsOver ==
    \A h \in Handlers :
        at[h] \in Finalizing /\ status[ticket[h]] = "consumed" =>
            /\ at[h] \in {"failUploadTicket", "cleanUp"}
            /\ FinalKey(ticket[h]) \in unacked

PhotoIsReady ==
    \A h \in Handlers :
        at[h] \in {"deleteSource", "createVerification"} =>
            FinalKey(ticket[h]) \in objects

CleansUpOwn ==
    \A h \in Handlers :
        at[h] = "cleanUp" =>
            todo[h] \subseteq {StagingKey(ticket[h]), FinalKey(ticket[h])}

PhotoIsConsumed ==
    \A v \in verifications :
        \E t \in Ticket : v.photo = FinalKey(t) /\ status[t] = "consumed"

PhotoInv ==
    /\ OneOwner /\ ClaimedIsTaken /\ ConsumedIsOver /\ PhotoIsReady
    /\ CleansUpOwn /\ PhotoIsConsumed /\ PhotoKept

\* Why no photo is left behind: only a request that is cleaning up has keys
\* still to delete, so it answers when its photo is gone.
OrphanInv ==
    /\ \A h \in Handlers : todo[h] # {} => at[h] = "cleanUp"
    /\ NoOrphanPhoto

LimitInv ==
    /\ \A h \in Handlers :
          /\ at[h] \in {"countTickets", "insertTicket"} => userLock = h
          /\ at[h] = "insertTicket" => Cardinality(PendingTickets) < MaxPending
    /\ PendingLimit

\* DEVELOPMENT.md:141-142 says that the server checks the limit of tickets
\* issued per hour.  It counts rows, and collection deletes rows of tickets
\* that are a quarter of an hour old.
HourlyLimit ==
    Cardinality({t \in Issued : age[t] < HourAge}) <= MaxPerHour

\* A ticket is consumed once and for all: neither the error path of a request
\* whose COMMIT was not acknowledged nor a collection that chose the ticket
\* before it was consumed changes its row.
ConsumedStays ==
    [][\A t \in Ticket : status[t] = "consumed" => status'[t] = "consumed"]_vars
-----------------------------------------------------------------------------
(* Liveness.  The clock ticks and the collection runs every hour; nothing  *)
(* is assumed of the requests, which the user may abandon and a crash may  *)
(* end anywhere.                                                           *)

FairVerificationsSpec ==
    VerificationsSpec /\ WF_vars(Tick) /\ WF_vars(Collect)

\* No ticket stays under way for ever, whoever was working on it.
TicketsSettle ==
    \A t \in Ticket :
        status[t] \in {"pending", "finalizing"} ~>
            status[t] \in {"consumed", "failed", "deleted"}
=============================================================================
