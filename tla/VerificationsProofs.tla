------------------------ MODULE VerificationsProofs ------------------------
(***************************************************************************)
(* Proofs about the verifications of one user, for any number of tickets,  *)
(* meetups, concurrent requests and faults.  PhotoInv is inductive, given  *)
(* the types, and implies PhotoKept.  LimitInv is inductive too and needs  *)
(* that one statement alone adds to the tickets under way, one at a time.  *)
(***************************************************************************)
EXTENDS Verifications, FiniteSetTheorems, TLAPS

\* The two kinds of keys differ, and a photo belongs to one ticket.
LEMMA KeysDiffer ==
    ASSUME NEW t, NEW u
    PROVE  /\ StagingKey(t) # FinalKey(u)
           /\ FinalKey(t) = FinalKey(u) => t = u
  BY DEF StagingKey, FinalKey

\* What a ticket's photo may be stored under is a key.
LEMMA KeysAreKeys ==
    ASSUME NEW t \in Ticket
    PROVE  StagingKey(t) \in Key /\ FinalKey(t) \in Key
  BY DEF StagingKey, FinalKey, Key

\* failUploadTicket fails a ticket or changes nothing, and never a consumed one.
LEMMA FailTicketEffect ==
    ASSUME VerificationsTypeOK, NEW t \in Ticket, FailTicket(t)
    PROVE  /\ status' \in [Ticket -> Status]
           /\ \A u \in Ticket :
                 \/ status'[u] = status[u]
                 \/ status[u] \notin {"absent", "consumed"} /\ status'[u] = "failed"
  BY DEF FailTicket, MayFail, HasRow, VerificationsTypeOK, Status
-----------------------------------------------------------------------------
(* Types.                                                                  *)

\* The initial values have their types.
LEMMA TypeInit == VerificationsInit => VerificationsTypeOK
  BY VerificationsAssumption
  DEF VerificationsInit, VerificationsTypeOK, Status, Age, Step, Ticket,
      NoTicket, Finalizing

\* A request for an upload URL keeps the types.
LEMMA IssueTypes ==
    ASSUME VerificationsTypeOK, NEW h \in Handlers,
           LockUser(h) \/ IssueStep(h)
    PROVE  VerificationsTypeOK'
<1> USE DEF VerificationsTypeOK, Goto, Step, Finalizing, ticketVars, storeVars,
            gcVars
<1>1. CASE LockUser(h)
  BY <1>1 DEF LockUser
<1>2. CASE CountTickets(h)
  BY <1>2 DEF CountTickets
<1>3. CASE InsertTicket(h)
  BY <1>3 DEF InsertTicket, Status
<1>4. CASE SignUrl(h)
  BY <1>4 DEF SignUrl
<1>5. CASE SignFails(h)
  <2>1. ticket[h] \in Ticket
    BY <1>5 DEF SignFails
  <2>2. status' \in [Ticket -> Status]
    BY <1>5, <2>1, FailTicketEffect DEF SignFails
  <2> QED BY <1>5, <2>2 DEF SignFails, Fault
<1>6. CASE IssueFails(h)
  BY <1>6 DEF IssueFails, Fault
<1> QED BY <1>1, <1>2, <1>3, <1>4, <1>5, <1>6 DEF IssueStep

\* A request for a verification keeps the types.
LEMMA VerifyTypes ==
    ASSUME VerificationsTypeOK, NEW h \in Handlers,
           VerifyStep(h) \/ \E t \in Ticket : ClaimUploadTicket(h, t)
    PROVE  VerificationsTypeOK'
<1> USE DEF VerificationsTypeOK, Goto, Step, Finalizing, ticketVars, gcVars
<1>0. at[h] \in Finalizing => /\ StagingKey(ticket[h]) \in Key
                              /\ FinalKey(ticket[h]) \in Key
  BY KeysAreKeys
<1>1. ASSUME NEW t \in Ticket, ClaimUploadTicket(h, t)
      PROVE  VerificationsTypeOK'
  BY <1>1 DEF ClaimUploadTicket, Status, storeVars
<1>2. CASE RejectObject(h)
  BY <1>2 DEF RejectObject, storeVars
<1>3. CASE AcceptObject(h)
  BY <1>3 DEF AcceptObject, storeVars
<1>4. CASE CopyObject(h)
  BY <1>0, <1>4 DEF CopyObject
<1>5. CASE DeleteSource(h)
  BY <1>5 DEF DeleteSource
<1>6. CASE StorageFails(h)
  BY <1>0, <1>6 DEF StorageFails, Fault
<1>7. CASE CreateVerification(h)
  BY <1>0, <1>7 DEF CreateVerification, Consume, Status
<1>8. CASE CommitUnanswered(h)
  BY <1>0, <1>8 DEF CommitUnanswered, Consume, Status, Fault
<1>9. CASE RejectVerification(h)
  BY <1>9 DEF RejectVerification, storeVars
<1>10. CASE TransactionFails(h)
  BY <1>10 DEF TransactionFails, Fault, storeVars
<1>11. CASE FailUploadTicket(h)
  <2>1. status' \in [Ticket -> Status]
    BY <1>11, FailTicketEffect DEF FailUploadTicket
  <2>2. CleanUpKeys(ticket[h]) \subseteq Key
    BY <1>0, <1>11 DEF FailUploadTicket, CleanUpKeys
  <2> QED BY <1>11, <2>1, <2>2 DEF FailUploadTicket, Fault, storeVars
<1>12. ASSUME NEW k \in todo[h], CleanUp(h, k)
       PROVE  VerificationsTypeOK'
  BY <1>12 DEF CleanUp, Fault
<1>13. CASE AnswerError(h)
  BY <1>13 DEF AnswerError, storeVars
<1> QED BY <1>1, <1>2, <1>3, <1>4, <1>5, <1>6, <1>7, <1>8, <1>9, <1>10, <1>11,
           <1>12, <1>13 DEF VerifyStep

\* So do uploads, the clock, the collection and a crash.
LEMMA OtherTypes ==
    ASSUME VerificationsTypeOK,
           (\E t \in Ticket : Upload(t)) \/ Tick \/ Collect \/ Crash
    PROVE  VerificationsTypeOK'
<1> USE DEF VerificationsTypeOK, ticketVars, requestVars, gcVars
<1>1. ASSUME NEW t \in Ticket, Upload(t) PROVE VerificationsTypeOK'
  BY <1>1, KeysAreKeys DEF Upload
<1>2. CASE Tick
  BY <1>2, VerificationsAssumption DEF Tick, Age, storeVars
<1>3. CASE StartCollection
  BY <1>3 DEF StartCollection, storeVars
<1>4. CASE CollectObject
  BY <1>4 DEF CollectObject, Fault
<1>5. CASE CollectRow
  BY <1>5 DEF CollectRow, storeVars, Status
<1>6. CASE CollectionFails
  BY <1>6 DEF CollectionFails, Fault, storeVars
<1>7. CASE Crash
  BY <1>7 DEF Crash, Fault, storeVars, Step, Finalizing
<1> QED BY <1>1, <1>2, <1>3, <1>4, <1>5, <1>6, <1>7 DEF Collect

\* Every step keeps the types.
LEMMA TypeStep ==
    VerificationsTypeOK /\ [VerificationsNext]_vars => VerificationsTypeOK'
<1> SUFFICES ASSUME VerificationsTypeOK, [VerificationsNext]_vars
             PROVE  VerificationsTypeOK'
  OBVIOUS
<1>1. CASE UNCHANGED vars
  BY <1>1 DEF VerificationsTypeOK, vars, ticketVars, storeVars, requestVars,
              gcVars
<1> QED BY <1>1, IssueTypes, VerifyTypes, OtherTypes DEF VerificationsNext

\* Every variable keeps its type.
THEOREM VerificationsTypeCorrect == VerificationsSpec => []VerificationsTypeOK
  BY TypeInit, TypeStep, PTL DEF VerificationsSpec
-----------------------------------------------------------------------------
(* A stored verification has its photo.                                    *)

\* At the start nothing is stored and nothing is claimed.
LEMMA PhotoInit == VerificationsInit => PhotoInv
  BY DEF VerificationsInit, PhotoInv, OneOwner, ClaimedIsTaken, ConsumedIsOver,
         PhotoIsReady, CleansUpOwn, PhotoIsConsumed, PhotoKept, Finalizing

\* Steps that neither consume a ticket nor touch a photo, and after which the
\* requests that had a ticket are where they were or on the error path.
LEMMA PhotoFrame ==
    ASSUME VerificationsTypeOK, PhotoInv,
           UNCHANGED <<verifications, unacked>>,
           \A t \in Ticket : FinalKey(t) \in objects => FinalKey(t) \in objects',
           \A t \in Ticket :
              /\ status[t] = "consumed" <=> status'[t] = "consumed"
              /\ status[t] \notin {"absent", "pending"} =>
                    status'[t] \notin {"absent", "pending"},
           \A h \in Handlers :
              /\ at'[h] \in Finalizing =>
                    at[h] \in Finalizing /\ ticket'[h] = ticket[h]
              /\ at'[h] \in {"deleteSource", "createVerification"} =>
                    FinalKey(ticket'[h]) \in objects'
              /\ at'[h] = "cleanUp" =>
                    todo'[h] \subseteq {StagingKey(ticket'[h]),
                                        FinalKey(ticket'[h])}
              /\ at[h] \in {"failUploadTicket", "cleanUp"} =>
                    at'[h] \in {"failUploadTicket", "cleanUp", "idle"}
    PROVE  PhotoInv'
<1> USE DEF PhotoInv
<1>1. \A h \in Handlers :
        at'[h] \in Finalizing => ticket[h] \in Ticket /\ ticket'[h] = ticket[h]
  BY DEF VerificationsTypeOK
<1>2. OneOwner' /\ ClaimedIsTaken'
  BY <1>1 DEF OneOwner, ClaimedIsTaken
<1>3. ConsumedIsOver'
  BY <1>1 DEF ConsumedIsOver, Finalizing
<1>4. PhotoIsReady' /\ CleansUpOwn'
  BY DEF PhotoIsReady, CleansUpOwn
<1>5. PhotoIsConsumed' /\ PhotoKept'
  BY DEF PhotoIsConsumed, PhotoKept
<1> QED BY <1>2, <1>3, <1>4, <1>5

\* Requests for an upload URL touch no photo.
LEMMA PhotoIssue ==
    ASSUME VerificationsTypeOK, PhotoInv, NEW h \in Handlers,
           LockUser(h) \/ IssueStep(h)
    PROVE  PhotoInv'
<1> USE DEF Goto, Finalizing, ticketVars, storeVars, VerificationsTypeOK
<1>0. \A g \in Handlers :
         /\ at[g] \in {"deleteSource", "createVerification"} =>
               FinalKey(ticket[g]) \in objects
         /\ at[g] = "cleanUp" =>
               todo[g] \subseteq {StagingKey(ticket[g]), FinalKey(ticket[g])}
  BY DEF PhotoInv, PhotoIsReady, CleansUpOwn
<1>1. CASE LockUser(h)
  BY <1>0, <1>1, PhotoFrame DEF LockUser
<1>2. CASE CountTickets(h)
  BY <1>0, <1>2, PhotoFrame DEF CountTickets
<1>3. CASE InsertTicket(h)
  <2>0. PICK t \in Ticket : /\ \A u \in Ticket : status[u] = "absent" <=> u >= t
                           /\ status' = [status EXCEPT ![t] = "pending"]
                           /\ ticket' = [ticket EXCEPT ![h] = t]
    BY <1>3 DEF InsertTicket
  <2>1. status[t] = "absent"
    <3>1. t >= t
      BY VerificationsAssumption DEF Ticket
    <3> QED BY <2>0, <3>1
  <2>2. \A u \in Ticket :
          /\ status[u] = "consumed" <=> status'[u] = "consumed"
          /\ status[u] \notin {"absent", "pending"} =>
                status'[u] \notin {"absent", "pending"}
    BY <2>0, <2>1
  <2>3. \A g \in Handlers : at'[g] \in Finalizing =>
          g # h /\ at[g] = at'[g] /\ ticket'[g] = ticket[g]
    BY <1>3, <2>0 DEF InsertTicket
  <2> QED BY <1>0, <1>3, <2>2, <2>3, PhotoFrame DEF InsertTicket
<1>4. CASE SignUrl(h)
  BY <1>0, <1>4, PhotoFrame DEF SignUrl
<1>5. CASE SignFails(h)
  BY <1>0, <1>5, PhotoFrame, FailTicketEffect DEF SignFails
<1>6. CASE IssueFails(h)
  BY <1>0, <1>6, PhotoFrame DEF IssueFails
<1> QED BY <1>1, <1>2, <1>3, <1>4, <1>5, <1>6 DEF IssueStep

\* The step that matters: a clean-up deletes the photo of its own ticket, and
\* no other request is using it.
LEMMA PhotoCleanUp ==
    ASSUME VerificationsTypeOK, PhotoInv, NEW h \in Handlers,
           NEW k \in todo[h], CleanUp(h, k)
    PROVE  PhotoInv'
<1> USE DEF VerificationsTypeOK, PhotoInv, ticketVars, gcVars
<1> DEFINE t == ticket[h]
<1>1. /\ at[h] = "cleanUp" /\ t \in Ticket
      /\ k \in {StagingKey(t), FinalKey(t)}
      /\ \A key : key \in objects /\ key # k => key \in objects'
      /\ UNCHANGED <<ticketVars, verifications, unacked, at, ticket>>
      /\ todo' = [todo EXCEPT ![h] = @ \ {k}]
  BY DEF CleanUp, CleansUpOwn, Finalizing
<1>2. OneOwner' /\ ClaimedIsTaken' /\ ConsumedIsOver' /\ PhotoIsConsumed'
  BY <1>1 DEF OneOwner, ClaimedIsTaken, ConsumedIsOver, PhotoIsConsumed
<1>3. CleansUpOwn'
  BY <1>1 DEF CleansUpOwn
<1>4. ASSUME NEW g \in Handlers,
             at[g] \in {"deleteSource", "createVerification"}
      PROVE  FinalKey(ticket[g]) \in objects'
  <2>1. ticket[g] # t
    BY <1>1, <1>4 DEF OneOwner, Finalizing
  <2>2. FinalKey(ticket[g]) # k
    BY <1>1, <2>1, KeysDiffer
  <2> QED BY <1>1, <1>4, <2>2 DEF PhotoIsReady
<1>5. PhotoIsReady'
  BY <1>1, <1>4 DEF PhotoIsReady
<1>6. ASSUME NEW v \in verifications
      PROVE  v.photo \in objects' \/ v.photo \in unacked
  <2>1. PICK u \in Ticket : v.photo = FinalKey(u) /\ status[u] = "consumed"
    BY DEF PhotoIsConsumed
  <2>2. CASE u = t
    BY <1>1, <2>1, <2>2 DEF ConsumedIsOver, Finalizing
  <2>3. CASE u # t
    BY <1>1, <2>1, <2>3, KeysDiffer DEF PhotoKept
  <2> QED BY <2>2, <2>3
<1>7. PhotoKept'
  BY <1>1, <1>6 DEF PhotoKept
<1> QED BY <1>2, <1>3, <1>5, <1>7

\* A request that claims a ticket is the only one that has it.
LEMMA PhotoClaim ==
    ASSUME VerificationsTypeOK, PhotoInv, NEW h \in Handlers, NEW t \in Ticket,
           ClaimUploadTicket(h, t)
    PROVE  PhotoInv'
<1> USE DEF VerificationsTypeOK, PhotoInv, Goto, storeVars
<1>1. /\ status[t] = "pending" /\ at[h] = "idle"
      /\ status' = [status EXCEPT ![t] = "finalizing"]
      /\ ticket' = [ticket EXCEPT ![h] = t]
      /\ at' = [at EXCEPT ![h] = "readObject"]
      /\ UNCHANGED <<objects, verifications, unacked, todo>>
  BY DEF ClaimUploadTicket, MayClaim
<1>2. \A g \in Handlers : at[g] \in Finalizing => ticket[g] # t
  BY <1>1 DEF ClaimedIsTaken
<1>3. \A g \in Handlers : g # h => at'[g] = at[g] /\ ticket'[g] = ticket[g]
  BY <1>1
<1>4. OneOwner'
  BY <1>1, <1>2, <1>3 DEF OneOwner
<1>5. ClaimedIsTaken'
  BY <1>1, <1>3 DEF ClaimedIsTaken
<1>6. ConsumedIsOver'
  BY <1>1, <1>2, <1>3 DEF ConsumedIsOver
<1>7. PhotoIsReady' /\ CleansUpOwn'
  BY <1>1, <1>3 DEF PhotoIsReady, CleansUpOwn
<1>8. PhotoIsConsumed' /\ PhotoKept'
  BY <1>1 DEF PhotoIsConsumed, PhotoKept
<1> QED BY <1>4, <1>5, <1>6, <1>7, <1>8

\* The transaction consumes the ticket of a photo that is in its place.
LEMMA PhotoConsume ==
    ASSUME VerificationsTypeOK, PhotoInv, NEW h \in Handlers,
           CreateVerification(h) \/ CommitUnanswered(h)
    PROVE  PhotoInv'
<1> USE DEF VerificationsTypeOK, PhotoInv, Goto
<1>1. PICK t \in Ticket :
         /\ t = ticket[h] /\ at[h] = "createVerification"
         /\ status' = [status EXCEPT ![t] = "consumed"]
         /\ \A v \in verifications' : v \in verifications \/ v.photo = FinalKey(t)
         /\ unacked \subseteq unacked'
         /\ UNCHANGED <<objects, todo>>
  BY DEF CreateVerification, CommitUnanswered, Consume, Finalizing
<1>2. FinalKey(t) \in objects
  BY <1>1 DEF PhotoIsReady
<1>3. /\ at'[h] \in {"idle", "failUploadTicket"}
      /\ at'[h] = "failUploadTicket" => FinalKey(t) \in unacked' /\ ticket'[h] = t
  BY <1>1 DEF CreateVerification, CommitUnanswered
<1>4. \A g \in Handlers :
        g # h => /\ at'[g] = at[g] /\ ticket'[g] = ticket[g]
                 /\ at[g] \in Finalizing => ticket[g] \in Ticket /\ ticket[g] # t
  BY <1>1 DEF OneOwner, Finalizing, CreateVerification, CommitUnanswered
<1>5. OneOwner'
  BY <1>1, <1>3, <1>4 DEF OneOwner, Finalizing
<1>6. ClaimedIsTaken'
  BY <1>1, <1>3, <1>4 DEF ClaimedIsTaken, Finalizing
<1>7. ConsumedIsOver'
  BY <1>1, <1>3, <1>4 DEF ConsumedIsOver, Finalizing
<1>8. PhotoIsReady' /\ CleansUpOwn'
  BY <1>1, <1>3, <1>4 DEF PhotoIsReady, CleansUpOwn, Finalizing
<1>9. PhotoIsConsumed' /\ PhotoKept'
  BY <1>1, <1>2 DEF PhotoIsConsumed, PhotoKept
<1> QED BY <1>5, <1>6, <1>7, <1>8, <1>9

\* Every step of a request for a verification after its claim.
LEMMA PhotoVerify ==
    ASSUME VerificationsTypeOK, PhotoInv, NEW h \in Handlers, VerifyStep(h)
    PROVE  PhotoInv'
<1> USE DEF Goto, Finalizing, ticketVars, gcVars, VerificationsTypeOK
<1>0. \A g \in Handlers :
         /\ at[g] \in {"deleteSource", "createVerification"} =>
               FinalKey(ticket[g]) \in objects
         /\ at[g] = "cleanUp" =>
               todo[g] \subseteq {StagingKey(ticket[g]), FinalKey(ticket[g])}
  BY DEF PhotoInv, PhotoIsReady, CleansUpOwn
<1>1. CASE RejectObject(h)
  BY <1>0, <1>1, PhotoFrame DEF RejectObject, storeVars
<1>2. CASE AcceptObject(h)
  BY <1>0, <1>2, PhotoFrame DEF AcceptObject, storeVars
<1>3. CASE CopyObject(h)
  BY <1>0, <1>3, PhotoFrame DEF CopyObject
<1>4. CASE DeleteSource(h)
  BY <1>0, <1>4, PhotoFrame, KeysDiffer DEF DeleteSource
<1>5. CASE StorageFails(h)
  BY <1>0, <1>5, PhotoFrame, KeysDiffer DEF StorageFails
<1>6. CASE RejectVerification(h)
  BY <1>0, <1>6, PhotoFrame DEF RejectVerification, storeVars
<1>7. CASE TransactionFails(h)
  BY <1>0, <1>7, PhotoFrame DEF TransactionFails, storeVars
<1>8. CASE FailUploadTicket(h)
  BY <1>0, <1>8, PhotoFrame, FailTicketEffect
  DEF FailUploadTicket, CleanUpKeys, storeVars
<1>9. CASE AnswerError(h)
  BY <1>0, <1>9, PhotoFrame DEF AnswerError, storeVars
<1> QED BY <1>1, <1>2, <1>3, <1>4, <1>5, <1>6, <1>7, <1>8, <1>9,
           PhotoConsume, PhotoCleanUp DEF VerifyStep

\* Uploads and the collection touch staging objects only, and a crash leaves no
\* request that could clean up.
LEMMA PhotoOther ==
    ASSUME VerificationsTypeOK, PhotoInv,
           (\E t \in Ticket : Upload(t)) \/ Tick \/ Collect \/ Crash
    PROVE  PhotoInv'
<1> USE DEF VerificationsTypeOK, ticketVars, requestVars, gcVars
<1>0. \A g \in Handlers :
         /\ at[g] \in {"deleteSource", "createVerification"} =>
               FinalKey(ticket[g]) \in objects
         /\ at[g] = "cleanUp" =>
               todo[g] \subseteq {StagingKey(ticket[g]), FinalKey(ticket[g])}
  BY DEF PhotoInv, PhotoIsReady, CleansUpOwn
<1>1. ASSUME NEW t \in Ticket, Upload(t) PROVE PhotoInv'
  BY <1>0, <1>1, PhotoFrame DEF Upload
<1>2. CASE Tick
  BY <1>0, <1>2, PhotoFrame DEF Tick, storeVars
<1>3. CASE StartCollection
  BY <1>0, <1>3, PhotoFrame DEF StartCollection, storeVars
<1>4. CASE CollectObject
  BY <1>0, <1>4, PhotoFrame, KeysDiffer DEF CollectObject
<1>5. CASE CollectRow
  BY <1>0, <1>5, PhotoFrame DEF CollectRow, MayCollect, HasRow, storeVars
<1>6. CASE CollectionFails
  BY <1>0, <1>6, PhotoFrame DEF CollectionFails, storeVars
<1>7. CASE Crash
  BY <1>7, PhotoFrame DEF Crash, storeVars, Finalizing
<1> QED BY <1>1, <1>2, <1>3, <1>4, <1>5, <1>6, <1>7 DEF Collect

\* Every step preserves the reasons why photos are kept.
LEMMA PhotoStep ==
    VerificationsTypeOK /\ PhotoInv /\ [VerificationsNext]_vars => PhotoInv'
<1> SUFFICES ASSUME VerificationsTypeOK, PhotoInv, [VerificationsNext]_vars
             PROVE  PhotoInv'
  OBVIOUS
<1>1. CASE UNCHANGED vars
  BY <1>1
  DEF PhotoInv, OneOwner, ClaimedIsTaken, ConsumedIsOver, PhotoIsReady,
      CleansUpOwn, PhotoIsConsumed, PhotoKept, vars, ticketVars, storeVars,
      requestVars, gcVars
<1> QED BY <1>1, PhotoIssue, PhotoClaim, PhotoVerify, PhotoOther
        DEF VerificationsNext

\* The reasons why photos are kept hold in every reachable state.
THEOREM PhotoInvCorrect == VerificationsSpec => []PhotoInv
  BY VerificationsTypeCorrect, PhotoInit, PhotoStep, PTL DEF VerificationsSpec

\* A stored verification has its photo, unless its COMMIT was not acknowledged.
THEOREM PhotoKeptCorrect == VerificationsSpec => []PhotoKept
<1>1. PhotoInv => PhotoKept
  BY DEF PhotoInv
<1> QED BY <1>1, PhotoInvCorrect, PTL
-----------------------------------------------------------------------------
(* A request that is turned down leaves no photo behind.                   *)

\* The request has the photo of ticket t on its way, or still to delete.
Holds(h, t) ==
    /\ ticket[h] = t
    /\ \/ at[h] \in {"deleteSource", "createVerification", "failUploadTicket"}
       \/ FinalKey(t) \in todo[h]

Stored(t) == \E v \in verifications : v.photo = FinalKey(t)

\* A photo in the trusted path is stored, or some request holds it.
LEMMA OrphanParts ==
    NoOrphanPhoto <=>
        (faults = 0 =>
            \A t \in Ticket : FinalKey(t) \in objects =>
                Stored(t) \/ \E h \in Handlers : Holds(h, t))
  BY DEF NoOrphanPhoto, Stored, Holds

\* At the start there is no photo and nothing to delete.
LEMMA OrphanInit == VerificationsInit => OrphanInv
  BY DEF VerificationsInit, OrphanInv, NoOrphanPhoto

\* Steps that fail count a fault, and need not care about photos.
LEMMA OrphanAfterFault ==
    ASSUME VerificationsTypeOK, Fault,
           \A h \in Handlers : todo'[h] # {} => at'[h] = "cleanUp"
    PROVE  OrphanInv'
  BY DEF OrphanInv, NoOrphanPhoto, Fault, VerificationsTypeOK

\* Steps of one request: no photo comes from elsewhere, and the one the request
\* held is stored, deleted or still held.
LEMMA OrphanFrame ==
    ASSUME VerificationsTypeOK, OrphanInv, NEW h \in Handlers,
           faults' = faults,
           verifications \subseteq verifications',
           \A t \in Ticket : FinalKey(t) \in objects' =>
              FinalKey(t) \in objects \/ Holds(h, t)',
           \A t \in Ticket : Holds(h, t) =>
              Stored(t)' \/ Holds(h, t)' \/ FinalKey(t) \notin objects',
           \A g \in Handlers \ {h} :
              at'[g] = at[g] /\ ticket'[g] = ticket[g] /\ todo'[g] = todo[g],
           todo'[h] # {} => at'[h] = "cleanUp"
    PROVE  OrphanInv'
<1>1. \A g \in Handlers : todo'[g] # {} => at'[g] = "cleanUp"
  BY DEF OrphanInv
<1>2. \A t : Stored(t) => Stored(t)'
  BY DEF Stored
<1>3. \A t, g : g \in Handlers \ {h} /\ Holds(g, t) => Holds(g, t)'
  BY DEF Holds
<1>4. ASSUME faults' = 0, NEW t \in Ticket, FinalKey(t) \in objects'
      PROVE  Stored(t)' \/ \E g \in Handlers : Holds(g, t)'
  <2>1. Holds(h, t)' \/ Stored(t) \/ \E g \in Handlers : Holds(g, t)
    BY <1>4, OrphanParts DEF OrphanInv
  <2> QED BY <1>2, <1>3, <1>4, <2>1
<1>5. NoOrphanPhoto'
  BY <1>4 DEF NoOrphanPhoto, Stored, Holds
<1> QED BY <1>1, <1>5 DEF OrphanInv

\* What a request for an upload URL does to photos: nothing, and it held none.
LEMMA OrphanIssue ==
    ASSUME VerificationsTypeOK, OrphanInv, NEW h \in Handlers,
           LockUser(h) \/ IssueStep(h)
    PROVE  OrphanInv'
<1>1. /\ at[h] \notin {"deleteSource", "createVerification",
                       "failUploadTicket", "cleanUp"}
      /\ UNCHANGED <<objects, verifications, todo>>
      /\ \E step \in {"countTickets", "insertTicket", "idle", "signUrl"} :
            at' = [at EXCEPT ![h] = step]
      /\ \/ ticket' = ticket
         \/ \E t \in Ticket \cup {NoTicket} : ticket' = [ticket EXCEPT ![h] = t]
      /\ faults' = faults \/ Fault
  BY DEF LockUser, IssueStep, CountTickets, InsertTicket, SignUrl, SignFails,
         IssueFails, Goto, storeVars, gcVars, Step, NoTicket
<1>2. todo[h] = {} /\ \A t : ~ Holds(h, t)
  BY <1>1 DEF Holds, OrphanInv, VerificationsTypeOK
<1>3. /\ \A g \in Handlers \ {h} : at'[g] = at[g] /\ ticket'[g] = ticket[g]
      /\ todo' = todo
  BY <1>1 DEF VerificationsTypeOK
<1>4. \A g \in Handlers : todo'[g] # {} => at'[g] = "cleanUp"
  BY <1>2, <1>3 DEF OrphanInv
<1>5. CASE faults' = faults
  BY <1>1, <1>2, <1>3, <1>5, OrphanFrame
<1>6. CASE Fault
  BY <1>4, <1>6, OrphanAfterFault
<1> QED BY <1>1, <1>5, <1>6

\* A request that claims a ticket held nothing before.
LEMMA OrphanClaim ==
    ASSUME VerificationsTypeOK, OrphanInv, NEW h \in Handlers,
           NEW t \in Ticket, ClaimUploadTicket(h, t)
    PROVE  OrphanInv'
<1> USE DEF VerificationsTypeOK, Goto, ClaimUploadTicket, storeVars
<1>1. at[h] = "idle" /\ at'[h] = "readObject" /\ todo' = todo
  OBVIOUS
<1>2. todo[h] = {} /\ \A u : ~ Holds(h, u)
  BY <1>1 DEF Holds, OrphanInv
<1>3. \A g \in Handlers \ {h} : at'[g] = at[g] /\ ticket'[g] = ticket[g]
  OBVIOUS
<1> QED BY <1>1, <1>2, <1>3, OrphanFrame

\* Each step of a request for a verification after its claim: the copy makes
\* the photo its own, the transaction stores it, the error path deletes it.
LEMMA OrphanVerify ==
    ASSUME VerificationsTypeOK, OrphanInv, NEW h \in Handlers, VerifyStep(h)
    PROVE  OrphanInv'
<1> USE DEF VerificationsTypeOK, Goto, ticketVars, gcVars
<1>0. /\ todo[h] # {} => at[h] = "cleanUp"
      /\ at[h] \in Finalizing => ticket[h] \in Ticket
  BY DEF OrphanInv
<1>1. CASE RejectObject(h)
  <2>1. \A t : Holds(h, t) => Holds(h, t)'
    BY <1>1, <1>0 DEF RejectObject, Holds
  <2> QED BY <1>0, <1>1, <2>1, OrphanFrame DEF RejectObject, storeVars
<1>2. CASE AcceptObject(h)
  <2>1. \A t : ~ Holds(h, t)
    BY <1>0, <1>2 DEF AcceptObject, Holds
  <2> QED BY <1>0, <1>2, <2>1, OrphanFrame DEF AcceptObject, storeVars
<1>3. CASE CopyObject(h)
  <2>1. \A t : ~ Holds(h, t)
    BY <1>0, <1>3 DEF CopyObject, Holds
  <2>2. \A t \in Ticket :
          FinalKey(t) \in objects' => FinalKey(t) \in objects \/ Holds(h, t)'
    BY <1>3, KeysDiffer DEF CopyObject, Holds
  <2> QED BY <1>0, <1>3, <2>1, <2>2, OrphanFrame DEF CopyObject
<1>4. CASE DeleteSource(h)
  <2>1. \A t : Holds(h, t) => Holds(h, t)'
    BY <1>0, <1>4 DEF DeleteSource, Holds
  <2> QED BY <1>0, <1>4, <2>1, OrphanFrame DEF DeleteSource
<1>5. CASE CreateVerification(h)
  <2> DEFINE v == [meetup |-> meetup[ticket[h]], photo |-> FinalKey(ticket[h])]
  <2>0. v \in verifications' /\ v.photo = FinalKey(ticket[h])
    BY <1>5 DEF CreateVerification, Consume
  <2>1. \A t : Holds(h, t) => Stored(t)'
    BY <2>0 DEF Holds, Stored
  <2> HIDE DEF v
  <2> QED BY <1>0, <1>5, <2>1, OrphanFrame DEF CreateVerification, Consume
<1>6. CASE RejectVerification(h)
  <2>1. \A t : Holds(h, t) => Holds(h, t)'
    BY <1>0, <1>6 DEF RejectVerification, Holds
  <2> QED BY <1>0, <1>6, <2>1, OrphanFrame DEF RejectVerification, storeVars
<1>7. CASE FailUploadTicket(h)
  <2>1. \A t : Holds(h, t) => Holds(h, t)'
    BY <1>7 DEF FailUploadTicket, CleanUpKeys, Holds
  <2>2. at'[h] = "cleanUp" /\ \A g \in Handlers \ {h} : /\ at'[g] = at[g]
                                                    /\ ticket'[g] = ticket[g]
                                                    /\ todo'[g] = todo[g]
    BY <1>7 DEF FailUploadTicket
  <2>3. \A g \in Handlers : todo'[g] # {} => at'[g] = "cleanUp"
    BY <2>2 DEF OrphanInv
  <2>4. CASE faults' = faults
    BY <1>7, <2>1, <2>2, <2>4, OrphanFrame DEF FailUploadTicket, storeVars
  <2>5. CASE Fault
    BY <2>3, <2>5, OrphanAfterFault
  <2> QED BY <1>7, <2>4, <2>5 DEF FailUploadTicket
<1>8. ASSUME NEW k \in todo[h], CleanUp(h, k)
      PROVE  OrphanInv'
  <2>1. /\ at' = at /\ ticket' = ticket /\ at[h] = "cleanUp"
        /\ \A g \in Handlers \ {h} : todo'[g] = todo[g]
        /\ todo'[h] = todo[h] \ {k}
        /\ UNCHANGED verifications
    BY <1>8 DEF CleanUp
  <2>2. \A g \in Handlers : todo'[g] # {} => at'[g] = "cleanUp"
    BY <2>1 DEF OrphanInv
  <2>3. CASE objects' = objects \ {k} /\ faults' = faults
    <3>1. \A t : Holds(h, t) => Holds(h, t)' \/ FinalKey(t) \notin objects'
      BY <2>1, <2>3 DEF Holds
    <3> QED BY <2>1, <2>2, <2>3, <3>1, OrphanFrame
  <2>4. CASE Fault
    BY <2>2, <2>4, OrphanAfterFault
  <2> QED BY <1>8, <2>3, <2>4 DEF CleanUp
<1>9. CASE AnswerError(h)
  <2>1. \A t : ~ Holds(h, t)
    BY <1>9 DEF AnswerError, Holds
  <2> QED BY <1>9, <2>1, OrphanFrame DEF AnswerError, storeVars
<1>10. CASE StorageFails(h) \/ CommitUnanswered(h) \/ TransactionFails(h)
  <2>1. todo' = todo /\ at[h] # "cleanUp" /\ Fault
        /\ \A g \in Handlers \ {h} : at'[g] = at[g]
    BY <1>10 DEF StorageFails, CommitUnanswered, TransactionFails, storeVars
  <2>2. \A g \in Handlers : todo'[g] # {} => at'[g] = "cleanUp"
    BY <1>0, <2>1 DEF OrphanInv
  <2> QED BY <2>1, <2>2, OrphanAfterFault
<1> QED BY <1>1, <1>2, <1>3, <1>4, <1>5, <1>6, <1>7, <1>8, <1>9, <1>10
        DEF VerifyStep

\* Uploads, time and the collection touch no photo; a crash is a fault.
LEMMA OrphanOther ==
    ASSUME VerificationsTypeOK, OrphanInv,
           (\E t \in Ticket : Upload(t)) \/ Tick \/ Collect \/ Crash
    PROVE  OrphanInv'
<1>1. CASE Crash
  <2>1. Fault /\ \A h \in Handlers : todo'[h] = {}
    BY <1>1 DEF Crash
  <2> QED BY <2>1, OrphanAfterFault
<1>2. CASE (\E t \in Ticket : Upload(t)) \/ Tick \/ Collect
  <2>1. /\ \A t \in Ticket : FinalKey(t) \in objects' => FinalKey(t) \in objects
        /\ UNCHANGED <<at, ticket, todo, verifications>>
        /\ faults' = faults \/ Fault
    BY <1>2, KeysDiffer
    DEF Upload, Tick, Collect, StartCollection, CollectObject, CollectRow,
        CollectionFails, storeVars, requestVars
  <2>2. \A h \in Handlers : todo'[h] # {} => at'[h] = "cleanUp"
    BY <2>1 DEF OrphanInv
  <2>3. CASE faults' = faults
    BY <2>1, <2>2, <2>3 DEF OrphanInv, NoOrphanPhoto
  <2>4. CASE Fault
    BY <2>2, <2>4, OrphanAfterFault
  <2> QED BY <2>1, <2>3, <2>4
<1> QED BY <1>1, <1>2

\* Every step keeps every photo stored or held.
LEMMA OrphanStep ==
    VerificationsTypeOK /\ OrphanInv /\ [VerificationsNext]_vars => OrphanInv'
<1> SUFFICES ASSUME VerificationsTypeOK, OrphanInv, [VerificationsNext]_vars
             PROVE  OrphanInv'
  OBVIOUS
<1>1. CASE UNCHANGED vars
  BY <1>1 DEF OrphanInv, NoOrphanPhoto, vars, storeVars, requestVars
<1> QED BY <1>1, OrphanIssue, OrphanClaim, OrphanVerify, OrphanOther
        DEF VerificationsNext

\* While nothing fails, every photo in the trusted path is stored or in the
\* hands of a request that will store it or delete it.
THEOREM NoOrphanPhotoCorrect == VerificationsSpec => []NoOrphanPhoto
<1>1. OrphanInv => NoOrphanPhoto
  BY DEF OrphanInv
<1> QED BY <1>1, VerificationsTypeCorrect, OrphanInit, OrphanStep, PTL
        DEF VerificationsSpec
-----------------------------------------------------------------------------
(* A consumed ticket stays consumed.                                       *)

\* No statement changes the status of a consumed ticket.
LEMMA ConsumedStep ==
    ASSUME VerificationsTypeOK, VerificationsNext,
           NEW t \in Ticket, status[t] = "consumed"
    PROVE  status'[t] = "consumed"
<1> USE DEF VerificationsTypeOK, ticketVars
<1>1. ASSUME NEW h \in Handlers, LockUser(h) \/ IssueStep(h)
      PROVE  status'[t] = "consumed"
  <2>1. CASE InsertTicket(h)
    <3>1. PICK u \in Ticket :
            /\ \A w \in Ticket : status[w] = "absent" <=> w >= u
            /\ status' = [status EXCEPT ![u] = "pending"]
      BY <2>1 DEF InsertTicket
    <3>2. u >= u
      BY VerificationsAssumption DEF Ticket
    <3> QED BY <3>1, <3>2
  <2>2. CASE SignFails(h)
    BY <2>2, FailTicketEffect DEF SignFails, Finalizing
  <2>3. CASE LockUser(h) \/ CountTickets(h) \/ SignUrl(h) \/ IssueFails(h)
    BY <2>3 DEF LockUser, CountTickets, SignUrl, IssueFails
  <2> QED BY <1>1, <2>1, <2>2, <2>3 DEF IssueStep
<1>2. ASSUME NEW h \in Handlers, NEW u \in Ticket, ClaimUploadTicket(h, u)
      PROVE  status'[t] = "consumed"
  BY <1>2 DEF ClaimUploadTicket, MayClaim
<1>3. ASSUME NEW h \in Handlers, VerifyStep(h)
      PROVE  status'[t] = "consumed"
  <2>1. CASE FailUploadTicket(h)
    BY <2>1, FailTicketEffect DEF FailUploadTicket, Finalizing
  <2>2. CASE CreateVerification(h) \/ CommitUnanswered(h)
    BY <2>2 DEF CreateVerification, CommitUnanswered, Consume
  <2>3. CASE ~(FailUploadTicket(h) \/ CreateVerification(h) \/ CommitUnanswered(h))
    BY <1>3, <2>3
    DEF VerifyStep, RejectObject, AcceptObject, CopyObject, DeleteSource,
        StorageFails, RejectVerification, TransactionFails, CleanUp, AnswerError
  <2> QED BY <2>1, <2>2, <2>3
<1>4. ASSUME (\E u \in Ticket : Upload(u)) \/ Tick \/ Collect \/ Crash
      PROVE  status'[t] = "consumed"
  BY <1>4
  DEF Upload, Tick, Collect, StartCollection, CollectObject, CollectRow,
      CollectionFails, Crash, MayCollect
<1> QED BY <1>1, <1>2, <1>3, <1>4 DEF VerificationsNext

\* A consumed ticket stays consumed, whatever is late or retried.
THEOREM ConsumedStaysCorrect == VerificationsSpec => ConsumedStays
<1>1. VerificationsTypeOK /\ [VerificationsNext]_vars =>
        [\A t \in Ticket : status[t] = "consumed" => status'[t] = "consumed"]_vars
  BY ConsumedStep
<1> QED BY <1>1, VerificationsTypeCorrect, PTL
        DEF VerificationsSpec, ConsumedStays
-----------------------------------------------------------------------------
(* The limit of tickets under way.                                         *)

\* There are finitely many tickets under way.
LEMMA PendingIsFinite ==
    /\ IsFiniteSet(PendingTickets)
    /\ Cardinality(PendingTickets) \in Nat
<1>1. IsFiniteSet(Ticket)
  BY VerificationsAssumption, FS_Interval DEF Ticket
<1>2. PendingTickets \subseteq Ticket
  BY DEF PendingTickets
<1> QED BY <1>1, <1>2, FS_Subset, FS_CardinalityType

\* At the start no ticket is under way.
LEMMA LimitInit == VerificationsInit => LimitInv
<1> SUFFICES ASSUME VerificationsInit PROVE LimitInv
  OBVIOUS
<1>1. PendingTickets = {}
  BY DEF VerificationsInit, PendingTickets
<1> QED BY <1>1, FS_EmptySet, VerificationsAssumption
        DEF VerificationsInit, LimitInv, PendingLimit

\* Steps that add no ticket, and let nobody count who does not hold the lock.
LEMMA LimitFrame ==
    ASSUME LimitInv,
           PendingTickets' \subseteq PendingTickets,
           \A h \in Handlers :
              /\ at'[h] \in {"countTickets", "insertTicket"} => userLock' = h
              /\ at'[h] = "insertTicket" =>
                    Cardinality(PendingTickets) < MaxPending
    PROVE  LimitInv'
<1>1. /\ Cardinality(PendingTickets') \in Nat
      /\ Cardinality(PendingTickets') <= Cardinality(PendingTickets)
  BY PendingIsFinite, FS_Subset, FS_CardinalityType
<1> QED BY <1>1, PendingIsFinite, VerificationsAssumption DEF LimitInv, PendingLimit

\* The insert adds one ticket, to fewer than the limit: they were counted under
\* the lock that is still held.
LEMMA LimitInsert ==
    ASSUME VerificationsTypeOK, LimitInv, NEW h \in Handlers, InsertTicket(h)
    PROVE  LimitInv'
<1> USE DEF VerificationsTypeOK
<1>1. PICK t \in Ticket : status' = [status EXCEPT ![t] = "pending"]
  BY DEF InsertTicket
<1>2. PendingTickets' \subseteq PendingTickets \cup {t}
  BY <1>1 DEF InsertTicket, PendingTickets
<1>3. Cardinality(PendingTickets \cup {t}) <= Cardinality(PendingTickets) + 1
  <2>1. Cardinality(PendingTickets \cup {t}) =
          IF t \in PendingTickets THEN Cardinality(PendingTickets)
          ELSE Cardinality(PendingTickets) + 1
    BY PendingIsFinite, FS_AddElement
  <2>2. Cardinality(PendingTickets) \in Nat
    BY PendingIsFinite
  <2> HIDE DEF VerificationsTypeOK
  <2> QED BY <2>1, <2>2
<1>4. /\ Cardinality(PendingTickets') \in Nat
      /\ Cardinality(PendingTickets') <= Cardinality(PendingTickets \cup {t})
      /\ Cardinality(PendingTickets \cup {t}) \in Nat
  BY <1>2, PendingIsFinite, FS_AddElement, FS_Subset, FS_CardinalityType
<1>5. Cardinality(PendingTickets) < MaxPending
  BY DEF InsertTicket, LimitInv
<1>6. PendingLimit'
  BY <1>3, <1>4, <1>5, PendingIsFinite, VerificationsAssumption DEF PendingLimit
<1>7. \A g \in Handlers : at'[g] \notin {"countTickets", "insertTicket"}
  BY VerificationsAssumption DEF InsertTicket, LimitInv, Goto
<1> QED BY <1>6, <1>7 DEF LimitInv

\* The transaction that issues a ticket keeps the limit.
LEMMA LimitIssue ==
    ASSUME VerificationsTypeOK, LimitInv, NEW h \in Handlers,
           LockUser(h) \/ IssueStep(h)
    PROVE  LimitInv'
<1> USE DEF VerificationsTypeOK, Goto, ticketVars
<1>0. \A g \in Handlers :
         /\ at[g] \in {"countTickets", "insertTicket"} => userLock = g
         /\ at[g] = "insertTicket" => Cardinality(PendingTickets) < MaxPending
  BY DEF LimitInv
<1>1. CASE LockUser(h)
  <2>1. PendingTickets' = PendingTickets
    BY <1>1 DEF LockUser, PendingTickets
  <2>2. \A g \in Handlers : g # h =>
          at'[g] = at[g] /\ at[g] \notin {"countTickets", "insertTicket"}
    BY <1>0, <1>1, VerificationsAssumption DEF LockUser, MayLock
  <2> QED BY <1>1, <2>1, <2>2, LimitFrame DEF LockUser
<1>2. CASE CountTickets(h)
  <2>1. PendingTickets' = PendingTickets
    BY <1>2 DEF CountTickets, PendingTickets
  <2>2. \A g \in Handlers : g # h =>
          at'[g] = at[g] /\ at[g] \notin {"countTickets", "insertTicket"}
    BY <1>0, <1>2 DEF CountTickets
  <2>3. at'[h] = "insertTicket" => /\ userLock' = h
                                  /\ Cardinality(PendingTickets) < MaxPending
    BY <1>0, <1>2 DEF CountTickets, WithinLimits
  <2>4. at'[h] # "countTickets"
    BY <1>2 DEF CountTickets
  <2> QED BY <2>1, <2>2, <2>3, <2>4, LimitFrame
<1>3. CASE SignUrl(h)
  <2>1. PendingTickets' = PendingTickets
    BY <1>3 DEF SignUrl, PendingTickets
  <2> QED BY <1>0, <1>3, <2>1, LimitFrame DEF SignUrl
<1>4. CASE SignFails(h)
  <2>1. PendingTickets' \subseteq PendingTickets
    BY <1>4, FailTicketEffect DEF SignFails, PendingTickets, Finalizing
  <2> QED BY <1>0, <1>4, <2>1, LimitFrame DEF SignFails
<1>5. CASE IssueFails(h)
  <2>1. PendingTickets' = PendingTickets
    BY <1>5 DEF IssueFails, PendingTickets
  <2>2. \A g \in Handlers : at'[g] \notin {"countTickets", "insertTicket"}
    BY <1>0, <1>5 DEF IssueFails
  <2> QED BY <2>1, <2>2, LimitFrame
<1> QED BY <1>1, <1>2, <1>3, <1>4, <1>5, LimitInsert DEF IssueStep

\* Claiming, finishing and failing a ticket add none.
LEMMA LimitVerify ==
    ASSUME VerificationsTypeOK, LimitInv, NEW h \in Handlers,
           VerifyStep(h) \/ \E t \in Ticket : ClaimUploadTicket(h, t)
    PROVE  LimitInv'
<1> USE DEF VerificationsTypeOK, Goto, ticketVars
<1>1. PendingTickets' \subseteq PendingTickets
  <2>1. CASE FailUploadTicket(h)
    BY <2>1, FailTicketEffect DEF FailUploadTicket, PendingTickets, Finalizing
  <2>2. CASE CreateVerification(h) \/ CommitUnanswered(h)
    BY <2>2 DEF CreateVerification, CommitUnanswered, Consume, PendingTickets
  <2>3. ASSUME NEW t \in Ticket, ClaimUploadTicket(h, t)
        PROVE  PendingTickets' \subseteq PendingTickets
    BY <2>3 DEF ClaimUploadTicket, MayClaim, PendingTickets
  <2>4. CASE VerifyStep(h) /\ ~FailUploadTicket(h)
             /\ ~(CreateVerification(h) \/ CommitUnanswered(h))
    BY <2>4
    DEF VerifyStep, RejectObject, AcceptObject, CopyObject, DeleteSource,
        StorageFails, RejectVerification, TransactionFails, CleanUp,
        AnswerError, PendingTickets
  <2> QED BY <2>1, <2>2, <2>3, <2>4
<1>2. /\ userLock' = userLock
      /\ at' = at \/ \E step \in Finalizing \cup {"idle"} :
                       at' = [at EXCEPT ![h] = step]
  BY DEF VerifyStep, ClaimUploadTicket, RejectObject, AcceptObject, CopyObject,
         DeleteSource, StorageFails, CreateVerification, CommitUnanswered,
         RejectVerification, TransactionFails, FailUploadTicket, CleanUp,
         AnswerError, Finalizing
<1>3. \A g \in Handlers :
        at'[g] \in {"countTickets", "insertTicket"} => at'[g] = at[g]
  BY <1>2 DEF Finalizing
<1> QED BY <1>1, <1>2, <1>3, LimitFrame DEF LimitInv

\* Time, collection and crashes only take tickets away.
LEMMA LimitOther ==
    ASSUME VerificationsTypeOK, LimitInv,
           (\E t \in Ticket : Upload(t)) \/ Tick \/ Collect \/ Crash
    PROVE  LimitInv'
<1> USE DEF VerificationsTypeOK, ticketVars, requestVars
<1>1. CASE (\E t \in Ticket : Upload(t)) \/ Collect
  <2>1. PendingTickets' \subseteq PendingTickets
    BY <1>1
    DEF Upload, Collect, StartCollection, CollectObject, CollectRow,
        CollectionFails, PendingTickets
  <2>2. UNCHANGED <<at, userLock>>
    BY <1>1
    DEF Upload, Collect, StartCollection, CollectObject, CollectRow,
        CollectionFails
  <2> QED BY <2>1, <2>2, LimitFrame DEF LimitInv
<1>2. CASE Tick
  <2>1. \A t \in Ticket : age'[t] \in Nat /\ age[t] \in Nat /\ age[t] <= age'[t]
    BY <1>2, VerificationsAssumption DEF Tick, Age
  <2>2. PendingTickets' \subseteq PendingTickets
    BY <1>2, <2>1, VerificationsAssumption DEF Tick, PendingTickets
  <2> QED BY <1>2, <2>2, LimitFrame DEF Tick, LimitInv
<1>3. CASE Crash
  <2>1. PendingTickets' = PendingTickets
    BY <1>3 DEF Crash, PendingTickets
  <2> QED BY <1>3, <2>1, LimitFrame DEF Crash
<1> QED BY <1>1, <1>2, <1>3

\* Every step keeps the limit.
LEMMA LimitStep ==
    VerificationsTypeOK /\ LimitInv /\ [VerificationsNext]_vars => LimitInv'
<1> SUFFICES ASSUME VerificationsTypeOK, LimitInv, [VerificationsNext]_vars
             PROVE  LimitInv'
  OBVIOUS
<1>1. CASE UNCHANGED vars
  <2>1. PendingTickets' = PendingTickets
    BY <1>1 DEF vars, ticketVars, PendingTickets
  <2> QED BY <1>1, <2>1, LimitFrame DEF LimitInv, vars, requestVars
<1> QED BY <1>1, LimitIssue, LimitVerify, LimitOther DEF VerificationsNext

\* Who counts holds the lock, and the count is right until the insert.
THEOREM LimitCorrect == VerificationsSpec => []LimitInv
  BY VerificationsTypeCorrect, LimitInit, LimitStep, PTL DEF VerificationsSpec

\* No more tickets are under way than verificationMaxPending allows.
THEOREM PendingLimitCorrect == VerificationsSpec => []PendingLimit
<1>1. LimitInv => PendingLimit
  BY DEF LimitInv
<1> QED BY <1>1, LimitCorrect, PTL
=============================================================================
