---------------------------- MODULE BadgesProofs ----------------------------
(***************************************************************************)
(* Proofs about the badges of one user, for any number of generations,     *)
(* badges, concurrent requests and faults.  LimitsInv, OwnersInv and       *)
(* ImageInv are inductive, given the types.                                *)
(***************************************************************************)
EXTENDS Badges, FiniteSetTheorems, TLAPS

-----------------------------------------------------------------------------
(* Types.                                                                  *)

\* Failing stale rows keeps the type and fails processing rows only.
LEMMA FailStaleEffect ==
    ASSUME BadgesTypeOK, NEW limit
    PROVE  /\ FailStale(limit) \in [Gen -> Status]
           /\ \A g \in Gen :
                 \/ FailStale(limit)[g] = status[g]
                 \/ /\ status[g] = "processing"
                    /\ FailStale(limit)[g] = "failed"
  BY DEF BadgesTypeOK, FailStale, Stale, Processing, Status

\* Deleting an object removes one image at most, and gives up only stored ones.
LEMMA DeleteObjectEffect ==
    ASSUME BadgesTypeOK, NEW g, DeleteObject(g)
    PROVE  /\ objects' \subseteq objects /\ objects \subseteq objects' \cup {g}
           /\ leaked' \subseteq Gen /\ faults' \in Nat
  BY DEF BadgesTypeOK, DeleteObject, Fault

\* The initial values have their types.
LEMMA TypeInit == BadgesInit => BadgesTypeOK
  BY BadgesAssumption
  DEF BadgesInit, BadgesTypeOK, Status, Age, Step, Gen, NoGen, NoBadge, None,
      Generating, Applying

\* A request to generate keeps the types.
LEMMA GenerateTypes ==
    ASSUME BadgesTypeOK, NEW h \in Handlers, GenerateStep(h)
    PROVE  BadgesTypeOK'
<1> USE DEF BadgesTypeOK, Goto, Answer, Step, Reserving, Generating, Applying,
            genVars, pastVars, imageVars, badgeVars, gcVars
<1>1. CASE CountUserBadges(h)
  BY <1>1 DEF CountUserBadges
<1>2. CASE LockForReserve(h)
  BY <1>2 DEF LockForReserve
<1>3. CASE CountGenerations(h)
  BY <1>3, FailStaleEffect DEF CountGenerations
<1>4. CASE InsertGeneration(h)
  BY <1>4, FailStaleEffect DEF InsertGeneration, Status
<1>5. CASE ProviderFails(h)
  BY <1>5 DEF ProviderFails
<1>6. CASE PutObject(h)
  BY <1>6 DEF PutObject
<1>7. CASE PutFails(h)
  BY <1>7 DEF PutFails, Fault
<1>8. CASE CompleteGeneration(h)
  BY <1>8 DEF CompleteGeneration, Status
<1>9. CASE CompleteFails(h)
  BY <1>9 DEF CompleteFails, Fault, Status
<1>10. CASE FailGeneration(h)
  BY <1>10 DEF FailGeneration, Fault, Status
<1>11. CASE AnswerError(h)
  BY <1>11, DeleteObjectEffect DEF AnswerError, DiscardImage
<1> QED BY <1>1, <1>2, <1>3, <1>4, <1>5, <1>6, <1>7, <1>8, <1>9, <1>10, <1>11
        DEF GenerateStep

\* A request to apply or activate keeps the types.
LEMMA ApplyTypes ==
    ASSUME BadgesTypeOK, NEW h \in Handlers,
           \/ ApplyStep(h) \/ TransactionFails(h) \/ SetActive(h)
           \/ \E b \in Badge : StartActivate(h, b)
    PROVE  BadgesTypeOK'
<1> USE DEF BadgesTypeOK, Goto, Answer, Step, Reserving, Generating, Applying,
            genVars, pastVars, imageVars, badgeVars, gcVars
<1>1. ASSUME NEW g \in Gen, GetGeneration(h, g) PROVE BadgesTypeOK'
  BY <1>1 DEF GetGeneration
<1>2. CASE ReadPreview(h)
  BY <1>2 DEF ReadPreview
<1>3. CASE LockForApply(h)
  BY <1>3 DEF LockForApply
<1>4. CASE CountBadges(h)
  BY <1>4 DEF CountBadges
<1>5. CASE InsertBadge(h)
  BY <1>5 DEF InsertBadge, Status
<1>6. CASE TransactionFails(h)
  BY <1>6 DEF TransactionFails, Fault
<1>7. CASE SetActive(h)
  BY <1>7 DEF SetActive, MayReference
<1>8. ASSUME NEW b \in Badge, StartActivate(h, b) PROVE BadgesTypeOK'
  BY <1>8 DEF StartActivate
<1> QED BY <1>1, <1>2, <1>3, <1>4, <1>5, <1>6, <1>7, <1>8 DEF ApplyStep

\* So do the collection, the clock and a crash.
LEMMA OtherTypes ==
    ASSUME BadgesTypeOK, Collect \/ CollectionFails \/ Tick \/ Crash
    PROVE  BadgesTypeOK'
<1> USE DEF BadgesTypeOK, None, genVars, pastVars, imageVars, badgeVars,
            requestVars,
            gcVars
<1>1. CASE StartCollection
  BY <1>1, FailStaleEffect DEF StartCollection
<1>2. CASE SelectGenerations
  BY <1>2 DEF SelectGenerations
<1>3. ASSUME NEW g \in Gen, DeleteGenerationImage(g) PROVE BadgesTypeOK'
  <2>1. objects' \subseteq Gen /\ leaked' \subseteq Gen /\ faults' \in Nat
    BY <1>3, DeleteObjectEffect DEF DeleteGenerationImage
  <2> QED BY <1>3, <2>1 DEF DeleteGenerationImage
<1>4. CASE DeleteGeneration
  BY <1>4 DEF DeleteGeneration, Status
<1>5. CASE SelectBadges
  BY <1>5 DEF SelectBadges, Unheld
<1>6. ASSUME NEW b \in Badge, DeleteBadgeImage(b) PROVE BadgesTypeOK'
  <2>1. objects' \subseteq Gen /\ leaked' \subseteq Gen /\ faults' \in Nat
    BY <1>6, DeleteObjectEffect DEF DeleteBadgeImage
  <2> QED BY <1>6, <2>1 DEF DeleteBadgeImage
<1>7. CASE DeleteBadgeRow
  BY <1>7 DEF DeleteBadgeRow, Unheld, Clear
<1>8. CASE EndCollection
  BY <1>8 DEF EndCollection
<1>9. CASE CollectionFails
  BY <1>9 DEF CollectionFails, Fault
<1>10. CASE Tick
  BY <1>10, BadgesAssumption DEF Tick, Age
<1>11. CASE Crash
  BY <1>11 DEF Crash, Fault, Step, Generating, Applying, NoGen, NoBadge
<1> QED BY <1>1, <1>2, <1>3, <1>4, <1>5, <1>6, <1>7, <1>8, <1>9, <1>10, <1>11
        DEF Collect

\* Every step keeps the types.
LEMMA TypeStep == BadgesTypeOK /\ [BadgesNext]_vars => BadgesTypeOK'
<1> SUFFICES ASSUME BadgesTypeOK, [BadgesNext]_vars PROVE BadgesTypeOK'
  OBVIOUS
<1>1. CASE UNCHANGED vars
  BY <1>1 DEF BadgesTypeOK, vars, genVars, pastVars, imageVars, badgeVars,
      requestVars, gcVars
<1>2. ASSUME NEW b \in Badge, DeleteBadge(b) PROVE BadgesTypeOK'
  BY <1>2
  DEF BadgesTypeOK, DeleteBadge, Clear, genVars, pastVars, imageVars,
      requestVars, gcVars
<1> QED BY <1>1, <1>2, GenerateTypes, ApplyTypes, OtherTypes DEF BadgesNext

\* Every variable keeps its type, and the foreign keys hold.
THEOREM BadgesTypeCorrect == BadgesSpec => []BadgesTypeOK
  BY TypeInit, TypeStep, PTL DEF BadgesSpec
-----------------------------------------------------------------------------
(* The limits.                                                             *)

\* What is counted is finite, and a part of it counts no more.
LEMMA CountedIsFinite ==
    ASSUME BadgesTypeOK
    PROVE  /\ IsFiniteSet(Recent) /\ Cardinality(Recent) \in Nat
           /\ IsFiniteSet(held) /\ Cardinality(held) \in Nat
<1>1. IsFiniteSet(Gen) /\ IsFiniteSet(Badge)
  BY BadgesAssumption, FS_Interval DEF Gen, Badge
<1>2. Recent \subseteq Gen /\ held \subseteq Badge
  BY DEF Recent, Issued, BadgesTypeOK
<1> QED BY <1>1, <1>2, FS_Subset, FS_CardinalityType

\* At the start nothing is counted.
LEMMA LimitsInit == BadgesInit => LimitsInv
<1> SUFFICES ASSUME BadgesInit PROVE LimitsInv
  OBVIOUS
<1>1. Recent = {} /\ held = {} /\ Processing = {}
  BY DEF BadgesInit, Recent, Issued, Processing
<1>2. Cardinality(Recent) = 0 /\ Cardinality(held) = 0
  BY <1>1, FS_EmptySet
<1>3. BadgeLimit /\ DailyLimitHolds /\ OneProcessing
  BY <1>1, <1>2, BadgesAssumption DEF BadgeLimit, DailyLimitHolds, OneProcessing
<1>4. CountersTakeTurns /\ RoomToInsert /\ DeletedIsOld
  BY DEF BadgesInit, CountersTakeTurns, RoomToInsert, DeletedIsOld, Counting
<1> QED BY <1>3, <1>4 DEF LimitsInv

\* Rows that are deleted, or chosen to be, are a day old.
LEMMA DeletedFrame ==
    ASSUME BadgesTypeOK, BadgesTypeOK', DeletedIsOld,
           \A g \in Gen : /\ age[g] <= age'[g]
                          /\ status'[g] = "deleted" => status[g] = "deleted",
           gcAt' = "generations" => gcAt = "generations" /\ batch' \subseteq batch
    PROVE  DeletedIsOld'
<1>1. \A g \in Gen : age[g] \in Int /\ age'[g] \in Int
  BY BadgesAssumption DEF BadgesTypeOK, Age
<1>2. gcAt' = "generations" => batch' \subseteq Gen
  BY DEF BadgesTypeOK
<1> QED BY <1>1, <1>2, BadgesAssumption DEF DeletedIsOld

\* Steps that start no generation, add no badge, and let nobody count who does
\* not hold the lock.
LEMMA LimitsFrame ==
    ASSUME BadgesTypeOK, BadgesTypeOK', LimitsInv, DeletedIsOld',
           \A g \in Gen :
              /\ age[g] <= age'[g]
              /\ status[g] = "absent" => status'[g] = "absent"
              /\ status'[g] = "processing" => status[g] = "processing",
           held' \subseteq held,
           \A h \in Handlers :
              /\ at'[h] \in Counting => userLock' = h
              /\ at'[h] = "insertBadge" => Cardinality(held) < MaxBadges
              /\ at'[h] = "insertGeneration" =>
                    /\ Cardinality(Recent) < DailyLimit
                    /\ Processing = Stale(StaleAge)
    PROVE  LimitsInv'
<1>1. \A g \in Gen : age[g] \in Int /\ age'[g] \in Int
  BY BadgesAssumption DEF BadgesTypeOK, Age
<1>2. Recent' \subseteq Recent /\ Processing' \subseteq Processing
  BY <1>1, BadgesAssumption DEF Recent, Issued, Processing
<1>3. /\ Cardinality(Recent') \in Nat /\ Cardinality(Recent') <= Cardinality(Recent)
      /\ Cardinality(held') \in Nat /\ Cardinality(held') <= Cardinality(held)
      /\ Cardinality(Recent) \in Nat /\ Cardinality(held) \in Nat
  BY <1>2, CountedIsFinite, FS_Subset, FS_CardinalityType
<1>4. BadgeLimit' /\ DailyLimitHolds'
  BY <1>3, BadgesAssumption DEF LimitsInv, BadgeLimit, DailyLimitHolds
<1>5. OneProcessing'
  BY <1>2 DEF LimitsInv, OneProcessing
<1>6. Processing = Stale(StaleAge) => Processing' = Stale(StaleAge)'
  BY <1>1, <1>2, BadgesAssumption DEF Stale, Processing
<1>7. RoomToInsert'
  BY <1>3, <1>6, BadgesAssumption DEF RoomToInsert
<1>8. CountersTakeTurns'
  BY DEF CountersTakeTurns, Counting
<1> QED BY <1>4, <1>5, <1>7, <1>8 DEF LimitsInv
\* Rows stay until they are a day old.
LEMMA DeletedStep ==
    ASSUME BadgesTypeOK, BadgesTypeOK', DeletedIsOld, BadgesNext
    PROVE  DeletedIsOld'
<1> USE DEF genVars, pastVars, gcVars
<1>0. \A g \in Gen : age[g] <= age[g]
  BY BadgesAssumption DEF BadgesTypeOK, Age
<1>1. ASSUME NEW h \in Handlers, GenerateStep(h) PROVE DeletedIsOld'
  <2>1. \A g \in Gen : status'[g] = "deleted" => status[g] = "deleted"
    <3>1. CASE CountGenerations(h) \/ InsertGeneration(h)
      BY <3>1, FailStaleEffect
      DEF CountGenerations, InsertGeneration, BadgesTypeOK
    <3>2. CASE CompleteGeneration(h) \/ CompleteFails(h) \/ FailGeneration(h)
      BY <3>2
      DEF CompleteGeneration, CompleteFails, FailGeneration, BadgesTypeOK
    <3>3. CASE UNCHANGED status
      BY <3>3
    <3> QED BY <1>1, <3>1, <3>2, <3>3
        DEF GenerateStep, CountUserBadges, LockForReserve, ProviderFails,
            PutObject, PutFails, AnswerError
  <2>2. UNCHANGED <<age, gcAt, batch>>
    BY <1>1
    DEF GenerateStep, CountUserBadges, LockForReserve, CountGenerations,
        InsertGeneration, ProviderFails, PutObject, PutFails,
        CompleteGeneration, CompleteFails, FailGeneration, AnswerError
  <2> QED BY <1>0, <2>1, <2>2, DeletedFrame
<1>2. ASSUME NEW h \in Handlers, ApplyStep(h) PROVE DeletedIsOld'
  <2>1. \A g \in Gen : status'[g] = "deleted" => status[g] = "deleted"
    <3>1. CASE InsertBadge(h)
      BY <3>1 DEF InsertBadge, HasRow, BadgesTypeOK
    <3>2. CASE UNCHANGED status
      BY <3>2
    <3> QED BY <1>2, <3>1, <3>2
        DEF ApplyStep, GetGeneration, ReadPreview, LockForApply, CountBadges
  <2>2. UNCHANGED <<age, gcAt, batch>>
    BY <1>2
    DEF ApplyStep, GetGeneration, ReadPreview, LockForApply, CountBadges,
        InsertBadge
  <2> QED BY <1>0, <2>1, <2>2, DeletedFrame
<1>3. ASSUME NEW h \in Handlers,
             \/ TransactionFails(h) \/ SetActive(h)
             \/ \E b \in Badge : StartActivate(h, b)
      PROVE  DeletedIsOld'
  BY <1>0, <1>3, DeletedFrame DEF TransactionFails, SetActive, StartActivate
<1>4. ASSUME NEW b \in Badge, DeleteBadge(b) PROVE DeletedIsOld'
  BY <1>0, <1>4, DeletedFrame DEF DeleteBadge
<1>5. CASE StartCollection
  <2>1. \A g \in Gen : status'[g] = "deleted" => status[g] = "deleted"
    BY <1>5, FailStaleEffect DEF StartCollection
  <2> QED BY <1>0, <1>5, <2>1, DeletedFrame DEF StartCollection
<1>6. CASE SelectGenerations
  <2>1. \A g \in Gen : age[g] \in Int
    BY BadgesAssumption DEF BadgesTypeOK, Age
  <2> QED BY <1>6, <2>1, BadgesAssumption
          DEF SelectGenerations, Collectable, DeletedIsOld
<1>7. CASE DeleteGeneration
  BY <1>7 DEF DeleteGeneration, DeletedIsOld, BadgesTypeOK
<1>8. CASE \/ \E g \in Gen : DeleteGenerationImage(g)
           \/ \E b \in Badge : DeleteBadgeImage(b)
           \/ SelectBadges \/ DeleteBadgeRow \/ EndCollection
           \/ CollectionFails \/ Crash
  BY <1>0, <1>8, DeletedFrame
  DEF DeleteGenerationImage, DeleteBadgeImage, SelectBadges, DeleteBadgeRow,
      EndCollection, CollectionFails, Crash
<1>9. CASE Tick
  <2>1. \A g \in Gen : age[g] <= age'[g]
    BY <1>9, BadgesAssumption DEF Tick, Age, BadgesTypeOK
  <2> QED BY <1>9, <2>1, DeletedFrame DEF Tick
<1> QED BY <1>1, <1>2, <1>3, <1>4, <1>5, <1>6, <1>7, <1>8, <1>9
        DEF BadgesNext, Collect
\* A reservation adds one generation, to fewer than the limit, and fails the
\* others that are under way; nobody else is counting.
LEMMA LimitsReserve ==
    ASSUME BadgesTypeOK, BadgesTypeOK', LimitsInv, DeletedIsOld',
           NEW h \in Handlers, InsertGeneration(h)
    PROVE  LimitsInv'
<1>1. PICK g \in Gen :
         status' = [FailStale(StaleAge) EXCEPT ![g] = "processing"]
  BY DEF InsertGeneration
<1>2. UNCHANGED <<age, held>>
  BY DEF InsertGeneration, badgeVars
<1>3. /\ Cardinality(Recent) < DailyLimit
      /\ Processing = Stale(StaleAge)
      /\ at[h] \in Counting
  BY DEF InsertGeneration, LimitsInv, RoomToInsert, Counting
<1>4. \A i \in Gen : i # g => status'[i] = FailStale(StaleAge)[i]
  BY <1>1, FailStaleEffect
<1>5. Processing' \subseteq {g}
  BY <1>3, <1>4 DEF Processing, FailStale
<1>6. OneProcessing'
  BY <1>5 DEF OneProcessing
<1>7. Recent' \subseteq Recent \cup {g}
  BY <1>2, <1>4, FailStaleEffect DEF Recent, Issued
<1>8. Cardinality(Recent \cup {g}) = IF g \in Recent THEN Cardinality(Recent)
                                    ELSE Cardinality(Recent) + 1
  BY CountedIsFinite, FS_AddElement
<1>9. /\ Cardinality(Recent') \in Nat
      /\ Cardinality(Recent') <= Cardinality(Recent \cup {g})
      /\ Cardinality(Recent) \in Nat
  BY <1>7, CountedIsFinite, FS_AddElement, FS_Subset, FS_CardinalityType
<1>10. DailyLimitHolds'
  BY <1>3, <1>8, <1>9, BadgesAssumption DEF DailyLimitHolds
<1>11. BadgeLimit'
  BY <1>2 DEF LimitsInv, BadgeLimit
<1>12. \A i \in Handlers : at'[i] \notin Counting
  BY <1>3, BadgesAssumption
  DEF InsertGeneration, Goto, LimitsInv, CountersTakeTurns, Counting,
      BadgesTypeOK
<1>13. CountersTakeTurns' /\ RoomToInsert'
  BY <1>12 DEF CountersTakeTurns, RoomToInsert, Counting
<1> QED BY <1>6, <1>10, <1>11, <1>13 DEF LimitsInv

\* A badge is added to fewer than the limit.
LEMMA LimitsApply ==
    ASSUME BadgesTypeOK, BadgesTypeOK', LimitsInv, DeletedIsOld',
           NEW h \in Handlers, InsertBadge(h)
    PROVE  LimitsInv'
<1>1. PICK b \in Badge : held' = held \cup {b}
  BY DEF InsertBadge
<1>2. /\ Cardinality(held) < MaxBadges
      /\ at[h] \in Counting /\ gen[h] \in Gen
  BY DEF InsertBadge, LimitsInv, RoomToInsert, Counting, BadgesTypeOK, Applying
<1>3. /\ Cardinality(held) \in Nat
      /\ Cardinality(held') = IF b \in held THEN Cardinality(held)
                              ELSE Cardinality(held) + 1
  BY <1>1, CountedIsFinite, FS_AddElement
<1>4. BadgeLimit'
  BY <1>2, <1>3, BadgesAssumption DEF BadgeLimit
<1>5. Recent' \subseteq Recent /\ Processing' \subseteq Processing
  BY <1>2 DEF InsertBadge, HasRow, Recent, Issued, Processing, BadgesTypeOK
<1>6. OneProcessing'
  BY <1>5 DEF OneProcessing, LimitsInv
<1>7. /\ Cardinality(Recent') <= Cardinality(Recent)
      /\ Cardinality(Recent) \in Nat /\ Cardinality(Recent') \in Nat
  BY <1>5, CountedIsFinite, FS_Subset, FS_CardinalityType
<1>8. DailyLimitHolds'
  BY <1>7, BadgesAssumption DEF DailyLimitHolds, LimitsInv
<1>9. \A i \in Handlers : at'[i] \notin Counting
  BY <1>2, BadgesAssumption
  DEF InsertBadge, Answer, Goto, LimitsInv, CountersTakeTurns, Counting,
      BadgesTypeOK
<1>10. CountersTakeTurns' /\ RoomToInsert'
  BY <1>9 DEF CountersTakeTurns, RoomToInsert, Counting
<1> QED BY <1>4, <1>6, <1>8, <1>10 DEF LimitsInv

\* The other steps of the requests: who goes on to count has the lock, and who
\* goes on to insert has counted.
LEMMA LimitsRequest ==
    ASSUME BadgesTypeOK, BadgesTypeOK', LimitsInv, DeletedIsOld',
           NEW h \in Handlers,
           \/ GenerateStep(h) \/ ApplyStep(h) \/ TransactionFails(h)
           \/ SetActive(h) \/ \E b \in Badge : StartActivate(h, b),
           ~InsertGeneration(h), ~InsertBadge(h)
    PROVE  LimitsInv'
<1> USE DEF Goto, Answer, genVars, pastVars, badgeVars
<1>0. \A i \in Handlers :
         /\ at[i] \in Counting => userLock = i
         /\ at[i] = "insertBadge" => Cardinality(held) < MaxBadges
         /\ at[i] = "insertGeneration" =>
               /\ Cardinality(Recent) < DailyLimit
               /\ Processing = Stale(StaleAge)
  BY DEF LimitsInv, CountersTakeTurns, RoomToInsert
<1>1. \A g \in Gen : age[g] <= age[g]
  BY BadgesAssumption DEF BadgesTypeOK, Age
<1>2. ASSUME at[h] \in Counting \/ userLock = NoHandler,
             NEW i \in Handlers, i # h
      PROVE  at[i] \notin Counting
  BY <1>0, <1>2, BadgesAssumption
<1>3. CASE CountGenerations(h)
  <2>1. \A g \in Gen :
           /\ status[g] = "absent" => status'[g] = "absent"
           /\ status'[g] = "processing" => status[g] = "processing"
    BY <1>3, FailStaleEffect DEF CountGenerations
  <2>2. \A g \in Gen : age[g] < DayAge => status[g] # "deleted"
    <3>1. \A g \in Gen : age[g] \in Int
      BY BadgesAssumption DEF BadgesTypeOK, Age
    <3> QED BY <3>1, BadgesAssumption DEF LimitsInv, DeletedIsOld
  <2>3. Recent = Today
    BY <2>2 DEF Recent, Issued, Today, HasRow
  <2> QED BY <1>0, <1>1, <1>2, <1>3, <2>1, <2>3, LimitsFrame
          DEF CountGenerations, Counting, BadgesTypeOK
<1>4. CASE LockForReserve(h)
  BY <1>0, <1>1, <1>2, <1>4, LimitsFrame
  DEF LockForReserve, MayLock, Counting, BadgesTypeOK
<1>5. CASE LockForApply(h)
  BY <1>0, <1>1, <1>2, <1>5, LimitsFrame
  DEF LockForApply, MayLock, Counting, BadgesTypeOK
<1>6. CASE CountBadges(h)
  BY <1>0, <1>1, <1>2, <1>6, LimitsFrame
  DEF CountBadges, Counting, BadgesTypeOK
<1>7. CASE TransactionFails(h)
  BY <1>0, <1>1, <1>2, <1>7, LimitsFrame
  DEF TransactionFails, Counting, BadgesTypeOK
<1>8. CASE CompleteGeneration(h) \/ CompleteFails(h) \/ FailGeneration(h)
  BY <1>0, <1>1, <1>8, LimitsFrame
  DEF CompleteGeneration, CompleteFails, FailGeneration, Processing, Counting,
      BadgesTypeOK
<1>9. CASE CountUserBadges(h) \/ ProviderFails(h) \/ PutObject(h)
           \/ PutFails(h) \/ AnswerError(h)
  BY <1>0, <1>1, <1>9, LimitsFrame
  DEF CountUserBadges, ProviderFails, PutObject, PutFails, AnswerError,
      Counting, BadgesTypeOK
<1>10. CASE ReadPreview(h) \/ SetActive(h)
  BY <1>0, <1>1, <1>10, LimitsFrame
  DEF ReadPreview, SetActive, Counting, BadgesTypeOK
<1>11. CASE \E g \in Gen : GetGeneration(h, g)
  BY <1>0, <1>1, <1>11, LimitsFrame
  DEF GetGeneration, Counting, BadgesTypeOK
<1>12. CASE \E b \in Badge : StartActivate(h, b)
  BY <1>0, <1>1, <1>12, LimitsFrame
  DEF StartActivate, Counting, BadgesTypeOK
<1> HIDE DEF Goto, Answer, genVars, pastVars, badgeVars
<1>13. CASE GenerateStep(h)
  BY <1>3, <1>4, <1>8, <1>9, <1>13 DEF GenerateStep
<1>14. CASE ApplyStep(h)
  BY <1>5, <1>6, <1>10, <1>14, <1>11 DEF ApplyStep
<1> QED BY <1>7, <1>10, <1>13, <1>14, <1>12

\* Deleting, collecting, time and crashes only take away.
LEMMA LimitsOther ==
    ASSUME BadgesTypeOK, BadgesTypeOK', LimitsInv, DeletedIsOld',
           \/ \E b \in Badge : DeleteBadge(b)
           \/ Collect \/ CollectionFails \/ Tick \/ Crash
    PROVE  LimitsInv'
<1> USE DEF genVars, pastVars, badgeVars, requestVars
<1>0. \A i \in Handlers :
         /\ at[i] \in Counting => userLock = i
         /\ at[i] = "insertBadge" => Cardinality(held) < MaxBadges
         /\ at[i] = "insertGeneration" =>
               /\ Cardinality(Recent) < DailyLimit
               /\ Processing = Stale(StaleAge)
  BY DEF LimitsInv, CountersTakeTurns, RoomToInsert
<1>1. \A g \in Gen : age[g] <= age[g]
  BY BadgesAssumption DEF BadgesTypeOK, Age
<1>2. ASSUME NEW b \in Badge, DeleteBadge(b) PROVE LimitsInv'
  BY <1>0, <1>1, <1>2, LimitsFrame DEF DeleteBadge
<1>3. CASE StartCollection
  <2>1. \A g \in Gen :
           /\ status[g] = "absent" => status'[g] = "absent"
           /\ status'[g] = "processing" => status[g] = "processing"
    BY <1>3, FailStaleEffect DEF StartCollection
  <2> QED BY <1>0, <1>1, <1>3, <2>1, LimitsFrame DEF StartCollection
<1>4. CASE DeleteGeneration
  BY <1>0, <1>1, <1>4, LimitsFrame DEF DeleteGeneration, BadgesTypeOK
<1>5. CASE \/ \E g \in Gen : DeleteGenerationImage(g)
           \/ \E b \in Badge : DeleteBadgeImage(b)
           \/ SelectGenerations \/ SelectBadges \/ DeleteBadgeRow
           \/ EndCollection \/ CollectionFails
  BY <1>0, <1>1, <1>5, LimitsFrame
  DEF DeleteGenerationImage, DeleteBadgeImage, SelectGenerations, SelectBadges,
      DeleteBadgeRow, EndCollection, CollectionFails
<1>6. CASE Tick
  <2>1. \A g \in Gen : age[g] <= age'[g]
    BY <1>6, BadgesAssumption DEF Tick, Age, BadgesTypeOK
  <2> QED BY <1>0, <1>6, <2>1, LimitsFrame DEF Tick
<1>7. CASE Crash
  BY <1>0, <1>1, <1>7, LimitsFrame DEF Crash, Counting
<1> QED BY <1>2, <1>3, <1>4, <1>5, <1>6, <1>7 DEF Collect

\* Every step keeps the limits.
LEMMA LimitsStep ==
    BadgesTypeOK /\ BadgesTypeOK' /\ LimitsInv /\ [BadgesNext]_vars => LimitsInv'
<1> SUFFICES ASSUME BadgesTypeOK, BadgesTypeOK', LimitsInv, [BadgesNext]_vars
             PROVE  LimitsInv'
  OBVIOUS
<1>1. CASE UNCHANGED vars
  BY <1>1
  DEF LimitsInv, CountersTakeTurns, RoomToInsert, DeletedIsOld, OneProcessing,
      BadgeLimit, DailyLimitHolds, Recent, Issued, Processing, Stale, vars,
      genVars, pastVars, badgeVars, requestVars, gcVars
<1>2. CASE BadgesNext
  <2>1. DeletedIsOld'
    BY <1>2, DeletedStep DEF LimitsInv
  <2> QED BY <1>2, <2>1, LimitsReserve, LimitsApply, LimitsRequest, LimitsOther
          DEF BadgesNext
<1> QED BY <1>1, <1>2

\* Who counts holds the lock, the count is right until the insert, and what
\* was counted is not deleted for a day.
THEOREM LimitsCorrect == BadgesSpec => []LimitsInv
  BY BadgesTypeCorrect, LimitsInit, LimitsStep, PTL DEF BadgesSpec

\* A user never holds more badges than MAX_BADGES_PER_USER.
THEOREM BadgeLimitCorrect == BadgesSpec => []BadgeLimit
<1>1. LimitsInv => BadgeLimit
  BY DEF LimitsInv
<1> QED BY <1>1, LimitsCorrect, PTL

\* A user never starts more generations a day than dailyGenerationLimit.
THEOREM DailyLimitCorrect == BadgesSpec => []DailyLimitHolds
<1>1. LimitsInv => DailyLimitHolds
  BY DEF LimitsInv
<1> QED BY <1>1, LimitsCorrect, PTL
-----------------------------------------------------------------------------
(* Images of the badges that the user holds.                               *)

\* Nothing is shown, made or chosen at the start.
LEMMA ImageInit == BadgesInit => ImageInv
  BY DEF BadgesInit, ImageInv, OwnGeneration, ShownIsReady, AppliesOverlap,
         OneBadgePerImage, CollectsUnused, Created,
         Processing, Generating, Applying, NoGen

\* The steps of a request to generate.
LEMMA ImageGenerate ==
    ASSUME BadgesTypeOK, BadgesTypeOK', ImageInv,
           NEW h \in Handlers, GenerateStep(h)
    PROVE  ImageInv'
<1> USE DEF BadgesTypeOK, Goto, Answer, ImageInv, OwnGeneration, ShownIsReady,
            AppliesOverlap, OneBadgePerImage, CollectsUnused,
            Created, Processing, Reserving, Generating, Applying, genVars,
            pastVars, imageVars,
            badgeVars, gcVars
<1>1. CASE CountUserBadges(h)
  BY <1>1 DEF CountUserBadges
<1>2. CASE LockForReserve(h)
  BY <1>2 DEF LockForReserve
<1>3. CASE CountGenerations(h)
  BY <1>3, FailStaleEffect DEF CountGenerations
<1>4. CASE InsertGeneration(h)
  <2>1. PICK g \in Gen :
           /\ \A i \in Gen : status[i] = "absent" <=> i >= g
           /\ status' = [FailStale(StaleAge) EXCEPT ![g] = "processing"]
           /\ gen' = [gen EXCEPT ![h] = g]
    BY <1>4 DEF InsertGeneration
  <2>2. status[g] = "absent"
    BY <2>1 DEF Gen
  <2>3. /\ status'[g] = "processing"
        /\ \A i \in Gen \ {g} :
              \/ status'[i] = status[i]
              \/ status[i] = "processing" /\ status'[i] = "failed"
    BY <2>1, FailStaleEffect
  <2>4. OwnGeneration'
    BY <1>4, <2>1, <2>2, <2>3 DEF InsertGeneration
  <2>5. ShownIsReady'
    BY <1>4, <2>2, <2>3 DEF InsertGeneration
  <2>6. AppliesOverlap'
    BY <1>4, <2>1, <2>2, <2>3 DEF InsertGeneration
  <2>7. OneBadgePerImage'
    BY <1>4, <2>2, <2>3 DEF InsertGeneration
  <2>8. CollectsUnused'
    BY <1>4, <2>2, <2>3 DEF InsertGeneration
  <2> QED BY <1>4, <2>4, <2>5, <2>6, <2>7, <2>8 DEF InsertGeneration
<1>5. CASE ProviderFails(h)
  BY <1>5 DEF ProviderFails
<1>6. CASE PutObject(h)
  BY <1>6 DEF PutObject
<1>7. CASE PutFails(h)
  BY <1>7 DEF PutFails, Fault
<1>8. CASE CompleteGeneration(h)
  <2>1. CASE gen[h] \in Processing
    <3>1. /\ gen[h] \in Gen /\ gen[h] \in objects /\ gen[h] \notin shown
          /\ status[gen[h]] = "processing"
          /\ status' = [status EXCEPT ![gen[h]] = "preview"]
          /\ at[h] = "completeGeneration"
      BY <1>8, <2>1 DEF CompleteGeneration
    <3>2. OwnGeneration'
      BY <1>8, <2>1, <3>1 DEF CompleteGeneration
    <3>3. ShownIsReady'
      BY <1>8, <2>1, <3>1 DEF CompleteGeneration
    <3>4. AppliesOverlap'
      BY <1>8, <2>1, <3>1 DEF CompleteGeneration
    <3>5. OneBadgePerImage'
      BY <1>8, <2>1, <3>1 DEF CompleteGeneration
    <3>6. CollectsUnused'
      BY <1>8, <2>1, <3>1 DEF CompleteGeneration
    <3> QED BY <1>8, <3>2, <3>3, <3>4, <3>5, <3>6 DEF CompleteGeneration
  <2>2. CASE gen[h] \notin Processing
    BY <1>8, <2>2 DEF CompleteGeneration
  <2> QED BY <2>1, <2>2
<1>9. CASE CompleteFails(h)
  <2>1. CASE UNCHANGED status
    BY <1>9, <2>1 DEF CompleteFails, Fault
  <2>2. CASE /\ gen[h] \in Processing
             /\ status' = [status EXCEPT ![gen[h]] = "preview"]
    <3>1. gen[h] \in Gen /\ gen[h] \notin shown /\ status[gen[h]] = "processing"
      BY <1>9, <2>2 DEF CompleteFails
    <3>2. OwnGeneration'
      BY <1>9, <2>2, <3>1 DEF CompleteFails
    <3>3. ShownIsReady' /\ AppliesOverlap'
      BY <1>9, <2>2, <3>1 DEF CompleteFails
    <3>4. OneBadgePerImage'
      BY <1>9, <2>2, <3>1 DEF CompleteFails
    <3>5. CollectsUnused'
      BY <1>9, <2>2, <3>1 DEF CompleteFails
    <3> QED BY <3>2, <3>3, <3>4, <3>5
  <2> QED BY <1>9, <2>1, <2>2 DEF CompleteFails
<1>10. CASE FailGeneration(h)
  BY <1>10 DEF FailGeneration, Fault, Status
<1>11. CASE AnswerError(h)
  BY <1>11, DeleteObjectEffect DEF AnswerError, DiscardImage
<1> QED BY <1>1, <1>2, <1>3, <1>4, <1>5, <1>6, <1>7, <1>8, <1>9, <1>10, <1>11
        DEF GenerateStep

\* The steps of the other requests.
LEMMA ImageApply ==
    ASSUME BadgesTypeOK, BadgesTypeOK', ImageInv, 
           NEW h \in Handlers,
           \/ ApplyStep(h) \/ TransactionFails(h) \/ SetActive(h)
           \/ \E b \in Badge : StartActivate(h, b)
    PROVE  ImageInv'
<1> USE DEF BadgesTypeOK, Goto, Answer, ImageInv, OwnGeneration, ShownIsReady,
            AppliesOverlap, OneBadgePerImage, CollectsUnused,
            Created, Processing, Reserving, Generating, Applying, genVars,
            pastVars, imageVars,
            badgeVars, gcVars
<1>1. ASSUME NEW g \in Gen, GetGeneration(h, g) PROVE ImageInv'
  <2>1. /\ at[h] = "idle" /\ g \in shown /\ status[g] = "preview"
        /\ at' = [at EXCEPT ![h] = "readPreview"]
        /\ gen' = [gen EXCEPT ![h] = g]
        /\ UNCHANGED <<status, age, shown, expired, imageVars, badgeVars, gcVars>>
    BY <1>1 DEF GetGeneration, MayApply
  <2>2. /\ overlapped \subseteq overlapped'
        /\ \A i \in Handlers : at[i] \in Applying /\ gen[i] = g => g \in overlapped'
    BY <1>1 DEF GetGeneration, ApplyingNow
  <2>3. OwnGeneration' /\ ShownIsReady'
    BY <2>1
  <2>4. AppliesOverlap'
    BY <2>1, <2>2
  <2>5. OneBadgePerImage' /\ CollectsUnused'
    BY <2>1, <2>2
  <2> QED BY <2>3, <2>4, <2>5
<1>2. CASE ReadPreview(h)
  BY <1>2 DEF ReadPreview
<1>3. CASE LockForApply(h)
  BY <1>3 DEF LockForApply
<1>4. CASE CountBadges(h)
  BY <1>4 DEF CountBadges
<1>5. CASE InsertBadge(h)
  <2>1. PICK b \in Badge :
           /\ \A i \in Badge : i \notin Created <=> i >= b
           /\ image' = [image EXCEPT ![b] = gen[h]]
           /\ rows' = rows \cup {b}
           /\ held' = held \cup {b}
    BY <1>5 DEF InsertBadge
  <2>2. image[b] = NoGen
    BY <2>1 DEF Badge
  <2>3. /\ gen[h] \in Gen /\ gen[h] \in shown /\ gen[h] # NoGen
        /\ at[h] = "insertBadge"
        /\ status[gen[h]] = "preview" \/ gen[h] \in overlapped \cup expired
        /\ status[gen[h]] \in {"preview", "applied", "deleted"}
        /\ status[gen[h]] = "deleted" => gen[h] \in expired
    BY <1>5 DEF InsertBadge, Gen, NoGen
  <2>4. /\ status'[gen[h]] \in {"applied", "deleted"}
        /\ status'[gen[h]] = "deleted" => gen[h] \in expired
        /\ \A g \in Gen \ {gen[h]} : status'[g] = status[g]
    BY <1>5, <2>3 DEF InsertBadge, HasRow
  <2>5. OwnGeneration'
    BY <1>5, <2>3, <2>4 DEF InsertBadge
  <2>6. ShownIsReady'
    <3>1. \A g \in shown : /\ status'[g] \in {"preview", "applied", "deleted"}
                           /\ status'[g] = "deleted" => g \in expired
      BY <2>3, <2>4
    <3>2. \A c \in Created \ held : c \in Created' \ held' /\ image'[c] = image[c]
      BY <2>1, <2>2, <2>3
    <3>3. objects' = objects /\ shown' = shown /\ expired' = expired
      BY <1>5 DEF InsertBadge
    <3> HIDE DEF Created
    <3> QED BY <3>1, <3>2, <3>3
  <2>7. AppliesOverlap'
    <3>1. \A i \in Handlers \ {h} :
             /\ at'[i] = at[i] /\ gen'[i] = gen[i]
             /\ at[i] \in Applying /\ gen[i] = gen[h] => gen[i] \in overlapped
      BY <1>5, <2>3 DEF InsertBadge
    <3>2. at'[h] \notin Applying
      BY <1>5 DEF InsertBadge
    <3>3. shown' = shown /\ overlapped' = overlapped /\ expired' = expired
      BY <1>5 DEF InsertBadge
    <3> QED BY <2>3, <2>4, <3>1, <3>2, <3>3
  <2>8. OneBadgePerImage'
    <3>1. /\ Created' = Created \cup {b} /\ image'[b] = gen[h]
          /\ b \notin Created
          /\ \A c \in Created : image'[c] = image[c]
      BY <2>1, <2>2, <2>3
    <3>2. \A c \in Created : image[c] = gen[h] => gen[h] \in overlapped \cup expired
      BY <2>3
    <3>3. rows' = rows \cup {b} /\ UNCHANGED <<shown, overlapped, expired>>
      BY <1>5, <2>1 DEF InsertBadge
    <3>4. \A c \in Created : image[c] \in shown /\ status'[image[c]] # "preview"
      BY <2>3, <2>4
    <3> HIDE DEF Created
    <3> QED BY <2>3, <2>4, <3>1, <3>2, <3>3, <3>4
  <2>9. CollectsUnused'
    BY <1>5, <2>1, <2>2, <2>3, <2>4 DEF InsertBadge
  <2> QED BY <2>5, <2>6, <2>7, <2>8, <2>9
<1>6. CASE TransactionFails(h)
  BY <1>6 DEF TransactionFails, Fault
<1>7. CASE SetActive(h)
  BY <1>7 DEF SetActive, MayReference
<1>8. ASSUME NEW b \in Badge, StartActivate(h, b) PROVE ImageInv'
  BY <1>8 DEF StartActivate
<1> QED BY <1>1, <1>2, <1>3, <1>4, <1>5, <1>6, <1>7, <1>8 DEF ApplyStep

\* The collection deletes one row at most.
LEMMA DeleteGenerationEffect ==
    ASSUME BadgesTypeOK, DeleteGeneration
    PROVE  \A g \in Gen :
              \/ status'[g] = status[g]
              \/ g = item /\ status'[g] = "deleted"
<1>1. status \in [Gen -> Status]
  BY DEF BadgesTypeOK
<1>2. CASE status' = [status EXCEPT ![item] = "deleted"]
  BY <1>1, <1>2
<1>3. CASE status' = status
  BY <1>3
<1> QED BY <1>2, <1>3 DEF DeleteGeneration

\* Deleting, the collection, the clock and a crash.
LEMMA ImageOther ==
    ASSUME BadgesTypeOK, BadgesTypeOK', ImageInv, 
           \/ \E b \in Badge : DeleteBadge(b)
           \/ Collect \/ CollectionFails \/ Tick \/ Crash
    PROVE  ImageInv'
<1> USE DEF BadgesTypeOK, None, ImageInv, OwnGeneration, ShownIsReady,
            AppliesOverlap, OneBadgePerImage, CollectsUnused,
            Created, Processing, Generating, Applying, genVars, pastVars,
            imageVars,
            badgeVars, requestVars, gcVars
<1>1. CASE StartCollection
  BY <1>1, FailStaleEffect DEF StartCollection
<1>2. CASE SelectGenerations
  BY <1>2 DEF SelectGenerations, Collectable
<1>3. ASSUME NEW g \in Gen, DeleteGenerationImage(g) PROVE ImageInv'
  <2>1. /\ g \in batch /\ gcAt = "generations"
        /\ objects' \subseteq objects /\ objects \subseteq objects' \cup {g}
    BY <1>3, DeleteObjectEffect DEF DeleteGenerationImage
  <2>2. /\ status[g] \in {"preview", "applied", "failed", "deleted"}
        /\ g \in shown => g \in expired
    BY <2>1
  <2>3. OwnGeneration' /\ AppliesOverlap'
    BY <1>3, <2>1, <2>2 DEF DeleteGenerationImage
  <2>4. ShownIsReady'
    BY <1>3, <2>1, <2>2 DEF DeleteGenerationImage
  <2>5. OneBadgePerImage' /\ CollectsUnused'
    BY <1>3 DEF DeleteGenerationImage
  <2> QED BY <2>3, <2>4, <2>5
<1>4. CASE DeleteGeneration
  <2>0. item \in Gen /\ item \in batch /\ gcAt = "generations"
    BY <1>4 DEF DeleteGeneration
  <2>1. \A g \in Gen :
           \/ status'[g] = status[g]
           \/ g = item /\ status'[g] = "deleted"
    BY <1>4, DeleteGenerationEffect
  <2>2. /\ status[item] \in {"preview", "applied", "failed", "deleted"}
        /\ item \in shown => item \in expired
    BY <2>0
  <2>3. OwnGeneration'
    BY <1>4, <2>0, <2>1, <2>2 DEF DeleteGeneration
  <2>4. ShownIsReady'
    BY <1>4, <2>0, <2>1, <2>2 DEF DeleteGeneration
  <2>5. AppliesOverlap'
    BY <1>4, <2>0, <2>1, <2>2 DEF DeleteGeneration
  <2>6. OneBadgePerImage'
    BY <1>4, <2>0, <2>1, <2>2 DEF DeleteGeneration
  <2>7. CollectsUnused'
    BY <1>4, <2>0, <2>1, <2>2 DEF DeleteGeneration
  <2> QED BY <2>3, <2>4, <2>5, <2>6, <2>7
<1>5. CASE SelectBadges
  BY <1>5 DEF SelectBadges, Unheld
<1>6. ASSUME NEW b \in Badge, DeleteBadgeImage(b) PROVE ImageInv'
  <2>1. /\ b \in Created \ held /\ image[b] \in Gen
        /\ image[b] \in shown /\ status[image[b]] # "preview"
        /\ objects' \subseteq objects /\ objects \subseteq objects' \cup {image[b]}
    BY <1>6, DeleteObjectEffect DEF DeleteBadgeImage, NoGen
  <2>2. OwnGeneration' /\ AppliesOverlap'
    BY <1>6, <2>1 DEF DeleteBadgeImage
  <2>3. ShownIsReady'
    <3>1. UNCHANGED <<status, shown, expired, image, held>>
      BY <1>6 DEF DeleteBadgeImage
    <3>2. UNCHANGED Created
      BY <3>1
    <3> HIDE DEF Created
    <3> QED BY <2>1, <3>1, <3>2
  <2>4. OneBadgePerImage' /\ CollectsUnused'
    BY <1>6 DEF DeleteBadgeImage
  <2> QED BY <2>2, <2>3, <2>4
<1>7. CASE DeleteBadgeRow
  BY <1>7 DEF DeleteBadgeRow, Unheld, Clear
<1>8. CASE EndCollection
  BY <1>8 DEF EndCollection
<1>9. CASE CollectionFails
  BY <1>9 DEF CollectionFails, Fault
<1>10. CASE Tick
  BY <1>10 DEF Tick
<1>11. CASE Crash
  BY <1>11 DEF Crash
<1>12. ASSUME NEW b \in Badge, DeleteBadge(b) PROVE ImageInv'
  BY <1>12 DEF DeleteBadge, Clear
<1> QED BY <1>1, <1>2, <1>3, <1>4, <1>5, <1>6, <1>7, <1>8, <1>9, <1>10, <1>11,
           <1>12 DEF Collect

\* Every step of the system keeps the invariant of the images.
LEMMA ImageStep ==
    BadgesTypeOK /\ BadgesTypeOK' /\ ImageInv /\ [BadgesNext]_vars => ImageInv'
<1> SUFFICES ASSUME BadgesTypeOK, BadgesTypeOK', ImageInv, [BadgesNext]_vars
             PROVE  ImageInv'
  OBVIOUS
<1>1. CASE UNCHANGED vars
  BY <1>1
  DEF ImageInv, OwnGeneration, ShownIsReady, AppliesOverlap, OneBadgePerImage,
      CollectsUnused, Created, Processing, vars, genVars, pastVars, imageVars,
      badgeVars, requestVars, gcVars
<1>2. CASE BadgesNext
  BY <1>2, ImageGenerate, ImageApply, ImageOther DEF BadgesNext
<1> QED BY <1>1, <1>2

\* An image belongs to its request until the preview is shown; from then on it
\* is there, or the collection had chosen its preview as unused, or a badge made
\* of it was given up, which is the only one unless two requests overlapped.
THEOREM ImagesCorrect == BadgesSpec => []ImageInv
<1>1. BadgesInit => ImageInv
  BY ImageInit
<1>2. BadgesTypeOK /\ BadgesTypeOK' /\ ImageInv /\ [BadgesNext]_vars => ImageInv'
  BY ImageStep
<1> QED BY <1>1, <1>2, BadgesTypeCorrect, PTL DEF BadgesSpec

\* A badge that the user holds loses its image only to a collection that chose
\* the preview before it was applied, or to the deletion of another badge made
\* of it by an overlapping request: never to the error path of a generation, a
\* lost answer, a crash or any other collection.
THEOREM HeldImageCorrect == BadgesSpec => []HeldBadgeHasImage
<1>1. BadgesTypeOK /\ ImageInv => HeldBadgeHasImage
  <2> SUFFICES ASSUME BadgesTypeOK, ImageInv, NEW b \in held,
                      image[b] \notin objects, image[b] \notin expired
               PROVE  /\ image[b] \in overlapped
                      /\ \E c \in Created \ held : image[c] = image[b]
    BY DEF HeldBadgeHasImage
  <2>1. b \in Created /\ image[b] \in shown
    BY DEF BadgesTypeOK, ImageInv, OneBadgePerImage
  <2>2. PICK c \in Created \ held : image[c] = image[b]
    BY <2>1 DEF ImageInv, ShownIsReady
  <2>3. c # b
    BY <2>2
  <2> QED BY <2>1, <2>2, <2>3 DEF ImageInv, OneBadgePerImage
<1> QED BY <1>1, ImagesCorrect, BadgesTypeCorrect, PTL
-----------------------------------------------------------------------------
(* No image is forgotten, whatever the user does.                          *)

\* An object that is to be deleted is gone or given up; no other one is touched.
LEMMA DeletedIsGone ==
    ASSUME BadgesTypeOK, NEW g, DeleteObject(g)
    PROVE  /\ objects' \subseteq objects /\ objects \subseteq objects' \cup {g}
           /\ leaked \subseteq leaked'
           /\ Gone(g)'
  BY DEF BadgesTypeOK, DeleteObject, Gone

\* The first state has no image and nobody who works on one.
LEMMA OwnersInit == BadgesInit => OwnersInv
  BY DEF BadgesInit, OwnersInv, OwnersAreAlone, MadeOfShown, ImageBeforeRow,
         NoOrphanImage, Created, Generating, Applying, NoGen

\* Steps in which no request begins to work on an image, none is put and no row
\* changes: what a request lets go is gone or given up.
LEMMA OwnersFrame ==
    ASSUME BadgesTypeOK, OwnersInv,
           UNCHANGED <<status, shown, rows, image, gcVars>>,
           objects' \subseteq objects, leaked \subseteq leaked',
           \A i \in Handlers :
              \/ at'[i] = at[i] /\ gen'[i] = gen[i]
              \/ at'[i] \notin Generating \cup Applying
              \/ /\ at[i] \in Generating /\ gen'[i] = gen[i]
                 /\ at'[i] \in Generating \ {"generateImage"}
              \/ /\ at[i] \in Applying /\ gen'[i] = gen[i]
                 /\ at'[i] \in Applying,
           \A i \in Handlers :
              /\ at[i] \in Generating /\ at'[i] \notin Generating
              /\ gen[i] \in objects'
              => gen[i] \in leaked'
    PROVE  OwnersInv'
<1> USE DEF OwnersInv
<1>0. \A i \in Handlers :
         /\ at'[i] \in Generating => at[i] \in Generating /\ gen'[i] = gen[i]
         /\ at'[i] = "generateImage" => at[i] = "generateImage"
         /\ at'[i] \in Applying => at[i] \in Applying /\ gen'[i] = gen[i]
  BY DEF Generating, Applying
<1>1. OwnersAreAlone'
  BY <1>0 DEF OwnersAreAlone
<1>2. MadeOfShown'
  BY <1>0 DEF MadeOfShown, Created
<1>3. ImageBeforeRow'
  BY DEF ImageBeforeRow, Gone, Created, gcVars
<1>4. \A i \in Handlers : at[i] \in Generating =>
         \/ at'[i] \in Generating /\ gen'[i] = gen[i]
         \/ gen[i] \in objects' => gen[i] \in leaked'
  BY <1>0
<1>5. NoOrphanImage'
  BY <1>4 DEF NoOrphanImage
<1> QED BY <1>1, <1>2, <1>3, <1>5

\* The steps of a request to generate.
LEMMA OwnersGenerate ==
    ASSUME BadgesTypeOK, OwnersInv, NEW h \in Handlers, GenerateStep(h)
    PROVE  OwnersInv'
<1> USE DEF BadgesTypeOK, Goto, Answer, Reserving, Generating, Applying,
            genVars, pastVars,
            imageVars, badgeVars
<1>1. CASE CountUserBadges(h)
  BY <1>1, OwnersFrame DEF CountUserBadges
<1>2. CASE LockForReserve(h)
  BY <1>2, OwnersFrame DEF LockForReserve
<1>3. CASE ProviderFails(h)
  BY <1>3, OwnersFrame DEF ProviderFails
<1>4. CASE AnswerError(h)
  BY <1>4, OwnersFrame, DeletedIsGone DEF AnswerError, DiscardImage, Gone
<1> USE DEF OwnersInv, OwnersAreAlone, MadeOfShown, ImageBeforeRow, Created, Gone,
            gcVars
<1>5. CASE CountGenerations(h)
  BY <1>5, FailStaleEffect DEF CountGenerations, NoOrphanImage
<1>6. CASE InsertGeneration(h)
  <2>1. PICK g \in Gen :
           /\ \A i \in Gen : status[i] = "absent" <=> i >= g
           /\ status' = [FailStale(StaleAge) EXCEPT ![g] = "processing"]
           /\ gen' = [gen EXCEPT ![h] = g]
    BY <1>6 DEF InsertGeneration
  <2>2. status[g] = "absent"
    BY <2>1 DEF Gen
  <2>3. /\ status'[g] = "processing"
        /\ \A i \in Gen \ {g} :
              \/ status'[i] = status[i]
              \/ status[i] = "processing" /\ status'[i] = "failed"
    BY <2>1, FailStaleEffect
  <2>4. OwnersAreAlone'
    BY <1>6, <2>1, <2>2, <2>3 DEF InsertGeneration
  <2>5. MadeOfShown'
    BY <1>6, <2>1, <2>2, <2>3 DEF InsertGeneration
  <2>6. ImageBeforeRow'
    BY <1>6, <2>1, <2>2, <2>3 DEF InsertGeneration
  <2>7. NoOrphanImage'
    BY <1>6, <2>1, <2>2, <2>3 DEF InsertGeneration, NoOrphanImage
  <2> QED BY <2>4, <2>5, <2>6, <2>7
<1>7. CASE PutObject(h) \/ PutFails(h)
  <2>1. /\ at[h] = "generateImage" /\ gen[h] \in Gen
        /\ objects' \subseteq objects \cup {gen[h]}
        /\ \E step \in Generating \ {"generateImage"} :
              at' = [at EXCEPT ![h] = step]
        /\ UNCHANGED <<genVars, leaked, badgeVars, gen, gcVars>>
    BY <1>7 DEF PutObject, PutFails
  <2>2. OwnersAreAlone' /\ MadeOfShown'
    BY <2>1
  <2>3. ImageBeforeRow'
    BY <2>1 DEF None
  <2>4. at'[h] \in Generating /\ \A i \in Handlers \ {h} : at'[i] = at[i]
    BY <2>1
  <2>5. NoOrphanImage'
    BY <2>1, <2>4 DEF NoOrphanImage
  <2> QED BY <2>2, <2>3, <2>5
<1>8. CASE CompleteGeneration(h)
  <2>1. CASE gen[h] \in Processing
    <3>1. /\ gen[h] \in Gen /\ gen[h] \notin shown
          /\ status[gen[h]] = "processing" /\ at[h] = "completeGeneration"
          /\ status' = [status EXCEPT ![gen[h]] = "preview"]
          /\ shown' = shown \cup {gen[h]}
      BY <1>8, <2>1 DEF CompleteGeneration, Processing
    <3>2. OwnersAreAlone'
      BY <1>8, <2>1, <3>1 DEF CompleteGeneration
    <3>3. MadeOfShown'
      BY <1>8, <2>1, <3>1 DEF CompleteGeneration
    <3>4. ImageBeforeRow'
      BY <1>8, <2>1, <3>1 DEF CompleteGeneration, None
    <3>5. \A i \in Handlers : at[i] \in Generating =>
             i = h \/ (at'[i] = at[i] /\ gen'[i] = gen[i])
      BY <1>8, <2>1 DEF CompleteGeneration
    <3>6. NoOrphanImage'
      BY <1>8, <2>1, <3>1, <3>5 DEF CompleteGeneration, NoOrphanImage
    <3> QED BY <3>2, <3>3, <3>4, <3>6
  <2>2. CASE gen[h] \notin Processing
    BY <1>8, <2>2, OwnersFrame DEF CompleteGeneration
  <2> QED BY <2>1, <2>2
<1>9. CASE CompleteFails(h) \/ FailGeneration(h)
  <2>1. /\ gen[h] \in Gen /\ at[h] \in Generating \ {"generateImage"}
        /\ \E step \in Generating \ {"generateImage"} :
              at' = [at EXCEPT ![h] = step]
        /\ UNCHANGED <<shown, imageVars, badgeVars, gen, gcVars>>
        /\ \/ status' = status
           \/ /\ status[gen[h]] = "processing"
              /\ \E s \in {"preview", "failed"} :
                    status' = [status EXCEPT ![gen[h]] = s]
    BY <1>9 DEF CompleteFails, FailGeneration, Processing
  <2>2. OwnersAreAlone' /\ MadeOfShown'
    BY <2>1
  <2>3. ImageBeforeRow'
    BY <2>1 DEF None
  <2>4. NoOrphanImage'
    BY <2>1 DEF NoOrphanImage
  <2> QED BY <2>2, <2>3, <2>4
<1> QED BY <1>1, <1>2, <1>3, <1>4, <1>5, <1>6, <1>7, <1>8, <1>9
        DEF GenerateStep

\* The steps of the other requests.
LEMMA OwnersApply ==
    ASSUME BadgesTypeOK, OwnersInv, NEW h \in Handlers,
           \/ ApplyStep(h) \/ TransactionFails(h) \/ SetActive(h)
           \/ \E b \in Badge : StartActivate(h, b)
    PROVE  OwnersInv'
<1> USE DEF BadgesTypeOK, Goto, Answer, Generating, Applying, genVars,
            pastVars, imageVars,
            badgeVars
<1>1. ASSUME NEW g \in Gen, GetGeneration(h, g) PROVE OwnersInv'
  <2>1. /\ at[h] = "idle" /\ g \in shown /\ at' = [at EXCEPT ![h] = "readPreview"]
        /\ gen' = [gen EXCEPT ![h] = g]
        /\ UNCHANGED <<status, age, shown, imageVars, badgeVars, gcVars>>
    BY <1>1 DEF GetGeneration
  <2>2. OwnersAreAlone' /\ MadeOfShown'
    BY <2>1 DEF OwnersInv, OwnersAreAlone, MadeOfShown, Created
  <2>3. ImageBeforeRow'
    BY <2>1 DEF OwnersInv, ImageBeforeRow, Gone, Created, gcVars
  <2>4. NoOrphanImage'
    BY <2>1 DEF OwnersInv, NoOrphanImage
  <2> QED BY <2>2, <2>3, <2>4 DEF OwnersInv
<1>2. CASE ReadPreview(h)
  BY <1>2, OwnersFrame DEF ReadPreview
<1>3. CASE LockForApply(h)
  BY <1>3, OwnersFrame DEF LockForApply
<1>4. CASE CountBadges(h)
  BY <1>4, OwnersFrame DEF CountBadges
<1>5. CASE InsertBadge(h)
  <2>1. PICK b \in Badge :
           /\ \A i \in Badge : i \notin Created <=> i >= b
           /\ image' = [image EXCEPT ![b] = gen[h]]
           /\ rows' = rows \cup {b}
    BY <1>5 DEF InsertBadge
  <2>2. image[b] = NoGen
    BY <2>1 DEF Badge, Created
  <2>3. /\ gen[h] \in Gen /\ gen[h] \in shown /\ at[h] = "insertBadge"
        /\ gen[h] # NoGen
    BY <1>5 DEF InsertBadge, Gen, NoGen, OwnersInv, MadeOfShown
  <2>4. /\ \A g \in Gen : /\ status'[g] = status[g] \/ g = gen[h]
                          /\ status[g] # "absent" => status'[g] # "absent"
                          /\ status[g] \notin {"absent", "processing"} =>
                                status'[g] \notin {"absent", "processing"}
        /\ status'[gen[h]] # "preview"
    BY <1>5, <2>3 DEF InsertBadge, HasRow
  <2>5. \A i \in Handlers :
           /\ at'[i] \in Generating \cup Applying =>
                 i # h /\ at'[i] = at[i] /\ gen'[i] = gen[i]
           /\ at[i] \in Generating => at'[i] = at[i] /\ gen'[i] = gen[i]
    BY <1>5, <2>3 DEF InsertBadge
  <2>6. OwnersAreAlone'
    BY <1>5, <2>3, <2>4, <2>5 DEF InsertBadge, OwnersInv, OwnersAreAlone
  <2>7. MadeOfShown'
    BY <1>5, <2>1, <2>2, <2>3, <2>4, <2>5
    DEF InsertBadge, OwnersInv, MadeOfShown, Created
  <2>8. ImageBeforeRow'
    BY <1>5, <2>1, <2>2, <2>3, <2>4
    DEF InsertBadge, OwnersInv, ImageBeforeRow, Gone, Created, gcVars, None
  <2>9. NoOrphanImage'
    <3>1. \A c \in rows : c \in rows' /\ image'[c] = image[c]
      BY <2>1, <2>2 DEF OwnersInv, MadeOfShown, Created
    <3>2. b \in rows' /\ image'[b] = gen[h]
      BY <2>1
    <3> QED BY <1>5, <2>4, <2>5, <3>1, <3>2
            DEF InsertBadge, OwnersInv, NoOrphanImage
  <2> QED BY <2>6, <2>7, <2>8, <2>9 DEF OwnersInv
<1>6. CASE TransactionFails(h)
  BY <1>6, OwnersFrame DEF TransactionFails, Counting
<1>7. CASE SetActive(h)
  BY <1>7, OwnersFrame DEF SetActive
<1>8. ASSUME NEW b \in Badge, StartActivate(h, b) PROVE OwnersInv'
  BY <1>8, OwnersFrame DEF StartActivate
<1> QED BY <1>1, <1>2, <1>3, <1>4, <1>5, <1>6, <1>7, <1>8 DEF ApplyStep

\* The collection deletes the image first, then the row; a crash gives up the
\* images of the requests that it ends.
LEMMA OwnersOther ==
    ASSUME BadgesTypeOK, OwnersInv,
           \/ \E b \in Badge : DeleteBadge(b)
           \/ Collect \/ CollectionFails \/ Tick \/ Crash
    PROVE  OwnersInv'
<1> USE DEF BadgesTypeOK, None, OwnersInv, OwnersAreAlone, MadeOfShown,
            ImageBeforeRow, Gone, Created, genVars, pastVars, imageVars,
            badgeVars,
            requestVars, gcVars
<1>1. CASE StartCollection
  BY <1>1, FailStaleEffect DEF StartCollection, NoOrphanImage
<1>2. CASE SelectGenerations
  BY <1>2 DEF SelectGenerations, Collectable, NoOrphanImage
<1>3. ASSUME NEW g \in Gen, DeleteGenerationImage(g) PROVE OwnersInv'
  <2>1. /\ g \in batch /\ gcAt = "generations" /\ item' = g
        /\ objects' \subseteq objects /\ objects \subseteq objects' \cup {g}
        /\ leaked \subseteq leaked'
        /\ status[g] # "failed" => Gone(g)'
        /\ UNCHANGED <<genVars, badgeVars, requestVars, gcAt, batch>>
    BY <1>3, DeletedIsGone DEF DeleteGenerationImage
  <2>2. OwnersAreAlone' /\ MadeOfShown'
    BY <2>1
  <2>3. ImageBeforeRow'
    BY <2>1
  <2>4. NoOrphanImage'
    BY <2>1 DEF NoOrphanImage
  <2> QED BY <2>2, <2>3, <2>4
<1>4. CASE DeleteGeneration
  <2>0. item \in Gen /\ item \in batch /\ gcAt = "generations" /\ item # None
    BY <1>4 DEF DeleteGeneration
  <2>1. /\ \A g \in Gen :
              \/ status'[g] = status[g]
              \/ g = item /\ status'[g] = "deleted"
        /\ UNCHANGED <<shown, imageVars, badgeVars, requestVars, gcAt>>
        /\ batch' \subseteq batch /\ item' = None
    BY <1>4, DeleteGenerationEffect DEF DeleteGeneration
  <2>2. OwnersAreAlone' /\ MadeOfShown'
    BY <2>0, <2>1
  <2>3. ImageBeforeRow'
    BY <2>0, <2>1
  <2>4. NoOrphanImage'
    BY <2>0, <2>1 DEF NoOrphanImage
  <2> QED BY <2>2, <2>3, <2>4
<1>5. CASE SelectBadges
  BY <1>5 DEF SelectBadges, Unheld, NoOrphanImage
<1>6. ASSUME NEW b \in Badge, DeleteBadgeImage(b) PROVE OwnersInv'
  <2>1. /\ b \in batch /\ gcAt = "badges" /\ item' = b
        /\ objects' \subseteq objects /\ leaked \subseteq leaked'
        /\ Gone(image[b])'
        /\ UNCHANGED <<genVars, badgeVars, requestVars, gcAt, batch>>
    BY <1>6, DeletedIsGone DEF DeleteBadgeImage
  <2>2. OwnersAreAlone' /\ MadeOfShown'
    BY <2>1
  <2>3. ImageBeforeRow'
    BY <2>1
  <2>4. NoOrphanImage'
    BY <2>1 DEF NoOrphanImage
  <2> QED BY <2>2, <2>3, <2>4
<1>7. CASE DeleteBadgeRow
  BY <1>7 DEF DeleteBadgeRow, Unheld, Clear, NoOrphanImage
<1>8. CASE EndCollection
  BY <1>8 DEF EndCollection, NoOrphanImage
<1>9. CASE CollectionFails
  BY <1>9 DEF CollectionFails, NoOrphanImage
<1>10. CASE Tick
  BY <1>10 DEF Tick, NoOrphanImage
<1>11. CASE Crash
  BY <1>11 DEF Crash, NoOrphanImage, Generating, Applying
<1>12. ASSUME NEW b \in Badge, DeleteBadge(b) PROVE OwnersInv'
  BY <1>12 DEF DeleteBadge, NoOrphanImage
<1> QED BY <1>1, <1>2, <1>3, <1>4, <1>5, <1>6, <1>7, <1>8, <1>9, <1>10, <1>11,
           <1>12 DEF Collect

\* Every step keeps an owner for every image.
LEMMA OwnersStep == BadgesTypeOK /\ OwnersInv /\ [BadgesNext]_vars => OwnersInv'
<1> SUFFICES ASSUME BadgesTypeOK, OwnersInv, [BadgesNext]_vars PROVE OwnersInv'
  OBVIOUS
<1>1. CASE UNCHANGED vars
  BY <1>1
  DEF OwnersInv, OwnersAreAlone, MadeOfShown, ImageBeforeRow, NoOrphanImage,
      Created, Gone, vars, genVars, pastVars, imageVars, badgeVars,
      requestVars, gcVars
<1>2. CASE BadgesNext
  BY <1>2, OwnersGenerate, OwnersApply, OwnersOther DEF BadgesNext
<1> QED BY <1>1, <1>2

\* Every stored image has a preview, a badge or a request that leads to it,
\* unless a failing delete or a crash has given it up.
THEOREM NoOrphanImageCorrect == BadgesSpec => []NoOrphanImage
<1>1. OwnersInv => NoOrphanImage
  BY DEF OwnersInv
<1> QED BY <1>1, BadgesTypeCorrect, OwnersInit, OwnersStep, PTL DEF BadgesSpec
=============================================================================
