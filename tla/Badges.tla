------------------------------- MODULE Badges -------------------------------
(***************************************************************************)
(* The badges of one user: the rows of badge_generations, badges and       *)
(* user_badges, users.active_badge_id, the images in the object storage,   *)
(* the requests that generate, apply, activate and delete, one statement   *)
(* or outside call at a time, and the nightly garbage collection.          *)
(* Everything is per user, the lock on the user's row included.            *)
(*                                                                         *)
(* An image is named after its generation; a badge only points at one.     *)
(* Prompts, titles and the points (POINT_COST is 0) are left out, and so   *)
(* is the batch size of 100 of the collection.                             *)
(***************************************************************************)
EXTENDS Integers, FiniteSets

CONSTANTS MaxGens,      \* generations the user may ever start (bound)
          MaxIds,       \* badges that may ever be made (bound)
          MaxBadges,    \* MAX_BADGES_PER_USER
          DailyLimit,   \* dailyGenerationLimit
          StaleAge,     \* ten minutes, in ticks of the clock
          GcStaleAge,   \* thirty minutes
          DayAge,       \* one day
          WeekAge,      \* seven days
          Handlers,     \* requests of the user that run at once (bound)
          NoHandler,    \* nobody holds the lock on the user's row
          MaxFaults     \* failing calls, lost answers and crashes (bound)

ASSUME BadgesAssumption ==
    /\ MaxGens \in Nat /\ MaxIds \in Nat /\ MaxBadges \in Nat
    /\ DailyLimit \in Nat
    /\ StaleAge \in Nat /\ GcStaleAge \in Nat
    /\ DayAge \in Nat /\ WeekAge \in Nat
    /\ 0 < StaleAge /\ StaleAge <= GcStaleAge /\ GcStaleAge <= DayAge
    /\ DayAge < WeekAge
    /\ MaxFaults \in Nat
    /\ NoHandler \notin Handlers

VARIABLES status,      \* [Gen -> Status]
          age,         \* [Gen -> Age], ticks since the reservation
          shown,       \* generations whose preview the user has seen
          overlapped,  \* those applied again while an earlier try ran (history)
          expired,     \* shown ones collected as unused (history)
          objects,     \* generations whose image is in the object storage
          leaked,      \* images whose deletion failed, or died with a request
          rows,        \* the table badges
          image,       \* [Badge -> Gen or NoGen], image_object_key
          held,        \* the table user_badges
          active,      \* users.active_badge_id
          at,          \* [Handlers -> Step], what a request does next
          gen,         \* [Handlers -> Gen or NoGen] it works on
          badge,       \* [Handlers -> Badge or NoBadge] it works on
          userLock,    \* who holds users FOR UPDATE
          gcAt,        \* what the collection does next
          batch,       \* generations, then badges, it has chosen
          item,        \* the chosen one whose row is still to be deleted
          faults

pastVars == <<shown, overlapped, expired>>
genVars == <<status, age, pastVars>>
imageVars == <<objects, leaked>>
badgeVars == <<rows, image, held, active>>
requestVars == <<at, gen, badge, userLock>>
gcVars == <<gcAt, batch, item>>
vars == <<genVars, imageVars, badgeVars, requestVars, gcVars, faults>>
-----------------------------------------------------------------------------
\* Numbered in order of created_at.
Gen == 1..MaxGens
Badge == 1..MaxIds
NoGen == 0
NoBadge == 0
None == 0

Status == {"absent", "processing", "preview", "applied", "failed", "deleted"}

\* Nothing in the code tells ages of more than a week apart.
Age == 0..WeekAge

Reserving == {"reserve", "countGenerations", "insertGeneration"}
Generating == {"generateImage", "completeGeneration", "failGeneration",
               "deleteImage"}
Applying == {"readPreview", "lockForApply", "countBadges", "insertBadge"}
\* The transactions that hold the lock on the user's row.
Counting == {"countGenerations", "insertGeneration", "countBadges",
             "insertBadge"}
Step == {"idle", "setActive"} \cup Reserving \cup Generating \cup Applying

\* With the two foreign keys.
BadgesTypeOK ==
    /\ status \in [Gen -> Status]
    /\ age \in [Gen -> Age]
    /\ shown \subseteq Gen /\ overlapped \subseteq Gen /\ expired \subseteq Gen
    /\ objects \subseteq Gen /\ leaked \subseteq Gen
    /\ rows \subseteq Badge
    /\ image \in [Badge -> Gen \cup {NoGen}]
    /\ held \subseteq rows
    /\ active \in rows \cup {NoBadge}
    /\ at \in [Handlers -> Step]
    /\ gen \in [Handlers -> Gen \cup {NoGen}]
    /\ badge \in [Handlers -> Badge \cup {NoBadge}]
    /\ userLock \in Handlers \cup {NoHandler}
    /\ gcAt \in {"idle", "selectGenerations", "generations", "badges"}
    /\ gcAt \in {"idle", "selectGenerations"} => batch = {}
    /\ batch \subseteq (IF gcAt = "badges" THEN Badge ELSE Gen)
    /\ item \in batch \cup {None}
    /\ faults \in Nat
    /\ \A h \in Handlers :
          /\ at[h] \in Generating \cup Applying => gen[h] \in Gen
          /\ at[h] = "setActive" => badge[h] \in Badge

BadgesInit ==
    /\ status = [g \in Gen |-> "absent"]
    /\ age = [g \in Gen |-> 0]
    /\ shown = {} /\ overlapped = {} /\ expired = {}
    /\ objects = {} /\ leaked = {}
    /\ rows = {} /\ image = [b \in Badge |-> NoGen]
    /\ held = {} /\ active = NoBadge
    /\ at = [h \in Handlers |-> "idle"]
    /\ gen = [h \in Handlers |-> NoGen]
    /\ badge = [h \in Handlers |-> NoBadge]
    /\ userLock = NoHandler
    /\ gcAt = "idle" /\ batch = {} /\ item = None
    /\ faults = 0
-----------------------------------------------------------------------------
Goto(h, step) == at' = [at EXCEPT ![h] = step]

\* The answer is sent; nothing of the request is left.
Answer(h) ==
    /\ Goto(h, "idle")
    /\ gen' = [gen EXCEPT ![h] = NoGen]
    /\ badge' = [badge EXCEPT ![h] = NoBadge]

Fault == faults < MaxFaults /\ faults' = faults + 1

HasRow(g) == status[g] \notin {"absent", "deleted"}
Issued == {g \in Gen : status[g] # "absent"}
Processing == {g \in Gen : status[g] = "processing"}
Created == {b \in Badge : image[b] # NoGen}

\* storage.deleteObject(...).catch(() => {}).
DeleteObject(g) ==
    \/ objects' = objects \ {g} /\ UNCHANGED <<leaked, faults>>
    \/ Fault /\ UNCHANGED objects /\ leaked' = leaked \cup ({g} \cap objects)

MayLock_Unchecked == TRUE
MayLock == userLock = NoHandler
-----------------------------------------------------------------------------
(* generateBadge: the number of badges is looked at without a lock, and a  *)
(* generation is reserved in one transaction under it.                     *)

CountUserBadges(h) ==
    /\ at[h] = "idle"
    /\ Cardinality(Issued)
          + Cardinality({i \in Handlers : at[i] \in Reserving}) < MaxGens
    /\ Cardinality(held) < MaxBadges
    /\ Goto(h, "reserve")
    /\ UNCHANGED <<genVars, imageVars, badgeVars, gen, badge, userLock,
                   gcVars, faults>>

LockForReserve(h) ==
    /\ at[h] = "reserve"
    /\ MayLock
    /\ userLock' = h
    /\ Goto(h, "countGenerations")
    /\ UNCHANGED <<genVars, imageVars, badgeVars, gen, badge, gcVars, faults>>

\* What the two updates to 'stale_processing' do to the rows.
Stale(limit) == {g \in Processing : age[g] >= limit}
FailStale(limit) ==
    [g \in Gen |-> IF g \in Stale(limit) THEN "failed" ELSE status[g]]

Today == {g \in Gen : HasRow(g) /\ age[g] < DayAge}

\* A refusal commits as well: the stale rows have failed.
CountGenerations(h) ==
    /\ at[h] = "countGenerations"
    /\ IF Processing = Stale(StaleAge) /\ Cardinality(Today) < DailyLimit
         THEN Goto(h, "insertGeneration") /\ UNCHANGED <<status, userLock>>
         ELSE /\ status' = FailStale(StaleAge)
              /\ userLock' = NoHandler
              /\ Goto(h, "idle")
    /\ UNCHANGED <<age, pastVars, imageVars, badgeVars, gen, badge, gcVars,
                   faults>>

\* The transaction ends here, with the update of the stale rows in it.
InsertGeneration(h) ==
    /\ at[h] = "insertGeneration"
    /\ \E g \in Gen :
          /\ \A i \in Gen : status[i] = "absent" <=> i >= g
          /\ status' = [FailStale(StaleAge) EXCEPT ![g] = "processing"]
          /\ gen' = [gen EXCEPT ![h] = g]
    /\ userLock' = NoHandler
    /\ Goto(h, "generateImage")
    /\ UNCHANGED <<age, pastVars, imageVars, badgeVars, badge, gcVars, faults>>

\* A statement of a transaction under the lock fails, or its COMMIT.
TransactionFails(h) ==
    /\ at[h] \in Counting
    /\ Fault
    /\ userLock' = NoHandler
    /\ Answer(h)
    /\ UNCHANGED <<genVars, imageVars, badgeVars, gcVars>>
-----------------------------------------------------------------------------
(* generateBadge, the rest: the model, the storage and two statements.     *)

\* The provider refuses, times out or sends no image; there is none to store.
ProviderFails(h) ==
    /\ at[h] = "generateImage"
    /\ Goto(h, "failGeneration")
    /\ UNCHANGED <<genVars, imageVars, badgeVars, gen, badge, userLock,
                   gcVars, faults>>

PutObject(h) ==
    /\ at[h] = "generateImage"
    /\ objects' = objects \cup {gen[h]}
    /\ Goto(h, "completeGeneration")
    /\ UNCHANGED <<genVars, leaked, badgeVars, gen, badge, userLock, gcVars,
                   faults>>

\* The storage may have done what it did not answer.
PutFails(h) ==
    /\ at[h] = "generateImage"
    /\ Fault
    /\ objects' \in {objects, objects \cup {gen[h]}}
    /\ Goto(h, "failGeneration")
    /\ UNCHANGED <<genVars, leaked, badgeVars, gen, badge, userLock, gcVars>>

CompleteGeneration(h) ==
    /\ at[h] = "completeGeneration"
    /\ IF gen[h] \in Processing
         THEN /\ status' = [status EXCEPT ![gen[h]] = "preview"]
              /\ shown' = shown \cup {gen[h]}
              /\ Answer(h)
         ELSE Goto(h, "failGeneration")
              /\ UNCHANGED <<status, shown, gen, badge>>
    /\ UNCHANGED <<age, overlapped, expired, imageVars, badgeVars, userLock,
                   gcVars, faults>>

\* The statement fails, or it is done and its answer is lost.
CompleteFails(h) ==
    /\ at[h] = "completeGeneration"
    /\ Fault
    /\ \/ UNCHANGED status
       \/ /\ gen[h] \in Processing
          /\ status' = [status EXCEPT ![gen[h]] = "preview"]
    /\ Goto(h, "failGeneration")
    /\ UNCHANGED <<age, pastVars, imageVars, badgeVars, gen, badge, userLock,
                   gcVars>>

\* Errors of the error path are ignored.
FailGeneration(h) ==
    /\ at[h] = "failGeneration"
    /\ \/ /\ status' = IF gen[h] \in Processing
                         THEN [status EXCEPT ![gen[h]] = "failed"] ELSE status
          /\ UNCHANGED faults
       \/ UNCHANGED status /\ Fault
    /\ Goto(h, "deleteImage")
    /\ UNCHANGED <<age, pastVars, imageVars, badgeVars, gen, badge, userLock,
                   gcVars>>

DiscardImage_Never(h) == UNCHANGED <<imageVars, faults>>
DiscardImage(h) == DeleteObject(gen[h])

AnswerError(h) ==
    /\ at[h] = "deleteImage"
    /\ DiscardImage(h)
    /\ Answer(h)
    /\ UNCHANGED <<genVars, badgeVars, userLock, gcVars>>
-----------------------------------------------------------------------------
(* applyGeneration: two reads of the generation, then the lock, the count  *)
(* of badges and the inserts.  The second read is in the transaction, but  *)
(* takes no lock.                                                          *)

MayApply_AnyStatus(g) == status[g] \in {"preview", "applied"}
MayApply(g) == status[g] = "preview"

\* Requests that are applying a generation now.
ApplyingNow(g) == {h \in Handlers : at[h] \in Applying /\ gen[h] = g}

\* BadgesPage.vue keeps the preview and its button.  After fifteen seconds
\* without an answer the button works again, whatever became of the request,
\* and nothing looks at the age of the preview.
GetGeneration(h, g) ==
    /\ at[h] = "idle"
    /\ g \in shown
    /\ Cardinality(Created)
          + Cardinality({i \in Handlers : at[i] \in Applying}) < MaxIds
    /\ MayApply(g)
    /\ gen' = [gen EXCEPT ![h] = g]
    /\ Goto(h, "readPreview")
    /\ overlapped' = IF ApplyingNow(g) # {} THEN overlapped \cup {g}
                                            ELSE overlapped
    /\ UNCHANGED <<status, age, shown, expired, imageVars, badgeVars, badge,
                   userLock, gcVars, faults>>

ReadPreview(h) ==
    /\ at[h] = "readPreview"
    /\ IF MayApply(gen[h])
         THEN Goto(h, "lockForApply") /\ UNCHANGED <<gen, badge>>
         ELSE Answer(h)
    /\ UNCHANGED <<genVars, imageVars, badgeVars, userLock, gcVars, faults>>

LockForApply(h) ==
    /\ at[h] = "lockForApply"
    /\ MayLock
    /\ userLock' = h
    /\ Goto(h, "countBadges")
    /\ UNCHANGED <<genVars, imageVars, badgeVars, gen, badge, gcVars, faults>>

CountBadges(h) ==
    /\ at[h] = "countBadges"
    /\ IF Cardinality(held) < MaxBadges
         THEN Goto(h, "insertBadge") /\ UNCHANGED <<gen, badge, userLock>>
         ELSE Answer(h) /\ userLock' = NoHandler
    /\ UNCHANGED <<genVars, imageVars, badgeVars, gcVars, faults>>

\* The badge is made of what was read, whether or not the generation is
\* still there.
InsertBadge(h) ==
    LET g == gen[h] IN
    /\ at[h] = "insertBadge"
    /\ \E b \in Badge :
          /\ \A i \in Badge : i \notin Created <=> i >= b
          /\ image' = [image EXCEPT ![b] = g]
          /\ rows' = rows \cup {b}
          /\ held' = held \cup {b}
          /\ active' = b
    /\ status' = IF HasRow(g) THEN [status EXCEPT ![g] = "applied"] ELSE status
    /\ userLock' = NoHandler
    /\ Answer(h)
    /\ UNCHANGED <<age, pastVars, imageVars, gcVars, faults>>
-----------------------------------------------------------------------------
(* setActiveBadge and deleteBadge.  The update of setActiveBadge finds the *)
(* badge among the held ones in its snapshot and then waits for the user's *)
(* row; PostgreSQL looks at that row again, but not at the others.  The    *)
(* foreign key is checked at the end.                                      *)

StartActivate(h, b) ==
    /\ at[h] = "idle"
    /\ b \in held
    /\ badge' = [badge EXCEPT ![h] = b]
    /\ Goto(h, "setActive")
    /\ UNCHANGED <<genVars, imageVars, badgeVars, gen, userLock, gcVars,
                   faults>>

MayReference_Any(b) == TRUE
MayReference(b) == b \in rows

SetActive(h) ==
    /\ at[h] = "setActive"
    /\ userLock = NoHandler
    /\ active' = IF MayReference(badge[h]) THEN badge[h] ELSE active
    /\ Answer(h)
    /\ UNCHANGED <<genVars, imageVars, rows, image, held, userLock, gcVars,
                   faults>>

\* Taking the badge away from the user's row waits for its lock.
Clear(b) ==
    /\ active = b => userLock = NoHandler
    /\ active' = IF active = b THEN NoBadge ELSE active

DeleteBadge(b) ==
    /\ b \in held
    /\ held' = held \ {b}
    /\ Clear(b)
    /\ UNCHANGED <<genVars, imageVars, rows, image, requestVars, gcVars,
                   faults>>
-----------------------------------------------------------------------------
(* Garbage collection, one run at a time.                                  *)

StartCollection ==
    /\ gcAt = "idle"
    /\ status' = FailStale(GcStaleAge)
    /\ gcAt' = "selectGenerations"
    /\ UNCHANGED <<age, pastVars, imageVars, badgeVars, requestVars, batch, item,
                   faults>>

Collectable_FailedAtOnce(g) ==
    \/ status[g] = "failed"
    \/ status[g] = "preview" /\ age[g] >= WeekAge
Collectable(g) ==
    \/ status[g] = "failed" /\ age[g] >= DayAge
    \/ status[g] = "preview" /\ age[g] >= WeekAge

SelectGenerations ==
    /\ gcAt = "selectGenerations"
    /\ gcAt' = "generations"
    /\ batch' = {g \in Gen : Collectable(g)}
    /\ expired' = expired \cup (batch' \cap shown)
    /\ UNCHANGED <<status, age, shown, overlapped, imageVars, badgeVars,
                   requestVars, item, faults>>

\* A failed generation has no key: its row still says "pending:".  It can not
\* get another status, so one that has a key now was chosen as a preview.
DeleteGenerationImage(g) ==
    /\ gcAt = "generations" /\ item = None
    /\ g \in batch /\ \A i \in batch : g <= i
    /\ IF status[g] = "failed"
         THEN UNCHANGED <<imageVars, faults>>
         ELSE DeleteObject(g)
    /\ item' = g
    /\ UNCHANGED <<genVars, badgeVars, requestVars, gcAt, batch>>

DeleteGeneration ==
    /\ gcAt = "generations" /\ item # None
    /\ status' = IF status[item] \in {"failed", "preview"}
                   THEN [status EXCEPT ![item] = "deleted"] ELSE status
    /\ batch' = batch \ {item}
    /\ item' = None
    /\ UNCHANGED <<age, pastVars, imageVars, badgeVars, requestVars, gcAt, faults>>

Unheld_Inactive == {b \in rows : b \notin held /\ b # active}
Unheld == {b \in rows : b \notin held}

SelectBadges ==
    /\ gcAt = "generations" /\ batch = {}
    /\ gcAt' = "badges"
    /\ batch' = Unheld
    /\ UNCHANGED <<genVars, imageVars, badgeVars, requestVars, item, faults>>

DeleteBadgeImage(b) ==
    /\ gcAt = "badges" /\ item = None
    /\ b \in batch /\ \A i \in batch : b <= i
    /\ DeleteObject(image[b])
    /\ item' = b
    /\ UNCHANGED <<genVars, badgeVars, requestVars, gcAt, batch>>

\* ON DELETE SET NULL clears users.active_badge_id.
DeleteBadgeRow ==
    /\ gcAt = "badges" /\ item # None
    /\ IF item \in Unheld
         THEN rows' = rows \ {item} /\ Clear(item)
         ELSE UNCHANGED <<rows, active>>
    /\ batch' = batch \ {item}
    /\ item' = None
    /\ UNCHANGED <<genVars, imageVars, image, held, requestVars, gcAt, faults>>

EndCollection ==
    /\ gcAt = "badges" /\ batch = {}
    /\ gcAt' = "idle"
    /\ UNCHANGED <<genVars, imageVars, badgeVars, requestVars, batch, item,
                   faults>>

\* A failing statement ends the run.
CollectionFails ==
    /\ gcAt # "idle"
    /\ Fault
    /\ gcAt' = "idle" /\ batch' = {} /\ item' = None
    /\ UNCHANGED <<genVars, imageVars, badgeVars, requestVars>>
-----------------------------------------------------------------------------
\* The clock ticks for every generation alike.
Tick ==
    /\ age' = [g \in Gen |-> IF g \in Issued /\ age[g] < WeekAge
                             THEN age[g] + 1 ELSE age[g]]
    /\ UNCHANGED <<status, pastVars, imageVars, badgeVars, requestVars, gcVars,
                   faults>>

\* The server process dies and starts again: its requests and its collection
\* are gone, open transactions are rolled back.
Crash ==
    /\ Fault
    /\ leaked' = leaked \cup
          {g \in objects : \E h \in Handlers :
                              at[h] \in Generating /\ gen[h] = g}
    /\ at' = [h \in Handlers |-> "idle"]
    /\ gen' = [h \in Handlers |-> NoGen]
    /\ badge' = [h \in Handlers |-> NoBadge]
    /\ userLock' = NoHandler
    /\ gcAt' = "idle" /\ batch' = {} /\ item' = None
    /\ UNCHANGED <<genVars, objects, badgeVars>>
-----------------------------------------------------------------------------
GenerateStep(h) ==
    \/ CountUserBadges(h) \/ LockForReserve(h) \/ CountGenerations(h)
    \/ InsertGeneration(h) \/ ProviderFails(h) \/ PutObject(h) \/ PutFails(h)
    \/ CompleteGeneration(h) \/ CompleteFails(h) \/ FailGeneration(h)
    \/ AnswerError(h)

ApplyStep(h) ==
    \/ \E g \in Gen : GetGeneration(h, g)
    \/ ReadPreview(h) \/ LockForApply(h) \/ CountBadges(h) \/ InsertBadge(h)

Collect ==
    \/ StartCollection \/ SelectGenerations
    \/ \E g \in Gen : DeleteGenerationImage(g)
    \/ DeleteGeneration \/ SelectBadges
    \/ \E b \in Badge : DeleteBadgeImage(b)
    \/ DeleteBadgeRow \/ EndCollection

BadgesNext ==
    \/ \E h \in Handlers :
          \/ GenerateStep(h) \/ ApplyStep(h) \/ TransactionFails(h)
          \/ \E b \in Badge : StartActivate(h, b)
          \/ SetActive(h)
    \/ \E b \in Badge : DeleteBadge(b)
    \/ Collect \/ CollectionFails
    \/ Tick
    \/ Crash

BadgesSpec == BadgesInit /\ [][BadgesNext]_vars
-----------------------------------------------------------------------------
(* Safety.                                                                 *)

\* DEVELOPMENT.md:160 and :171 say that the collection removes the images of
\* unused previews and of badges nobody refers to.  A badge that the user holds
\* can lose its image in two ways only, whatever deletions, crashes and lost
\* answers there are: the collection had already chosen its preview as unused
\* when it was applied; or its preview was applied twice at once, and the other
\* badge made of it was given up by the user.
HeldBadgeHasImage ==
    \A b \in held :
        \/ image[b] \in objects
        \/ image[b] \in expired
        \/ /\ image[b] \in overlapped
           /\ \E c \in Created \ held : image[c] = image[b]

\* The plain claim, in no run: the two ways above break it.
EveryHeldBadgeHasImage == \A b \in held : image[b] \in objects

\* Concurrent requests do not get past the number of badges per user.
BadgeLimit == Cardinality(held) <= MaxBadges

\* In no 24 hours does a user start more generations than the limit, counting
\* also those whose rows the collection has deleted: it keeps a row for as
\* long as it counts.
Recent == {g \in Issued : age[g] < DayAge}
DailyLimitHolds == Cardinality(Recent) <= DailyLimit

\* Every stored image has somebody who will delete it or point at it: a
\* preview, a badge, or a request in flight, except for those that a failing
\* delete or a crash has given up.
NoOrphanImage ==
    \A g \in objects :
        \/ g \in leaked
        \/ status[g] = "preview"
        \/ \E b \in rows : image[b] = g
        \/ \E h \in Handlers : at[h] \in Generating /\ gen[h] = g

\* Why the limits hold.  The requests that count take turns, what one has
\* counted does not grow until it inserts, and only old rows are deleted.  At
\* most one generation is under way.
CountersTakeTurns ==
    \A h \in Handlers : at[h] \in Counting => userLock = h

RoomToInsert ==
    \A h \in Handlers :
        /\ at[h] = "insertBadge" => Cardinality(held) < MaxBadges
        /\ at[h] = "insertGeneration" =>
              /\ Cardinality(Recent) < DailyLimit
              /\ Processing = Stale(StaleAge)

DeletedIsOld ==
    /\ \A g \in Gen : status[g] = "deleted" => age[g] >= DayAge
    /\ gcAt = "generations" => \A g \in batch : age[g] >= DayAge

OneProcessing == \A g, i \in Processing : g = i

LimitsInv ==
    /\ CountersTakeTurns /\ RoomToInsert /\ DeletedIsOld /\ OneProcessing
    /\ BadgeLimit /\ DailyLimitHolds

\* Why a held badge keeps its image.  An image belongs to its request until
\* the preview is shown, and to one badge once that is made; where more than
\* one request or the collection had it in hand, the history tells.
OwnGeneration ==
    \A h \in Handlers :
        at[h] \in Generating =>
            /\ gen[h] \notin shown
            /\ status[gen[h]] \notin {"absent", "applied"}
            /\ \A i \in Handlers :
                  at[i] \in Generating /\ gen[i] = gen[h] => i = h
            /\ at[h] = "completeGeneration" /\ gen[h] \in Processing =>
                  gen[h] \in objects

ShownIsReady ==
    \A g \in shown :
        /\ status[g] \in {"preview", "applied", "deleted"}
        /\ status[g] = "deleted" => g \in expired
        /\ \/ g \in objects \/ g \in expired
           \/ \E c \in Created \ held : image[c] = g

AppliesOverlap ==
    \A h \in Handlers :
        at[h] \in Applying =>
            /\ gen[h] \in shown
            /\ status[gen[h]] = "preview" \/ gen[h] \in overlapped \cup expired
            /\ \A i \in Handlers :
                  at[i] \in Applying /\ gen[i] = gen[h] =>
                      i = h \/ gen[h] \in overlapped

OneBadgePerImage ==
    /\ rows \subseteq Created
    /\ \A b \in Created :
          /\ image[b] \in shown
          /\ status[image[b]] # "preview"
    /\ \A b, c \in Created :
          image[b] = image[c] => b = c \/ image[b] \in overlapped \cup expired

CollectsUnused ==
    /\ gcAt = "generations" =>
          \A g \in batch :
              /\ status[g] \in {"preview", "applied", "failed", "deleted"}
              /\ g \in shown => g \in expired
    /\ gcAt = "badges" => \A b \in batch : b \in Created /\ b \notin held

ImageInv ==
    /\ OwnGeneration /\ ShownIsReady /\ AppliesOverlap /\ OneBadgePerImage
    /\ CollectsUnused

\* Why no image is forgotten, whatever the user does.  Nobody puts an image
\* again once its preview was shown, and the collection deletes a row only
\* after its image, which then is gone or has been given up.
OwnersAreAlone ==
    \A h \in Handlers :
        at[h] \in Generating =>
            /\ gen[h] \notin shown
            /\ status[gen[h]] # "absent"
            /\ at[h] = "generateImage" => status[gen[h]] # "preview"
            /\ \A i \in Handlers :
                  at[i] \in Generating /\ gen[i] = gen[h] => i = h

MadeOfShown ==
    /\ \A g \in shown : status[g] # "absent"
    /\ \A h \in Handlers : at[h] \in Applying => gen[h] \in shown
    /\ rows \subseteq Created
    /\ \A b \in Created : image[b] \in shown

Gone(g) == g \in objects => g \in leaked
ImageBeforeRow ==
    /\ gcAt = "generations" =>
          /\ \A g \in batch : status[g] \notin {"absent", "processing"}
          /\ item # None /\ status[item] = "preview" => Gone(item)
    /\ gcAt = "badges" =>
          /\ batch \subseteq Created
          /\ item # None => Gone(image[item])

OwnersInv ==
    /\ OwnersAreAlone /\ MadeOfShown /\ ImageBeforeRow /\ NoOrphanImage
-----------------------------------------------------------------------------
(* Liveness.  The collection goes on, as its cron job does, and the lock   *)
(* on the user's row is given up: whoever holds it has only statements     *)
(* left to run.  Waiting for it is fair, since PostgreSQL queues.          *)

UnderLock(h) ==
    \/ CountGenerations(h) \/ InsertGeneration(h) \/ CountBadges(h)
    \/ InsertBadge(h)

FairBadgesSpec ==
    /\ BadgesSpec
    /\ SF_vars(Collect)
    /\ \A h \in Handlers : WF_vars(UnderLock(h))

\* A badge that the user has deleted is collected, even when a concurrent
\* activation has made it the active one after it was deleted.
UnheldIsCollected ==
    \A b \in Badge : b \in Unheld ~> b \notin rows
=============================================================================
