# Formal models of cafestudy

TLA+ models of the server and of the Somoim worker in this repository, with TLC
configurations that check small instances and TLAPS proofs for all values of the
constants.

cafestudy is a study-group site. Its server (`src/`, Express on PostgreSQL) keeps
meetups, participants, settlements, badges, attendance verifications and a crawled
copy of the members and events of a group in the *Somoim* app. The app has no API:
a **worker** process (`worker/`) drives one tablet over adb and creates or deletes
events there. The most delicate part is the queue between them. Pressing the
button creates an event that real people are notified of, so a job must be pressed
at most once whatever gets lost, while nothing may be left in the app that its
host has cancelled.

## Inventory

| Component | State | Operations | What is hard | What makes it correct |
|---|---|---|---|---|
| Job queue `src/features/somoim-automation` | rows of `somoim_automation_jobs` (status, type, attempts, `submit_attempted_at`) | create, claim with recovery of stale claims, preflight, submit-attempt, complete, fail, cancel | handlers of several statements run concurrently; the worker may be gone while its handler runs; crashes | one press per job; a final outcome stays; every job gets one; a failure notice is only sent of a job that can do nothing any more |
| Worker `worker/index.js`, `job-runner.js`, `handlers/` | the job in hand and the step it is at | poll, preflight, fill, mark, press, confirm, report | broken connections at each call, restarts | no press without a recorded mark |
| Screens and form `worker/somoim-*.js`, `handlers/` | what the tablet shows: screen, keyboard, focus, dialogs, the create form | open, fill field by field, check, press, look for the event | taps that miss, windows that come up, what an earlier job left, an app that answers late | the event is the one that was asked for; a report is true |
| Worker lock `worker/lock.js` | a file with a pid | acquire, take over, release | file operations of several processes interleave; crashes | one worker on the tablet; a dead worker's lock refuses nobody |
| Device discovery `worker/adb.js`, scans, `device-watch.js` | adb's transports, the confirmed host, the watch's state | connect, mDNS, scan of ports and hosts, check of the serial number, alert | devices move between two commands; another device gets the address; adb fails, or revives a transport by itself | how a job can get another device than the tablet, and in no other way; the tablet is found again; a loss is reported |
| Meetup registration `src/features/meetups`, hooks | `meetups` (status, `somoim_state`, `somoim_job_id`), the app's events, `somoim_events` | create, cancel, retry, success and failure listeners, compensation | each request is several statements and an emit; state read before the emit is used after it | a retry is offered only when safe; one submission per meetup; a cancel stops or cleans up |
| Participants | `participants` | join, leave, attendees of the crawl | row lock on join, none on leave | capacity |
| Settlements `src/features/settlements` and its page | rounds, shares with their marks, accounts; the form in the browser | create, edit, delete, mark as paid, save the account | forms filled in from an old page; edits of one round by two people; rounding, by the page and by the service | shares add up; numbers do not collide; marks stay; no request waits for ever |
| Verifications | tickets, uploads, object storage, points | issue, upload, finish, collect | lost COMMIT, collection against finishing, two finishes, limits | a verification has its photo, a refusal leaves none; limits; every ticket is settled |
| Badges `src/features/badges` | rows of `badge_generations`, `badges`, `user_badges`, the active badge, images | generate, apply, activate, delete, collect | a lock that only some statements take; the model's slow answer; previews used twice; collection | limits per user and day; how a held badge can lose its image, and in no other way; no image without an owner |
| Members `src/features/members`, `scripts/sync_members.py` | members with their accounts, events, attendees, the refresh flag | crawl, sync in one transaction, refresh, script | two paths sync at once; partial and empty crawls; minutes between the flag's set and reset | attendees of one crawl; accounts and history are kept; the list becomes the group |
| 2048 `client/src/features/game2048`, `src/features/game2048` | the board in the page; best score and saved game in a row | move, leave, restore, finish, begin anew | requests overtake each other or are lost when the page goes | a board collapses by the rules; the game left is the game saved; finished games count |
| Auth | users, sessions, setup tokens | login, set up, reset | tokens used once | one session per login, no reuse |
| Cafes, smash, notices, ranking, dice, places, admin | one row each | single statements | little | |
| Rest of the web client | request state in the browser | requests, rendering | answers out of order | |

`PROJECT.json` lists the same components with what is modelled of each, and the
hazards: the lines where something can go wrong that a test would hardly reach.

## Modules

| Module | Models | Composes |
|---|---|---|
| `SubmitContract` | what the queue promises about one job: it is opened, pressed at most once, finished once | |
| `SomoimJobs` | the queue, its handlers, the worker | refines `SubmitContract` |
| `SomoimRegistration` | meetups, host requests, hooks, the app, the crawl | extends `SomoimJobs` and conjoins its actions; refines it |
| `JobHandler` | what the worker's loop may expect of a job handler: mark, press and report in this order | |
| `Tablet` | the two job handlers, screen by screen, and the tablet | refines `JobHandler` |
| `Device` | the search for the tablet, the watch and its alerts, the network | |
| `WorkerLock` | the lock file | |
| `Settlements` | the participants of a meetup, its settlement rounds, their pages | |
| `Verifications` | one user's upload tickets, photos and verifications | |
| `Badges` | one user's generations, badges and their images | |
| `Members` | the crawls of the group and the syncs of the copy | |
| `Game2048` | the board, the page and the member's row | |
| `*Proofs` | theorems about `SomoimJobs`, `SomoimRegistration`, `Settlements`, `Verifications`, `Badges`, `Members`, `Game2048`; `WorkerProofs` about `WorkerLock`, `Device` and `Tablet` | extend them |
| `MC*` | values of the constants for TLC | |

How they fit together: `Tablet` is the stretch between a claim and a report that
`SomoimJobs` has as `FillDone`, `Tap`, `Confirmed` and their failures. What
`SomoimJobs` takes from it is `JobHandler`: a press comes after the mark and once,
and another attempt is asked for only while nothing has been pressed. `Device` is
when the worker looks for its tablet: at its start, while the queue is empty, and
for each job, after the claim and the preflight (`job-runner.js:21`). A job for
which there is none fails like one whose form cannot be filled, which `SomoimJobs`
has as `FillFails`. `WorkerLock` is why both have one
worker. `Members` is `SyncEvents` of `SomoimRegistration` in detail, and `source =
"app"` in `Settlements` is a meetup that `SomoimRegistration` made.

### SomoimJobs

The table is five functions on `Job` (`status`, `type`, `dryRun`, `attempts`,
`marked`). Ids are given in order of `created_at`, so that *oldest* is *smallest*.
PostgreSQL runs a statement atomically with the row locks it takes, so **one SQL
statement is one action**; a handler is a small program over them. `at[h]` names
the statement or emit handler `h` runs next, `arg[h]` its `:id`, `manual[h]`,
`exhausted[h]` what it carries from one statement to the next, and `answer[h]` the
answer that waits for the worker. The branches follow the service: `GetJob` is the
read of `failJob` and its decision, `RequeueJob` and `FailJob` the two updates it
may lead to; `RequeueStaleJobs`, `ClaimNextJob` and `EmitExhausted` are `POST
/jobs/claim`.

The worker (`wAt`, `wJob`, `wCall`) is `tick()`. It posts a request into a free
handler and waits. `CallBreaks` breaks the connection while the handler runs on:
the error goes to the main loop, except for the submit-attempt, whose error the
job handler turns into a failure report (`MarkCallBreaks`). A create handler
reports it as transient and a delete handler does not (`ManualAfterMark`).
`taps[j]` counts presses. `FillDone` and `FillFails` stand for all screens between
claim and mark.

Abstractions:

- time: a claimed row may be stale at any poll. This includes a claim that is
  still being worked on.
- `NoOlderFailure`: filling the form takes minutes, and when it is done no fail
  request of an earlier claim of *that* job is still at its read or its requeue.
  It is the only assumption about time. Without it TLC finds a second press: a
  fail handler that is stalled for minutes between its read and its requeue puts
  the job back between the mark and the press.
- a claim is atomic with respect to other claims (`SKIP LOCKED`), and the claim's
  inner SELECT never skips a row here; a skipped row would only be taken at the
  next poll.
- a COMMIT whose acknowledgement is lost is not modelled; `QueryFails` is a
  statement that had no effect.
- one worker (see `WorkerLock`).

### SomoimRegistration

Adds the rows of `meetups`, the app (`app`, the number of events per key of title
and minute), the crawled keys, and host requests. A request `r` runs `rAt[r]` next
and carries what it *read* (`rState`, `rJob`); the cancel listener works on these
values and not on the row. `Cancelled` and `ExistingEvent` are the two EXISTS of
`getSubmitPreflight` and are handed to the actions of `SomoimJobs` as parameters.
`HandlerActs` conjoins the listeners to the emits: `NotifyFailed`,
`NotifyExhausted`, `NotifySucceeded`, `Compensate`. The key is the title and the
minute; `ActiveDelete` is the partial unique index. `HandEdit` lets members create
and remove events by hand, so that the crawl can hold anything; `SyncEvents`
replaces the copy in one step, as the transaction of `syncMembers` does, and keeps
it when the crawl saw no event at all.

`CreateDeleteJob(h, NoJob)` of a listener is the conflict on that index, or the
error that `emit` swallows. The invariant for the proofs is at the end.

Left out: jobs made by an admin by hand, dry runs (both are in `SomoimJobs`),
participants (`Settlements`), and meetups whose time goes by while a job is under
way.

### WorkerLock

One action per file operation. A file is named by the process that made it, since
a process creates at most one. Pids are not reused. The constant `OneStart` says
whether the start of one worker may overlap that of another.

### Verifications

A photo takes three requests: the server issues a **ticket** with a signed URL
(`LockUser`, `CountTickets`, `InsertTicket`, `SignUrl`), the browser puts the
photo in the staging area of the object storage (`Upload`), and the server
**finishes** the ticket: it claims it, reads and checks the object, moves it to
the trusted path (`CopyObject`, `DeleteSource`), and consumes the ticket and
inserts the verification in one transaction (`Consume`). Everything that is thrown
on the way ends in the same error path, `FailUploadTicket` and two concurrent
`CleanUp`s. `StartCollection`, `CollectObject` and `CollectRow` are the hourly
collection, which works on a list of candidates it read before.

`at[h]` is the next statement or storage call of request `h`, `ticket[h]` what it
works on, `userLock` the lock on the user's row that the issuing transaction holds
from its first statement to its end. The finishing transaction is one action: its
locks (the ticket's row, the unique index, the user's row) let no other statement
come in between, and `~Verified` is the unique index. Faults (`MaxFaults`): a
failing statement; a failing storage call, done or not done; a COMMIT that is done
and not acknowledged (`CommitUnanswered`), which `db.transaction` reports as an
error; a crash. A deletion that fails is ignored, as the code does. Ages are in
ticks; a ticket expires at `ExpireAge`, is collected from `CollectAge` on, and
counts for an hour (`HourAge`).

Left out: whether the user may verify the meetup and what is wrong with an image
(both are choices of the environment), the ledger and the sum of points, which
change in the same transaction and nowhere else here, and the batch size of 100 of
the collection.

### Badges

Everything of a user that the badge feature keeps: the generations (`status`,
`age`), the table `badges` (`rows`, `image`), `user_badges` (`held`), the active
badge and the images in the object storage (`objects`). An image is named after
its generation. A request `h` is at `at[h]`, with the generation or badge it works
on; `userLock` is the row of the user, `FOR UPDATE`.

Generating is `CountUserBadges` (no lock), then one transaction (`LockForReserve`,
`CountGenerations`, `InsertGeneration`), then the model, the storage (`PutObject`,
`PutFails`) and one statement (`CompleteGeneration`); errors end in
`FailGeneration` and `AnswerError`, which deletes the image. Statements between
the count and the insert are kept apart, because others that take no lock run in
between; what the transaction writes is written where it ends. Applying is two
reads (`GetGeneration`, `ReadPreview`), the lock, the count and the insert
(`InsertBadge`, with the update to `applied`). `SetActive` is split into its
snapshot and its write: PostgreSQL looks again at the row it waited for and at no
other, so that the badge may have been deleted by then; only the foreign key
(`MayReference`) is checked. `Clear` waits for the user's row when the badge is
the active one. The collection is one action per statement or call, on lists it
has read before; a failed generation has the key `pending:` still and no image to
delete.

`shown` are the previews a user has seen; nobody can apply another. Nothing else
is asked of the user: `apiFetch` gives up after 15 seconds, `BadgesPage.vue` keeps
the preview and offers the button again, and nobody looks at the age of a preview,
so one preview may be applied while an earlier try still runs, and at any age. Two
histories tell when: `overlapped`, the generations applied again while an earlier
try ran, and `expired`, the shown ones that the collection chose as unused.
`leaked` is a history of images that were given up by a failed deletion or a
crash.

`HeldBadgeHasImage` says that a held badge has its image, unless its generation
had expired before, or was applied in an overlap and another badge of it was given
up. The plain claim, `EveryHeldBadgeHasImage`, does not hold (see below).

Left out: prompts and titles, points (`POINT_COST` is 0), the provider's protocol
(`ProviderFails` is all of its errors), the batch size of 100 of the collection.

### Settlements

One meetup: every row lock of the code (`FOR UPDATE` of the meetup in `joinMeetup`
and `createSettlement`, of the round in `updateSettlement`) is a row of this
meetup. A user has one request under way, `at[u]` names its next statement, and
`draft[u]` is what it took from the page: the shares of the form, the number and
the total of the round it edits. A draft gets old while others change the tables.
`meetupLock` and `roundLock` are the row locks; `Finish` is the end of a
transaction.

Joining is `JoinMeetup` (lock, checks, count) and `InsertParticipant`; leaving
takes no lock (`LeaveMeetup`, `RemoveParticipant`). A new round is `SaveMethod`,
`LockMeetup`, `SelectNextNumber`, `InsertRound`; an edit is `SaveMethod`,
`LockRound`, `WriteRound`. `SubmitForm` is the page: it offers a box for each
participant, and `EqualAmounts` and `FixedAmount` are its split of the total, with
the remainder on the first ones. `Accepted` is the service's own check: amounts
must add up to the total, else `RefuseAmounts`. The routes also take what no page
sends. `PostAmounts` and `PutAmounts` bring any amounts; `PostIds` brings the ids
of the debtors alone, of which the service makes equal shares, rounded down
(`RoundedDown`), without a check. `split` remembers which of the two a round was
made of, `Lost` is the remainder that such a round misses. `SyncSomoimEvents` is a
crawled meetup, whose attendees join without a request. An account is known by its
owner.

Left out: how amounts are typed and shown, bank names, and the list requests,
which change nothing.

### Tablet and JobHandler

The app has no interface but its screen: a handler reads the screen, taps where it
saw a widget, and reads again. `at` is the stage of the handler, `screen`,
`overlay`, `keyboard`, `focus` what the tablet shows, `form` the create form,
which the app keeps between jobs, `requests` what the app has sent and its server
has not answered. A tap reaches its widget unless it is missed or the keyboard has
it (`Reached`); text goes to the field with the focus (`FillField`). A field holds
the value of some meetup, nothing, or a mixture.

`OpenCreateMeetupForm` to `VerifyForm` are `create-meetup.js` in its order,
`FindCard` and `VerifyTarget` the search of `delete-meetup.js`, which finds a card
by its title. `MarkRecorded` is `onBeforeSubmit`. `PressSave`, `PressDelete` and
`PressConfirm` tap; the answer (`AppDone`, `AppRefuses`) comes any time later,
also after the handler has given up. `HandlerFails` is any check that throws and
any adb command that fails. How XML is parsed is abstracted to what the screen
shows; the screens and answers of the app are external and are what the handlers
and their comments say of them. `LaunchApp` makes the one assumption about time:
what an earlier job sent is answered, or lost with the app, before the app is up
again.

`JobHandler` is four phases and four reports; `Contract` maps `at` to them.

### Device

`resolveDevice` as a sequence of commands: `stage` is the next one. `TryHome` is
`adb connect` of the configured address, then `TryService` (mDNS), `TryPort` (a
scan of the ports of the configured host), `TryHost` (a scan of the subnet for the
fixed port) with `CheckSerial`, then the selection. `attempted` are the addresses
of this search, `todo` what the current scan found. Between any two commands a
device may move (`Moves`): a reboot gives the tablet another port, DHCP another
address, and the address it had may become a stranger's. `Record` is the device
watch, `sent` the last alert it sent; each is sent once, and whether it is
delivered is left out. `mdnsWorks` is chosen once, as it depends on the build of
adb.

adb itself is external. `link` is what `adb devices` lists: a transport that is
ready (`"device"`), one that is not (`"offline"`, which stands for all other
states), or none. A ready transport goes offline when nobody answers any more, at
the moment adb notices (`LinkDrops`). An offline one is given up or gets ready by
itself, **with whoever answers at the address by then** (`OfflineEnds`). Commands
may fail (`AdbFails`): `adb devices` throws; `adb connect` runs into its time limit
or is not authorized, and may leave a transport and any answer behind
(`ConnectFails`, `adb.js:172-177`); the question for the serial number fails, and
so may `adb disconnect`, which the code ignores (`Unexpected`, `adb.js:162`). A
scan that misses an open port counts as a connect that fails. `slipped` is a
history: the addresses that are ready with a stranger and whose transport no
search has checked or could cut.

`HomeReserved` says that the router gives the configured address to no stranger,
and `SerialKnown` that the serial number is configured.

The selection takes any ready transport at the confirmed host and asks for no
serial number (`adb.js:224`, `:230`); the comments at `adb.js:102-105` and
`126-127` are against that. So `NeverAStranger` does not hold (see below), and
`OnlyTheTablet` says how far the code goes: a stranger is used only at the
confirmed host, and only over a transport that slipped. `StrangersLeftAlone` is
the same of the addresses a search has just tried. While a stranger is mistaken
for the tablet (`Mistaken`), no search is made, so the liveness properties are
about the time when none is. `LossIsReported`: a tablet that goes away for good is
reported in the end, however often it was lost and found before.

### Members

A crawl reads the list (`MembersRead`) and then the events (`EventsRead`),
completely or in part. The sync is one transaction in READ COMMITTED, row by row:
`Upsert` of the members, `Prune` of those it did not see, the same with the
events. `holder` is the row lock that a write takes, `written` what the
transaction has written and `Commit` makes visible, with an account for each
member that is new. Two transactions may wait for each other (`Deadlock`;
PostgreSQL ends one). `refreshing` is the flag and `cooling` the cooldown of
`refreshFromSomoim`; `POST /sync`, which the script calls, looks at neither.
`past` are events whose time is over; what a transaction takes for past is what
was when it began.

A complete crawl is taken to read the group as it is. The code cannot know:
`parseMembers` (`members.crawler.js:53-57`) takes any short line that looks like a
name for a member. Events are known by one key on both paths; but the script sends
a time without a zone (`sync_members.py:354`) and the server one in UTC
(`members.events.js:78`), so that the database may keep one event under two keys.

### Game2048

`CollapseRow`, `HasMoves`, `Spawned` are the functions of the page, written for
any `SIZE`; `TilesOf` is the filter that drops the empty cells of a row, as a
recursive function, because the proofs reason about it. `Move` is a move with all
that follows it; `Leave` is `onUnmounted` and `beforeunload`; `Open` and `Restore`
are `restoreOrNew`, whose answer may come after the first moves. The requests are
a sequence `sent`, of which the server handles any one (`Handle`) or none
(`Lose`). `finals`, `left` and `disturbed` are histories.

Left out: ids and colours of tiles, the display, guests (who store nothing), the
ranking, and two tabs at once.

## Runs

| Run | Instance | Shows |
|---|---|---|
| `jobs` | 1 job, 3 attempts, 2 handlers | `AtMostOneTap`, `ContractKept` (refinement), `JobsSettle` (liveness) |
| `registration` | 1 meetup, 1 request at a time, 3 jobs, 1 fault | `RetryIsSafe`, `SubmittedIsCleanedUp` |
| `registration_race` | 1 meetup, 2 requests, 2 jobs | `OneSubmitPerMeetup`, `CancelStopsSubmit` |
| `lock` | 3 processes, starts one after the other | `OneWorker`, `RefusedByWorker` |
| `verifications` | 2 tickets, 2 meetups, 2 requests at a time, 1 fault | `PhotoKept`, `NoOrphanPhoto`, `ConsumedStays`, `TicketsSettle` (liveness) |
| `badges` | 2 generations, 2 badges made and 1 held, 1 generation a day, 2 requests at a time, 1 fault | `HeldBadgeHasImage`, `DailyLimitHolds`, `NoOrphanImage`, `UnheldIsCollected` (liveness) |
| `settlements` | 3 users: one with the form, an admin with another client, a debtor; room for 2, 2 rounds, 2 requests at a time, 3 in all, 1 fault | `CapacityHolds`, `SharesAddUp`, `SplitsAddUp`, `NumberIsFree`, `MarksAreKept` (steps), `RequestsEnd` (liveness) |
| `tablet` | 2 meetups of one title, one with a map, 2 jobs | `EventsAreProper`, `RegisteredMeansCreated`, `LeftoversDoNoHarm`, `EventsChangeAsAsked` (steps), `HandlerContractKept` (refinement) |
| `device` | the tablet and 1 stranger, 2 addresses, 1 failing command of adb or restart | `OnlyTheTablet` (steps), `StrangersLeftAlone`, `LossIsReported`, `FoundAgain` (liveness) |
| `device_reboot` | the same | counterexample to `FoundAfterReboot` |
| `members` | 2 members, 2 events, 1 change of the group, 1 fault, 1 run of the script | `AttendeesOfOneCrawl`, `AccountsSurvive` (steps), `ListBecomesTheGroup` (liveness) |
| `game2048` | a board of 2 by 2, won at 8; 8 moves, a visit counting 3; 1 new game, 1 lost request | `GameTypeOK`, `CollapseIsByRuns`, `OverMeansStuck`, `SavedIsWhatWasLeft`, `FinishedGamesCount` (liveness) |

**Bounds.** Two handlers are what one worker needs to meet itself: the one it
waits for and one it has given up on. A third one adds more of the latter. Jobs of
the queue touch each other only through the claim order, so one job carries the
safety of the queue, and the theorems hold for any number. Three attempts are the
default of `SOMOIM_AUTOMATION_MAX_ATTEMPTS`; they let a job be requeued by a
report and by recovery in one behaviour. The registration runs use one handler and
one attempt, because requeues are the subject of `jobs`; three jobs are a first
registration, a retry and a delete, two are enough for two rival retries after a
rejected creation. `MaxFaults = 1` is one failed statement or one crash at any
point. Two tickets and two requests are what it takes to race for a limit, for the
unique key of a meetup, for a ticket, or against the collection; the proofs show
that more add nothing. `ExpireAge` is two ticks, so that one ticket can expire
while another has not. For the badges the limits are one, so that the second
request is always the one too many (a second badge can be made once the first is
given up, which is what an overlap takes); two requests race for a limit, for a
preview, or against the collection, whose own list carries what it read. Ages are
in ticks that keep the order of the code's (10 and 30 minutes, a day, a week).
`MaxGens` and `MaxIds` bound what is ever made; the theorems hold for any values
of them.

In `settlements` the smallest capacity with a host and a guest lets the third user
come too late; two forms race for a number, for the row of a round, or against a
mark; three requests are the two of a race and one before it. A total of one is
already split with a remainder between two debtors, one of whom owes nothing, and
of ids alone it is lost; `Writers`, `Clients` and `Named` say who uses the form,
who another client, and whom the latter names: one of each, so that a form races
against a client, and the host and a member who may have left are named.
`SplitsAddUp` is evaluated by itself on totals up to 12. Both `SharesAddUp` and
the splits are proved for every total and any debtors. In `tablet` two jobs are
what it takes to leave something behind and to find it, and two meetups of one
title what it takes to find the wrong card. In `device` two addresses and one
stranger let the two devices change places; the scans take any order over more. A
stranger's random port (`StrangerPorts`) would be found by mDNS only, which the
properties exclude. `MaxFaults = 1` is one failing command or one restart in a
behaviour; a connect that fails at the confirmed host needs a restart or a second
fault before it, which TLC does not reach and the proof does. In `members` both
paths overlap once, and two names are one that stays and one that is missed. In
`game2048` a board of two by two has rows of two, so `CollapseIsByRuns` is
evaluated by itself on all rows of four with tiles up to 8 (and proved for every
row); the one saved game at the beginning is one move from its end.

Deadlock is checked except for the lock, where every process may have ended, for
the verifications, where all tickets may be used up, and for the settlements, the
tablet and the game, where the bounds on requests, jobs and moves are used up.

**Fairness** (`JobsFairness`, used by `JobsSettle` only). The worker goes on with
what it does and is started again when it stops (`Restart=always` in
`cafestudy-worker.service`); a handler runs its statements; polling and claiming
are strongly fair, since the queue is polled every few seconds and a statement
that is tried again and again succeeds some time; and a claim nobody reports on is
some time older than `staleClaimSeconds` when the queue is polled
(`RecoverEveryClaim`). Faults are not fair: they may stop, and may not.

`FairVerificationsSpec` (for `TicketsSettle`) assumes that the clock ticks and
that the collection goes on, as its cron job does, and nothing of the requests.
`FairBadgesSpec` (for `UnheldIsCollected`) is strongly fair to the collection,
which cron starts every night and which only waits for a lock of the user's row,
and weakly fair to the statements under that lock (`UnderLock`).
`FairSettlementsSpec` is strongly fair to the next statement of each request,
since PostgreSQL serves those who wait for a row in turn. `DeviceFairness`: `main`
checks the device whenever the queue is empty, `resolveDevice` has no unbounded
loop, and adb keeps nothing for ever that is not ready or that nobody answers
(`Settles`). The check is strongly fair: the queue is empty again and again.
`MembersFairness`: cron goes on
asking, a crawl ends (every wait of puppeteer has a timeout), PostgreSQL serves
waiting transactions and finds deadlocks. `GameFairness`: the server answers.

**No cancel beside a create or a retry of the same meetup** (`CancelIsAlone`) is an
assumption of `SubmittedIsCleanedUp`; the run makes it true with one host request
at a time. Without it, a cancel that read the meetup before the create request had
linked its job does nothing, and the whole job can run between two of its
statements. The theorem needs `OwnKeys` besides, which one meetup makes true: with
two meetups of one title and minute, the delete job that another one left counts
as the active one, and none is made.

## Finding

`device_reboot`: once the scan of the subnet has confirmed the tablet at another
address, and the tablet is then rebooted at its configured host with a random
port, the scan of the ports connects it but the selection still asks for the
confirmed host (`adb.js:231`), which only a connection to the *configured address*
clears (`adb.js:181`). So a connected tablet is reported as lost for ever, while
`adb.js:193` says that the scan of the ports finds a rebooted tablet without a
person.

## Observed divergences, not among the runs

Properties that state what a comment or document says, are in the modules, and do
not hold; each with the constants under which TLC shows it.

- `MarkedNeverRequeued` (`SomoimJobs.cfg`): a marked job can go back to `pending`;
  `failJob` reads the mark in one statement and requeues in another, whose
  condition is the status alone (`SOMOIM_AUTOMATION.md:228`).
- `OutcomeReachesMeetup` (`SomoimRegistration.cfg`, `MaxFaults = 0`): an outcome
  can miss its meetup, since the row is linked to the job after the job is in the
  queue (`meetup.service.js:40`).
- `OneWorker` with `OneStart = FALSE` and `Processes <- MCTwo`: the file is there
  before its pid is, and a take-over removes whatever file it finds
  (`lock.js:58`).
- `HourlyLimit` (`MaxTickets = 3`, `MaxPending = 1`, `MaxPerHour = 2`, `ExpireAge
  = 1`, `CollectAge = 3`, `HourAge = 12`, the proportions of the defaults): the
  limit counts rows, and the collection deletes rows a quarter of an hour after
  their issue (`verification.queries.js:44`).
- `EveryHeldBadgeHasImage` (`Badges.cfg`): the collection is to remove only what
  nobody uses (`DEVELOPMENT.md:160`, `:171`), but the status of a preview is read
  before the lock and not again (`badges.queries.js:101`). Two overlapping
  applications make two badges of one image, and once one of them is deleted the
  collection takes the image from the other; or the collection chooses a week-old
  preview, it is applied, and its image goes.
- `EverySumIsTotal` (`Settlements.cfg`): a `POST` of ids alone charges everybody
  the rounded share, so that a total of one for two debtors charges nothing
  (`settlement.service.js:182-184`), while `DEVELOPMENT.md:128-129` has the sum of
  the shares of a new round equal to its total.
- `NeverAStranger` (`Device.cfg`): the scan of the subnet confirms the tablet at
  another address, the tablet leaves, DHCP gives the address to a stranger, adb
  gets its old transport ready with it, and the next selection takes it
  (`adb.js:224`), while `adb.js:126-127` says that an address is no identity.
- `RoundShowsCreatorsAccount` (`Settlements.cfg`, `MaxFaults = 0`): an admin's
  edit writes the admin's account into the round (`settlement.queries.js:297`), and
  from the page it first saves the account the round shows as the admin's own
  (`SettlementsPage.vue:129`), while `DEVELOPMENT.md:113` has the account of the
  creator.
- `DeletedMeansGone` and `ScreenshotFailsNoJob` (`Tablet.cfg`): a delete job takes
  any screen without the card for success (`delete-meetup.js:164`); a screenshot
  that cannot be stored fails the job (`adb.js:243`).

Met on the way and not stated as a property:

- Registration: the antecedent of `SubmittedIsCleanedUp` is the press and not the
  report. A job that was marked, put back to `pending` and cancelled as pending,
  while an older handler that found the event in the app told the meetup
  registered, gets no delete job although the app holds an event of that key
  (which this job never made).
- Settlements: an edit whose debtor has left is refused as long as the debtor is
  selected, and the form has no box to deselect one; a debtor who has left no
  longer sees the round; the toast counts the rounds, the server numbers from the
  highest.
- Tablet: a job without a map URL keeps the map an earlier job left in the form;
  the check after `attachMapUrl` accepts any URL; in a dry run without a map the
  keyboard is still up when the notice's box is tapped; a failed mark of a delete
  job needs a person, though the comment at `delete-meetup.js:149` says it is
  tried again.
- Device: where mDNS works, a service that connects ends the search, the tablet's
  or not; after a scan of the ports that connected, the subnet is scanned still; a
  lost alert is not sent again.
- Members: a member missed by a partial crawl comes back with a new id and
  account; an older crawl that syncs later deletes newer members; events whose
  time was not parsed are never pruned; the refresh button gives up after 15
  seconds of a crawl that takes minutes.
- 2048: "다시 하기" of the won game leaves an older save of it on the server; `PUT`,
  `DELETE` and `GET` that overtake each other lose a game or bring one back; a
  `GET` that fails starts a new game beside the saved one.

## Proofs

No theorem has an assumption but those on the constants named in its module
(`JobsAssumption`, `SettlementsAssumption`, ...) and the ones said here. Each
module follows the same argument: a type invariant and what the statements under
way carry make an inductive invariant, the initial states satisfy it, each action
keeps it, and the properties follow. TLC has checked each of these invariants on
the constants of the run before.

`SomoimJobsProofs` holds for any `MaxJobs`, `MaxAttempts` and set of handlers. The
three safety invariants are not inductive: that the button is pressed once says
nothing about a requeue that has been decided and not yet run. `JobsInv` adds what
every step relies on:

- `SubmittedIsOver`: a pressed job was pressed once, is marked and out of the
  queue, and the worker has only the report left;
- `TapIsSafe`, `NothingOlder`: at the button, the job is marked and no older
  failure report can put it back;
- `RequeueIsSafe`: a requeue that has been decided is about a job that was not
  pressed;
- `ClaimIsFresh`, `MarkIsOurs`: the answer the worker waits for is the answer to
  its own question;
- `FailureNoticeIsSafe` itself.

`TypeCorrect` comes first, then `InvCorrect` (one lemma for the recovery of stale
claims and one for the claim, the rest per action), then `TapOnce`, `NoRerun` and
`FailureNotice` as consequences. `QueueKeepsContract` proves the refinement
`JobsSpec => Contract!ContractSpec`: each action opens, presses or finishes a job
or stutters, and it needs the invariant for the press (once, while open or after
recovery gave the job up).

`SomoimRegistrationProofs` holds for any number of meetups, requests, handlers,
jobs and faults. `RegistrationImplementsQueue` shows that every step of the
composition is one of the queue or leaves it alone (`StepRefines`), so that the
theorems above hold of it. With them `RegistrationInv` is inductive: a row is
linked to nothing before its create request does it (`RowsAreNew`,
`CreatedFirst`), a job is linked to the meetup whose event it makes (`JobIsOwn`,
`LinkIsOwn`), a state `failed` comes only with a job that came to nothing
(`RetryIsSafe`, from `FailureNoticeIsSafe`), and so a job that a retry has
replaced did (`OldIsUntouched`). `OneSubmitCorrect` is a consequence: a linked job
that was pressed is the one the row still has.

Two more results of this module:

- `CancelStopsSubmitCorrect`. The property is a formula under two boxes, so its
  proof is about a state that lasts: `Stopped` says that a meetup is closed, its
  linked job is without a mark and the worker is not at the button with it.
  `StoppedStays` shows that nothing ends it but another job in its place, and that
  needs who may link a row (`RowSteps`) and who may mark a job (`MarkSteps`).
- `CleanUpCorrect`, under `CancelIsAlone` and `OwnKeys` (see above). `CleanUpInv`
  follows a cancelled meetup from the press to its delete job. Whoever cancels
  acts on what it has read, so `CancelIsCurrent` says how far that can be out of
  date: the job may have succeeded meanwhile, and then the success listener sees
  the closed row and cleans up itself (`CompensatesOwn`). `DeletesAreLater` is
  what makes the delete job that is found active the meetup's own.
  `CleanUpUnderWay` is the claim itself, with the request or listener that has
  still to insert the job (`Withdrawing`).

`WorkerProofs` has three parts.

The lock: for any set of processes under `OneStart`, `LockInv` (whoever holds the
lock owns the file with its pid in it, and no starting process is about to remove
it) is inductive and gives `OneWorkerCorrect` and `RefusalCorrect`.

The search: for any set of addresses and strangers and any number of failing
commands and restarts, `DeviceInv` says what each stage looks through
(`SearchInOrder`) and where a stranger may be ready without having slipped: at no
address that was tried but the one whose serial number is being asked for
(`TriedIsTablet`), and, without mDNS, not at the confirmed host
(`ConfirmedIsTablet`). Every step that makes a transport ready with a stranger is
either a search's, which asks for the serial number next, or adb's own or a failing
command's, which `slipped` remembers. `TabletCorrect` and `StrangersCorrect` assume
`HomeReserved`, without which the configured address may be a stranger's;
`OnlyTheTablet` is about a network without mDNS.

The handlers: for any meetups and any number of jobs, `SubmitInv` follows what a
handler has verified to the club. A check is worth something only as long as
nothing can undo it, so `ChecksPassed` holds it up to the irreversible tap, and
`RequestsAreChecked` in what the app has sent and its server may still carry out,
after the handler has given up. `RequestsAreOwn` and `PostMeansCreated` are why a
handler that sees the post knows it for its own. `EventsAreProperCorrect`,
`RegisteredMeansCreatedCorrect` and the step property
`EventsChangeAsAskedCorrect` follow. `LeftoversInv` says what a job that nothing
disturbs finds whatever the jobs before it left: the fields it has filled are the
wanted ones (`FilledIsWanted`) and no keyboard is where the tap on the notice goes
(`KeyboardIsDown`). `HandlerContractCorrect` maps every step of `Tablet` to one of
`JobHandler` or to a stutter.

`SettlementsProofs` holds for any number of users, capacity, total and bound.
`SettlementsInv` ties each step of a request to the lock it holds
(`LocksAreHeld`), to what the count found (`RoomToJoin`) and to the number it has
read (`NumbersAreMade`, `NumberIsFree`). That `NextNumber` is free is an argument
by a least counterexample. `SharesAddUp` holds because amounts that do not add up
are refused before the first statement, from the page or any other client
(`AcceptedAddsUp`), shares made of ids miss exactly the remainder, and an edit
writes the total, the shares and their origin of one and the same request.

`SplitsOfAnyTotal` is about the form's own splits, for every total and any set of
debtors. `SumOf` folds a function over a set in an order the model leaves open;
`SumIsAdditive` shows that it is any function of sets that grows by a share with
each debtor, `FirstOnesPayMore` that exactly as many debtors are among the first
`r` as the remainder `r` says. Both are inductions on the number of debtors, done
as an argument by a set of least size for which the claim fails. `SplitsCorrect`
is the invariant of the run as a consequence.

`MembersProofs` holds for any set of members and events. `MembersInv`: a
transaction holds every row it has written (`WritersHold`), the attendees it has
deleted under that lock are all (`ClearedIsAll`), and each statement keeps what
the crawl read and drops of the rest what may be (`SyncInOrder`).
`AttendeesCorrect` is one of its conjuncts; `AccountsCorrect` and `HistoryCorrect`
(which no run checks) are action properties.

`VerificationsProofs` holds for any number of tickets, meetups, requests and
faults, with no assumption on the order of ages. `PhotoKept` is not inductive:
that a photo is in its place says nothing about a clean-up under way. `PhotoInv`
adds who may still delete it: a claimed ticket has one request (`OneOwner`, which
needs `ClaimedIsTaken` for the claim), a clean-up deletes objects of its own
ticket (`CleansUpOwn`), and once a ticket is consumed its request is gone or its
COMMIT was not acknowledged (`ConsumedIsOver`). Most steps go through
`PhotoFrame`; `PhotoClaim`, `PhotoConsume` and `PhotoCleanUp` are the ones that
need an argument. `LimitInv` carries the count over from the statement that makes
it to the insert, by the lock; its proof counts finite sets.
`ConsumedStaysCorrect` goes through the statements that write a status.
`NoOrphanPhotoCorrect` needs one thing more of a request without faults: whoever
has keys to delete is at its clean-up still (`OrphanInv`), so a refusal is
answered only when its photo is gone.

`BadgesProofs` holds for any number of generations, badges, requests and faults.
`BadgeLimit` and `DailyLimitHolds` follow from `LimitsInv`: requests that count
take turns (`CountersTakeTurns`), what one has counted does not grow before it
inserts (`RoomToInsert`), no row is deleted before it is a day old
(`DeletedIsOld`), and one generation is under way (`OneProcessing`). Counting is
the work of `LimitsReserve` and `LimitsApply`, which add one element to a finite
set; all other steps go through `LimitsFrame`. `HeldImageCorrect` follows from
`ImageInv`: until a preview is shown its image belongs to one request
(`OwnGeneration`), a shown preview has its image unless it expired or a badge of it
was given up (`ShownIsReady`), two requests apply one preview only in an overlap
(`AppliesOverlap`), two badges share an image only of an overlapped or expired one
(`OneBadgePerImage`), and what the collection has chosen is unused or has expired
(`CollectsUnused`). Neither this nor the next theorem assumes anything of the user.

`NoOrphanImageCorrect`. `OwnersInv`: a request that generates is alone with its
generation, which nobody has seen (`OwnersAreAlone`), a badge is made of a preview
that was shown (`MadeOfShown`), and the collection deletes a row only when its
image is gone or was given up (`ImageBeforeRow`).

`GameProofs` holds for a board of any size and any bounds. The functions over rows
are recursive, and the first lemmas give them what the prover does not have:
`StepsExist` (a function that is defined step by step exists) and `Induction`
(again a least counterexample) yield `TilesOfRow` and `CollapseOfTiles`: the tiles
of a row that is filled from its start are that row, and collapsing loses a tile
exactly when two neighbours are equal. `CollapseOfAnyRow` says all that a collapse
does, for a row of any length: `collapseRow` looks from each tile at the next only,
and the theorem compares it with runs of equal tiles, of which every second one is
taken up. `AbsorbedByTurns` brings the runs down to neighbours (an absorbed tile is
one whose neighbour before it is equal and not absorbed), and the proof goes from
the last tile to the first: what the recursion has at a tile that is not absorbed is
the outcome of the tiles from there on, their places (`PlacesMoveUp`) and the sum of
the points (`SumsExist`, `SumIsAdded`) included. `StuckMeansNoMoves` is then an argument
about the board: a line that stays as it is when pushed from both ends is full or
empty, one tile fills its row and that row every column, and a full line that
stays has no equal neighbours. `OverMeansStuckCorrect` follows with `OverInv`: the
board on the page has a tile and is over exactly when it has no moves, and every
game that is saved, answered or on its way can be gone on with (the constant
`OldGames` is assumed to hold such games, which is what the pages save).
`GameTypeCorrect` needs `ScoreInv` (a page without a board has no points, so it
saves none), and so does `BestCorrect`. `SavedCorrect` follows the last request
about the saved game through the queue (`LastSaid`). It assumes `Fits`, that the
server takes the game the page would save; on the board of the code no game comes
near its `MAX_SCORE`, and TLC confirms `Fits` on `Game2048.cfg`, but how many
points a board can be worth is not proved.

**Only model-checked.** Liveness, which is out of the prover's reach
(`JobsSettle`, `TicketsSettle`, `UnheldIsCollected`, `RequestsEnd`,
`LossIsReported`, `FoundAgain`, `ListBecomesTheGroup`, `FinishedGamesCount`). All
other properties of the passing runs are theorems.

**Stated and in no run.** Properties that follow from the theorems or are parts of
an invariant (`SubmittedNeverRerun`, `FailureNoticeIsSafe`, `PendingLimit`,
`BadgeLimit`, `HistoryIsKept`, `BestOnlyRises`, the type and inductive
invariants), those that do not hold (above), and `ScoreIsEarned` of
the game, which TLC confirms on `Game2048.cfg` and no theorem states. To check
one, name it in a cfg with the constants of the run.

## Not modelled

- Auth and sessions: who gets in is a question of access control and is left to
  its own review; the other features take from it only who asks.
- Cafes and comments, smash, notices, ranking, dice, places, admin roles: requests
  of a single statement or one transaction.
- Migrations (`migrate.js`) and start-up: they run alone.
- The rest of the web client is rendering. `VerificationPage.vue` keeps a photo
  for the meetup chosen when its compression ends; this is listed as a hazard
  without a property.
- Screen parsing (`ui-parser.js` and the like) down to XML, formatting and
  wording.
- A COMMIT without acknowledgement of the queue, and two tabs of one game.

## Plan

Done: the queue, the worker and their contract; registration and its refinement;
the handlers on the tablet; the search for it; the lock; settlements with
participants; verifications; badges; members; the game; proofs of every safety
property of the passing runs. Next, in this order:

1. `ScoreIsEarned`, by an invariant on the worth of a line.
2. The points ledger (`point_logs` against `users.total_points`) with the dice and
   the cafes as a small machine, if it gives a property that one transaction does
   not settle.
3. The photo step of `VerificationPage.vue` in front of `Verifications`.
