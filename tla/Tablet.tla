------------------------------- MODULE Tablet -------------------------------
(***************************************************************************)
(* The two job handlers of the worker and the tablet they drive            *)
(* (worker/handlers, worker/somoim-app.js, worker/somoim-form.js).  The    *)
(* Somoim app has no interface but its screen: a handler reads it, taps    *)
(* where it saw a widget and reads again.  A tap may miss, since the       *)
(* keyboard or another window takes it; windows appear by themselves; the  *)
(* form comes back with what an earlier job left in it; the app's own      *)
(* request is answered whenever it is answered; and any command may fail.  *)
(*                                                                         *)
(* A field holds the value some meetup gives it, nothing, or a mixture.    *)
(* The screens and answers of the app are external: they are what the      *)
(* handlers and their comments say of it.                                  *)
(***************************************************************************)
EXTENDS Integers, FiniteSets

CONSTANTS Meetups,        \* the meetups that jobs are about
          Titles,         \* their titles, which several may share
          TitleOf,        \* [Meetups -> Titles]
          WithMap,        \* those resolveMapUrl has a short enough URL for
          NotifyMembers,  \* SOMOIM_NOTIFY_MEMBERS
          Blank,          \* an empty field
          Mixed,          \* text that went to the wrong field
          MaxJobs         \* jobs the worker runs (bound)

ASSUME TabletAssumption ==
    /\ TitleOf \in [Meetups -> Titles]
    /\ WithMap \subseteq Meetups
    /\ NotifyMembers \in BOOLEAN
    /\ {Blank, Mixed} \cap (Meetups \cup Titles) = {}
    /\ MaxJobs \in Nat

VARIABLES at,         \* where the handler is
          job,        \* the job: its kind, its meetup, submit or dryRun
          report,     \* the outcome of the last job, "none" while one runs
          dismissed,  \* this stage has already confirmed the region gate
          disturbed,  \* something has gone wrong on the tablet in this job
          runs,       \* how many jobs were run
          screen,     \* the screen of the app
          overlay,    \* the window on top of it: "none", "crash", "region"
          keyboard,   \* the keyboard is shown and takes the taps below it
          focus,      \* the text field that typed text goes to, or "none"
          form,       \* the create form, kept by the app between jobs
          shown,      \* the event whose edit screen is open
          requests,   \* what the app has sent to its server, unanswered
          events      \* the events of the club

handlerVars == <<at, job, report, dismissed, disturbed, runs>>
screenVars == <<screen, overlay, keyboard, focus>>
serverVars == <<requests, events>>
tabletVars == <<handlerVars, screenVars, form, shown, serverVars>>
-----------------------------------------------------------------------------
TextFields == {"title", "place", "cost", "count"}
Checked == TextFields \cup {"date", "time"}
Value == Meetups \cup Titles \cup {Blank, Mixed}

\* buildExpectedFieldValues: fitLocationForApp, costForApp and the formatted
\* date and time differ between meetups; a title need not.
Wanted(m) == [f \in Checked |-> IF f = "title" THEN TitleOf[m] ELSE m]

Form == [text : [Checked -> Value], map : Meetups \cup {Blank, Mixed},
         photo : BOOLEAN, notice : BOOLEAN]
Job == [kind : {"create", "delete"}, of : Meetups, submit : BOOLEAN]
Requests == [by : Job, event : Form]
Screens == {"starting", "home", "groups", "club", "board", "otherClub", "form",
            "timePicker", "loading", "post", "edit", "dialog"}
Stages == TextFields \cup
          {"launch", "awaitHome", "openGroups", "pickGroup", "clubPage", "date",
           "time", "map", "photo", "notice", "verify", "findCard", "target",
           "mark", "press", "confirm", "dialog", "gone", "evidence"}
Report == {"none", "complete", "retry", "manual"}

BlankForm == [text |-> [f \in Checked |-> Blank], map |-> Blank,
              photo |-> FALSE, notice |-> FALSE]
MadeByHand(m) == [text |-> Wanted(m), map |-> Blank,
                  photo |-> TRUE, notice |-> NotifyMembers]

TabletTypeOK ==
    /\ at \in Stages \cup {"idle"} /\ job \in Job /\ report \in Report
    /\ dismissed \in BOOLEAN /\ disturbed \in BOOLEAN /\ runs \in 0..MaxJobs
    /\ screen \in Screens /\ overlay \in {"none", "crash", "region"}
    /\ keyboard \in BOOLEAN /\ focus \in TextFields \cup {"none"}
    /\ form \in Form /\ shown \in Form
    /\ requests \subseteq Requests /\ events \subseteq Form
    /\ at = "idle" <=> report # "none"

TabletInit ==
    /\ at = "idle" /\ report = "complete"
    /\ job \in [kind : {"create"}, of : Meetups, submit : {FALSE}]
    /\ dismissed = FALSE /\ disturbed = FALSE /\ runs = 0
    /\ screen = "home" /\ overlay = "none" /\ keyboard = FALSE /\ focus = "none"
    /\ form = BlankForm /\ shown = BlankForm
    /\ requests = {}
    /\ events \in SUBSET {MadeByHand(m) : m \in Meetups}
-----------------------------------------------------------------------------
(* Helpers of the steps.                                                   *)

Goto(stage) == at' = stage /\ UNCHANGED <<job, report, dismissed, runs>>
End(r) == at' = "idle" /\ report' = r /\ UNCHANGED <<job, dismissed, runs>>
Disturb(bad) == disturbed' = (disturbed \/ bad)

Creating == job.kind = "create"
Uncovered == overlay = "none"
Shows(s) == screen' = s /\ UNCHANGED <<overlay, keyboard, focus>>

\* hideKeyboardIfShown: BACK, only if the keyboard is shown.
HideKeyboard_Never(shownNow) == shownNow
HideKeyboard(shownNow) == FALSE

\* A widget is reached by a tap that is neither lost nor under the keyboard.
Reached(missed, kb) == ~missed /\ ~kb

\* clearFocusedField, then typeText.
Typed_NotCleared(old, new) == IF old = Blank THEN new ELSE Mixed
Typed(old, new) == new

StartJob(k, m, s) ==
    /\ at = "idle" /\ runs < MaxJobs
    /\ at' = "launch" /\ report' = "none"
    /\ job' = [kind |-> k, of |-> m, submit |-> s]
    /\ runs' = runs + 1 /\ disturbed' = FALSE /\ dismissed' = FALSE
    /\ UNCHANGED <<screenVars, form, shown, serverVars>>

\* A check that throws a ManualReviewError, or an adb command that fails: the
\* payload, the clock, the time zone, a widget that is not there, a screen that
\* did not open, a picker that shows another value, a screenshot.
HandlerFails ==
    /\ at # "idle"
    /\ End("manual") /\ Disturb(TRUE)
    /\ UNCHANGED <<screenVars, form, shown, serverVars>>
-----------------------------------------------------------------------------
(* launchApp and openJoinedGroup.                                          *)

\* Force-stop and start.  The bound on time assumed here: what an earlier job
\* sent is answered, or lost with the app, before the app is up again.
LaunchApp ==
    /\ at = "launch" /\ requests = {}
    /\ Goto("awaitHome")
    /\ screen' = "starting" /\ overlay' = "none" /\ keyboard' = FALSE
    /\ focus' = "none"
    /\ UNCHANGED <<disturbed, form, shown, serverVars>>

HomeSeen ==
    /\ at = "awaitHome" /\ screen = "home" /\ Uncovered
    /\ Goto("openGroups")
    /\ UNCHANGED <<disturbed, screenVars, form, shown, serverVars>>

CloseCrashDialog ==
    /\ at = "awaitHome" /\ overlay = "crash"
    /\ overlay' = "none"
    /\ UNCHANGED <<handlerVars, screen, keyboard, focus, form, shown, serverVars>>

\* dismissRegionGateIfPresent, once in each of the two stages.
DismissRegionGate ==
    /\ at \in {"awaitHome", "pickGroup"} /\ overlay = "region" /\ ~dismissed
    /\ overlay' = "none" /\ dismissed' = TRUE
    /\ UNCHANGED <<at, job, report, disturbed, runs, screen, keyboard, focus,
                   form, shown, serverVars>>

LaunchTimesOut ==
    /\ at = "awaitHome"
    /\ End(IF dismissed THEN "manual" ELSE "retry") /\ Disturb(TRUE)
    /\ UNCHANGED <<screenVars, form, shown, serverVars>>

\* The gate may come up once more on the way to the joined groups.
OpenGroups(gate) ==
    /\ at = "openGroups" /\ Uncovered
    /\ at' = "pickGroup" /\ dismissed' = FALSE
    /\ screen' = "groups" /\ overlay' = IF gate THEN "region" ELSE "none"
    /\ UNCHANGED <<job, report, disturbed, runs, keyboard, focus, form, shown,
                   serverVars>>

\* The only joined group is opened whatever it is; of several, the target.  A
\* club opens at the tab that was last looked at.
PickGroup(page) ==
    /\ at = "pickGroup" /\ Uncovered
    /\ Goto("clubPage") /\ Shows(page)
    /\ UNCHANGED <<disturbed, form, shown, serverVars>>

OtherClub ==
    /\ at = "clubPage" /\ screen = "otherClub"
    /\ End("manual") /\ Disturb(TRUE)
    /\ UNCHANGED <<screenVars, form, shown, serverVars>>
-----------------------------------------------------------------------------
(* createMeetup: the form, field by field.                                 *)

\* Home tab, then the create button: the app shows the form blank, or as it was
\* left, with the notice on or off.
OpenCreateMeetupForm(kept, notice) ==
    /\ at = "clubPage" /\ Creating /\ screen # "otherClub" /\ Uncovered
    /\ Goto("date") /\ Shows("form")
    /\ form' = [(IF kept THEN form ELSE BlankForm) EXCEPT !.notice = notice]
    /\ UNCHANGED <<disturbed, shown, serverVars>>

SetText(f, v) == form' = [form EXCEPT !.text[f] = v]

\* The header of the picker is compared before OK, which leads to the form or
\* straight to the time picker; a time picker that is not there is opened.
SetDate(next) ==
    /\ at = "date" /\ screen = "form" /\ Uncovered
    /\ Goto("time") /\ Shows(next)
    /\ SetText("date", job.of)
    /\ UNCHANGED <<disturbed, shown, serverVars>>

\* Typed, checked, the keyboard hidden, AM or PM chosen, OK, and date and time
\* compared on the form.
SetTime ==
    /\ at = "time" /\ screen \in {"form", "timePicker"} /\ Uncovered
    /\ Goto("title")
    /\ screen' = "form" /\ keyboard' = FALSE /\ UNCHANGED <<overlay, focus>>
    /\ SetText("time", job.of)
    /\ UNCHANGED <<disturbed, shown, serverVars>>

AfterField == [title |-> "place", place |-> "cost", cost |-> "count",
               count |-> "map"]

\* A missed tap leaves the focus where it was, and the text goes there.
FillField(f, missed) ==
    /\ at = f /\ screen = "form" /\ Uncovered
    /\ Goto(AfterField[f]) /\ Disturb(missed)
    /\ IF Reached(missed, HideKeyboard(keyboard))
       THEN /\ focus' = f /\ keyboard' = TRUE
            /\ SetText(f, Typed(form.text[f], Wanted(job.of)[f]))
       ELSE /\ UNCHANGED <<focus, keyboard>>
            /\ IF focus = "none" THEN UNCHANGED form ELSE SetText(focus, Mixed)
    /\ UNCHANGED <<screen, overlay, shown, serverVars>>

\* attachMapUrl: without a URL the step is left out.
SkipMap ==
    /\ at = "map" /\ job.of \notin WithMap
    /\ Goto("photo")
    /\ UNCHANGED <<disturbed, screenVars, form, shown, serverVars>>

\* The field of the dialog may be missed, with the keyboard down; the handler
\* only looks whether the form shows some URL afterwards.
AttachMapUrl(missed) ==
    /\ at = "map" /\ job.of \in WithMap /\ screen = "form" /\ Uncovered
    /\ missed => form.map # Blank
    /\ Goto("photo") /\ Disturb(missed)
    /\ keyboard' = FALSE /\ UNCHANGED <<screen, overlay, focus>>
    /\ form' = IF missed THEN form ELSE [form EXCEPT !.map = job.of]
    /\ UNCHANGED <<shown, serverVars>>

\* A dry run attaches no photo.  Both go on only with the photo seen.
AttachMeetupPhoto ==
    /\ at = "photo" /\ (job.submit => screen = "form" /\ Uncovered)
    /\ Goto("notice")
    /\ IF job.submit
       THEN /\ form' = [form EXCEPT !.photo = TRUE]
            /\ keyboard' = HideKeyboard(keyboard)
       ELSE UNCHANGED <<form, keyboard>>
    /\ UNCHANGED <<disturbed, screen, overlay, focus, shown, serverVars>>

\* The box is tapped only if it differs, and read again.
SetNoticeCheckbox ==
    /\ at = "notice" /\ screen = "form" /\ Uncovered
    /\ Goto("verify")
    /\ form' = [form EXCEPT !.notice = NotifyMembers]
    /\ UNCHANGED <<disturbed, screenVars, shown, serverVars>>

\* The keyboard is not hidden before this tap and may take it.
NoticeUnderKeyboard ==
    /\ at = "notice" /\ form.notice # NotifyMembers /\ keyboard
    /\ End("manual") /\ UNCHANGED disturbed
    /\ UNCHANGED <<screenVars, form, shown, serverVars>>

VerifiedFields_NoCost == Checked \ {"cost"}
VerifiedFields == Checked

FormMatches == \A f \in VerifiedFields : form.text[f] = Wanted(job.of)[f]

\* verifyForm, after hideKeyboardIfShown.  A dry run stops here.
VerifyForm ==
    /\ at = "verify" /\ screen = "form" /\ Uncovered
    /\ IF FormMatches
       THEN Goto(IF job.submit THEN "mark" ELSE "evidence") /\ UNCHANGED disturbed
       ELSE End("manual") /\ UNCHANGED disturbed
    /\ keyboard' = HideKeyboard(keyboard) /\ UNCHANGED <<screen, overlay, focus>>
    /\ UNCHANGED <<form, shown, serverVars>>
-----------------------------------------------------------------------------
(* deleteMeetup: the card, the edit screen.                                *)

\* openClubHome and scrollToEventCard: the card has the title, its button is
\* the nearest one, which may be that of another card.
FindCard(e, wrong) ==
    /\ at = "clubPage" /\ ~Creating /\ screen # "otherClub" /\ Uncovered
    /\ \E c \in events : c.text["title"] = TitleOf[job.of]
    /\ e \in events
    /\ wrong \/ e.text["title"] = TitleOf[job.of]
    /\ Goto("target") /\ Disturb(wrong) /\ Shows("edit")
    /\ shown' = e
    /\ UNCHANGED <<form, serverVars>>

CardNotFound ==
    /\ at = "clubPage" /\ ~Creating /\ screen # "otherClub"
    /\ ~ \E c \in events : c.text["title"] = TitleOf[job.of]
    /\ End("manual") /\ Shows("club")
    /\ UNCHANGED <<disturbed, form, shown, serverVars>>

TargetFields_Title == {"title"}
TargetFields == {"title", "date", "time"}

IsTarget(e) == \A f \in TargetFields : e.text[f] = Wanted(job.of)[f]

VerifyTarget ==
    /\ at = "target" /\ screen = "edit" /\ Uncovered
    /\ IF IsTarget(shown) THEN Goto(IF job.submit THEN "mark" ELSE "evidence")
                          ELSE End("manual")
    /\ UNCHANGED <<disturbed, screenVars, form, shown, serverVars>>
-----------------------------------------------------------------------------
(* The mark, the irreversible tap and what is read after it.               *)

\* onBeforeSubmit, once the save or the delete button is in sight.
MarkRecorded ==
    /\ at = "mark" /\ screen \in {"form", "edit"} /\ Uncovered
    /\ Goto("press")
    /\ UNCHANGED <<disturbed, screenVars, form, shown, serverVars>>

AfterFailedMark_Lost == IF Creating THEN "none" ELSE "manual"
AfterFailedMark == IF Creating THEN "retry" ELSE "manual"

MarkFails ==
    /\ at = "mark"
    /\ End(AfterFailedMark) /\ Disturb(TRUE)
    /\ UNCHANGED <<screenVars, form, shown, serverVars>>

Send(e) == /\ requests' = requests \cup {[by |-> job, event |-> e]}
           /\ Shows("loading") /\ UNCHANGED events

\* The handler presses without a look at the screen.
PressSave(missed) ==
    /\ at = "press" /\ Creating
    /\ Goto("confirm") /\ Disturb(missed)
    /\ IF Reached(missed \/ ~Uncovered, keyboard) THEN Send(form)
       ELSE UNCHANGED <<screenVars, serverVars>>
    /\ UNCHANGED <<form, shown>>

PressDelete(missed) ==
    /\ at = "press" /\ ~Creating
    /\ Goto("dialog") /\ Disturb(missed)
    /\ IF missed \/ ~Uncovered THEN UNCHANGED screenVars ELSE Shows("dialog")
    /\ UNCHANGED <<form, shown, serverVars>>

PressConfirm(missed) ==
    /\ at = "dialog" /\ screen = "dialog" /\ Uncovered
    /\ Goto("gone") /\ Disturb(missed)
    /\ IF missed THEN UNCHANGED <<screenVars, serverVars>> ELSE Send(shown)
    /\ UNCHANGED <<form, shown>>

\* evaluateSubmitOutcome: the post of the created event, with its title.
PostSeen_NoForm == screen # "form"
PostSeen == screen = "post" /\ Uncovered

SubmitConfirmed ==
    /\ at = "confirm" /\ PostSeen
    /\ Goto("evidence")
    /\ UNCHANGED <<disturbed, screenVars, form, shown, serverVars>>

\* After the press only a person may look into it.
AfterUnconfirmed_Retry == "retry"
AfterUnconfirmed == "manual"

SubmitUnconfirmed ==
    /\ at = "confirm" /\ ~PostSeen
    /\ End(AfterUnconfirmed) /\ Disturb(TRUE)
    /\ UNCHANGED <<screenVars, form, shown, serverVars>>

\* No card of that title is on the screen, whatever screen it is.
CardGone == \/ screen # "club" \/ ~Uncovered
            \/ ~ \E c \in events : c.text["title"] = TitleOf[job.of]

DeleteConfirmed ==
    /\ at = "gone" /\ CardGone
    /\ Goto("evidence")
    /\ UNCHANGED <<disturbed, screenVars, form, shown, serverVars>>

DeleteUnconfirmed ==
    /\ at = "gone" /\ ~CardGone
    /\ End("manual")
    /\ UNCHANGED <<disturbed, screenVars, form, shown, serverVars>>

\* captureEvidence, and the handler returns.
Evidence ==
    /\ at = "evidence"
    /\ End("complete")
    /\ UNCHANGED <<disturbed, screenVars, form, shown, serverVars>>
-----------------------------------------------------------------------------
(* The app, its server and the device, by themselves.                      *)

AppStarts(gate) ==
    /\ screen = "starting"
    /\ screen' = "home"
    /\ overlay' = IF gate /\ Uncovered THEN "region" ELSE overlay
    /\ UNCHANGED <<handlerVars, keyboard, focus, form, shown, serverVars>>

\* The keyboard dies, in use or while the app starts, and leaves a crash dialog
\* over the app.
KeyboardDies ==
    /\ (keyboard \/ screen = "starting") /\ Uncovered
    /\ overlay' = "crash" /\ keyboard' = FALSE
    /\ Disturb(at # "idle" /\ screen # "starting")
    /\ UNCHANGED <<at, job, report, dismissed, runs, screen, focus, form, shown,
                   serverVars>>

OnScreen(r) == screen = "loading" /\ at \in {"confirm", "gone"} /\ r.by = job

\* The app takes no form without a photo or a cost.
Acceptable(e) == e.photo /\ e.text["cost"] # Blank

AppDone(r) ==
    /\ r.by.kind = "create" => Acceptable(r.event)
    /\ requests' = requests \ {r}
    /\ events' = IF r.by.kind = "create" THEN events \cup {r.event}
                 ELSE events \ {r.event}
    /\ screen' = IF ~OnScreen(r) THEN screen
                 ELSE IF r.by.kind = "create" THEN "post" ELSE "club"
    /\ UNCHANGED <<at, job, report, dismissed, runs, overlay, keyboard, focus,
                   form, shown>>
    /\ Disturb(at # "idle" /\ ~OnScreen(r))

AppRefuses(r) ==
    /\ requests' = requests \ {r}
    /\ screen' = IF ~OnScreen(r) THEN screen
                 ELSE IF r.by.kind = "create" THEN "form" ELSE "edit"
    /\ Disturb(at # "idle")
    /\ UNCHANGED <<at, job, report, dismissed, runs, overlay, keyboard, focus,
                   form, shown, events>>
-----------------------------------------------------------------------------
Navigate ==
    \/ LaunchApp \/ HomeSeen \/ CloseCrashDialog \/ DismissRegionGate
    \/ \E gate \in BOOLEAN : OpenGroups(gate)
    \/ \E page \in {"club", "board", "otherClub"} : PickGroup(page)
    \/ OtherClub

CreateMeetup ==
    \/ \E kept, notice \in BOOLEAN : OpenCreateMeetupForm(kept, notice)
    \/ \E next \in {"form", "timePicker"} : SetDate(next)
    \/ SetTime
    \/ \E f \in TextFields, missed \in BOOLEAN : FillField(f, missed)
    \/ SkipMap \/ AttachMeetupPhoto \/ SetNoticeCheckbox \/ NoticeUnderKeyboard
    \/ \E missed \in BOOLEAN : AttachMapUrl(missed) \/ PressSave(missed)
    \/ VerifyForm \/ SubmitConfirmed \/ SubmitUnconfirmed

DeleteMeetup ==
    \/ \E e \in events, wrong \in BOOLEAN : FindCard(e, wrong)
    \/ CardNotFound \/ VerifyTarget
    \/ \E missed \in BOOLEAN : PressDelete(missed) \/ PressConfirm(missed)
    \/ DeleteConfirmed \/ DeleteUnconfirmed

HandlerStep ==
    \/ Navigate \/ CreateMeetup \/ DeleteMeetup
    \/ MarkRecorded \/ MarkFails \/ Evidence
    \/ LaunchTimesOut \/ HandlerFails

AppAnswers == \E r \in requests : AppDone(r) \/ AppRefuses(r)

TabletNext ==
    \/ \E k \in {"create", "delete"}, m \in Meetups, s \in BOOLEAN :
          StartJob(k, m, s)
    \/ HandlerStep
    \/ \E gate \in BOOLEAN : AppStarts(gate)
    \/ KeyboardDies
    \/ AppAnswers

TabletSpec == TabletInit /\ [][TabletNext]_tabletVars
-----------------------------------------------------------------------------
(* What must hold.                                                         *)

\* Every event in the club has the title, place, cost, capacity, date and time
\* of one meetup and tells the members or not as configured, whatever earlier
\* jobs left in the form and wherever a missed tap sent the text (fillField
\* and verifyForm of create-meetup.js).
EventsAreProper ==
    \A e \in events : /\ e.notice = NotifyMembers
                      /\ \E m \in Meetups : e.text = Wanted(m)

\* An event appears or disappears only for a submit job that asked for it: it
\* has the title, date and time of that job's meetup, although the card was
\* found by its title alone and the request may be answered long after the job
\* (matchEventCard and the check of the edit screen in delete-meetup.js).
Asked(k, e) ==
    \E r \in requests : /\ r.by.kind = k /\ r.by.submit
                        /\ \A f \in {"title", "date", "time"} :
                              e.text[f] = Wanted(r.by.of)[f]

EventsChangeAsAsked ==
    [][/\ \A e \in events' \ events : Asked("create", e)
       /\ \A e \in events \ events' : Asked("delete", e)]_tabletVars

\* A create job that reports its event as registered has one on the club: the
\* form being out of sight is no proof (evaluateSubmitOutcome).
RegisteredMeansCreated ==
    at = "evidence" /\ Creating /\ job.submit
       => \E e \in events : e.text = Wanted(job.of)

\* Nothing that an earlier job left on the tablet, be it a filled form, a
\* keyboard or a crash dialog, keeps a create job from its end: unless a tap is
\* missed or a command fails in the job itself, it is reported complete.
LeftoversDoNoHarm ==
    at = "idle" /\ Creating /\ ~disturbed /\ (job.submit \/ job.of \in WithMap)
       => report = "complete"

\* The handlers keep the contract that the queue relies on.
Phase == IF at = "idle" THEN "idle"
         ELSE IF at = "press" THEN "marked"
         ELSE IF at \in {"confirm", "dialog", "gone"} THEN "pressed"
         ELSE IF at = "evidence" /\ job.submit THEN "pressed" ELSE "working"

Contract == INSTANCE JobHandler WITH phase <- Phase, submit <- job.submit

HandlerContractKept == Contract!HandlerSpec

\* A delete job that reports the event as deleted has seen it go
\* (delete-meetup.js:164).
DeletedMeansGone ==
    at = "evidence" /\ ~Creating /\ job.submit
       => \A e \in events : e.text["title"] # TitleOf[job.of]

\* A screenshot that fails does not fail the job (adb.js:243).
ScreenshotFailsNoJob ==
    [][at = "evidence" /\ at' = "idle" => report' = "complete"]_tabletVars
-----------------------------------------------------------------------------
(* Why it holds: what every stage of a job has established.                *)

CreateStages == TextFields \cup {"date", "time", "map", "photo", "notice", "verify",
                                 "confirm"}
DeleteStages == {"target", "dialog", "gone"}
SubmitStages == {"mark", "press", "confirm", "dialog", "gone"}

\* The stages that belong to one kind of job, and those a dry run never enters.
StagesMatchJob ==
    /\ at \in CreateStages => Creating
    /\ at \in DeleteStages => ~Creating
    /\ at \in SubmitStages => job.submit

\* What has been verified stays so until the irreversible tap.
ChecksPassed ==
    /\ at \in {"verify", "mark", "press"} /\ Creating => form.notice = NotifyMembers
    /\ at \in {"mark", "press"} /\ Creating => form.text = Wanted(job.of)
    /\ at \in {"mark", "press", "dialog"} /\ ~Creating => IsTarget(shown)

\* What is under way to the app's server carries what its job verified.
RequestsAreChecked ==
    \A r \in requests :
        /\ r.by.submit
        /\ r.by.kind = "create" => /\ r.event.text = Wanted(r.by.of)
                                  /\ r.event.notice = NotifyMembers
        /\ r.by.kind = "delete" =>
              \A f \in TargetFields : r.event.text[f] = Wanted(r.by.of)[f]

\* Once the app is up again, no request is that of an earlier job.
RequestsAreOwn ==
    at \notin {"idle", "launch"} => \A r \in requests : r.by = job

\* Only the app's answer brings the post up after the press.
PostMeansCreated ==
    /\ at = "press" => screen # "post"
    /\ at = "confirm" /\ screen = "post" =>
          \E e \in events : e.text = Wanted(job.of)

\* Where the tap on the notice could meet a keyboard, one has hidden it.
KeyboardIsDown ==
    /\ at = "photo" /\ job.of \in WithMap => ~keyboard
    /\ at = "notice" /\ (job.submit \/ job.of \in WithMap) => ~keyboard

\* The fields that are done when a stage begins.
Filled == [time |-> {"date"}, title |-> {"date", "time"},
           place |-> {"date", "time", "title"},
           cost |-> {"date", "time", "title", "place"},
           count |-> Checked \ {"count"},
           map |-> Checked, photo |-> Checked, notice |-> Checked,
           verify |-> Checked]

FilledIsWanted ==
    ~disturbed /\ at \in DOMAIN Filled =>
        \A f \in Filled[at] : form.text[f] = Wanted(job.of)[f]

SubmitInv ==
    /\ StagesMatchJob /\ ChecksPassed /\ RequestsAreChecked /\ RequestsAreOwn
    /\ PostMeansCreated /\ EventsAreProper /\ RegisteredMeansCreated

LeftoversInv == KeyboardIsDown /\ FilledIsWanted /\ LeftoversDoNoHarm
=============================================================================
