------------------------------- MODULE Members -------------------------------
(***************************************************************************)
(* The members and events of the somoim group, copied into the database    *)
(* (src/features/members).  A crawl reads the group's page and a sync      *)
(* stores what it read in one transaction: it updates the members read and *)
(* deletes the others, and then the events likewise.  Two paths sync:      *)
(* refreshFromSomoim, called by the button and by cron, which lets one     *)
(* crawl run at a time, and POST /sync, called by scripts/sync_members.py, *)
(* which nothing keeps apart from the first.  The transactions run in      *)
(* PostgreSQL's READ COMMITTED: a statement sees what is committed, and    *)
(* waits for a row that the other transaction has written.                 *)
(*                                                                         *)
(* A member is known by name.  The id of a row is a number, counted from 1 *)
(* for each name, as an account (a row of users) is made for every new row *)
(* and never deleted.                                                      *)
(***************************************************************************)
EXTENDS Integers, FiniteSets

CONSTANTS Names, Events,
          Refresh, Script,  \* the two paths that sync
          Nobody,           \* holds no lock
          MaxChanges,       \* bound: changes of the group
          MaxFaults,        \* bound: partial crawls, failures and crashes
          MaxScripts        \* bound: runs of the script

ASSUME MembersAssumption ==
    /\ Names \cap Events = {}
    /\ Refresh # Script /\ Nobody \notin {Refresh, Script}
    /\ MaxChanges \in Nat /\ MaxFaults \in Nat /\ MaxScripts \in Nat

VARIABLES group, board,   \* names and events on the group's page
          past,           \* events whose time is over
          row,            \* [Names -> id of the member's row, or 0]
          accounts,       \* [Names -> number of accounts made for the name]
          events,         \* rows of somoim_events
          attendees,      \* [Events -> the paths whose rows are its attendees]
          holder,         \* [Names \cup Events -> who has written the row]
          step,           \* [Syncs -> step of its crawl and transaction]
          crawl,          \* [Syncs -> the names and events it has read]
          todo,           \* [Syncs -> rows the current statement has left]
          written,        \* [Syncs -> what its transaction has written]
          refreshing, cooling,      \* refreshing, and lastRefreshAt is recent
          changes, faults, scripts  \* bounds

pageVars == <<group, board, past>>
tableVars == <<row, accounts, events, attendees>>
syncVars == <<holder, step, crawl, todo, written>>
boundVars == <<changes, faults, scripts>>
membersVars == <<pageVars, tableVars, syncVars, refreshing, cooling, boundVars>>

Syncs == {Refresh, Script}
Rows == Names \cup Events
Read == [names : SUBSET Names, events : SUBSET Events]
NothingRead == [names |-> {}, events |-> {}]

\* kept and dropped rows; for a kept event the attendees deleted with it; the
\* events that were over when the transaction began, which is its now().
Writes == [kept : SUBSET Rows, dropped : SUBSET Rows,
           cleared : [Events -> SUBSET Syncs], over : SUBSET Events]
NothingWritten == [kept |-> {}, dropped |-> {},
                   cleared |-> [e \in Events |-> {}], over |-> {}]
-----------------------------------------------------------------------------
MembersTypeOK ==
    /\ group \subseteq Names /\ board \subseteq Events /\ past \subseteq Events
    /\ accounts \in [Names -> Nat]
    /\ row \in [Names -> Nat] /\ \A n \in Names : row[n] <= accounts[n]
    /\ events \subseteq Events
    /\ attendees \in [Events -> SUBSET Syncs]
    /\ holder \in [Rows -> Syncs \cup {Nobody}]
    /\ step \in [Syncs -> {"idle", "crawling", "listed", "crawled", "members",
                           "prune", "events", "pruneEvents", "commit"}]
    /\ crawl \in [Syncs -> Read]
    /\ todo \in [Syncs -> SUBSET Rows]
    /\ written \in [Syncs -> Writes]
    /\ refreshing \in BOOLEAN /\ cooling \in BOOLEAN
    /\ changes \in 0..MaxChanges /\ faults \in 0..MaxFaults
    /\ scripts \in 0..MaxScripts

MembersInit ==
    /\ group = Names /\ board = Events /\ past = {}
    /\ row = [n \in Names |-> 0] /\ accounts = [n \in Names |-> 0]
    /\ events = {} /\ attendees = [e \in Events |-> {}]
    /\ holder = [r \in Rows |-> Nobody]
    /\ step = [s \in Syncs |-> "idle"]
    /\ crawl = [s \in Syncs |-> NothingRead]
    /\ todo = [s \in Syncs |-> {}]
    /\ written = [s \in Syncs |-> NothingWritten]
    /\ refreshing = FALSE /\ cooling = FALSE
    /\ changes = 0 /\ faults = 0 /\ scripts = 0
-----------------------------------------------------------------------------
(* The group's page (external).                                            *)

GroupChanges ==
    /\ changes < MaxChanges /\ changes' = changes + 1
    /\ \/ \E n \in Names :
             /\ group' = IF n \in group THEN group \ {n} ELSE group \cup {n}
             /\ UNCHANGED <<board, past>>
       \/ \E e \in Events :
             \/ /\ e \notin past
                /\ board' = IF e \in board THEN board \ {e} ELSE board \cup {e}
                /\ UNCHANGED <<group, past>>
             \/ /\ e \notin past /\ past' = past \cup {e}
                /\ board' = board \ {e}
                /\ UNCHANGED group
    /\ UNCHANGED <<tableVars, syncVars, refreshing, cooling, faults, scripts>>
-----------------------------------------------------------------------------
(* Crawls.                                                                 *)

\* refreshFromSomoim: cron forces it, the button has to wait for the cooldown.
RefreshAsked(force) ==
    /\ ~refreshing /\ (force \/ ~cooling)
    /\ refreshing' = TRUE
    /\ step' = [step EXCEPT ![Refresh] = "crawling"]
    /\ UNCHANGED <<pageVars, tableVars, holder, crawl, todo, written, cooling,
                   boundVars>>

CronFires == RefreshAsked(TRUE)
ButtonPressed == RefreshAsked(FALSE)

ScriptStarts ==
    /\ step[Script] = "idle" /\ scripts < MaxScripts
    /\ scripts' = scripts + 1
    /\ step' = [step EXCEPT ![Script] = "crawling"]
    /\ UNCHANGED <<pageVars, tableVars, holder, crawl, todo, written, refreshing,
                   cooling, changes, faults>>

\* A crawl first unfolds and reads the list of members, then the cards of the
\* events: all of them, or a part where the list did not unfold or a card was
\* not understood.
Complete(read, all) ==
    IF read = all THEN UNCHANGED faults
    ELSE faults < MaxFaults /\ faults' = faults + 1

MembersRead(s, names) ==
    /\ step[s] = "crawling" /\ step' = [step EXCEPT ![s] = "listed"]
    /\ names \subseteq group /\ Complete(names, group)
    /\ crawl' = [crawl EXCEPT ![s].names = names]
    /\ UNCHANGED <<pageVars, tableVars, holder, todo, written, refreshing,
                   cooling, changes, scripts>>

EventsRead(s, found) ==
    /\ step[s] = "listed" /\ step' = [step EXCEPT ![s] = "crawled"]
    /\ found \subseteq board /\ Complete(found, board)
    /\ crawl' = [crawl EXCEPT ![s].events = found]
    /\ UNCHANGED <<pageVars, tableVars, holder, todo, written, refreshing,
                   cooling, changes, scripts>>

\* crawlMembers of the server, and crawl_all_members of the script.
ParseMembers(names) == MembersRead(Refresh, names)
ExtractEventCards(found) == EventsRead(Refresh, found)
ScriptParsesMembers(names) == MembersRead(Script, names)
ScriptExtractsEvents(found) == EventsRead(Script, found)

Cooled ==
    /\ cooling /\ cooling' = FALSE
    /\ UNCHANGED <<pageVars, tableVars, syncVars, refreshing, boundVars>>
-----------------------------------------------------------------------------
(* syncMembers: one transaction, one statement after the other.            *)

Outside == UNCHANGED <<pageVars, tableVars, crawl, refreshing, cooling, boundVars>>

\* Only a future event is deleted, and nothing if the crawl has found nothing.
Prunable_All(s, e) == TRUE
Prunable(s, e) == e \notin written[s].over

StaleMembers_EvenIfEmpty(s) == {n \in Names : row[n] # 0} \ crawl[s].names
StaleMembers(s) ==
    IF crawl[s].names = {} THEN {}
    ELSE {n \in Names : row[n] # 0} \ crawl[s].names
StaleFutureEvents(s) ==
    IF crawl[s].events = {} THEN {}
    ELSE {e \in events : Prunable(s, e)} \ crawl[s].events

\* A statement is over: the rows the next one has to do with are those that
\* are committed now.
Statement(s, from, to, rows) ==
    /\ step[s] = from /\ step' = [step EXCEPT ![s] = to]
    /\ todo' = [todo EXCEPT ![s] = rows]
    /\ written' = IF from = "crawled" THEN [written EXCEPT ![s].over = past]
                  ELSE written

NextStatement(s) ==
    /\ todo[s] = {}
    /\ \/ Statement(s, "crawled", "members", crawl[s].names)
       \/ Statement(s, "members", "prune", StaleMembers(s))
       \/ Statement(s, "prune", "events", crawl[s].events)
       \/ Statement(s, "events", "pruneEvents", StaleFutureEvents(s))
       \/ Statement(s, "pruneEvents", "commit", {})
    /\ UNCHANGED holder /\ Outside

Free(s, r) == holder[r] \in {s, Nobody}

\* The upsert of an event locks its row, so that what it deletes and inserts
\* for its attendees is not mixed with the other transaction's.
Locked_Never(s, r) == holder
Locked(s, r) == [holder EXCEPT ![r] = s]

\* upsertMembers and upsertEvent, one row at a time.
Upsert(s, r) ==
    /\ step[s] \in {"members", "events"} /\ r \in todo[s] /\ Free(s, r)
    /\ holder' = Locked(s, r)
    /\ todo' = [todo EXCEPT ![s] = @ \ {r}]
    /\ written' = [written EXCEPT
          ![s].kept = @ \cup {r},
          ![s].cleared = IF r \in Events THEN [@ EXCEPT ![r] = attendees[r]] ELSE @]
    /\ UNCHANGED step /\ Outside

\* pruneStaleMembers and pruneStaleFutureEvents.
Prune(s, r) ==
    /\ step[s] \in {"prune", "pruneEvents"} /\ r \in todo[s] /\ Free(s, r)
    /\ holder' = [holder EXCEPT ![r] = s]
    /\ todo' = [todo EXCEPT ![s] = @ \ {r}]
    /\ written' = [written EXCEPT ![s].dropped = @ \cup {r}]
    /\ UNCHANGED step /\ Outside

\* The transaction is over; so is the refresh, whose cooldown starts if it
\* went well.
Flag_OnlyCleared(s, ok) == IF s = Refresh /\ ok THEN FALSE ELSE refreshing
Flag(s, ok) == IF s = Refresh THEN FALSE ELSE refreshing

Ends(s, ok) ==
    /\ holder' = [r \in Rows |-> IF holder[r] = s THEN Nobody ELSE holder[r]]
    /\ step' = [step EXCEPT ![s] = "idle"]
    /\ crawl' = [crawl EXCEPT ![s] = NothingRead]
    /\ todo' = [todo EXCEPT ![s] = {}]
    /\ written' = [written EXCEPT ![s] = NothingWritten]
    /\ refreshing' = Flag(s, ok)
    /\ cooling' = (cooling \/ (s = Refresh /\ ok))

\* A kept member has the id it had, or a new one with an account of its own.
KeptId_New(n) == accounts[n] + 1
KeptId(n) == IF row[n] # 0 THEN row[n] ELSE accounts[n] + 1

AccountMade_Once(n) == IF accounts[n] = 0 THEN 1 ELSE accounts[n]
AccountMade(n) == IF KeptId(n) > accounts[n] THEN KeptId(n) ELSE accounts[n]

Commit(s) ==
    LET w == written[s]
    IN /\ step[s] = "commit"
       /\ row' = [n \in Names |->
                    IF n \in w.kept THEN KeptId(n)
                    ELSE IF n \in w.dropped THEN 0 ELSE row[n]]
       /\ accounts' = [n \in Names |->
                    IF n \in w.kept THEN AccountMade(n) ELSE accounts[n]]
       /\ events' = (events \cup (w.kept \cap Events)) \ w.dropped
       /\ attendees' = [e \in Events |->
                    IF e \in w.kept THEN (attendees[e] \ w.cleared[e]) \cup {s}
                    ELSE IF e \in w.dropped THEN {} ELSE attendees[e]]
       /\ Ends(s, TRUE)
       /\ UNCHANGED <<pageVars, boundVars>>
-----------------------------------------------------------------------------
(* Failures.                                                               *)

\* The crawl or a statement fails; the log of the failure is left out.
Fails(s) ==
    /\ step[s] # "idle" /\ faults < MaxFaults
    /\ faults' = faults + 1
    /\ Ends(s, FALSE)
    /\ UNCHANGED <<pageVars, tableVars, changes, scripts>>

\* Each waits for a row of the other: PostgreSQL fails one of them (external).
WaitsFor(s, t) == todo[s] # {} /\ \A r \in todo[s] : holder[r] = t
Deadlock(s) ==
    /\ \A t \in Syncs \ {s} : WaitsFor(s, t) /\ WaitsFor(t, s)
    /\ Ends(s, FALSE)
    /\ UNCHANGED <<pageVars, tableVars, boundVars>>

Crawling(s) == step[s] \in {"crawling", "listed", "crawled"}

\* The crawl of the script goes on, and is sent to the new server.
ServerRestarts ==
    /\ faults < MaxFaults /\ faults' = faults + 1
    /\ holder' = [r \in Rows |-> Nobody]
    /\ step' = [step EXCEPT ![Refresh] = "idle",
                            ![Script] = IF Crawling(Script) THEN @ ELSE "idle"]
    /\ crawl' = [crawl EXCEPT ![Refresh] = NothingRead,
                    ![Script] = IF Crawling(Script) THEN @ ELSE NothingRead]
    /\ todo' = [s \in Syncs |-> {}]
    /\ written' = [s \in Syncs |-> NothingWritten]
    /\ refreshing' = FALSE /\ cooling' = FALSE
    /\ UNCHANGED <<pageVars, tableVars, changes, scripts>>
-----------------------------------------------------------------------------
Syncing(s) ==
    \/ NextStatement(s)
    \/ \E r \in Rows : Upsert(s, r) \/ Prune(s, r)
    \/ Commit(s) \/ Deadlock(s)

MembersNext ==
    \/ GroupChanges \/ Cooled \/ ScriptStarts \/ ServerRestarts
    \/ CronFires \/ ButtonPressed
    \/ \E names \in SUBSET group : ParseMembers(names) \/ ScriptParsesMembers(names)
    \/ \E found \in SUBSET board :
          ExtractEventCards(found) \/ ScriptExtractsEvents(found)
    \/ \E s \in Syncs : Syncing(s) \/ Fails(s)

MembersSpec == MembersInit /\ [][MembersNext]_membersVars

\* cron goes on asking, a crawl ends (every wait of puppeteer has a timeout),
\* and PostgreSQL serves those who wait for a row in turn and finds deadlocks.
MembersFairness ==
    /\ WF_membersVars(CronFires)
    /\ \A s \in Syncs :
          /\ WF_membersVars(MembersRead(s, group) \/ EventsRead(s, board))
          /\ SF_membersVars(Syncing(s))

FairMembersSpec == MembersSpec /\ MembersFairness
-----------------------------------------------------------------------------
(* What must hold.                                                         *)

\* The attendees of an event are those that one crawl read, although two
\* transactions may replace them at the same time: the upsert of the event
\* before holds its row (members.queries.js upsertEvent).
AttendeesOfOneCrawl ==
    \A e \in Events :
       /\ Cardinality(attendees[e]) <= 1
       /\ attendees[e] # {} => e \in events

\* A member keeps the id, and with it the password, the points and the role of
\* the account, however the syncs overlap, unless one commits whose crawl found
\* members and missed this one (members.queries.js:48-53).
AccountsSurvive ==
    [][\A n \in Names :
          row[n] # 0 /\ row'[n] # row[n] =>
             /\ row'[n] = 0
             /\ \E s \in Syncs : /\ step[s] = "commit" /\ step'[s] = "idle"
                                 /\ crawl[s].names # {} /\ n \notin crawl[s].names
      ]_membersVars

\* An event whose time was over when a sync began stays in the history, however
\* often it is missed by later crawls (members.queries.js:202-203).
LosesNoHistory ==
    \A e \in Events :
       e \in events /\ e \notin events' =>
          \E s \in Syncs : /\ step[s] = "commit" /\ step'[s] = "idle"
                          /\ e \notin written[s].over
HistoryIsKept == [][LosesNoHistory]_membersVars

\* Whatever failed, however the syncs overlapped: once the group stays as it
\* is, the list of members becomes the group and stays so.
ListBecomesTheGroup ==
    \A g \in (SUBSET Names) \ {{}} :
       <>[](group = g) => <>[]({n \in Names : row[n] # 0} = g)
-----------------------------------------------------------------------------
(* The inductive invariant.                                                *)

\* While a refresh is under way the flag is up, so that there is only one.
FlagIsUp == step[Refresh] # "idle" => refreshing

\* A transaction holds every row it has written.
WritersHold ==
    \A s \in Syncs : \A r \in written[s].kept \cup written[s].dropped : holder[r] = s

\* While it holds the row of an event, the attendees it has deleted are all.
ClearedIsAll ==
    \A s \in Syncs : \A e \in written[s].kept \cap Events :
       written[s].cleared[e] = attendees[e]

\* What each statement works on: what the crawl read is kept, and of the rest
\* what may be deleted is.
MayKeep(s) == crawl[s].names \cup crawl[s].events
MayDrop(s) ==
    IF crawl[s].names = {} THEN Events \ (crawl[s].events \cup written[s].over)
    ELSE Rows \ (MayKeep(s) \cup written[s].over)

SyncInOrder ==
    \A s \in Syncs :
       /\ step[s] \in {"idle", "crawling", "listed", "crawled"} =>
             written[s].kept = {} /\ written[s].dropped = {}
       /\ step[s] \notin {"members", "prune", "events", "pruneEvents"} => todo[s] = {}
       /\ step[s] \in {"members", "events"} => todo[s] \subseteq MayKeep(s)
       /\ step[s] \in {"prune", "pruneEvents"} => todo[s] \subseteq MayDrop(s)
       /\ written[s].kept \subseteq MayKeep(s)
       /\ written[s].dropped \subseteq MayDrop(s)

MembersInv ==
    /\ MembersTypeOK
    /\ FlagIsUp /\ WritersHold /\ ClearedIsAll /\ SyncInOrder
    /\ AttendeesOfOneCrawl
=============================================================================
