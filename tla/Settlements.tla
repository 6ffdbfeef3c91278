---------------------------- MODULE Settlements ----------------------------
(***************************************************************************)
(* The participants of one meetup and its settlement rounds: the tables    *)
(* participants, meetup_settlements, meetup_settlement_participants and    *)
(* settlement_payment_methods, the requests that change them one statement *)
(* at a time, and the pages they come from, with the drafts of the         *)
(* settlement form.  Every row lock of the code is a row of this meetup,   *)
(* so one meetup is enough.                                                *)
(*                                                                         *)
(* A user has one request under way at a time.  A page works on what it    *)
(* loaded last; what the form, a button or a request took from there is    *)
(* kept in draft and gets old while the tables change.  The API also takes *)
(* what no page sends: amounts that do not add up, and participants        *)
(* without amounts.  An account is known by the user whose money it is.    *)
(***************************************************************************)
EXTENDS Integers, FiniteSets, Functions

CONSTANTS NumUsers,   \* people who may take part
          Admins,     \* users with is_admin
          Capacity,   \* meetups.capacity of the app's meetup
          MaxTotal,   \* largest total_amount (bound)
          MaxRounds,  \* rounds ever made (bound)
          MaxFaults,  \* statements that fail and answers that are lost (bound)
          Writers,    \* users who open the settlement form (bound)
          Clients,    \* users who write rounds without it (bound)
          Named,      \* users they name as debtors (bound)
          MaxBusy,    \* users with a request under way at a time (bound)
          MaxAsks     \* requests asked for (bound)

\* Users are numbered in the order of their nicknames, the page's order.
User == 1..NumUsers
Nobody == 0
Host == 1

ASSUME SettlementsAssumption ==
    /\ NumUsers \in Nat \ {0} /\ Admins \subseteq User
    /\ Capacity \in Nat \ {0} /\ MaxTotal \in Nat \ {0}
    /\ MaxRounds \in Nat /\ MaxFaults \in Nat
    /\ Writers \subseteq User /\ Clients \subseteq User /\ Named \subseteq User
    /\ MaxBusy \in Nat /\ MaxAsks \in Nat

VARIABLES source,      \* meetups.source_type
          phase,       \* what join and leave ask of the meetup
          parts,       \* participants
          rounds,      \* [Round -> row with its shares, or NoRow]
          made,        \* rounds made so far; their ids are not used again
          method,      \* settlement_payment_methods
          meetupLock,  \* who holds the row of the meetup FOR UPDATE
          roundLock,   \* [Round -> who holds its row FOR UPDATE]
          at,          \* [User -> Step], what the user's request does next
          draft,       \* [User -> Draft], what it works with
          asks,
          faults

tableVars == <<source, phase, parts, rounds, made, method>>
lockVars == <<meetupLock, roundLock>>
pageVars == <<at, draft>>
vars == <<tableVars, lockVars, pageVars, asks, faults>>
-----------------------------------------------------------------------------
Round == 1..MaxRounds
NewRound == 0
Amount == 0..MaxTotal
Total == 1..MaxTotal
Shares == UNION {[S -> Amount] : S \in SUBSET User}
Account == User

\* A request brings the amounts, or the ids of those who share.
Split == {"amounts", "ids"}

\* split is no column: it tells what the shares were made of (history).
Row == [no : Round, total : Total, by : User, payer : Account,
        due : Shares, split : Split, paid : SUBSET User]
NoRow == [no |-> 0]

\* What a request brings, or the row it was asked for.
Draft == [round : Round \cup {NewRound}, no : 0..MaxRounds, total : Amount,
          due : Shares, split : Split, account : Account \cup {Nobody}]
NoDraft == [round |-> NewRound, no |-> 0, total |-> 0, due |-> <<>>,
            split |-> "amounts", account |-> Nobody]

Step == {"idle", "saveMethod", "lockMeetup", "nextNumber",
         "insertRound", "lockRound", "writeRound", "removeRound",
         "markPaid", "unmarkPaid", "join", "insertParticipant",
         "leave", "removeParticipant"}

\* A round may be on its way; the page has saved nothing else by then.
CreateSteps == {"saveMethod", "lockMeetup", "nextNumber", "insertRound"}

\* pending stands for a registration that is not over or has failed.
Phase == {"pending", "open", "closed", "done"}

SettlementsTypeOK ==
    /\ source \in {"app", "somoim"}
    /\ phase \in Phase
    /\ parts \subseteq User
    /\ rounds \in [Round -> Row \cup {NoRow}]
    /\ made \in 0..MaxRounds
    /\ method \in [User -> Account]
    /\ meetupLock \in User \cup {Nobody}
    /\ roundLock \in [Round -> User \cup {Nobody}]
    /\ at \in [User -> Step]
    /\ draft \in [User -> Draft]
    /\ asks \in 0..MaxAsks
    /\ faults \in 0..MaxFaults

\* createMeetup inserts its host; a crawled event starts empty.  Everybody
\* has saved an account before.
SettlementsInit ==
    /\ source \in {"app", "somoim"}
    /\ phase = IF source = "app" THEN "pending" ELSE "open"
    /\ parts = IF source = "app" THEN {Host} ELSE {}
    /\ rounds = [r \in Round |-> NoRow]
    /\ made = 0
    /\ method = [u \in User |-> u]
    /\ meetupLock = Nobody
    /\ roundLock = [r \in Round |-> Nobody]
    /\ at = [u \in User |-> "idle"]
    /\ draft = [u \in User |-> NoDraft]
    /\ asks = 0
    /\ faults = 0
-----------------------------------------------------------------------------
(* What requests and pages compute.                                        *)

Exists(r) == rounds[r] # NoRow
MayEdit(u, r) == Exists(r) /\ (rounds[r].by = u \/ u \in Admins)
MeetupFree_Always(u) == TRUE
MeetupFree(u) == meetupLock = Nobody
RoundFree(r) == roundLock[r] = Nobody

SumOf(due) == FoldFunction(+, 0, due)

NextNumber_Highest ==
    LET numbers == {rounds[r].no : r \in {s \in Round : Exists(s)}} \cup {0}
    IN  CHOOSE n \in numbers : \A k \in numbers : k <= n
NextNumber ==
    LET numbers == {rounds[r].no : r \in {s \in Round : Exists(s)}}
    IN  CHOOSE n \in 1..(made + 1) :
          /\ n = 1 \/ n - 1 \in numbers
          /\ \A k \in numbers : k < n

NumberTaken(n) == \E r \in Round : Exists(r) /\ rounds[r].no = n

\* The first ones of the list pay what the division leaves over.
EqualAmounts_OneMore(total, S) ==
    LET before(v) == Cardinality({w \in S : w < v})
    IN  [v \in S |-> total \div Cardinality(S)
                     + IF before(v) <= total % Cardinality(S) THEN 1 ELSE 0]
EqualAmounts(total, S) ==
    LET before(v) == Cardinality({w \in S : w < v})
    IN  [v \in S |-> total \div Cardinality(S)
                     + IF before(v) < total % Cardinality(S) THEN 1 ELSE 0]

\* One amount is typed in, the others share the rest.  (Who pays the odd won is
\* left to the order in which the boxes were ticked, and matters to nothing here.)
FixedAmount(total, S, v, x) ==
    LET rest == EqualAmounts(IF x > total THEN 0 ELSE total - x, S \ {v})
    IN  [w \in S |-> IF w = v THEN x ELSE rest[w]]

\* The amounts the form can show for a total and the people selected.
FormAmounts(total, S) ==
    {EqualAmounts(total, S)}
        \cup {FixedAmount(total, S, v, x) : v \in S, x \in Amount}

EditedRow_MarksLost(row, d, payer) ==
    [row EXCEPT !.total = d.total, !.payer = payer, !.due = d.due,
                !.split = d.split, !.paid = {}]
\* UPDATE of the round, DELETE of those left out, upsert of the others.
EditedRow(row, d, payer) ==
    [row EXCEPT !.total = d.total, !.payer = payer, !.due = d.due,
                !.split = d.split, !.paid = @ \cap DOMAIN d.due]

\* Of ids alone the server makes equal shares and drops what is left over.
RoundedDown(total, S) == [v \in S |-> total \div Cardinality(S)]
Lost(d) ==
    IF d.split = "ids" THEN d.total % Cardinality(DOMAIN d.due) ELSE 0

\* Amounts have to add up; shares that the server has made are not checked.
Accepted_Unchecked(d) == TRUE
Accepted(d) == d.split = "ids" \/ SumOf(d.due) = d.total
-----------------------------------------------------------------------------
(* The meetup, apart from its participants.                                *)

\* The app's event is registered, the host cancels, the time has come.
MeetupMoves ==
    /\ \/ phase = "pending" /\ phase' \in {"open", "closed", "done"}
       \/ phase = "open" /\ source = "app" /\ phase' \in {"closed", "done"}
       \/ phase = "open" /\ source = "somoim" /\ phase' = "done"
       \/ phase = "closed" /\ phase' = "done"
    /\ UNCHANGED <<source, parts, rounds, made, method, lockVars, pageVars, asks,
                   faults>>

\* A page of a member asks for the list, and the attendees the crawler
\* knows by now come first.  Nobody is ever taken out.
SyncSomoimEvents ==
    /\ source = "somoim"
    /\ MeetupFree(Nobody)
    /\ \E attendees \in (SUBSET User) \ {{}} : parts' = parts \cup attendees
    /\ UNCHANGED <<source, phase, rounds, made, method, lockVars, pageVars, asks,
                   faults>>
-----------------------------------------------------------------------------
(* The pages.                                                              *)

\* The bounds on requests.
MayAsk(u) ==
    /\ at[u] = "idle"
    /\ Cardinality({v \in User : at[v] # "idle"}) < MaxBusy
    /\ asks < MaxAsks

Ask(u, s, d) ==
    /\ MayAsk(u)
    /\ asks' = asks + 1
    /\ at' = [at EXCEPT ![u] = s]
    /\ draft' = [draft EXCEPT ![u] = d]
    /\ UNCHANGED <<tableVars, lockVars, faults>>

\* The form is filled in for the people selected, and nobody types another
\* account over the one it shows.  What does not add up is not sent.
SubmitForm(u, r, S, shownAccount) ==
    \E total \in Total :
      \E due \in {d \in FormAmounts(total, S) : SumOf(d) = total} :
        Ask(u, "saveMethod", [NoDraft EXCEPT !.round = r, !.total = total,
                              !.due = due, !.account = shownAccount])

\* The bound on rounds, those under way included.
RoundsLeft ==
    made + Cardinality({v \in User : at[v] \in CreateSteps
                                    /\ draft[v].round = NewRound})
        < MaxRounds

\* Only a participant's page shows the meetup and its rounds.
CreateRound(u) ==
    /\ MayAsk(u)
    /\ u \in parts \cap Writers
    /\ RoundsLeft
    /\ \E S \in (SUBSET parts) \ {{}} : SubmitForm(u, NewRound, S, method[u])

\* There is a box for each participant; a debtor who has left has none, and
\* stays selected.
EditRound(u) ==
    /\ MayAsk(u)
    /\ u \in parts \cap Writers
    /\ \E r \in {s \in Round : MayEdit(u, s)} :
         \E ticked \in SUBSET parts :
           LET S == ticked \cup (DOMAIN rounds[r].due \ parts)
           IN  S # {} /\ SubmitForm(u, r, S, rounds[r].payer)

\* POST without amounts, and POST or PUT with any, from another client than
\* the page.  PUT passes no ids on.
ClientAmounts == UNION {[S -> Amount] : S \in (SUBSET Named) \ {{}}}

PostIds(u) ==
    /\ u \in Clients
    /\ RoundsLeft
    /\ \E total \in Total, S \in (SUBSET Named) \ {{}} :
         Ask(u, "lockMeetup", [NoDraft EXCEPT !.total = total,
                               !.due = RoundedDown(total, S), !.split = "ids"])

PostAmounts(u) ==
    /\ u \in Clients
    /\ RoundsLeft
    /\ \E total \in Total, due \in ClientAmounts :
         Ask(u, "lockMeetup", [NoDraft EXCEPT !.total = total, !.due = due])

PutAmounts(u) ==
    /\ u \in Clients
    /\ \E r \in {s \in Round : Exists(s)}, total \in Total,
          due \in ClientAmounts :
         Ask(u, "lockRound", [NoDraft EXCEPT !.round = r, !.total = total,
                              !.due = due])

AskRemove(u) ==
    /\ u \in parts
    /\ \E r \in Round :
         MayEdit(u, r) /\ Ask(u, "removeRound", [NoDraft EXCEPT !.round = r])

\* The button is there for those who owe; it turns the mark it shows.
TogglePaid(u) ==
    /\ u \in parts
    /\ \E r \in Round :
         /\ Exists(r) /\ u \in DOMAIN rounds[r].due \ {rounds[r].by}
         /\ Ask(u, IF u \in rounds[r].paid THEN "unmarkPaid" ELSE "markPaid",
                [NoDraft EXCEPT !.round = r])

\* The list of meetups offers joining and leaving those of the app.
AskJoin(u) ==
    /\ source = "app" /\ u \notin parts
    /\ Ask(u, "join", NoDraft)

AskLeave(u) ==
    /\ source = "app" /\ u \in parts \ {Host}
    /\ Ask(u, "leave", NoDraft)
-----------------------------------------------------------------------------
(* The requests.  After an error the user may ask again.                   *)

UnlockMeetup_Never(u) == meetupLock
UnlockMeetup(u) == IF meetupLock = u THEN Nobody ELSE meetupLock
UnlockRound(u) == [r \in Round |-> IF roundLock[r] = u THEN Nobody
                                                       ELSE roundLock[r]]

\* The transaction is over, if there is one: COMMIT or ROLLBACK.
Finish(u) ==
    /\ at' = [at EXCEPT ![u] = "idle"]
    /\ draft' = [draft EXCEPT ![u] = NoDraft]
    /\ meetupLock' = UnlockMeetup(u)
    /\ roundLock' = UnlockRound(u)

Continue(u, s) ==
    /\ at' = [at EXCEPT ![u] = s]
    /\ UNCHANGED draft

Refuse(u) ==
    /\ Finish(u)
    /\ UNCHANGED <<tableVars, asks, faults>>

\* The page saves the account first, in a request of its own.
SaveMethod(u) ==
    /\ at[u] = "saveMethod"
    /\ method' = [method EXCEPT ![u] = draft[u].account]
    /\ at' = [at EXCEPT ![u] = IF draft[u].round = NewRound
                               THEN "lockMeetup" ELSE "lockRound"]
    /\ draft' = [draft EXCEPT ![u].account = Nobody]
    /\ UNCHANGED <<source, phase, parts, rounds, made, lockVars, asks, faults>>

\* Refused by the service, before any statement.
RefuseAmounts(u) ==
    /\ at[u] \in {"lockMeetup", "lockRound"}
    /\ ~ Accepted(draft[u])
    /\ Refuse(u)

Members(u) == DOMAIN draft[u].due \subseteq parts

\* SELECT ... FOR UPDATE and the check of the membership.
LockMeetup(u) ==
    /\ at[u] = "lockMeetup"
    /\ Accepted(draft[u])
    /\ MeetupFree(u)
    /\ IF u \in parts /\ Members(u)
       THEN /\ Continue(u, "nextNumber")
            /\ meetupLock' = u
            /\ UNCHANGED <<tableVars, roundLock, asks, faults>>
       ELSE Refuse(u)

SelectNextNumber(u) ==
    /\ at[u] = "nextNumber"
    /\ at' = [at EXCEPT ![u] = "insertRound"]
    /\ draft' = [draft EXCEPT ![u].no = NextNumber,
                              ![u].account = method[u]]
    /\ UNCHANGED <<tableVars, lockVars, asks, faults>>

\* The payer columns are the creator's method as it was read.
InsertRound(u) ==
    /\ at[u] = "insertRound"
    /\ made' = made + 1
    /\ rounds' = [rounds EXCEPT ![made'] =
                    [no |-> draft[u].no, total |-> draft[u].total, by |-> u,
                     payer |-> draft[u].account, due |-> draft[u].due,
                     split |-> draft[u].split, paid |-> {}]]
    /\ Finish(u)
    /\ UNCHANGED <<source, phase, parts, method, asks, faults>>

LockRound(u) ==
    /\ at[u] = "lockRound"
    /\ Accepted(draft[u])
    /\ LET r == draft[u].round
       IN  /\ RoundFree(r)
           /\ IF MayEdit(u, r) /\ Members(u)
              THEN /\ Continue(u, "writeRound")
                   /\ roundLock' = [roundLock EXCEPT ![r] = u]
                   /\ UNCHANGED <<tableVars, meetupLock, asks, faults>>
              ELSE Refuse(u)

\* The payer columns become the method of whoever asks.
WriteRound(u) ==
    /\ at[u] = "writeRound"
    /\ rounds' = [rounds EXCEPT ![draft[u].round] =
                    EditedRow(@, draft[u], method[u])]
    /\ Finish(u)
    /\ UNCHANGED <<source, phase, parts, made, method, asks, faults>>

RemoveRound(u) ==
    /\ at[u] = "removeRound"
    /\ LET r == draft[u].round
       IN  /\ RoundFree(r)
           /\ IF MayEdit(u, r)
              THEN /\ rounds' = [rounds EXCEPT ![r] = NoRow]
                   /\ Finish(u)
                   /\ UNCHANGED <<source, phase, parts, made, method, asks, faults>>
              ELSE Refuse(u)

\* markParticipantPaid and unmarkParticipantPaid; no row is a 404.
MarkPaid(u) ==
    /\ at[u] \in {"markPaid", "unmarkPaid"}
    /\ LET r == draft[u].round
       IN  IF Exists(r) /\ u \in DOMAIN rounds[r].due
           THEN /\ rounds' = [rounds EXCEPT ![r].paid =
                                IF at[u] = "markPaid" THEN @ \cup {u}
                                                      ELSE @ \ {u}]
                /\ Finish(u)
                /\ UNCHANGED <<source, phase, parts, made, method, asks, faults>>
           ELSE Refuse(u)

\* The row lock, the checks of the meetup and the count.
JoinMeetup(u) ==
    /\ at[u] = "join"
    /\ MeetupFree(u)
    /\ IF phase = "open" /\ u \notin parts /\ Cardinality(parts) < Capacity
       THEN /\ Continue(u, "insertParticipant")
            /\ meetupLock' = u
            /\ UNCHANGED <<tableVars, roundLock, asks, faults>>
       ELSE Refuse(u)

InsertParticipant(u) ==
    /\ at[u] = "insertParticipant"
    /\ parts' = parts \cup {u}
    /\ Finish(u)
    /\ UNCHANGED <<source, phase, rounds, made, method, asks, faults>>

\* leaveMeetup reads the meetup and deletes in a statement of its own.
LeaveMeetup(u) ==
    /\ at[u] = "leave"
    /\ IF phase # "done"
       THEN Continue(u, "removeParticipant")
            /\ UNCHANGED <<tableVars, lockVars, asks, faults>>
       ELSE Refuse(u)

RemoveParticipant(u) ==
    /\ at[u] = "removeParticipant"
    /\ parts' = parts \ {u}
    /\ Finish(u)
    /\ UNCHANGED <<source, phase, rounds, made, method, asks, faults>>

\* A statement or a connection fails before the commit.
RequestFails(u) ==
    /\ at[u] # "idle"
    /\ faults < MaxFaults
    /\ faults' = faults + 1
    /\ Finish(u)
    /\ UNCHANGED <<tableVars, asks>>
-----------------------------------------------------------------------------
PageStep(u) ==
    \/ CreateRound(u) \/ EditRound(u) \/ AskRemove(u)
    \/ TogglePaid(u) \/ AskJoin(u) \/ AskLeave(u)

ClientStep(u) == PostIds(u) \/ PostAmounts(u) \/ PutAmounts(u)

RequestStep(u) ==
    \/ SaveMethod(u) \/ RefuseAmounts(u) \/ LockMeetup(u) \/ SelectNextNumber(u)
    \/ InsertRound(u)
    \/ LockRound(u) \/ WriteRound(u) \/ RemoveRound(u) \/ MarkPaid(u)
    \/ JoinMeetup(u) \/ InsertParticipant(u)
    \/ LeaveMeetup(u) \/ RemoveParticipant(u)

SettlementsNext ==
    \/ MeetupMoves
    \/ SyncSomoimEvents
    \/ \E u \in User :
          PageStep(u) \/ ClientStep(u) \/ RequestStep(u) \/ RequestFails(u)

SettlementsSpec == SettlementsInit /\ [][SettlementsNext]_vars

\* A request goes on, and the queue for a row lock serves everyone.
FairSettlementsSpec ==
    SettlementsSpec /\ \A u \in User : SF_vars(RequestStep(u))
-----------------------------------------------------------------------------
(* Properties.                                                             *)

\* Joins that run at once never take in more people than the meetup has
\* room for (joinMeetup counts under the lock on the meetup's row).
CapacityHolds == source = "app" => Cardinality(parts) <= Capacity

\* Whoever creates and edits at the same time, from the page or not, what the
\* debtors of a round owe adds up to its total: total and shares are of one
\* and the same request, whose amounts the server has checked, and nobody who
\* was left out is still charged.  Only a round whose shares the server made
\* of ids alone misses something: the remainder of the division, until the
\* round is edited.
AddsUp(d) == SumOf(d.due) = d.total - Lost(d)
SharesAddUp == \A r \in Round : Exists(r) => AddsUp(rounds[r])

\* What DEVELOPMENT.md:128-129 asks of a new round, in no run: PostIds breaks
\* it with two people and a total of one.
EverySumIsTotal ==
    \A r \in Round : Exists(r) => SumOf(rounds[r].due) = rounds[r].total

\* What the form proposes adds up, so that it can be sent: an equal split among
\* any people, and the rest shared after one amount is typed in that is no more
\* than the whole (applyEqualAmounts, setParticipantAmount).  (Of the variables
\* only asks matters: it is evaluated before the first request.)
SplitsAddUp ==
    asks = 0 =>
        \A S \in (SUBSET User) \ {{}}, total \in 0..12 :
            /\ SumOf(EqualAmounts(total, S)) = total
            /\ \A v \in S, x \in 0..total :
                  S # {v} => SumOf(FixedAmount(total, S, v, x)) = total

\* A round never fails on UNIQUE (meetup_id, round_no): the number that
\* createSettlement has read is still free when it inserts.
NumberIsFree == \A u \in User : at[u] = "insertRound" => ~ NumberTaken(draft[u].no)

\* A mark "paid" goes only with its debtor: it survives every edit that
\* keeps the debtor, and only the debtor takes it back.
MarksAreKept ==
    [][\A r \in Round : Exists(r) /\ Exists(r)' =>
         \A v \in rounds[r].paid \cap DOMAIN rounds'[r].due :
           v \in rounds'[r].paid \/ at[v] = "unmarkPaid"]_vars

\* A request gets its answer: every end of a transaction gives up the row
\* locks that others wait for.
RequestsEnd == \A u \in User : at[u] # "idle" ~> at[u] = "idle"

\* A round shows the account of the one who made it.
RoundShowsCreatorsAccount ==
    \A r \in Round : Exists(r) => rounds[r].payer = rounds[r].by
-----------------------------------------------------------------------------
(* The inductive invariant, for the proofs.                                *)

\* The lock on the meetup's row is held from the statement that takes it to
\* the end of the transaction, and so is that on a round being edited.
LocksAreHeld ==
    \A u \in User :
      /\ meetupLock = u <=> at[u] \in {"nextNumber", "insertRound",
                                      "insertParticipant"}
      /\ at[u] = "writeRound" => /\ roundLock[draft[u].round] = u
                                 /\ Exists(draft[u].round)

\* What a request carries from the form, and from one statement to the next.
DraftsAreFilledIn ==
    \A u \in User :
      /\ at[u] \in CreateSteps \cup {"lockRound", "writeRound"} =>
           draft[u].total \in Total
      /\ draft[u].split = "ids" =>
           at[u] \in {"lockMeetup", "nextNumber", "insertRound"}
      /\ draft[u].split = "ids"
           \/ at[u] \in {"nextNumber", "insertRound", "writeRound"} =>
             AddsUp(draft[u])
      /\ at[u] \in {"saveMethod", "insertRound"} => draft[u].account \in Account
      /\ at[u] \in {"lockMeetup", "nextNumber", "insertRound"} =>
           draft[u].round = NewRound
      /\ at[u] \in {"lockRound", "writeRound", "removeRound", "markPaid",
                    "unmarkPaid"} => draft[u].round \in Round

\* A number is that of a round made so far, or of the next one.
NumbersAreMade ==
    /\ \A r \in Round : Exists(r) => r <= made /\ rounds[r].no <= made
    /\ \A u \in User : at[u] = "insertRound" => draft[u].no \in 1..(made + 1)

Creating == {u \in User : at[u] \in CreateSteps /\ draft[u].round = NewRound}
CreatingFits == made + Cardinality(Creating) <= MaxRounds

\* What the count found holds until the insert.
RoomToJoin ==
    \A u \in User : source = "app" /\ at[u] = "insertParticipant" =>
                      Cardinality(parts) < Capacity

SettlementsInv ==
    /\ SettlementsTypeOK
    /\ LocksAreHeld
    /\ DraftsAreFilledIn
    /\ NumbersAreMade
    /\ CreatingFits
    /\ RoomToJoin
    /\ CapacityHolds /\ SharesAddUp /\ NumberIsFree
=============================================================================
