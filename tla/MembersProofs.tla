--------------------------- MODULE MembersProofs ---------------------------
(***************************************************************************)
(* The copy of the group's members and events is never mixed from two      *)
(* crawls, keeps the accounts of the members it keeps and the history of   *)
(* events, for any number of names and events, however the transactions of *)
(* the two syncs overlap, fail or deadlock.  MembersInv says what each     *)
(* transaction has written and holds.                                      *)
(***************************************************************************)
EXTENDS Members, FiniteSetTheorems, TLAPS

USE MembersAssumption

LEMMA InvInit == MembersInit => MembersInv
<1> SUFFICES ASSUME MembersInit PROVE MembersInv
  OBVIOUS
<1> USE DEF MembersInit
<1>1. NothingRead \in Read /\ NothingWritten \in Writes
  BY DEF NothingRead, Read, NothingWritten, Writes
<1>2. MembersTypeOK
  <2>1. /\ crawl \in [Syncs -> Read] /\ written \in [Syncs -> Writes]
        /\ holder \in [Rows -> Syncs \cup {Nobody}]
    BY <1>1
  <2>2. /\ row \in [Names -> Nat] /\ accounts \in [Names -> Nat]
        /\ \A n \in Names : row[n] <= accounts[n]
    OBVIOUS
  <2>3. /\ step \in [Syncs -> {"idle"}] /\ todo \in [Syncs -> SUBSET Rows]
        /\ attendees \in [Events -> SUBSET Syncs]
    OBVIOUS
  <2>4. changes \in 0..MaxChanges /\ faults \in 0..MaxFaults /\ scripts \in 0..MaxScripts
    OBVIOUS
  <2> QED BY <2>1, <2>2, <2>3, <2>4 DEF MembersTypeOK
<1>3. \A s \in Syncs : written[s].kept = {} /\ written[s].dropped = {}
  BY DEF NothingWritten
<1>4. WritersHold /\ ClearedIsAll
  BY <1>3 DEF WritersHold, ClearedIsAll
<1>5. SyncInOrder /\ FlagIsUp
  BY <1>3 DEF SyncInOrder, FlagIsUp, Syncs
<1>6. AttendeesOfOneCrawl
  BY FS_EmptySet DEF AttendeesOfOneCrawl
<1> QED BY <1>2, <1>4, <1>5, <1>6 DEF MembersInv
-----------------------------------------------------------------------------
(* Steps that write nothing.                                               *)

\* Neither the rows nor what has been written of them changes.
LEMMA QuietFrame ==
    ASSUME MembersInv, MembersTypeOK', SyncInOrder', FlagIsUp',
           UNCHANGED <<tableVars, holder>>,
           \A s \in Syncs : /\ written'[s].kept = written[s].kept
                            /\ written'[s].dropped = written[s].dropped
                            /\ written'[s].cleared = written[s].cleared
    PROVE  MembersInv'
<1> USE DEF MembersInv, tableVars
<1>1. WritersHold'
  BY DEF WritersHold
<1>2. ClearedIsAll'
  BY DEF ClearedIsAll
<1>3. AttendeesOfOneCrawl'
  BY DEF AttendeesOfOneCrawl
<1> QED BY <1>1, <1>2, <1>3

\* The group, the cooldown, and the start of a crawl.
LEMMA StartKeepsInv ==
    ASSUME MembersInv,
           GroupChanges \/ Cooled \/ ScriptStarts \/ CronFires \/ ButtonPressed
    PROVE  MembersInv'
<1> USE DEF MembersInv, syncVars, tableVars, boundVars, pageVars
<1>1. Refresh \in Syncs /\ Script \in Syncs
  BY DEF Syncs
<1>2. CASE GroupChanges
  <2>1. MembersTypeOK'
    <3>1. group' \subseteq Names /\ board' \subseteq Events /\ past' \subseteq Events
      BY <1>2 DEF GroupChanges, MembersTypeOK
    <3>2. changes' \in 0..MaxChanges
      BY <1>2 DEF GroupChanges, MembersTypeOK
    <3> QED BY <1>2, <3>1, <3>2 DEF GroupChanges, MembersTypeOK
  <2>2. SyncInOrder' /\ FlagIsUp'
    BY <1>2 DEF FlagIsUp, GroupChanges, SyncInOrder, MayKeep, MayDrop
  <2> QED BY <1>2, <2>1, <2>2, QuietFrame DEF GroupChanges
<1>3. CASE Cooled
  <2>1. MembersTypeOK' /\ SyncInOrder' /\ FlagIsUp'
    BY <1>3 DEF FlagIsUp, Cooled, MembersTypeOK, SyncInOrder, MayKeep, MayDrop
  <2> QED BY <1>3, <2>1, QuietFrame DEF Cooled
<1>4. CASE ScriptStarts
  <2>1. MembersTypeOK'
    BY <1>1, <1>4 DEF ScriptStarts, MembersTypeOK
  <2>2. SyncInOrder' /\ FlagIsUp'
    BY <1>1, <1>4 DEF FlagIsUp, ScriptStarts, SyncInOrder, MayKeep, MayDrop, MembersTypeOK
  <2> QED BY <1>4, <2>1, <2>2, QuietFrame DEF ScriptStarts
<1>5. CASE CronFires \/ ButtonPressed
  <2>1. /\ step' = [step EXCEPT ![Refresh] = "crawling"]
        /\ refreshing' = TRUE
        /\ UNCHANGED <<pageVars, tableVars, holder, crawl, todo, written, cooling,
                       boundVars>>
    BY <1>5 DEF CronFires, ButtonPressed, RefreshAsked
  <2>2. MembersTypeOK'
    BY <1>1, <2>1 DEF MembersTypeOK
  <2>3. step[Refresh] = "idle"
    BY <1>5 DEF CronFires, ButtonPressed, RefreshAsked, FlagIsUp
  <2>4. SyncInOrder' /\ FlagIsUp'
    BY <1>1, <2>1, <2>3 DEF FlagIsUp, SyncInOrder, MayKeep, MayDrop, MembersTypeOK
  <2> QED BY <2>1, <2>2, <2>4, QuietFrame
<1> QED BY <1>2, <1>3, <1>4, <1>5
\* The two steps of a crawl.
LEMMA ReadKeepsInv ==
    ASSUME MembersInv, NEW s \in Syncs, NEW found \in SUBSET Rows,
           MembersRead(s, found) \/ EventsRead(s, found)
    PROVE  MembersInv'
<1> USE DEF MembersInv, Complete
<1>1. faults' \in 0..MaxFaults
  BY DEF MembersRead, EventsRead, MembersTypeOK
<1>2. /\ crawl' \in [Syncs -> Read]
      /\ \A t \in Syncs \ {s} : crawl'[t] = crawl[t]
  <2>1. crawl[s] \in Read
    BY DEF MembersTypeOK
  <2>2. CASE MembersRead(s, found)
    <3>1. [crawl[s] EXCEPT !.names = found] \in Read
      BY <2>1, <2>2 DEF MembersRead, MembersTypeOK, Read
    <3> QED BY <2>2, <3>1 DEF MembersRead, MembersTypeOK
  <2>3. CASE EventsRead(s, found)
    <3>1. [crawl[s] EXCEPT !.events = found] \in Read
      BY <2>1, <2>3 DEF EventsRead, MembersTypeOK, Read
    <3> QED BY <2>3, <3>1 DEF EventsRead, MembersTypeOK
  <2> QED BY <2>2, <2>3
<1>3. /\ step' = [step EXCEPT ![s] = step'[s]] /\ step'[s] \in {"listed", "crawled"}
      /\ step[s] \in {"crawling", "listed"}
      /\ UNCHANGED <<pageVars, tableVars, holder, todo, written, refreshing, cooling,
                     changes, scripts>>
  BY DEF MembersRead, EventsRead, MembersTypeOK
<1>4. MembersTypeOK'
  BY <1>1, <1>2, <1>3 DEF MembersTypeOK, pageVars, tableVars
<1>5. SyncInOrder'
  <2> SUFFICES ASSUME NEW t \in Syncs PROVE SyncInOrder!(t)'
    BY DEF SyncInOrder
  <2>1. CASE t = s
    BY <1>3, <2>1 DEF SyncInOrder, MembersTypeOK
  <2>2. CASE t # s
    BY <1>2, <1>3, <2>2 DEF SyncInOrder, MayKeep, MayDrop, MembersTypeOK
  <2> QED BY <2>1, <2>2
<1>6. FlagIsUp'
  BY <1>3 DEF FlagIsUp, Syncs, MembersTypeOK
<1> QED BY <1>3, <1>4, <1>5, <1>6, QuietFrame
-----------------------------------------------------------------------------
(* The statements of a transaction.                                        *)

\* From one statement to the next: its rows are among those it may work on.
LEMMA StatementKeepsInv ==
    ASSUME MembersInv, NEW s \in Syncs, NextStatement(s)
    PROVE  MembersInv'
<1> USE DEF MembersInv, Outside
<1>1. PICK from \in {"crawled", "members", "prune", "events", "pruneEvents"},
           to \in {"members", "prune", "events", "pruneEvents", "commit"},
           rows \in SUBSET Rows :
         /\ Statement(s, from, to, rows)
         /\ to \in {"members", "events"} => rows \subseteq MayKeep(s)
         /\ to = "commit" => rows = {}
         /\ from = "crawled" => to = "members"
         /\ to \in {"prune", "pruneEvents"} => rows \subseteq MayDrop(s)
  <2>1. /\ crawl[s].names \subseteq Names /\ crawl[s].events \subseteq Events
        /\ written[s].over \subseteq Events /\ events \subseteq Events
    BY DEF MembersTypeOK, Read, Writes
  <2>2. StaleMembers(s) \subseteq Rows /\ StaleMembers(s) \subseteq MayDrop(s)
    BY <2>1 DEF StaleMembers, MayDrop, MayKeep, Rows
  <2>3. StaleFutureEvents(s) \subseteq Rows /\ StaleFutureEvents(s) \subseteq MayDrop(s)
    BY <2>1 DEF StaleFutureEvents, Prunable, MayDrop, MayKeep, Rows
  <2>4. crawl[s].names \subseteq Rows /\ crawl[s].events \subseteq Rows
    BY <2>1 DEF Rows
  <2> QED BY <2>2, <2>3, <2>4 DEF NextStatement, MayKeep
<1>2. /\ step[s] = from /\ step' = [step EXCEPT ![s] = to]
      /\ todo' = [todo EXCEPT ![s] = rows]
      /\ UNCHANGED <<pageVars, tableVars, crawl, refreshing, cooling, boundVars, holder>>
  BY <1>1 DEF NextStatement, Statement
<1>3. /\ written' \in [Syncs -> Writes]
      /\ \A t \in Syncs : /\ written'[t].kept = written[t].kept
                          /\ written'[t].dropped = written[t].dropped
                          /\ written'[t].cleared = written[t].cleared
                          /\ (t # s \/ from # "crawled") => written'[t] = written[t]
  <2>1. written[s] \in Writes /\ past \subseteq Events
    BY DEF MembersTypeOK
  <2>2. [written[s] EXCEPT !.over = past] \in Writes
    BY <2>1 DEF Writes
  <2>3. CASE from = "crawled"
    <3>1. written' = [written EXCEPT ![s] = [written[s] EXCEPT !.over = past]]
      BY <1>1, <2>3 DEF Statement
    <3>2. written' \in [Syncs -> Writes]
      BY <2>2, <3>1 DEF MembersTypeOK
    <3> QED BY <2>1, <2>3, <3>1, <3>2 DEF MembersTypeOK, Writes
  <2>4. CASE from # "crawled"
    BY <1>1, <2>4 DEF Statement, MembersTypeOK
  <2> QED BY <2>3, <2>4
<1>4. MembersTypeOK'
  BY <1>2, <1>3 DEF MembersTypeOK, pageVars, tableVars, boundVars
<1>5. SyncInOrder'
  <2> SUFFICES ASSUME NEW t \in Syncs PROVE SyncInOrder!(t)'
    BY DEF SyncInOrder
  <2>1. CASE t # s
    BY <1>2, <1>3, <2>1 DEF SyncInOrder, MayKeep, MayDrop, MembersTypeOK
  <2>2. CASE t = s /\ from # "crawled"
    BY <1>1, <1>2, <1>3, <2>2 DEF SyncInOrder, MayKeep, MayDrop, MembersTypeOK
  <2>3. CASE t = s /\ from = "crawled"
    BY <1>1, <1>2, <1>3, <2>3 DEF SyncInOrder, MayKeep, MayDrop, MembersTypeOK
  <2> QED BY <2>1, <2>2, <2>3
<1>6. FlagIsUp'
  BY <1>2 DEF FlagIsUp, Syncs, MembersTypeOK
<1> QED BY <1>2, <1>3, <1>4, <1>5, <1>6, QuietFrame

\* A row that another transaction holds is not this one's to write.
LEMMA UpsertKeepsInv ==
    ASSUME MembersInv, NEW s \in Syncs, NEW r \in Rows, Upsert(s, r)
    PROVE  MembersInv'
<1> USE DEF MembersInv, Outside, Upsert, Locked
<1> DEFINE w == written[s]
           w2 == written'[s]
<1>1. /\ w2.kept = w.kept \cup {r} /\ w2.dropped = w.dropped /\ w2.over = w.over
      /\ w2.cleared = IF r \in Events THEN [w.cleared EXCEPT ![r] = attendees[r]]
                      ELSE w.cleared
      /\ w2 \in Writes
      /\ written' \in [Syncs -> Writes]
      /\ \A t \in Syncs \ {s} : written'[t] = written[t]
  <2>1. w \in Writes
    BY DEF MembersTypeOK
  <2>2. w2 = [w EXCEPT !.kept = @ \cup {r},
                       !.cleared = IF r \in Events THEN [@ EXCEPT ![r] = attendees[r]]
                                   ELSE @]
    BY DEF MembersTypeOK
  <2>3. (IF r \in Events THEN [w.cleared EXCEPT ![r] = attendees[r]] ELSE w.cleared)
           \in [Events -> SUBSET Syncs]
    BY <2>1 DEF Writes, MembersTypeOK
  <2>4. w2 \in Writes
    <3>1. w.kept \cup {r} \in SUBSET Rows
      BY <2>1 DEF Writes
    <3> HIDE DEF w, w2
    <3>2. w2 = [kept |-> w.kept \cup {r}, dropped |-> w.dropped,
                cleared |-> IF r \in Events THEN [w.cleared EXCEPT ![r] = attendees[r]]
                            ELSE w.cleared,
                over |-> w.over]
      BY <2>1, <2>2 DEF Writes
    <3> QED BY <2>1, <2>3, <3>1, <3>2 DEF Writes
  <2>5. /\ \A t \in Syncs \ {s} : written'[t] = written[t]
        /\ written' = [written EXCEPT ![s] = w2]
    BY DEF MembersTypeOK
  <2>6. written' \in [Syncs -> Writes]
    BY <2>4, <2>5 DEF MembersTypeOK
  <2> QED BY <2>1, <2>2, <2>4, <2>5, <2>6 DEF Writes
<1>2. /\ holder' = [holder EXCEPT ![r] = s] /\ holder[r] \in {s, Nobody}
      /\ todo' = [todo EXCEPT ![s] = @ \ {r}]
      /\ UNCHANGED <<pageVars, tableVars, crawl, refreshing, cooling, boundVars, step>>
      /\ r \in todo[s] /\ step[s] \in {"members", "events"} /\ s # Nobody
  BY DEF Free, Syncs
<1> HIDE DEF w, w2, Upsert
<1>3. MembersTypeOK'
  BY <1>1, <1>2 DEF MembersTypeOK, pageVars, tableVars, boundVars
<1>4. WritersHold'
  <2> SUFFICES ASSUME NEW t \in Syncs, NEW q \in written'[t].kept \cup written'[t].dropped
               PROVE  holder'[q] = t
    BY DEF WritersHold
  <2>1. CASE t = s
    BY <1>1, <1>2, <2>1 DEF WritersHold, w, w2, MembersTypeOK, Writes
  <2>2. CASE t # s
    <3>1. holder[q] = t /\ q \in Rows
      BY <1>1, <2>2 DEF WritersHold, MembersTypeOK, Writes
    <3>2. t # Nobody
      BY DEF Syncs
    <3> QED BY <1>2, <2>2, <3>1, <3>2 DEF MembersTypeOK
  <2> QED BY <2>1, <2>2
<1>5. ClearedIsAll'
  <2> SUFFICES ASSUME NEW t \in Syncs, NEW e \in written'[t].kept \cap Events
               PROVE  written'[t].cleared[e] = attendees'[e]
    BY DEF ClearedIsAll
  <2>1. CASE t # s
    BY <1>1, <1>2, <2>1 DEF ClearedIsAll, tableVars
  <2>2. CASE t = s /\ e = r
    BY <1>1, <1>2, <2>2 DEF w, w2, MembersTypeOK, Writes, tableVars
  <2>3. CASE t = s /\ e # r
    <3>1. written[s].cleared[e] = attendees[e]
      BY <1>1, <2>3 DEF ClearedIsAll, w, w2
    <3>2. written'[s].cleared[e] = written[s].cleared[e]
      BY <1>1, <2>3 DEF w, w2, MembersTypeOK, Writes
    <3> QED BY <1>2, <2>3, <3>1, <3>2 DEF tableVars
  <2> QED BY <2>1, <2>2, <2>3
<1>6. SyncInOrder'
  <2> SUFFICES ASSUME NEW t \in Syncs PROVE SyncInOrder!(t)'
    BY DEF SyncInOrder
  <2>1. CASE t # s
    BY <1>1, <1>2, <2>1 DEF SyncInOrder, MayKeep, MayDrop, MembersTypeOK
  <2>2. CASE t = s
    BY <1>1, <1>2, <2>2 DEF SyncInOrder, MayKeep, MayDrop, MembersTypeOK, w, w2
  <2> QED BY <2>1, <2>2
<1>7. FlagIsUp' /\ AttendeesOfOneCrawl'
  BY <1>2 DEF FlagIsUp, AttendeesOfOneCrawl, tableVars
<1> QED BY <1>3, <1>4, <1>5, <1>6, <1>7

LEMMA PruneKeepsInv ==
    ASSUME MembersInv, NEW s \in Syncs, NEW r \in Rows, Prune(s, r)
    PROVE  MembersInv'
<1> USE DEF MembersInv, Outside, Prune
<1>1. /\ written'[s].kept = written[s].kept
      /\ written'[s].dropped = written[s].dropped \cup {r}
      /\ written'[s].over = written[s].over
      /\ written'[s].cleared = written[s].cleared
      /\ written' \in [Syncs -> Writes]
      /\ \A t \in Syncs \ {s} : written'[t] = written[t]
  <2>1. written[s] \in Writes
    BY DEF MembersTypeOK
  <2>2. [written[s] EXCEPT !.dropped = @ \cup {r}] \in Writes
    BY <2>1 DEF Writes
  <2>3. written' = [written EXCEPT ![s] = [written[s] EXCEPT !.dropped = @ \cup {r}]]
    OBVIOUS
  <2>4. written' \in [Syncs -> Writes]
    BY <2>2, <2>3 DEF MembersTypeOK
  <2>5. /\ written'[s] = [written[s] EXCEPT !.dropped = @ \cup {r}]
        /\ \A t \in Syncs \ {s} : written'[t] = written[t]
    BY <2>3 DEF MembersTypeOK
  <2> QED BY <2>1, <2>4, <2>5 DEF Writes
<1>2. /\ holder' = [holder EXCEPT ![r] = s] /\ holder[r] \in {s, Nobody}
      /\ todo' = [todo EXCEPT ![s] = @ \ {r}]
      /\ UNCHANGED <<pageVars, tableVars, crawl, refreshing, cooling, boundVars, step>>
      /\ r \in todo[s] /\ step[s] \in {"prune", "pruneEvents"} /\ s # Nobody
  BY DEF Free, Syncs
<1> HIDE DEF Prune
<1>3. MembersTypeOK'
  BY <1>1, <1>2 DEF MembersTypeOK, pageVars, tableVars, boundVars
<1>4. WritersHold'
  <2> SUFFICES ASSUME NEW t \in Syncs, NEW q \in written'[t].kept \cup written'[t].dropped
               PROVE  holder'[q] = t
    BY DEF WritersHold
  <2>1. CASE t = s
    BY <1>1, <1>2, <2>1 DEF WritersHold, MembersTypeOK, Writes
  <2>2. CASE t # s
    <3>1. holder[q] = t /\ q \in Rows
      BY <1>1, <2>2 DEF WritersHold, MembersTypeOK, Writes
    <3>2. t # Nobody
      BY DEF Syncs
    <3> QED BY <1>2, <2>2, <3>1, <3>2 DEF MembersTypeOK
  <2> QED BY <2>1, <2>2
<1>5. ClearedIsAll'
  BY <1>1, <1>2 DEF ClearedIsAll, tableVars
<1>6. SyncInOrder'
  <2> SUFFICES ASSUME NEW t \in Syncs PROVE SyncInOrder!(t)'
    BY DEF SyncInOrder
  <2>1. CASE t # s
    BY <1>1, <1>2, <2>1 DEF SyncInOrder, MayKeep, MayDrop, MembersTypeOK
  <2>2. CASE t = s
    BY <1>1, <1>2, <2>2 DEF SyncInOrder, MayKeep, MayDrop, MembersTypeOK
  <2> QED BY <2>1, <2>2
<1>7. FlagIsUp' /\ AttendeesOfOneCrawl'
  BY <1>2 DEF FlagIsUp, AttendeesOfOneCrawl, tableVars
<1> QED BY <1>3, <1>4, <1>5, <1>6, <1>7
-----------------------------------------------------------------------------
(* The end of a sync.                                                      *)

\* Whatever the end, its rows are free again and the others keep theirs.
LEMMA EndsFrame ==
    ASSUME MembersInv, NEW s \in Syncs, Ends(s, TRUE) \/ Ends(s, FALSE)
    PROVE  /\ WritersHold' /\ SyncInOrder' /\ FlagIsUp'
           /\ holder' \in [Rows -> Syncs \cup {Nobody}]
           /\ step' = [step EXCEPT ![s] = "idle"]
           /\ crawl' \in [Syncs -> Read] /\ todo' \in [Syncs -> SUBSET Rows]
           /\ written' \in [Syncs -> Writes]
           /\ refreshing' \in BOOLEAN /\ cooling' \in BOOLEAN
           /\ written'[s].kept = {}
           /\ \A t \in Syncs \ {s} : written'[t] = written[t]
<1> USE DEF MembersInv
<1>1. /\ holder' = [r \in Rows |-> IF holder[r] = s THEN Nobody ELSE holder[r]]
      /\ step' = [step EXCEPT ![s] = "idle"]
      /\ crawl' = [crawl EXCEPT ![s] = NothingRead]
      /\ todo' = [todo EXCEPT ![s] = {}]
      /\ written' = [written EXCEPT ![s] = NothingWritten]
      /\ refreshing' = IF s = Refresh THEN FALSE ELSE refreshing
      /\ cooling' \in BOOLEAN
  BY DEF Ends, Flag, MembersTypeOK
<1>2. NothingRead \in Read /\ NothingWritten \in Writes
  BY DEF NothingRead, Read, NothingWritten, Writes
<1>3. /\ written'[s].kept = {} /\ written'[s].dropped = {}
      /\ \A t \in Syncs \ {s} : written'[t] = written[t]
  BY <1>1 DEF NothingWritten, MembersTypeOK
<1>4. WritersHold'
  <2> SUFFICES ASSUME NEW t \in Syncs, NEW q \in written'[t].kept \cup written'[t].dropped
               PROVE  holder'[q] = t
    BY DEF WritersHold
  <2>1. t # s /\ holder[q] = t /\ q \in Rows
    BY <1>3 DEF WritersHold, MembersTypeOK, Writes
  <2> QED BY <1>1, <2>1
<1>5. SyncInOrder'
  <2> SUFFICES ASSUME NEW t \in Syncs PROVE SyncInOrder!(t)'
    BY DEF SyncInOrder
  <2>1. CASE t = s
    BY <1>1, <1>3, <2>1 DEF SyncInOrder, MembersTypeOK
  <2>2. CASE t # s
    BY <1>1, <1>3, <2>2 DEF SyncInOrder, MayKeep, MayDrop, MembersTypeOK
  <2> QED BY <2>1, <2>2
<1>6. FlagIsUp'
  BY <1>1 DEF FlagIsUp, Syncs, MembersTypeOK
<1> QED BY <1>1, <1>2, <1>3, <1>4, <1>5, <1>6 DEF MembersTypeOK

LEMMA FailureKeepsInv ==
    ASSUME MembersInv, NEW s \in Syncs, Fails(s) \/ Deadlock(s)
    PROVE  MembersInv'
<1> USE DEF MembersInv
<1>1. /\ Ends(s, FALSE) /\ UNCHANGED <<pageVars, tableVars, changes, scripts>>
      /\ faults' \in 0..MaxFaults
  <2>1. CASE Fails(s)
    <3>1. faults \in 0..MaxFaults /\ faults < MaxFaults /\ faults' = faults + 1
      BY <2>1 DEF Fails, MembersTypeOK
    <3>2. faults' \in 0..MaxFaults
      BY <3>1
    <3> QED BY <2>1, <3>2 DEF Fails
  <2>2. CASE Deadlock(s)
    BY <2>2 DEF Deadlock, boundVars, MembersTypeOK
  <2> QED BY <2>1, <2>2
<1>2. MembersTypeOK'
  BY <1>1, EndsFrame DEF MembersTypeOK, pageVars, tableVars
<1>3. ClearedIsAll'
  <2>1. /\ written'[s].kept = {} /\ \A t \in Syncs \ {s} : written'[t] = written[t]
        /\ attendees' = attendees
    BY <1>1, EndsFrame DEF tableVars
  <2> QED BY <2>1 DEF ClearedIsAll
<1>4. AttendeesOfOneCrawl'
  BY <1>1 DEF AttendeesOfOneCrawl, tableVars
<1> QED BY <1>4, <1>1, <1>2, <1>3, EndsFrame

\* A commit replaces the attendees of the events it kept, all of them, and
\* touches no row that the other transaction holds.
LEMMA CommitKeepsInv ==
    ASSUME MembersInv, NEW s \in Syncs, Commit(s)
    PROVE  MembersInv'
<1> USE DEF MembersInv
<1> DEFINE w == written[s]
<1>1. /\ w.kept \subseteq Rows /\ w.dropped \subseteq Rows
      /\ w.cleared \in [Events -> SUBSET Syncs]
  BY DEF MembersTypeOK, Writes
<1>2. w.kept \cap w.dropped = {}
  <2>1. crawl[s].names \subseteq Names /\ crawl[s].events \subseteq Events
    BY DEF MembersTypeOK, Read
  <2>2. w.kept \subseteq MayKeep(s) /\ w.dropped \subseteq MayDrop(s)
    BY DEF SyncInOrder
  <2> QED BY <2>1, <2>2 DEF MayKeep, MayDrop, Rows
<1>3. Ends(s, TRUE) /\ UNCHANGED <<pageVars, boundVars>>
  BY DEF Commit
<1>4. /\ accounts' \in [Names -> Nat] /\ row' \in [Names -> Nat]
      /\ \A n \in Names : row'[n] <= accounts'[n]
  <2>1. accounts' = [n \in Names |-> IF n \in w.kept THEN AccountMade(n) ELSE accounts[n]]
    BY DEF Commit
  <2>2. row' = [n \in Names |-> IF n \in w.kept THEN KeptId(n)
                                 ELSE IF n \in w.dropped THEN 0 ELSE row[n]]
    BY DEF Commit
  <2>3. ASSUME NEW n \in Names
        PROVE  KeptId(n) \in Nat /\ AccountMade(n) \in Nat /\ KeptId(n) <= AccountMade(n)
    BY DEF KeptId, AccountMade, MembersTypeOK
  <2>4. ASSUME NEW n \in Names
        PROVE  row[n] \in Nat /\ accounts[n] \in Nat /\ row[n] <= accounts[n]
    BY DEF MembersTypeOK
  <2> HIDE DEF w
  <2> QED BY <2>1, <2>2, <2>3, <2>4
<1>5. /\ events' = (events \cup (w.kept \cap Events)) \ w.dropped
      /\ attendees' = [e \in Events |->
                         IF e \in w.kept THEN (attendees[e] \ w.cleared[e]) \cup {s}
                         ELSE IF e \in w.dropped THEN {} ELSE attendees[e]]
  BY DEF Commit
<1>6. \A e \in Events : e \in w.kept => attendees'[e] = {s}
  BY <1>5 DEF ClearedIsAll
<1>7. MembersTypeOK'
  <2>1. events' \subseteq Events /\ attendees' \in [Events -> SUBSET Syncs]
    BY <1>1, <1>5 DEF MembersTypeOK
  <2> QED BY <1>3, <1>4, <2>1, EndsFrame DEF MembersTypeOK, pageVars, boundVars
<1>8. ClearedIsAll'
  <2> SUFFICES ASSUME NEW t \in Syncs, NEW e \in written'[t].kept \cap Events
               PROVE  written'[t].cleared[e] = attendees'[e]
    BY DEF ClearedIsAll
  <2>1. t # s /\ written'[t] = written[t]
    BY <1>3, EndsFrame
  <2>2. holder[e] = t
    BY <2>1 DEF WritersHold
  <2>3. e \notin w.kept /\ e \notin w.dropped
    BY <2>1, <2>2 DEF WritersHold
  <2>4. attendees'[e] = attendees[e]
    BY <1>5, <2>3
  <2> QED BY <2>1, <2>4 DEF ClearedIsAll
<1>9. AttendeesOfOneCrawl'
  <2> SUFFICES ASSUME NEW e \in Events
               PROVE  /\ Cardinality(attendees'[e]) <= 1
                      /\ attendees'[e] # {} => e \in events'
    BY DEF AttendeesOfOneCrawl
  <2>1. CASE e \in w.kept
    <3>1. Cardinality({s}) = 1
      BY FS_Singleton
    <3>2. attendees'[e] = {s}
      BY <1>6, <2>1
    <3>3. e \in events'
      BY <1>2, <1>5, <2>1
    <3> QED BY <3>1, <3>2, <3>3
  <2>2. CASE e \notin w.kept /\ e \in w.dropped
    BY <1>5, <2>2, FS_EmptySet
  <2>3. CASE e \notin w.kept /\ e \notin w.dropped
    BY <1>5, <2>3 DEF AttendeesOfOneCrawl
  <2> QED BY <2>1, <2>2, <2>3
<1> QED BY <1>3, <1>7, <1>8, <1>9, EndsFrame

LEMMA RestartKeepsInv ==
    ASSUME MembersInv, ServerRestarts
    PROVE  MembersInv'
<1> USE DEF MembersInv
<1>1. NothingRead \in Read /\ NothingWritten \in Writes
  BY DEF NothingRead, Read, NothingWritten, Writes
<1>2. \A s \in Syncs : written'[s].kept = {} /\ written'[s].dropped = {}
  BY DEF ServerRestarts, NothingWritten
<1>3. /\ step' \in [Syncs -> {"idle", "crawling", "listed", "crawled"}]
      /\ step'[Refresh] = "idle"
  BY DEF ServerRestarts, Crawling, Syncs, MembersTypeOK
<1>4. crawl' \in [Syncs -> Read]
  BY <1>1 DEF ServerRestarts, Syncs, MembersTypeOK
<1>5. /\ holder' = [r \in Rows |-> Nobody] /\ todo' = [s \in Syncs |-> {}]
      /\ written' = [s \in Syncs |-> NothingWritten]
      /\ refreshing' = FALSE /\ cooling' = FALSE /\ faults' \in 0..MaxFaults
      /\ UNCHANGED <<pageVars, tableVars, changes, scripts>>
  BY DEF ServerRestarts, MembersTypeOK
<1>6. MembersTypeOK'
  BY <1>1, <1>3, <1>4, <1>5 DEF MembersTypeOK, pageVars, tableVars
<1>7. WritersHold' /\ ClearedIsAll' /\ FlagIsUp'
  BY <1>2, <1>3 DEF WritersHold, ClearedIsAll, FlagIsUp
<1>8. SyncInOrder'
  BY <1>2, <1>3, <1>5 DEF SyncInOrder
<1>9. AttendeesOfOneCrawl'
  BY <1>5 DEF AttendeesOfOneCrawl, tableVars
<1> QED BY <1>6, <1>7, <1>8, <1>9
-----------------------------------------------------------------------------
LEMMA SyncingKeepsInv ==
    ASSUME MembersInv, NEW s \in Syncs, Syncing(s) \/ Fails(s)
    PROVE  MembersInv'
<1>1. CASE NextStatement(s)
  BY <1>1, StatementKeepsInv
<1>2. ASSUME NEW r \in Rows, Upsert(s, r) PROVE MembersInv'
  BY <1>2, UpsertKeepsInv
<1>3. ASSUME NEW r \in Rows, Prune(s, r) PROVE MembersInv'
  BY <1>3, PruneKeepsInv
<1>4. CASE Commit(s)
  BY <1>4, CommitKeepsInv
<1>5. CASE Deadlock(s) \/ Fails(s)
  BY <1>5, FailureKeepsInv
<1> QED BY <1>1, <1>2, <1>3, <1>4, <1>5 DEF Syncing

LEMMA InvStep ==
    ASSUME MembersInv, [MembersNext]_membersVars
    PROVE  MembersInv'
<1>1. CASE UNCHANGED membersVars
  <2>1. UNCHANGED <<pageVars, tableVars, syncVars, refreshing, cooling, boundVars>>
    BY <1>1 DEF membersVars
  <2>2. MembersTypeOK'
    BY <2>1 DEF MembersInv, MembersTypeOK, pageVars, tableVars, syncVars, boundVars
  <2>3. SyncInOrder' /\ FlagIsUp'
    BY <2>1 DEF MembersInv, SyncInOrder, MayKeep, MayDrop, FlagIsUp, syncVars
  <2> QED BY <2>1, <2>2, <2>3, QuietFrame DEF syncVars
<1>2. CASE GroupChanges \/ Cooled \/ ScriptStarts \/ CronFires \/ ButtonPressed
  BY <1>2, StartKeepsInv
<1>3. CASE ServerRestarts
  BY <1>3, RestartKeepsInv
<1>4. ASSUME NEW names \in SUBSET group, ParseMembers(names) \/ ScriptParsesMembers(names)
      PROVE  MembersInv'
  <2>1. Refresh \in Syncs /\ Script \in Syncs /\ names \in SUBSET Rows
    BY DEF Syncs, Rows, MembersInv, MembersTypeOK
  <2> QED BY <1>4, <2>1, ReadKeepsInv DEF ParseMembers, ScriptParsesMembers
<1>5. ASSUME NEW found \in SUBSET board,
             ExtractEventCards(found) \/ ScriptExtractsEvents(found)
      PROVE  MembersInv'
  <2>1. Refresh \in Syncs /\ Script \in Syncs /\ found \in SUBSET Rows
    BY DEF Syncs, Rows, MembersInv, MembersTypeOK
  <2> QED BY <1>5, <2>1, ReadKeepsInv DEF ExtractEventCards, ScriptExtractsEvents
<1>6. ASSUME NEW s \in Syncs, Syncing(s) \/ Fails(s) PROVE MembersInv'
  BY <1>6, SyncingKeepsInv
<1> QED BY <1>1, <1>2, <1>3, <1>4, <1>5, <1>6 DEF MembersNext
-----------------------------------------------------------------------------
(* The theorems.                                                           *)

\* The inductive invariant: what each transaction of syncMembers has written,
\* may still write, and holds.
THEOREM MembersInvCorrect == MembersSpec => []MembersInv
<1>1. MembersInit => MembersInv
  BY InvInit
<1>2. MembersInv /\ [MembersNext]_membersVars => MembersInv'
  BY InvStep
<1> QED BY <1>1, <1>2, PTL DEF MembersSpec

\* The attendees of an event are those one crawl read, however the two syncs
\* overlap (upsertEvent, which locks the event's row first).
THEOREM AttendeesCorrect == MembersSpec => []AttendeesOfOneCrawl
<1>1. MembersInv => AttendeesOfOneCrawl
  BY DEF MembersInv
<1> QED BY <1>1, MembersInvCorrect, PTL

\* Only a commit writes to the tables.
LEMMA OnlyCommitWrites ==
    ASSUME MembersInv, [MembersNext]_membersVars
    PROVE  UNCHANGED tableVars \/ \E s \in Syncs : Commit(s) /\ step'[s] = "idle"
<1>1. ASSUME NEW s \in Syncs, Commit(s) PROVE step'[s] = "idle"
  BY <1>1 DEF Commit, Ends, MembersInv, MembersTypeOK
<1>2. CASE UNCHANGED membersVars
  BY <1>2 DEF membersVars
<1>3. CASE GroupChanges \/ Cooled \/ ScriptStarts \/ CronFires \/ ButtonPressed
  BY <1>3 DEF GroupChanges, Cooled, ScriptStarts, CronFires, ButtonPressed, RefreshAsked
<1>4. CASE ServerRestarts
  BY <1>4 DEF ServerRestarts
<1>5. ASSUME NEW s \in Syncs, NEW found \in SUBSET Rows,
             MembersRead(s, found) \/ EventsRead(s, found)
      PROVE  UNCHANGED tableVars
  BY <1>5 DEF MembersRead, EventsRead
<1>6. ASSUME NEW s \in Syncs, Fails(s) \/ Deadlock(s) \/ NextStatement(s)
      PROVE  UNCHANGED tableVars
  BY <1>6 DEF Fails, Deadlock, NextStatement, Outside
<1>7. ASSUME NEW s \in Syncs, NEW r \in Rows, Upsert(s, r) \/ Prune(s, r)
      PROVE  UNCHANGED tableVars
  BY <1>7 DEF Upsert, Prune, Outside
<1>8. /\ Refresh \in Syncs /\ Script \in Syncs
      /\ SUBSET group \subseteq SUBSET Rows /\ SUBSET board \subseteq SUBSET Rows
  BY DEF Syncs, Rows, MembersInv, MembersTypeOK
<1> QED BY <1>1, <1>2, <1>3, <1>4, <1>5, <1>6, <1>7, <1>8
     DEF MembersNext, Syncing, ParseMembers, ScriptParsesMembers, ExtractEventCards,
         ScriptExtractsEvents

\* A member of the list loses the row, and the id with it, only by the commit of
\* a crawl that found members and not this one (pruneStaleMembers).
THEOREM AccountsCorrect == MembersSpec => AccountsSurvive
<1>1. ASSUME MembersInv, [MembersNext]_membersVars, NEW n \in Names,
             row[n] # 0, row'[n] # row[n]
      PROVE  /\ row'[n] = 0
             /\ \E s \in Syncs : /\ step[s] = "commit" /\ step'[s] = "idle"
                                 /\ crawl[s].names # {} /\ n \notin crawl[s].names
  <2>1. PICK s \in Syncs : Commit(s) /\ step'[s] = "idle"
    BY <1>1, OnlyCommitWrites DEF tableVars
  <2>2. n \notin written[s].kept /\ n \in written[s].dropped /\ row'[n] = 0
    BY <1>1, <2>1 DEF Commit, KeptId
  <2>3. n \in MayDrop(s) /\ n \notin Events
    BY <1>1, <2>2 DEF MembersInv, SyncInOrder
  <2>4. crawl[s].names # {} /\ n \notin crawl[s].names
    BY <2>3 DEF MayDrop, MayKeep
  <2>5. step[s] = "commit"
    BY <2>1 DEF Commit
  <2> QED BY <2>1, <2>2, <2>4, <2>5
<1>2. MembersInv /\ [MembersNext]_membersVars =>
        [\A n \in Names :
           row[n] # 0 /\ row'[n] # row[n] =>
              /\ row'[n] = 0
              /\ \E s \in Syncs : /\ step[s] = "commit" /\ step'[s] = "idle"
                                  /\ crawl[s].names # {} /\ n \notin crawl[s].names
        ]_membersVars
  BY <1>1
<1> QED BY <1>2, MembersInvCorrect, PTL DEF MembersSpec, AccountsSurvive

\* An event that was over when a sync began is deleted by no commit of it
\* (pruneStaleFutureEvents).
THEOREM HistoryCorrect == MembersSpec => HistoryIsKept
<1>1. ASSUME MembersInv, [MembersNext]_membersVars,
             NEW e \in Events, e \in events, e \notin events'
      PROVE  \E s \in Syncs : /\ step[s] = "commit" /\ step'[s] = "idle"
                              /\ e \notin written[s].over
  <2>1. PICK s \in Syncs : Commit(s) /\ step'[s] = "idle"
    BY <1>1, OnlyCommitWrites DEF tableVars
  <2>2. e \in written[s].dropped
    BY <1>1, <2>1 DEF Commit
  <2>3. e \notin written[s].over
    BY <1>1, <2>2 DEF MembersInv, SyncInOrder, MayDrop
  <2> QED BY <2>1, <2>3 DEF Commit
<1>2. MembersInv /\ [MembersNext]_membersVars =>
        [LosesNoHistory]_membersVars
  BY <1>1 DEF LosesNoHistory
<1> QED BY <1>2, MembersInvCorrect, PTL DEF MembersSpec, HistoryIsKept
=============================================================================
