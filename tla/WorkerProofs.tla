---------------------------- MODULE WorkerProofs ----------------------------
(***************************************************************************)
(* How the worker process gets the tablet to itself, and what it does with *)
(* it.                                                                     *)
(*                                                                         *)
(* The lock file keeps the tablet to one worker, for any number of worker  *)
(* processes, provided that no two of them start at the same time.  The    *)
(* invariant LockInv says who owns the file at every point of a start.     *)
(*                                                                         *)
(* The search for the tablet gives a job to another device, and leaves a   *)
(* stranger ready, only where adb itself let it past the check of the      *)
(* serial number: for any number of devices, addresses and failing         *)
(* commands, whatever moves between two of them.  DeviceInv says where a   *)
(* stranger may be ready at each stage of the search.                      *)
(*                                                                         *)
(* What the handlers do on the tablet is what their jobs ask for, whatever *)
(* the app, the keyboard and missed taps do meanwhile.  SubmitInv carries  *)
(* what has been verified from the form to the club; LeftoversInv, that    *)
(* the form is filled whatever was left in it; and the handlers implement  *)
(* JobHandler.  For any number of meetups, titles, jobs and requests.      *)
(***************************************************************************)
EXTENDS WorkerLock, Device, Tablet, TLAPS

-----------------------------------------------------------------------------
(* The lock file (worker/lock.js).                                         *)

\* Every step of a process preserves the invariant.
LEMMA LockStepInv ==
    ASSUME OneStart, LockInv, [LockNext]_vars
    PROVE  LockInv'
<1> USE LockAssumption DEF LockInv, LockTypeOK, Control, Starting, Holding, Proceed
<1>1. CASE UNCHANGED vars
  BY <1>1 DEF vars, Alive
<1>2. ASSUME NEW p \in Processes, Start(p) PROVE LockInv'
  BY <1>2 DEF Start, Alive
<1>3. ASSUME NEW p \in Processes, Open(p) PROVE LockInv'
  BY <1>3 DEF Open, Alive
<1>4. ASSUME NEW p \in Processes, WritePid(p) PROVE LockInv'
  BY <1>4 DEF WritePid, Alive
<1>5. ASSUME NEW p \in Processes, ReadHolder(p) PROVE LockInv'
  BY <1>5 DEF ReadHolder, Pid, Alive
<1>6. ASSUME NEW p \in Processes, CheckHolder(p) PROVE LockInv'
  BY <1>6 DEF CheckHolder, MayTakeOver, Alive
<1>7. ASSUME NEW p \in Processes, Unlink(p) PROVE LockInv'
  BY <1>7 DEF Unlink, Alive
<1>8. ASSUME NEW p \in Processes, Reopen(p) PROVE LockInv'
  BY <1>8 DEF Reopen, Alive
<1>9. ASSUME NEW p \in Processes, Finish(p) \/ ReadOwn(p) PROVE LockInv'
  BY <1>9 DEF Finish, ReadOwn, Pid, Alive
<1>10. ASSUME NEW p \in Processes, UnlinkOwn(p) PROVE LockInv'
  BY <1>10 DEF UnlinkOwn, Alive
<1>11. ASSUME NEW p \in Processes, Die(p) PROVE LockInv'
  BY <1>11 DEF Die, Alive
<1>12. QED
  BY <1>1, <1>2, <1>3, <1>4, <1>5, <1>6, <1>7, <1>8, <1>9, <1>10, <1>11
  DEF LockNext

\* A process that gives up has met a worker that holds the lock.
LEMMA RefusalStep ==
    ASSUME LockInv, LockNext,
           NEW p \in Processes, pc[p] # "refused", pc'[p] = "refused"
    PROVE  \E q \in Processes \ {p} : pc[q] \in Holding
<1> USE LockAssumption DEF LockInv, LockTypeOK, Control, Starting, Holding, Proceed
<1>1. CheckHolder(p) \/ Reopen(p)
  BY DEF LockNext, Start, Open, WritePid, ReadHolder, CheckHolder, Unlink, Reopen,
         Finish, ReadOwn, UnlinkOwn, Die
<1>2. CASE CheckHolder(p)
  <2>1. Alive(holder[p]) /\ holder[p] \in Processes
    BY <1>2 DEF CheckHolder, MayTakeOver, Alive
  <2> QED BY <1>2, <2>1 DEF CheckHolder, Alive
<1>3. CASE Reopen(p)
  BY <1>3 DEF Reopen
<1>4. QED BY <1>1, <1>2, <1>3

\* LockInv holds throughout when starts do not overlap.
THEOREM LockInvCorrect ==
    ASSUME OneStart
    PROVE  LockSpec => []LockInv
<1>1. LockInit => LockInv
  BY LockAssumption
  DEF LockInit, LockInv, LockTypeOK, Control, Starting, Holding, Alive
<1>2. LockInv /\ [LockNext]_vars => LockInv'
  BY LockStepInv
<1>3. QED BY <1>1, <1>2, PTL DEF LockSpec

\* There is never a second worker on the tablet (lock.js:7).
THEOREM OneWorkerCorrect ==
    ASSUME OneStart
    PROVE  LockSpec => []OneWorker
<1>1. LockInv => OneWorker
  BY DEF LockInv, OneWorker, Holding
<1>2. QED BY <1>1, LockInvCorrect, PTL

\* What a dead process left behind refuses nobody (lock.js:11).
THEOREM RefusalCorrect ==
    ASSUME OneStart
    PROVE  LockSpec => RefusedByWorker
<1>1. LockInv /\ [LockNext]_vars =>
        [\A p \in Processes :
            pc[p] # "refused" /\ pc'[p] = "refused" =>
                \E q \in Processes \ {p} : pc[q] \in Holding]_vars
  BY RefusalStep DEF vars
<1>2. QED BY <1>1, LockInvCorrect, PTL DEF LockSpec, RefusedByWorker
-----------------------------------------------------------------------------
(* The search for the device (worker/adb.js).                              *)

USE DeviceAssumption

\* The device that adb reaches at an address is the one that listens there.
LEMMA AtListens ==
    ASSUME DeviceInv, NEW a \in Address
    PROVE  /\ At(a) \in Devices \cup {Nowhere}
           /\ At(a) \in Devices => place[At(a)] = a
           /\ At(a) = Tablet => place[Tablet] = a
           /\ At(a) \in Strangers => Strange(a)
<1>1. CASE Listening(a)
  <2>1. At(a) \in Devices /\ place[At(a)] = a
    BY <1>1 DEF At, Listening
  <2> QED BY <2>1 DEF Strange
<1>2. CASE ~Listening(a)
  <2>1. At(a) = Nowhere /\ Nowhere \notin Devices
    BY <1>2 DEF At
  <2> QED BY <2>1 DEF Devices
<1> QED BY <1>1, <1>2

\* No stranger is at the configured host, where the router reserves it.
LEMMA HomeIsNotStrange ==
    ASSUME DeviceInv, HomeReserved, NEW a \in Address, a.host = Home
    PROVE  ~Strange(a)
BY DEF DeviceInv, HomeIsKept, Strange

\* What has slipped stays so while it is ready, and what is named joins it.
LEMMA SlippedStays ==
    ASSUME DeviceInv, NEW as \in SUBSET Address, Slips(as)
    PROVE  /\ slipped' \subseteq Address
           /\ \A b \in slipped \cup as : link'[b] = "device" => b \in slipped'
BY DEF Slips, DeviceInv, DeviceTypeOK

\* Faults are counted, or they stay what they are.
LEMMA FaultsCounted ==
    ASSUME DeviceInv, AdbFails \/ UNCHANGED faults
    PROVE  faults' \in 0..MaxFaults
BY DEF AdbFails, DeviceInv, DeviceTypeOK

LEMMA InvInit == DeviceInit => DeviceInv
<1> SUFFICES ASSUME DeviceInit PROVE DeviceInv
  OBVIOUS
<1> USE DEF DeviceInit
<1>1. HomeAddress \in Address /\ Home \in Hosts /\ Tablet \in Devices
  BY DEF HomeAddress, Address, Devices, Port
<1>2. DeviceTypeOK
  BY <1>1 DEF DeviceTypeOK
<1>3. HostsDiffer /\ HomeIsKept
  BY <1>1 DEF HostsDiffer, HomeIsKept, Devices
<1>4. SearchInOrder
  BY DEF SearchInOrder
<1>5. TriedIsTablet /\ ConfirmedIsTablet
  BY DEF TriedIsTablet, ConfirmedIsTablet, Cleared, Estranged
<1> QED BY <1>2, <1>3, <1>4, <1>5 DEF DeviceInv
-----------------------------------------------------------------------------
(* The network.                                                            *)

\* Steps that are not the search's: what they make ready for a stranger slips.
LEMMA NetworkFrame ==
    ASSUME DeviceInv, UNCHANGED <<mdnsWorks, resolveVars, watchVars>>,
           DeviceTypeOK', (HostsDiffer /\ HomeIsKept)',
           \A b \in Address : Estranged(b)' =>
               (Estranged(b) /\ b \notin slipped) \/ b \in slipped'
    PROVE  DeviceInv'
<1> USE DEF DeviceInv, resolveVars, watchVars
<1>1. SearchInOrder'
  BY DEF SearchInOrder
<1>2. \A b \in Address : SerialAsked(b)' <=> SerialAsked(b)
  BY DEF SerialAsked
<1>3. \A b \in Address : Cleared(b) => Cleared(b)'
  BY <1>2 DEF Cleared
<1>4. TriedIsTablet' /\ ConfirmedIsTablet'
  BY <1>3 DEF TriedIsTablet, ConfirmedIsTablet, DeviceTypeOK
<1> QED BY <1>1, <1>4

LEMMA MovesKeepInv ==
    ASSUME DeviceInv, NEW d \in Devices, NEW a \in Address \cup {Nowhere}, Moves(d, a)
    PROVE  DeviceInv'
<1> USE DEF DeviceInv, Moves
<1>1. link' \in [Address -> {"none", "device", "offline"}]
  BY DEF DeviceTypeOK
<1>2. place' = [place EXCEPT ![d] = a] /\ place' \in [Devices -> Address \cup {Nowhere}]
  BY DEF DeviceTypeOK
<1>3. /\ slipped' \subseteq Address
      /\ \A b \in slipped : link'[b] = "device" => b \in slipped'
  BY SlippedStays
<1>4. DeviceTypeOK'
  BY <1>1, <1>2, <1>3 DEF DeviceTypeOK, resolveVars, watchVars
<1>5. HostsDiffer'
  BY <1>2 DEF DeviceTypeOK, HostsDiffer
<1>6. HomeIsKept'
  BY <1>2 DEF DeviceTypeOK, HomeIsKept, Devices
<1>7. ASSUME NEW b \in Address, Estranged(b)'
      PROVE  (Estranged(b) /\ b \notin slipped) \/ b \in slipped'
  <2>1. link'[b] = "device" /\ link[b] = "device" /\ b # a
    BY <1>7 DEF Estranged, DeviceTypeOK
  <2>2. PICK e \in Strangers : place'[e] = b
    BY <1>7 DEF Estranged, Strange
  <2>3. e # d /\ place[e] = b
    BY <1>2, <2>1, <2>2 DEF DeviceTypeOK, Devices
  <2>4. Estranged(b)
    BY <2>1, <2>3 DEF Estranged, Strange
  <2> QED BY <1>3, <2>1, <2>4
<1> QED BY <1>4, <1>5, <1>6, <1>7, NetworkFrame

LEMMA SettlesKeepsInv ==
    ASSUME DeviceInv, NEW a \in Address, Settles(a)
    PROVE  DeviceInv'
<1> USE DEF DeviceInv, Settles
<1>1. /\ link' \in [Address -> {"none", "device", "offline"}]
      /\ \A b \in Address \ {a} : link'[b] = link[b]
  BY DEF LinkDrops, OfflineEnds, DeviceTypeOK
<1>2. /\ slipped' \subseteq Address
      /\ \A b \in slipped \cup (IF Strange(a) THEN {a} ELSE {}) :
            link'[b] = "device" => b \in slipped'
  BY SlippedStays
<1>3. DeviceTypeOK'
  BY <1>1, <1>2 DEF DeviceTypeOK, resolveVars, watchVars
<1>4. HostsDiffer' /\ HomeIsKept'
  BY DEF HostsDiffer, HomeIsKept
<1>5. ASSUME NEW b \in Address, Estranged(b)'
      PROVE  (Estranged(b) /\ b \notin slipped) \/ b \in slipped'
  <2>1. link'[b] = "device" /\ Strange(b)
    BY <1>5 DEF Estranged, Strange
  <2>2. CASE b = a
    BY <1>2, <2>1, <2>2
  <2>3. CASE b # a
    BY <1>1, <1>2, <2>1, <2>3 DEF Estranged
  <2> QED BY <2>2, <2>3
<1> QED BY <1>3, <1>4, <1>5, NetworkFrame
-----------------------------------------------------------------------------
(* The search.                                                             *)

\* Steps of the search that connect and confirm nothing.
LEMMA SearchFrame ==
    ASSUME DeviceInv, UNCHANGED <<mdnsWorks, place, link, slipped, confirmed>>,
           DeviceTypeOK', SearchInOrder', attempted' \subseteq attempted,
           stage # "serial"
    PROVE  DeviceInv'
<1> USE DEF DeviceInv
<1>1. HostsDiffer' /\ HomeIsKept'
  BY DEF HostsDiffer, HomeIsKept
<1>2. \A b \in Address : (Estranged(b)' <=> Estranged(b)) /\ ~SerialAsked(b)
  BY DEF Estranged, Strange, SerialAsked
<1>3. \A b \in Address : Cleared(b) => Cleared(b)'
  BY <1>2 DEF Cleared
<1>4. TriedIsTablet'
  BY <1>3 DEF TriedIsTablet, DeviceTypeOK
<1>5. ConfirmedIsTablet'
  BY <1>3 DEF ConfirmedIsTablet
<1> QED BY <1>1, <1>4, <1>5

LEMMA ReturnKeepsInv ==
    ASSUME DeviceInv, stage \in {"select", "reselect"}, faults' \in 0..MaxFaults,
           NEW d \in Devices \cup {Nowhere}, NEW status \in {"online", "offline"},
           Return(d, status)
    PROVE  DeviceInv'
<1>1. /\ watch' \in {"unknown", "online", "offline"}
      /\ sent' \in {"started", "lost", "recovered"}
  <2>1. CASE asker = "check"
    BY <2>1 DEF Return, Record, Sent, Event, DeviceInv, DeviceTypeOK
  <2>2. CASE asker # "check"
    BY <2>2 DEF Return, NoAlert, watchVars, DeviceInv, DeviceTypeOK
  <2> QED BY <2>1, <2>2
<1>2. DeviceTypeOK'
  BY <1>1 DEF Return, DeviceInv, DeviceTypeOK
<1>3. SearchInOrder'
  BY DEF Return, SearchInOrder
<1> QED BY <1>2, <1>3, SearchFrame DEF Return

\* Ask, the first look, and the steps from one scan to the next.
LEMMA LookKeepsInv ==
    ASSUME DeviceInv,
           \/ \E who \in {"check", "job"} : Ask(who)
           \/ NotSelected \/ NothingLeft
    PROVE  DeviceInv'
<1> USE DEF DeviceInv, networkVars, watchVars, NoAlert
<1>1. CASE \E who \in {"check", "job"} : Ask(who)
  <2>1. DeviceTypeOK' /\ SearchInOrder'
    BY <1>1 DEF Ask, DeviceTypeOK, SearchInOrder
  <2> QED BY <1>1, <2>1, SearchFrame DEF Ask
<1>2. CASE NotSelected
  <2>1. faults' \in 0..MaxFaults
    BY <1>2, FaultsCounted DEF NotSelected, NoneListed
  <2>2. DeviceTypeOK' /\ SearchInOrder'
    BY <1>2, <2>1 DEF NotSelected, DeviceTypeOK, SearchInOrder
  <2> QED BY <1>2, <2>2, SearchFrame DEF NotSelected
<1>3. CASE NothingLeft
  <2>1. /\ OpenPorts \subseteq Address /\ OpenHosts \subseteq Address
        /\ \A a \in OpenPorts : a.host = Home
        /\ \A a \in OpenHosts : a.port = "fixed"
    BY DEF OpenPorts, OpenHosts
  <2>2. DeviceTypeOK'
    BY <1>3, <2>1 DEF NothingLeft, Enter, DeviceTypeOK
  <2>3. SearchInOrder'
    BY <1>3, <2>1 DEF NothingLeft, Enter, SearchInOrder
  <2>4. stage # "serial"
    BY <1>3 DEF NothingLeft
  <2> QED BY <1>3, <2>2, <2>3, <2>4, SearchFrame DEF NothingLeft
<1> QED BY <1>1, <1>2, <1>3

\* What adb connect brings about at one address, and only there.
LEMMA ConnectLinks ==
    ASSUME DeviceInv, NEW a \in Address, UNCHANGED place,
           Connect(a, TRUE) \/ Connect(a, FALSE)
    PROVE  /\ link' \in [Address -> {"none", "device", "offline"}]
           /\ slipped' \subseteq Address /\ faults' \in 0..MaxFaults
           /\ (HostsDiffer /\ HomeIsKept)'
           /\ \A b \in Address : Estranged(b)' => b = a \/ Estranged(b)
           /\ \A b \in slipped : Estranged(b)' => b \in slipped'
           /\ HomeReserved /\ a.host = Home => ~Estranged(a)'
<1> USE DEF Connect, ConnectWorks, ConnectFails
<1>1. /\ link' \in [Address -> {"none", "device", "offline"}]
      /\ \A b \in Address \ {a} : link'[b] = link[b]
  BY DEF DeviceInv, DeviceTypeOK
<1>2. Slips({}) \/ Slips(IF Strange(a) THEN {a} ELSE {})
  OBVIOUS
<1>3. /\ slipped' \subseteq Address
      /\ \A b \in slipped : link'[b] = "device" => b \in slipped'
  BY <1>2, SlippedStays
<1>4. faults' \in 0..MaxFaults
  BY FaultsCounted
<1>5. (HostsDiffer /\ HomeIsKept)'
  BY DEF DeviceInv, HostsDiffer, HomeIsKept
<1>6. Strange(a)' <=> Strange(a)
  BY DEF Strange
<1>7. \A b \in Address : Estranged(b)' => b = a \/ Estranged(b)
  BY <1>1 DEF Estranged, Strange
<1>8. \A b \in slipped : Estranged(b)' => b \in slipped'
  BY <1>3 DEF Estranged
<1>9. HomeReserved /\ a.host = Home => ~Estranged(a)'
  BY <1>6, HomeIsNotStrange DEF Estranged
<1> QED BY <1>1, <1>3, <1>4, <1>5, <1>7, <1>8, <1>9

\* Another answer leaves no stranger ready that has not slipped.
LEMMA ConnectRefused ==
    ASSUME DeviceInv, NEW a \in Address, UNCHANGED place, Connect(a, FALSE)
    PROVE  Estranged(a)' => a \in slipped'
<1>1. CASE ConnectWorks(a, FALSE)
  <2>1. link[a] = "none"
    BY <1>1 DEF ConnectWorks, Connects
  <2>2. link'[a] # "device"
    BY <1>1, <2>1 DEF ConnectWorks, DeviceInv, DeviceTypeOK
  <2> QED BY <2>2 DEF Estranged
<1>2. CASE ConnectFails(a, FALSE)
  <2>1. /\ Slips(IF Strange(a) THEN {a} ELSE {})
        /\ Strange(a)' <=> Strange(a)
    BY <1>2 DEF ConnectFails, Strange
  <2>2. \A b \in slipped \cup (IF Strange(a) THEN {a} ELSE {}) :
            link'[b] = "device" => b \in slipped'
    BY <2>1, SlippedStays
  <2> QED BY <2>1, <2>2 DEF Estranged
<1> QED BY <1>1, <1>2 DEF Connect

LEMMA TryHomeKeepsInv ==
    ASSUME DeviceInv, TryHome
    PROVE  DeviceInv'
<1> USE DEF DeviceInv, NoAlert, watchVars, TryHome
<1>1. HomeAddress \in Address /\ HomeAddress.host = Home
  BY DEF HomeAddress, Address, Port
<1>2. /\ link' \in [Address -> {"none", "device", "offline"}]
      /\ slipped' \subseteq Address /\ faults' \in 0..MaxFaults
      /\ (HostsDiffer /\ HomeIsKept)'
      /\ \A b \in Address : Estranged(b)' => b = HomeAddress \/ Estranged(b)
      /\ \A b \in slipped : Estranged(b)' => b \in slipped'
      /\ HomeReserved => ~Estranged(HomeAddress)'
  BY <1>1, ConnectLinks
<1>3. Advertised \subseteq Address /\ (\A a \in Advertised : mdnsWorks /\ a.port = "random")
  BY DEF Advertised
<1>4. DeviceTypeOK'
  BY <1>1, <1>2, <1>3 DEF DeviceTypeOK, ConfirmedAfterHome, Enter
<1>5. SearchInOrder'
  BY <1>1, <1>3 DEF SearchInOrder, Enter, HomeAddress
<1>6. TriedIsTablet'
  BY <1>2 DEF TriedIsTablet, Cleared
<1>7. CASE Connect(HomeAddress, TRUE) /\ confirmed' = ConfirmedAfterHome
  <2>1. ConfirmedIsTablet'
    BY <1>7 DEF ConfirmedIsTablet, ConfirmedAfterHome, Address
  <2> QED BY <1>2, <1>4, <1>5, <1>6, <2>1
<1>8. CASE UNCHANGED confirmed
  <2>1. \A b \in Address : ~SerialAsked(b)
    BY DEF SerialAsked
  <2>2. HomeReserved => \A b \in Address : Cleared(b) => Cleared(b)'
    BY <1>2, <2>1 DEF Cleared
  <2>3. ConfirmedIsTablet'
    BY <1>8, <2>2 DEF ConfirmedIsTablet
  <2> QED BY <1>2, <1>4, <1>5, <1>6, <2>3
<1> QED BY <1>7, <1>8

\* tryAddress of each scan: what is connected is a service, at the configured
\* host, or asked for its serial number next.
LEMMA TryKeepsInv ==
    ASSUME DeviceInv, NEW a \in Address, TryService(a) \/ TryPort(a) \/ TryHost(a)
    PROVE  DeviceInv'
<1> USE DEF DeviceInv, NoAlert, watchVars
<1>1. /\ a \in todo /\ attempted' = attempted \cup {a}
      /\ stage \in {"mdns", "ports", "hosts"}
      /\ UNCHANGED <<mdnsWorks, place, asker, confirmed, using, watch, sent>>
      /\ Connect(a, TRUE) \/ Connect(a, FALSE)
  BY DEF TryService, TryPort, TryHost, Try
<1>2. /\ link' \in [Address -> {"none", "device", "offline"}]
      /\ slipped' \subseteq Address /\ faults' \in 0..MaxFaults
      /\ (HostsDiffer /\ HomeIsKept)'
      /\ \A b \in Address : Estranged(b)' => b = a \/ Estranged(b)
      /\ \A b \in slipped : Estranged(b)' => b \in slipped'
      /\ HomeReserved /\ a.host = Home => ~Estranged(a)'
  BY <1>1, ConnectLinks
<1>3. \A b \in Address : ~SerialAsked(b)
  BY <1>1 DEF SerialAsked
<1>4. \A b \in Address \ {a} : Cleared(b) => Cleared(b)'
  BY <1>2, <1>3 DEF Cleared
<1>5. CASE Connect(a, FALSE) /\ UNCHANGED stage /\ todo' = todo \ {a}
  <2>1. Cleared(a)'
    BY <1>1, <1>5, ConnectRefused DEF Cleared
  <2>2. DeviceTypeOK'
    BY <1>1, <1>2, <1>5 DEF DeviceTypeOK
  <2>3. SearchInOrder'
    BY <1>1, <1>5 DEF SearchInOrder
  <2>4. TriedIsTablet'
    BY <1>1, <1>4, <2>1 DEF TriedIsTablet, DeviceTypeOK
  <2>5. ConfirmedIsTablet'
    BY <1>1, <1>4, <2>1 DEF ConfirmedIsTablet
  <2> QED BY <1>2, <2>2, <2>3, <2>4, <2>5
<1>6. CASE stage = "mdns" /\ Enter("reselect", {})
  <2>1. mdnsWorks /\ a.port = "random" /\ stage' = "reselect" /\ todo' = {}
    BY <1>1, <1>6 DEF Enter, SearchInOrder
  <2>2. DeviceTypeOK'
    BY <1>1, <1>2, <2>1 DEF DeviceTypeOK
  <2>3. SearchInOrder'
    BY <2>1 DEF SearchInOrder
  <2>4. TriedIsTablet'
    BY <1>1, <1>4, <2>1 DEF TriedIsTablet, DeviceTypeOK
  <2>5. ConfirmedIsTablet'
    BY <1>1, <2>1 DEF ConfirmedIsTablet
  <2> QED BY <1>2, <2>2, <2>3, <2>4, <2>5
<1>7. CASE stage = "ports" /\ Enter("hosts", OpenHosts)
  <2>1. /\ a.host = Home /\ stage' = "hosts"
        /\ todo' \subseteq Address /\ (\A b \in todo' : b.port = "fixed")
        /\ todo' \cap attempted' = {}
    BY <1>1, <1>7 DEF Enter, SearchInOrder, OpenHosts
  <2>2. HomeReserved => Cleared(a)'
    BY <1>2, <2>1 DEF Cleared
  <2>3. DeviceTypeOK'
    BY <1>1, <1>2, <2>1 DEF DeviceTypeOK
  <2>4. SearchInOrder'
    BY <2>1 DEF SearchInOrder
  <2>5. TriedIsTablet'
    BY <1>1, <1>4, <2>2 DEF TriedIsTablet, DeviceTypeOK
  <2>6. ConfirmedIsTablet'
    BY <1>1, <1>4, <2>2 DEF ConfirmedIsTablet
  <2> QED BY <1>2, <2>3, <2>4, <2>5, <2>6
<1>8. CASE stage = "hosts" /\ stage' = "serial" /\ todo' = todo
  <2>1. Cleared(a)'
    BY <1>1, <1>8 DEF Cleared, SerialAsked
  <2>2. DeviceTypeOK'
    BY <1>1, <1>2, <1>8 DEF DeviceTypeOK
  <2>3. SearchInOrder'
    BY <1>1, <1>8 DEF SearchInOrder
  <2>4. TriedIsTablet'
    BY <1>1, <1>4, <2>1 DEF TriedIsTablet, DeviceTypeOK
  <2>5. ConfirmedIsTablet'
    BY <1>1, <1>4, <2>1 DEF ConfirmedIsTablet
  <2> QED BY <1>2, <2>2, <2>3, <2>4, <2>5
<1>9. \/ Connect(a, FALSE) /\ UNCHANGED stage /\ todo' = todo \ {a}
      \/ stage = "mdns" /\ Enter("reselect", {})
      \/ stage = "ports" /\ Enter("hosts", OpenHosts)
      \/ stage = "hosts" /\ stage' = "serial" /\ todo' = todo
  BY DEF TryService, TryPort, TryHost, Try
<1> QED BY <1>5, <1>6, <1>7, <1>8, <1>9

\* The host is confirmed if the tablet answers.
LEMMA ExpectedKeepsInv ==
    ASSUME DeviceInv, NEW a \in Address, CheckSerial(a), Expected(a)
    PROVE  DeviceInv'
<1> USE DEF DeviceInv, NoAlert, watchVars, CheckSerial, Expected
<1>1. a \in todo \cap attempted /\ \A b \in Address : SerialAsked(b) => b = a
  BY DEF SearchInOrder, SerialAsked
<1>2. place[Tablet] = a
  BY AtListens DEF IsExpectedDevice
<1>3. confirmed' = a.host /\ a.host \in Hosts
  BY DEF HostOf, Address
<1>4. stage' = "reselect" /\ todo' = {}
  BY DEF Enter
<1>5. DeviceTypeOK'
  BY <1>3, <1>4 DEF DeviceTypeOK
<1>6. HostsDiffer' /\ HomeIsKept' /\ SearchInOrder'
  BY <1>4 DEF HostsDiffer, HomeIsKept, SearchInOrder
<1>7. \A b \in Address : Estranged(b)' <=> Estranged(b)
  BY DEF Estranged, Strange
<1>8. ASSUME NEW b \in Address, b.host = a.host
      PROVE  ~Strange(b)
  <2>1. a # Nowhere /\ b # Nowhere /\ Tablet \in Devices
    BY DEF Devices
  <2>2. \A d \in Strangers : d \in Devices /\ d # Tablet
    BY DEF Devices
  <2> QED BY <1>2, <1>8, <2>1, <2>2 DEF HostsDiffer, Strange
<1>9. TriedIsTablet'
  <2>1. \A b \in Address : Cleared(b) => b = a \/ Cleared(b)'
    BY <1>1, <1>7 DEF Cleared
  <2>2. Cleared(a)'
    BY <1>7, <1>8 DEF Cleared, Estranged
  <2> QED BY <2>1, <2>2 DEF TriedIsTablet, DeviceTypeOK
<1>10. ConfirmedIsTablet'
  BY <1>3, <1>7, <1>8 DEF ConfirmedIsTablet, Cleared, Estranged
<1> QED BY <1>5, <1>6, <1>9, <1>10

\* If not, it is let go, or it slips.
LEMMA UnexpectedKeepsInv ==
    ASSUME DeviceInv, NEW a \in Address, CheckSerial(a), Unexpected(a)
    PROVE  DeviceInv'
<1> USE DEF DeviceInv, NoAlert, watchVars, CheckSerial, Unexpected
<1>1. a \in todo \cap attempted /\ \A b \in Address : SerialAsked(b) => b = a
  BY DEF SearchInOrder, SerialAsked
<1>2. /\ link' \in [Address -> {"none", "device", "offline"}]
      /\ \A b \in Address : link'[b] = "device" => link[b] = "device"
  BY DEF DeviceTypeOK, Disconnected
<1>3. Slips({}) \/ Slips(IF Strange(a) THEN {a} ELSE {})
  OBVIOUS
<1>4. /\ slipped' \subseteq Address
      /\ \A b \in slipped : link'[b] = "device" => b \in slipped'
  BY <1>3, SlippedStays
<1>5. faults' \in 0..MaxFaults
  BY FaultsCounted
<1>6. DeviceTypeOK'
  BY <1>2, <1>4, <1>5 DEF DeviceTypeOK
<1>7. HostsDiffer' /\ HomeIsKept' /\ SearchInOrder'
  BY <1>1 DEF HostsDiffer, HomeIsKept, SearchInOrder
<1>8. Strange(a)' <=> Strange(a)
  BY DEF Strange
<1>9. Estranged(a)' => a \in slipped'
  <2>1. CASE link' = Disconnected(a)
    BY <2>1 DEF Disconnected, DeviceTypeOK, Estranged
  <2>2. CASE Slips(IF Strange(a) THEN {a} ELSE {})
    <3>1. \A b \in slipped \cup (IF Strange(a) THEN {a} ELSE {}) :
              link'[b] = "device" => b \in slipped'
      BY <2>2, SlippedStays
    <3> QED BY <1>8, <3>1 DEF Estranged
  <2> QED BY <2>1, <2>2
<1>10. \A b \in Address : Cleared(b) => Cleared(b)'
  <2>1. \A b \in Address : Estranged(b)' => Estranged(b) /\ link'[b] = "device"
    BY <1>2 DEF Estranged, Strange
  <2> QED BY <1>1, <1>4, <1>9, <2>1 DEF Cleared
<1>11. TriedIsTablet' /\ ConfirmedIsTablet'
  BY <1>10 DEF TriedIsTablet, ConfirmedIsTablet, DeviceTypeOK
<1> QED BY <1>6, <1>7, <1>11

LEMMA WorkerRestartsKeepsInv ==
    ASSUME DeviceInv, WorkerRestarts
    PROVE  DeviceInv'
<1> USE DEF DeviceInv, WorkerRestarts
<1>1. faults' \in 0..MaxFaults
  BY DEF DeviceTypeOK
<1>2. DeviceTypeOK'
  BY <1>1 DEF DeviceTypeOK
<1>3. HostsDiffer' /\ HomeIsKept' /\ SearchInOrder'
  BY DEF HostsDiffer, HomeIsKept, SearchInOrder
<1>4. TriedIsTablet' /\ ConfirmedIsTablet'
  BY DEF TriedIsTablet, ConfirmedIsTablet, Address
<1> QED BY <1>2, <1>3, <1>4
-----------------------------------------------------------------------------
LEMMA ResolveKeepsInv ==
    ASSUME DeviceInv, Resolve
    PROVE  DeviceInv'
<1>1. CASE NotSelected \/ NothingLeft
  BY <1>1, LookKeepsInv
<1>2. CASE TryHome
  BY <1>2, TryHomeKeepsInv
<1>3. ASSUME NEW a \in Address, TryService(a) \/ TryPort(a) \/ TryHost(a)
      PROVE  DeviceInv'
  BY <1>3, TryKeepsInv
<1>4. ASSUME NEW a \in Address, CheckSerial(a) PROVE DeviceInv'
  BY <1>4, ExpectedKeepsInv, UnexpectedKeepsInv DEF CheckSerial
<1>5. ASSUME NEW a \in Address, Selected(a) PROVE DeviceInv'
  <2>1. At(a) \in Devices \cup {Nowhere}
    BY AtListens
  <2>2. faults' \in 0..MaxFaults
    BY <1>5, FaultsCounted DEF Selected
  <2> QED BY <1>5, <2>1, <2>2, ReturnKeepsInv DEF Selected
<1>6. CASE Unresolved
  <2>1. faults' \in 0..MaxFaults
    BY <1>6, FaultsCounted DEF Unresolved, NoneListed
  <2> QED BY <1>6, <2>1, ReturnKeepsInv DEF Unresolved
<1> QED BY <1>1, <1>2, <1>3, <1>4, <1>5, <1>6 DEF Resolve

LEMMA InvStep ==
    ASSUME DeviceInv, [DeviceNext]_deviceVars
    PROVE  DeviceInv'
<1>1. CASE UNCHANGED deviceVars
  BY <1>1 DEF deviceVars, networkVars, resolveVars, watchVars, DeviceInv,
     DeviceTypeOK, HostsDiffer, HomeIsKept, SearchInOrder, TriedIsTablet,
     ConfirmedIsTablet, Cleared, SerialAsked, Estranged, Strange
<1>2. ASSUME NEW who \in {"check", "job"}, Ask(who) PROVE DeviceInv'
  BY <1>2, LookKeepsInv
<1>3. CASE Resolve
  BY <1>3, ResolveKeepsInv
<1>4. ASSUME NEW d \in Devices, NEW a \in Address \cup {Nowhere}, Moves(d, a)
      PROVE  DeviceInv'
  BY <1>4, MovesKeepInv
<1>5. ASSUME NEW a \in Address, Settles(a) PROVE DeviceInv'
  BY <1>5, SettlesKeepsInv
<1>6. CASE WorkerRestarts
  BY <1>6, WorkerRestartsKeepsInv
<1> QED BY <1>1, <1>2, <1>3, <1>4, <1>5, <1>6 DEF DeviceNext
-----------------------------------------------------------------------------
(* The theorems.                                                           *)

\* The inductive invariant: at each stage of resolveDevice, what it looks
\* through and where a stranger may be ready, whichever commands of adb fail.
THEOREM DeviceInvCorrect == DeviceSpec => []DeviceInv
<1>1. DeviceInit => DeviceInv
  BY InvInit
<1>2. DeviceInv /\ [DeviceNext]_deviceVars => DeviceInv'
  BY InvStep
<1> QED BY <1>1, <1>2, PTL DEF DeviceSpec

\* A stranger that is ready at the preferred host has slipped, and the host is the
\* one confirmed: at the configured one there is none.
LEMMA StrangeReadySlipped ==
    ASSUME HomeReserved, DeviceInv, ~mdnsWorks, stage # "serial",
           NEW a \in Address, a \in Ready, Strange(a)
    PROVE  a \in slipped /\ a.host = confirmed
<1> USE DEF DeviceInv
<1>1. link[a] = "device" /\ a.host = Preferred
  BY DEF Ready, HostOf
<1>2. a.host = confirmed
  BY <1>1, HomeIsNotStrange DEF Preferred
<1>3. Estranged(a) /\ ~SerialAsked(a)
  BY <1>1 DEF Estranged, SerialAsked
<1> QED BY <1>2, <1>3 DEF ConfirmedIsTablet, Cleared

LEMMA TabletStep ==
    ASSUME HomeReserved, DeviceInv, [DeviceNext]_deviceVars,
           ~mdnsWorks, stage # "idle", stage' = "idle", using' \in Strangers
    PROVE  place[using'] \in slipped /\ place[using'].host = confirmed
<1>1. \A d \in Strangers : d \in Devices /\ d # Nowhere
  BY DEF Devices
<1>2. ASSUME NEW a \in Address, Selected(a)
      PROVE  place[using'] \in slipped /\ place[using'].host = confirmed
  <2>1. stage # "serial" /\ a \in Ready /\ using' = At(a)
    BY <1>2 DEF Selected, Return
  <2>2. place[using'] = a /\ Strange(a)
    BY <1>1, <2>1, AtListens
  <2> QED BY <2>1, <2>2, StrangeReadySlipped
<1>3. ~(Unresolved \/ WorkerRestarts)
  BY <1>1 DEF Unresolved, Return, WorkerRestarts
<1>4. \/ UNCHANGED stage \/ stage' # "idle"
      \/ \E a \in Address : Selected(a)
      \/ Unresolved \/ WorkerRestarts
  BY DEF DeviceNext, Resolve, Ask, NotSelected, TryHome, NothingLeft, TryService,
     TryPort, TryHost, Try, CheckSerial, Expected, Unexpected, Enter, Moves, Settles,
     deviceVars, resolveVars
<1> QED BY <1>2, <1>3, <1>4

\* Where the router keeps the configured address for the tablet and mDNS does
\* not work, a job is given another device only at the confirmed host, over a
\* transport that adb has made ready by itself or that a failed command of adb
\* left, whatever moves between two commands of resolveDevice.
THEOREM TabletCorrect ==
    ASSUME HomeReserved
    PROVE  DeviceSpec => OnlyTheTablet
<1>1. DeviceInv /\ [DeviceNext]_deviceVars =>
        [~mdnsWorks /\ stage # "idle" /\ stage' = "idle" /\ using' \in Strangers
           => place[using'] \in slipped /\ place[using'].host = confirmed]_deviceVars
  BY TabletStep
<1> QED BY <1>1, DeviceInvCorrect, PTL DEF DeviceSpec, OnlyTheTablet

\* reconnectDevice leaves no stranger ready at an address with the fixed port
\* that it tried, with or without mDNS, but for those that adb has made ready by
\* itself or that a failed command of adb left.
THEOREM StrangersCorrect ==
    ASSUME HomeReserved
    PROVE  DeviceSpec => []StrangersLeftAlone
<1>1. DeviceInv => StrangersLeftAlone
  <2> SUFFICES ASSUME DeviceInv, stage = "reselect", NEW a \in attempted,
                      a.port = "fixed", Estranged(a)
               PROVE  a \in slipped
    BY DEF StrangersLeftAlone
  <2>1. ~SerialAsked(a)
    BY DEF SerialAsked
  <2> QED BY <2>1 DEF DeviceInv, TriedIsTablet, Cleared
<1> QED BY <1>1, DeviceInvCorrect, PTL
-----------------------------------------------------------------------------
(* The handlers on the tablet (worker/handlers, worker/somoim-form.js).      *)

USE TabletAssumption
-----------------------------------------------------------------------------
(* The form.                                                               *)

LEMMA WantedType ==
    ASSUME NEW m \in Meetups
    PROVE  /\ Wanted(m) \in [Checked -> Value]
           /\ Wanted(m)["cost"] = m
BY DEF Wanted, Value, Checked, TextFields

\* Two texts that agree on every field are the same.
LEMMA SameText ==
    ASSUME NEW t \in [Checked -> Value], NEW m \in Meetups,
           \A f \in Checked : t[f] = Wanted(m)[f]
    PROVE  t = Wanted(m)
<1>1. Wanted(m) \in [Checked -> Value]
  BY WantedType
<1> QED BY <1>1

LEMMA SetTextEffect ==
    ASSUME form \in Form, NEW f \in Checked, NEW v \in Value, SetText(f, v)
    PROVE  /\ form' \in Form
           /\ form'.notice = form.notice
           /\ form'.text = [form.text EXCEPT ![f] = v]
<1>1. [form.text EXCEPT ![f] = v] \in [Checked -> Value]
  BY DEF Form
<1>2. form' = [form EXCEPT !.text = [form.text EXCEPT ![f] = v]]
  BY DEF SetText, Form
<1> QED BY <1>1, <1>2 DEF Form

LEMMA BlankFormType == BlankForm \in Form
BY DEF BlankForm, Form, Value

LEMMA MadeByHandType ==
    ASSUME NEW m \in Meetups
    PROVE  MadeByHand(m) \in Form
BY WantedType DEF MadeByHand, Form
-----------------------------------------------------------------------------
(* Types.                                                                  *)

LEMMA TypeInit == TabletInit => TabletTypeOK
<1> SUFFICES ASSUME TabletInit PROVE TabletTypeOK
  OBVIOUS
<1> USE DEF TabletInit
<1>1. form \in Form /\ shown \in Form
  BY BlankFormType
<1>2. events \subseteq Form
  BY MadeByHandType
<1>3. job \in Job
  BY DEF Job
<1>4. runs \in 0..MaxJobs /\ requests \subseteq Requests
  OBVIOUS
<1>5. /\ at = "idle" /\ report = "complete" /\ screen = "home" /\ overlay = "none"
      /\ focus = "none" /\ keyboard = FALSE /\ dismissed = FALSE /\ disturbed = FALSE
  OBVIOUS
<1> HIDE DEF TabletInit
<1> QED
  BY <1>1, <1>2, <1>3, <1>4, <1>5 DEF TabletTypeOK, Report, Screens

\* A job starts, and the steps of the handlers that leave the form alone.
LEMMA TypeStart ==
    ASSUME TabletTypeOK, NEW k \in {"create", "delete"}, NEW m \in Meetups,
           NEW s \in BOOLEAN, StartJob(k, m, s)
    PROVE  TabletTypeOK'
<1>1. [kind |-> k, of |-> m, submit |-> s] \in Job
  BY DEF Job
<1>2. runs + 1 \in 0..MaxJobs
  BY DEF TabletTypeOK, StartJob
<1> QED
  BY <1>1, <1>2
  DEF TabletTypeOK, StartJob, screenVars, serverVars, Stages, Report

LEMMA TypeNavigate ==
    ASSUME TabletTypeOK, Navigate
    PROVE  TabletTypeOK'
<1> USE DEF TabletTypeOK, Goto, End, Disturb, Shows, Stages, Report, Screens,
            screenVars, serverVars, handlerVars
<1>1. CASE LaunchApp
  BY <1>1 DEF LaunchApp
<1>2. CASE HomeSeen
  BY <1>2 DEF HomeSeen
<1>3. CASE CloseCrashDialog
  BY <1>3 DEF CloseCrashDialog
<1>4. CASE DismissRegionGate
  BY <1>4 DEF DismissRegionGate
<1>5. ASSUME NEW gate \in BOOLEAN, OpenGroups(gate)
      PROVE  TabletTypeOK'
  BY <1>5 DEF OpenGroups
<1>6. ASSUME NEW page \in {"club", "board", "otherClub"}, PickGroup(page)
      PROVE  TabletTypeOK'
  BY <1>6 DEF PickGroup
<1>7. CASE OtherClub
  BY <1>7 DEF OtherClub
<1> QED BY <1>1, <1>2, <1>3, <1>4, <1>5, <1>6, <1>7 DEF Navigate

LEMMA TypeCreate ==
    ASSUME TabletTypeOK, CreateMeetup
    PROVE  TabletTypeOK'
<1> USE DEF TabletTypeOK, Goto, End, Disturb, Shows, Stages, Report, Screens,
            screenVars, serverVars
<1>1. ASSUME NEW kept \in BOOLEAN, NEW notice \in BOOLEAN,
             OpenCreateMeetupForm(kept, notice)
      PROVE  TabletTypeOK'
  <2>1. form' \in Form
    BY <1>1, BlankFormType DEF OpenCreateMeetupForm, Form
  <2> QED BY <1>1, <2>1 DEF OpenCreateMeetupForm
<1>2. job.of \in Meetups /\ job.of \in Value /\ Mixed \in Value
  BY DEF Job, Value
<1>3. ASSUME NEW next \in {"form", "timePicker"}, SetDate(next)
      PROVE  TabletTypeOK'
  <2>1. form' \in Form
    BY <1>2, <1>3, SetTextEffect DEF SetDate, Checked
  <2> QED BY <1>3, <2>1 DEF SetDate
<1>4. CASE SetTime
  <2>1. form' \in Form
    BY <1>2, <1>4, SetTextEffect DEF SetTime, Checked
  <2> QED BY <1>4, <2>1 DEF SetTime, TextFields
<1>5. ASSUME NEW f \in TextFields, NEW missed \in BOOLEAN, FillField(f, missed)
      PROVE  TabletTypeOK'
  <2>1. AfterField[f] \in Stages /\ AfterField[f] # "idle" /\ f # "idle"
    BY DEF AfterField, TextFields
  <2>2. form' \in Form
    <3>1. Wanted(job.of)[f] \in Value /\ f \in Checked
      BY <1>2, WantedType DEF Checked
    <3>2. CASE SetText(f, Wanted(job.of)[f])
      BY <3>1, <3>2, SetTextEffect
    <3>3. CASE focus \in TextFields /\ SetText(focus, Mixed)
      BY <3>3, <1>2, SetTextEffect DEF Checked
    <3> QED BY <1>5, <3>2, <3>3 DEF FillField, Typed
  <2> QED BY <1>5, <2>1, <2>2 DEF FillField, HideKeyboard, Reached
<1>6. CASE SkipMap
  BY <1>6 DEF SkipMap
<1>7. CASE AttachMeetupPhoto
  <2>1. form' \in Form
    BY <1>7 DEF AttachMeetupPhoto, Form
  <2> QED BY <1>7, <2>1 DEF AttachMeetupPhoto, HideKeyboard
<1>8. CASE SetNoticeCheckbox
  <2>1. form' \in Form
    BY <1>8 DEF SetNoticeCheckbox, Form
  <2> QED BY <1>8, <2>1 DEF SetNoticeCheckbox
<1>9. CASE NoticeUnderKeyboard
  BY <1>9 DEF NoticeUnderKeyboard
<1>10. ASSUME NEW missed \in BOOLEAN, AttachMapUrl(missed)
       PROVE  TabletTypeOK'
  <2>1. form' \in Form
    BY <1>2, <1>10 DEF AttachMapUrl, Form
  <2> QED BY <1>10, <2>1 DEF AttachMapUrl
<1>11. ASSUME NEW missed \in BOOLEAN, PressSave(missed)
       PROVE  TabletTypeOK'
  <2>1. [by |-> job, event |-> form] \in Requests
    BY DEF Requests
  <2> QED BY <1>11, <2>1 DEF PressSave, Send
<1>12. CASE VerifyForm
  BY <1>12 DEF VerifyForm, HideKeyboard
<1>13. CASE SubmitConfirmed
  BY <1>13 DEF SubmitConfirmed
<1>14. CASE SubmitUnconfirmed
  BY <1>14 DEF SubmitUnconfirmed, AfterUnconfirmed
<1> QED
  BY <1>1, <1>3, <1>4, <1>5, <1>6, <1>7, <1>8, <1>9, <1>10, <1>11, <1>12, <1>13,
     <1>14
  DEF CreateMeetup

LEMMA TypeOther ==
    ASSUME TabletTypeOK,
           \/ DeleteMeetup \/ MarkRecorded \/ MarkFails \/ Evidence
           \/ LaunchTimesOut \/ HandlerFails
    PROVE  TabletTypeOK'
<1> USE DEF TabletTypeOK, Goto, End, Disturb, Shows, Stages, Report, Screens,
            screenVars, serverVars
<1>1. ASSUME NEW e \in events, NEW wrong \in BOOLEAN, FindCard(e, wrong)
      PROVE  TabletTypeOK'
  BY <1>1 DEF FindCard
<1>2. CASE CardNotFound
  BY <1>2 DEF CardNotFound
<1>3. CASE VerifyTarget
  BY <1>3 DEF VerifyTarget
<1>4. ASSUME NEW missed \in BOOLEAN, PressDelete(missed)
      PROVE  TabletTypeOK'
  BY <1>4 DEF PressDelete
<1>5. ASSUME NEW missed \in BOOLEAN, PressConfirm(missed)
      PROVE  TabletTypeOK'
  <2>1. [by |-> job, event |-> shown] \in Requests
    BY DEF Requests
  <2> QED BY <1>5, <2>1 DEF PressConfirm, Send
<1>6. CASE DeleteConfirmed \/ DeleteUnconfirmed
  BY <1>6 DEF DeleteConfirmed, DeleteUnconfirmed
<1>7. CASE MarkRecorded
  BY <1>7 DEF MarkRecorded
<1>8. CASE MarkFails
  BY <1>8 DEF MarkFails, AfterFailedMark
<1>9. CASE Evidence
  BY <1>9 DEF Evidence
<1>10. CASE LaunchTimesOut
  BY <1>10 DEF LaunchTimesOut
<1>11. CASE HandlerFails
  BY <1>11 DEF HandlerFails
<1> QED
  BY <1>1, <1>2, <1>3, <1>4, <1>5, <1>6, <1>7, <1>8, <1>9, <1>10, <1>11
  DEF DeleteMeetup

LEMMA TypeApp ==
    ASSUME TabletTypeOK,
           \/ \E gate \in BOOLEAN : AppStarts(gate)
           \/ KeyboardDies \/ AppAnswers
    PROVE  TabletTypeOK'
<1> USE DEF TabletTypeOK, Disturb, Screens, handlerVars, serverVars
<1>1. ASSUME NEW gate \in BOOLEAN, AppStarts(gate)
      PROVE  TabletTypeOK'
  BY <1>1 DEF AppStarts
<1>2. CASE KeyboardDies
  BY <1>2 DEF KeyboardDies
<1>3. ASSUME NEW r \in requests, AppDone(r)
      PROVE  TabletTypeOK'
  <2>1. r.event \in Form
    BY DEF Requests
  <2> QED BY <1>3, <2>1 DEF AppDone
<1>4. ASSUME NEW r \in requests, AppRefuses(r)
      PROVE  TabletTypeOK'
  BY <1>4 DEF AppRefuses
<1> QED BY <1>1, <1>2, <1>3, <1>4 DEF AppAnswers

LEMMA TypeStep == TabletTypeOK /\ [TabletNext]_tabletVars => TabletTypeOK'
<1> SUFFICES ASSUME TabletTypeOK, [TabletNext]_tabletVars PROVE TabletTypeOK'
  OBVIOUS
<1>1. CASE UNCHANGED tabletVars
  BY <1>1 DEF TabletTypeOK, tabletVars, handlerVars, screenVars, serverVars
<1> QED
  BY <1>1, TypeStart, TypeNavigate, TypeCreate, TypeOther, TypeApp
  DEF TabletNext, HandlerStep

\* The handlers, the screen and the app only ever hold values of their types.
THEOREM TabletTypeCorrect == TabletSpec => []TabletTypeOK
BY TypeInit, TypeStep, PTL DEF TabletSpec
-----------------------------------------------------------------------------
(* From the checks of a job to the club.                                   *)

LEMMA SubmitInit == TabletInit => SubmitInv
<1> SUFFICES ASSUME TabletInit PROVE SubmitInv
  OBVIOUS
<1> USE DEF TabletInit
<1>1. EventsAreProper
  BY DEF EventsAreProper, MadeByHand
<1>2. StagesMatchJob /\ ChecksPassed /\ RequestsAreChecked
  BY DEF StagesMatchJob, ChecksPassed, RequestsAreChecked, CreateStages,
         DeleteStages, SubmitStages, TextFields
<1>3. RequestsAreOwn /\ PostMeansCreated /\ RegisteredMeansCreated
  BY DEF RequestsAreOwn, PostMeansCreated, RegisteredMeansCreated
<1> QED BY <1>1, <1>2, <1>3 DEF SubmitInv

\* A step to a stage of the way in, or out of the job.
LEMMA SubmitOnTheWay ==
    ASSUME SubmitInv, UNCHANGED <<job, form, shown, requests, events>>,
           at # "idle", at = "launch" => requests = {} \/ at' = "idle",
           at' \in {"idle", "awaitHome", "openGroups", "pickGroup", "clubPage"}
    PROVE  SubmitInv'
<1> USE DEF SubmitInv
<1>1. (StagesMatchJob /\ ChecksPassed)'
  BY DEF StagesMatchJob, ChecksPassed, CreateStages, DeleteStages, SubmitStages,
         TextFields
<1>2. RequestsAreChecked' /\ EventsAreProper'
  BY DEF RequestsAreChecked, EventsAreProper
<1>3. RequestsAreOwn'
  BY DEF RequestsAreOwn
<1>4. PostMeansCreated' /\ RegisteredMeansCreated'
  BY DEF PostMeansCreated, RegisteredMeansCreated
<1> QED BY <1>1, <1>2, <1>3, <1>4

\* A step to a stage that fills the form.
LEMMA SubmitFilling ==
    ASSUME SubmitInv, UNCHANGED <<job, shown, requests, events>>, Creating,
           at \notin {"idle", "launch"},
           at' \in TextFields \cup {"date", "time", "map", "photo", "notice"}
    PROVE  SubmitInv'
<1> USE DEF SubmitInv, TextFields
<1>1. (StagesMatchJob /\ ChecksPassed)'
  BY DEF StagesMatchJob, ChecksPassed, CreateStages, DeleteStages, SubmitStages,
         Creating
<1>2. RequestsAreChecked' /\ EventsAreProper'
  BY DEF RequestsAreChecked, EventsAreProper
<1>3. RequestsAreOwn'
  BY DEF RequestsAreOwn
<1>4. PostMeansCreated' /\ RegisteredMeansCreated'
  BY DEF PostMeansCreated, RegisteredMeansCreated
<1> QED BY <1>1, <1>2, <1>3, <1>4

LEMMA SubmitNavigate ==
    ASSUME SubmitInv, Navigate
    PROVE  SubmitInv'
<1> USE SubmitOnTheWay DEF Goto, End, screenVars, serverVars, handlerVars
<1>1. CASE LaunchApp
  BY <1>1 DEF LaunchApp
<1>2. CASE HomeSeen
  BY <1>2 DEF HomeSeen
<1>3. CASE CloseCrashDialog
  BY <1>3 DEF CloseCrashDialog
<1>4. CASE DismissRegionGate
  BY <1>4 DEF DismissRegionGate
<1>5. ASSUME NEW gate \in BOOLEAN, OpenGroups(gate)
      PROVE  SubmitInv'
  BY <1>5 DEF OpenGroups
<1>6. ASSUME NEW page \in {"club", "board", "otherClub"}, PickGroup(page)
      PROVE  SubmitInv'
  BY <1>6 DEF PickGroup
<1>7. CASE OtherClub
  BY <1>7 DEF OtherClub
<1> QED BY <1>1, <1>2, <1>3, <1>4, <1>5, <1>6, <1>7 DEF Navigate

\* The steps that end a job, however they do.
LEMMA SubmitEnds ==
    ASSUME SubmitInv,
           \/ HandlerFails \/ LaunchTimesOut \/ MarkFails \/ Evidence
           \/ NoticeUnderKeyboard \/ SubmitUnconfirmed \/ CardNotFound
           \/ DeleteUnconfirmed
    PROVE  SubmitInv'
<1> USE SubmitOnTheWay DEF End, screenVars, serverVars
<1>1. CASE HandlerFails
  BY <1>1 DEF HandlerFails
<1>2. CASE LaunchTimesOut \/ MarkFails \/ Evidence
  BY <1>2 DEF LaunchTimesOut, MarkFails, Evidence
<1>3. CASE NoticeUnderKeyboard \/ SubmitUnconfirmed
  BY <1>3 DEF NoticeUnderKeyboard, SubmitUnconfirmed
<1>4. CASE CardNotFound \/ DeleteUnconfirmed
  BY <1>4 DEF CardNotFound, DeleteUnconfirmed
<1> QED BY <1>1, <1>2, <1>3, <1>4

LEMMA SubmitFills ==
    ASSUME TabletTypeOK, SubmitInv,
           \/ \E kept, notice \in BOOLEAN : OpenCreateMeetupForm(kept, notice)
           \/ \E next \in {"form", "timePicker"} : SetDate(next)
           \/ SetTime
           \/ \E f \in TextFields, missed \in BOOLEAN : FillField(f, missed)
           \/ SkipMap \/ AttachMeetupPhoto
           \/ \E missed \in BOOLEAN : AttachMapUrl(missed)
    PROVE  SubmitInv'
<1> USE SubmitFilling DEF Goto, screenVars, serverVars, TextFields
<1>1. at \in CreateStages => Creating
  BY DEF SubmitInv, StagesMatchJob
<1> USE <1>1 DEF CreateStages
<1>2. ASSUME NEW kept \in BOOLEAN, NEW notice \in BOOLEAN,
             OpenCreateMeetupForm(kept, notice)
      PROVE  SubmitInv'
  BY <1>2 DEF OpenCreateMeetupForm
<1>3. ASSUME NEW next \in {"form", "timePicker"}, SetDate(next)
      PROVE  SubmitInv'
  BY <1>3 DEF SetDate
<1>4. CASE SetTime
  BY <1>4 DEF SetTime
<1>5. ASSUME NEW f \in TextFields, NEW missed \in BOOLEAN, FillField(f, missed)
      PROVE  SubmitInv'
  <2>1. AfterField[f] \in TextFields \cup {"map"}
    BY DEF AfterField
  <2> QED BY <1>5, <2>1 DEF FillField
<1>6. CASE SkipMap \/ AttachMeetupPhoto
  BY <1>6 DEF SkipMap, AttachMeetupPhoto
<1>7. ASSUME NEW missed \in BOOLEAN, AttachMapUrl(missed)
      PROVE  SubmitInv'
  BY <1>7 DEF AttachMapUrl
<1> QED BY <1>2, <1>3, <1>4, <1>5, <1>6, <1>7

\* The last check of the form, and of the edit screen: what is marked and sent
\* is what the job is about.
LEMMA SubmitChecks ==
    ASSUME TabletTypeOK, SubmitInv,
           \/ SetNoticeCheckbox \/ VerifyForm \/ VerifyTarget
           \/ \E e \in events, wrong \in BOOLEAN : FindCard(e, wrong)
    PROVE  SubmitInv'
<1> USE DEF SubmitInv, Goto, screenVars, serverVars, TextFields
<1>1. ASSUME UNCHANGED <<job, requests, events>>, at \notin {"idle", "launch"},
             at' \in {"verify", "mark", "target", "evidence", "idle"},
             at' = "evidence" => ~job.submit
      PROVE  /\ RequestsAreChecked' /\ EventsAreProper' /\ RequestsAreOwn'
             /\ PostMeansCreated' /\ RegisteredMeansCreated'
  BY <1>1 DEF RequestsAreChecked, EventsAreProper, RequestsAreOwn, PostMeansCreated,
              RegisteredMeansCreated
<1>2. CASE SetNoticeCheckbox
  <2>1. form'.notice = NotifyMembers
    BY <1>2 DEF SetNoticeCheckbox, TabletTypeOK, Form
  <2>2. (StagesMatchJob /\ ChecksPassed)'
    BY <1>2, <2>1 DEF SetNoticeCheckbox, StagesMatchJob, ChecksPassed, CreateStages,
                      DeleteStages, SubmitStages, Creating
  <2> QED BY <1>1, <1>2, <2>2 DEF SetNoticeCheckbox
<1>3. CASE VerifyForm
  <2>1. FormMatches => form.text = Wanted(job.of)
    BY SameText DEF FormMatches, VerifiedFields, TabletTypeOK, Form, Job
  <2>2. at' = "mark" => FormMatches /\ job.submit
    BY <1>3 DEF VerifyForm, End
  <2>3. at' \in {"mark", "evidence", "idle"} /\ (at' = "evidence" => ~job.submit)
    BY <1>3 DEF VerifyForm, End
  <2>4. at = "verify" /\ UNCHANGED <<job, form, shown, requests, events>>
    BY <1>3 DEF VerifyForm, End
  <2>5. (StagesMatchJob /\ ChecksPassed)'
    BY <2>1, <2>2, <2>3, <2>4
    DEF StagesMatchJob, ChecksPassed, CreateStages, DeleteStages, SubmitStages,
        Creating
  <2> QED BY <1>1, <2>3, <2>4, <2>5
<1>4. CASE VerifyTarget
  <2>1. at' = "mark" => IsTarget(shown) /\ job.submit
    BY <1>4 DEF VerifyTarget, End
  <2>2. at' \in {"mark", "evidence", "idle"} /\ (at' = "evidence" => ~job.submit)
    BY <1>4 DEF VerifyTarget, End
  <2>3. at = "target" /\ UNCHANGED <<job, form, shown, requests, events>>
    BY <1>4 DEF VerifyTarget, End
  <2>4. (StagesMatchJob /\ ChecksPassed)'
    BY <2>1, <2>2, <2>3
    DEF StagesMatchJob, ChecksPassed, CreateStages, DeleteStages, SubmitStages,
        Creating, IsTarget
  <2> QED BY <1>1, <2>2, <2>3, <2>4
<1>5. ASSUME NEW e \in events, NEW wrong \in BOOLEAN, FindCard(e, wrong)
      PROVE  SubmitInv'
  <2>1. (StagesMatchJob /\ ChecksPassed)'
    BY <1>5 DEF FindCard, StagesMatchJob, ChecksPassed, CreateStages, DeleteStages,
                SubmitStages, Creating
  <2> QED BY <1>1, <1>5, <2>1 DEF FindCard
<1> QED BY <1>2, <1>3, <1>4, <1>5

\* The mark, and the taps that may send the request.
LEMMA SubmitPresses ==
    ASSUME TabletTypeOK, SubmitInv,
           \/ MarkRecorded
           \/ \E missed \in BOOLEAN :
                 PressSave(missed) \/ PressDelete(missed) \/ PressConfirm(missed)
    PROVE  SubmitInv'
<1> USE DEF SubmitInv, Goto, screenVars, serverVars, TextFields
<1>1. CASE MarkRecorded
  <2>1. (StagesMatchJob /\ ChecksPassed)'
    BY <1>1 DEF MarkRecorded, StagesMatchJob, ChecksPassed, CreateStages,
                DeleteStages, SubmitStages, Creating, IsTarget
  <2>2. (RequestsAreChecked /\ EventsAreProper /\ RequestsAreOwn)'
    BY <1>1 DEF MarkRecorded, RequestsAreChecked, EventsAreProper, RequestsAreOwn
  <2>3. (PostMeansCreated /\ RegisteredMeansCreated)'
    BY <1>1 DEF MarkRecorded, PostMeansCreated, RegisteredMeansCreated
  <2> QED BY <2>1, <2>2, <2>3
<1>2. ASSUME NEW missed \in BOOLEAN, PressSave(missed)
      PROVE  SubmitInv'
  <2> DEFINE r == [by |-> job, event |-> form]
  <2>1. /\ at = "press" /\ at' = "confirm" /\ Creating /\ job.submit
        /\ UNCHANGED <<job, form, shown, events>>
        /\ requests' \in {requests, requests \cup {r}}
        /\ screen' \in {screen, "loading"}
    BY <1>2 DEF PressSave, Send, Shows, StagesMatchJob, SubmitStages
  <2>2. form.text = Wanted(job.of) /\ form.notice = NotifyMembers
    BY <2>1 DEF ChecksPassed
  <2>3. (StagesMatchJob /\ ChecksPassed)'
    BY <2>1 DEF StagesMatchJob, ChecksPassed, CreateStages, DeleteStages,
                SubmitStages, Creating
  <2>4. RequestsAreChecked'
    BY <2>1, <2>2 DEF RequestsAreChecked, Creating
  <2>5. EventsAreProper' /\ RequestsAreOwn'
    BY <2>1 DEF EventsAreProper, RequestsAreOwn
  <2>6. (PostMeansCreated /\ RegisteredMeansCreated)'
    BY <2>1 DEF PostMeansCreated, RegisteredMeansCreated
  <2> QED BY <2>3, <2>4, <2>5, <2>6
<1>3. ASSUME NEW missed \in BOOLEAN, PressDelete(missed)
      PROVE  SubmitInv'
  <2>1. /\ at = "press" /\ at' = "dialog" /\ ~Creating
        /\ UNCHANGED <<job, form, shown, requests, events>>
    BY <1>3 DEF PressDelete
  <2>2. (StagesMatchJob /\ ChecksPassed)'
    BY <2>1 DEF StagesMatchJob, ChecksPassed, CreateStages, DeleteStages,
                SubmitStages, Creating, IsTarget
  <2>3. (RequestsAreChecked /\ EventsAreProper /\ RequestsAreOwn)'
    BY <2>1 DEF RequestsAreChecked, EventsAreProper, RequestsAreOwn
  <2>4. (PostMeansCreated /\ RegisteredMeansCreated)'
    BY <2>1 DEF PostMeansCreated, RegisteredMeansCreated
  <2> QED BY <2>2, <2>3, <2>4
<1>4. ASSUME NEW missed \in BOOLEAN, PressConfirm(missed)
      PROVE  SubmitInv'
  <2> DEFINE r == [by |-> job, event |-> shown]
  <2>1. /\ at = "dialog" /\ at' = "gone" /\ ~Creating /\ job.submit
        /\ UNCHANGED <<job, form, shown, events>>
        /\ requests' \in {requests, requests \cup {r}}
    BY <1>4 DEF PressConfirm, Send, StagesMatchJob, SubmitStages, DeleteStages
  <2>2. IsTarget(shown)
    BY <2>1 DEF ChecksPassed
  <2>3. (StagesMatchJob /\ ChecksPassed)'
    BY <2>1 DEF StagesMatchJob, ChecksPassed, CreateStages, DeleteStages,
                SubmitStages, Creating
  <2>4. RequestsAreChecked'
    BY <2>1, <2>2 DEF RequestsAreChecked, Creating, IsTarget
  <2>5. EventsAreProper' /\ RequestsAreOwn'
    BY <2>1 DEF EventsAreProper, RequestsAreOwn
  <2>6. (PostMeansCreated /\ RegisteredMeansCreated)'
    BY <2>1 DEF PostMeansCreated, RegisteredMeansCreated
  <2> QED BY <2>3, <2>4, <2>5, <2>6
<1> QED BY <1>1, <1>2, <1>3, <1>4

LEMMA SubmitConfirms ==
    ASSUME SubmitInv, SubmitConfirmed \/ DeleteConfirmed
    PROVE  SubmitInv'
<1> USE DEF SubmitInv, Goto, screenVars, serverVars, TextFields
<1>1. /\ at \in {"confirm", "gone"} /\ at' = "evidence"
      /\ at = "confirm" => screen = "post"
      /\ UNCHANGED <<job, form, shown, requests, events, screen>>
  BY DEF SubmitConfirmed, DeleteConfirmed, PostSeen
<1>2. (StagesMatchJob /\ ChecksPassed)'
  BY <1>1 DEF StagesMatchJob, ChecksPassed, CreateStages, DeleteStages, SubmitStages
<1>3. (RequestsAreChecked /\ EventsAreProper /\ RequestsAreOwn)'
  BY <1>1 DEF RequestsAreChecked, EventsAreProper, RequestsAreOwn
<1>4. at = "confirm" => \E e \in events : e.text = Wanted(job.of)
  BY <1>1 DEF PostMeansCreated
<1>5. at = "gone" => ~Creating
  BY DEF StagesMatchJob, DeleteStages
<1>6. (PostMeansCreated /\ RegisteredMeansCreated)'
  BY <1>1, <1>4, <1>5 DEF PostMeansCreated, RegisteredMeansCreated, Creating
<1> QED BY <1>2, <1>3, <1>4, <1>6

\* Next to the handler only an answer of the server changes the club, and while
\* a job waits for the post it can only be the answer to that job.
LEMMA SubmitAnswered ==
    ASSUME TabletTypeOK, SubmitInv, NEW r \in requests, AppDone(r) \/ AppRefuses(r)
    PROVE  SubmitInv'
<1> USE DEF SubmitInv
<1>1. /\ UNCHANGED <<at, job, form, shown>>
      /\ requests' \subseteq requests
      /\ r.by.kind = "create" => events \subseteq events'
      /\ screen' \in {screen, "post", "club", "form", "edit"}
  BY DEF AppDone, AppRefuses
<1>2. (StagesMatchJob /\ ChecksPassed)'
  BY <1>1 DEF StagesMatchJob, ChecksPassed, Creating, IsTarget
<1>3. (RequestsAreChecked /\ RequestsAreOwn)'
  BY <1>1 DEF RequestsAreChecked, RequestsAreOwn
<1>4. r.by \in Job /\ r.by.of \in Meetups
  BY DEF TabletTypeOK, Requests, Job
<1>5. r.by.kind = "create" => /\ r.event.text = Wanted(r.by.of)
                              /\ r.event.notice = NotifyMembers
  BY DEF RequestsAreChecked
<1>6. events' \subseteq events \cup (IF r.by.kind = "create" THEN {r.event} ELSE {})
  BY DEF AppDone, AppRefuses
<1>7. EventsAreProper'
  BY <1>4, <1>5, <1>6 DEF EventsAreProper
<1>8. at \notin {"idle", "launch"} => r.by = job
  BY DEF RequestsAreOwn
<1>9. screen' = "post" /\ screen # "post" => r.event \in events' /\ r.by.kind = "create"
                                            /\ at \in {"confirm", "gone"}
  BY DEF AppDone, AppRefuses, OnScreen
<1>10. (PostMeansCreated /\ RegisteredMeansCreated)'
  <2>1. at = "confirm" => r.by.kind = "create" /\ r.by = job
    BY <1>8 DEF StagesMatchJob, CreateStages, Creating
  <2>2. PostMeansCreated'
    BY <1>1, <1>5, <1>9, <2>1 DEF PostMeansCreated
  <2>3. at = "evidence" /\ Creating => r.by.kind = "create"
    BY <1>8 DEF Creating
  <2>4. RegisteredMeansCreated'
    BY <1>1, <2>3 DEF RegisteredMeansCreated, Creating
  <2> QED BY <2>2, <2>4
<1> QED BY <1>2, <1>3, <1>7, <1>10

LEMMA SubmitApp ==
    ASSUME TabletTypeOK, SubmitInv,
           \/ \E gate \in BOOLEAN : AppStarts(gate)
           \/ KeyboardDies \/ AppAnswers
    PROVE  SubmitInv'
<1> USE DEF SubmitInv
<1>1. ASSUME UNCHANGED <<at, job, form, shown, requests, events>>,
             screen' \in {screen, "home"}
      PROVE  SubmitInv'
  <2>1. (StagesMatchJob /\ ChecksPassed)'
    BY <1>1 DEF StagesMatchJob, ChecksPassed, Creating, IsTarget
  <2>2. (RequestsAreChecked /\ EventsAreProper /\ RequestsAreOwn)'
    BY <1>1 DEF RequestsAreChecked, EventsAreProper, RequestsAreOwn
  <2>3. (PostMeansCreated /\ RegisteredMeansCreated)'
    BY <1>1 DEF PostMeansCreated, RegisteredMeansCreated, Creating
  <2> QED BY <2>1, <2>2, <2>3
<1>2. ASSUME NEW gate \in BOOLEAN, AppStarts(gate)
      PROVE  SubmitInv'
  BY <1>1, <1>2 DEF AppStarts, handlerVars, serverVars
<1>3. CASE KeyboardDies
  BY <1>1, <1>3 DEF KeyboardDies, serverVars
<1>4. CASE AppAnswers
  BY <1>4, SubmitAnswered DEF AppAnswers
<1> QED BY <1>2, <1>3, <1>4

LEMMA SubmitStart ==
    ASSUME SubmitInv, NEW k \in {"create", "delete"}, NEW m \in Meetups,
           NEW s \in BOOLEAN, StartJob(k, m, s)
    PROVE  SubmitInv'
<1>1. at' = "launch" /\ UNCHANGED <<requests, events>>
  BY DEF StartJob, serverVars
<1> USE DEF SubmitInv, TextFields
<1>2. (StagesMatchJob /\ ChecksPassed)'
  BY <1>1 DEF StagesMatchJob, ChecksPassed, CreateStages, DeleteStages, SubmitStages
<1>3. (RequestsAreChecked /\ EventsAreProper /\ RequestsAreOwn)'
  BY <1>1 DEF RequestsAreChecked, EventsAreProper, RequestsAreOwn
<1>4. (PostMeansCreated /\ RegisteredMeansCreated)'
  BY <1>1 DEF PostMeansCreated, RegisteredMeansCreated
<1> QED BY <1>2, <1>3, <1>4

LEMMA SubmitStep ==
    TabletTypeOK /\ SubmitInv /\ [TabletNext]_tabletVars => SubmitInv'
<1> SUFFICES ASSUME TabletTypeOK, SubmitInv, [TabletNext]_tabletVars
             PROVE  SubmitInv'
  OBVIOUS
<1>1. CASE UNCHANGED tabletVars
  BY <1>1 DEF tabletVars, handlerVars, screenVars, serverVars, SubmitInv,
     StagesMatchJob, ChecksPassed, RequestsAreChecked, RequestsAreOwn,
     PostMeansCreated, EventsAreProper, RegisteredMeansCreated, Creating, IsTarget
<1>2. CASE HandlerStep
  <2>1. CASE CreateMeetup
    BY <2>1, SubmitFills, SubmitChecks, SubmitPresses, SubmitConfirms, SubmitEnds
    DEF CreateMeetup
  <2>2. CASE DeleteMeetup
    BY <2>2, SubmitChecks, SubmitPresses, SubmitConfirms, SubmitEnds
    DEF DeleteMeetup
  <2>3. CASE MarkRecorded \/ MarkFails \/ Evidence \/ LaunchTimesOut \/ HandlerFails
    BY <2>3, SubmitPresses, SubmitEnds
  <2> QED BY <1>2, <2>1, <2>2, <2>3, SubmitNavigate DEF HandlerStep
<1> QED BY <1>1, <1>2, SubmitStart, SubmitApp DEF TabletNext

THEOREM SubmitInvCorrect == TabletSpec => []SubmitInv
BY SubmitInit, SubmitStep, TabletTypeCorrect, PTL DEF TabletSpec

\* No job puts a wrong event into the club, whatever earlier jobs left in the
\* form and wherever a missed tap sent the text.
THEOREM EventsAreProperCorrect == TabletSpec => []EventsAreProper
<1>1. SubmitInv => EventsAreProper
  BY DEF SubmitInv
<1> QED BY <1>1, SubmitInvCorrect, PTL

\* An event that is reported as registered is on the club.
THEOREM RegisteredMeansCreatedCorrect == TabletSpec => []RegisteredMeansCreated
<1>1. SubmitInv => RegisteredMeansCreated
  BY DEF SubmitInv
<1> QED BY <1>1, SubmitInvCorrect, PTL
-----------------------------------------------------------------------------
(* Every change of the club was asked for.                                 *)

AsAsked == /\ \A e \in events' \ events : Asked("create", e)
           /\ \A e \in events \ events' : Asked("delete", e)

LEMMA AnswerAsAsked ==
    ASSUME TabletTypeOK, SubmitInv, NEW r \in requests, AppDone(r) \/ AppRefuses(r)
    PROVE  AsAsked
<1>1. r.by.submit /\ r.by.kind \in {"create", "delete"} /\ r.by.of \in Meetups
  BY DEF SubmitInv, RequestsAreChecked, TabletTypeOK, Requests, Job
<1>2. \A f \in {"title", "date", "time"} : r.event.text[f] = Wanted(r.by.of)[f]
  BY <1>1 DEF SubmitInv, RequestsAreChecked, TargetFields
<1>3. Asked(r.by.kind, r.event)
  BY <1>1, <1>2 DEF Asked
<1>4. \A e \in events' \ events : e = r.event /\ r.by.kind = "create"
  BY DEF AppDone, AppRefuses
<1>5. \A e \in events \ events' : e = r.event /\ r.by.kind = "delete"
  BY <1>1 DEF AppDone, AppRefuses
<1> QED BY <1>3, <1>4, <1>5 DEF AsAsked

LEMMA OthersKeepEvents ==
    ASSUME [TabletNext]_tabletVars, ~AppAnswers
    PROVE  events' = events
<1> USE DEF serverVars
<1>1. CASE UNCHANGED tabletVars
  BY <1>1 DEF tabletVars
<1>2. CASE Navigate
  BY <1>2 DEF Navigate, LaunchApp, HomeSeen, CloseCrashDialog, DismissRegionGate,
              OpenGroups, PickGroup, OtherClub
<1>3. CASE CreateMeetup
  BY <1>3 DEF CreateMeetup, OpenCreateMeetupForm, SetDate, SetTime, FillField,
              SkipMap, AttachMeetupPhoto, SetNoticeCheckbox, NoticeUnderKeyboard,
              AttachMapUrl, PressSave, Send, VerifyForm, SubmitConfirmed,
              SubmitUnconfirmed
<1>4. CASE DeleteMeetup
  BY <1>4 DEF DeleteMeetup, FindCard, CardNotFound, VerifyTarget, PressDelete,
              PressConfirm, Send, DeleteConfirmed, DeleteUnconfirmed
<1>5. CASE MarkRecorded \/ MarkFails \/ Evidence \/ LaunchTimesOut \/ HandlerFails
  BY <1>5 DEF MarkRecorded, MarkFails, Evidence, LaunchTimesOut, HandlerFails
<1>6. ASSUME NEW gate \in BOOLEAN, AppStarts(gate)
      PROVE  events' = events
  BY <1>6 DEF AppStarts
<1>7. CASE KeyboardDies
  BY <1>7 DEF KeyboardDies
<1>8. ASSUME NEW k \in {"create", "delete"}, NEW m \in Meetups, NEW s \in BOOLEAN,
             StartJob(k, m, s)
      PROVE  events' = events
  BY <1>8 DEF StartJob
<1> QED
  BY <1>1, <1>2, <1>3, <1>4, <1>5, <1>6, <1>7, <1>8 DEF TabletNext, HandlerStep

\* An event comes or goes only for a submit job that verified its title, date
\* and time, although the card is found by its title alone and the answer may
\* come long after the job.
THEOREM EventsChangeAsAskedCorrect == TabletSpec => EventsChangeAsAsked
<1>1. TabletTypeOK /\ SubmitInv /\ [TabletNext]_tabletVars => [AsAsked]_tabletVars
  <2> SUFFICES ASSUME TabletTypeOK, SubmitInv, [TabletNext]_tabletVars PROVE AsAsked
    OBVIOUS
  <2>1. CASE AppAnswers
    BY <2>1, AnswerAsAsked DEF AppAnswers
  <2>2. CASE ~AppAnswers
    BY <2>2, OthersKeepEvents DEF AsAsked
  <2> QED BY <2>1, <2>2
<1>2. AsAsked <=> /\ \A e \in events' \ events : Asked("create", e)
                  /\ \A e \in events \ events' : Asked("delete", e)
  BY DEF AsAsked
<1> QED
  BY <1>1, <1>2, TabletTypeCorrect, SubmitInvCorrect, PTL
  DEF TabletSpec, EventsChangeAsAsked
-----------------------------------------------------------------------------
(* What an earlier job left on the tablet.                                 *)

LEMMA LeftoversInit == TabletInit => LeftoversInv
BY DEF TabletInit, LeftoversInv, KeyboardIsDown, FilledIsWanted, Filled,
       LeftoversDoNoHarm

FillStages == {"time", "title", "place", "cost", "count", "map", "photo", "notice",
               "verify"}

LEMMA FilledFields ==
    /\ DOMAIN Filled = FillStages
    /\ Filled["time"] = {"date"} /\ Filled["title"] = {"date", "time"}
    /\ Filled["place"] = {"date", "time", "title"}
    /\ Filled["cost"] = {"date", "time", "title", "place"}
    /\ Filled["count"] = Checked \ {"count"}
    /\ Filled["map"] = Checked /\ Filled["photo"] = Checked
    /\ Filled["notice"] = Checked /\ Filled["verify"] = Checked
BY DEF Filled, FillStages

\* Outside of the form the invariant says something only of a job that ended.
LEMMA LeftoversElsewhere ==
    ASSUME at' \notin FillStages,
           at' = "idle" => disturbed' \/ ~Creating' \/ report' = "complete"
    PROVE  LeftoversInv'
BY FilledFields
DEF LeftoversInv, KeyboardIsDown, FilledIsWanted, LeftoversDoNoHarm, FillStages

\* What happens to the tablet by itself while the handler stays where it is.
LEMMA LeftoversWhileWaiting ==
    ASSUME LeftoversInv, UNCHANGED <<at, job, report, form>>,
           keyboard' => keyboard, disturbed => disturbed'
    PROVE  LeftoversInv'
BY DEF LeftoversInv, KeyboardIsDown, FilledIsWanted, LeftoversDoNoHarm, Creating

LEMMA LeftoversApp ==
    ASSUME LeftoversInv,
           \/ \E gate \in BOOLEAN : AppStarts(gate)
           \/ KeyboardDies \/ AppAnswers
    PROVE  LeftoversInv'
<1> USE LeftoversWhileWaiting DEF Disturb
<1>1. ASSUME NEW gate \in BOOLEAN, AppStarts(gate)
      PROVE  LeftoversInv'
  BY <1>1 DEF AppStarts, handlerVars
<1>2. CASE KeyboardDies
  BY <1>2 DEF KeyboardDies
<1>3. ASSUME NEW r \in requests, AppDone(r)
      PROVE  LeftoversInv'
  BY <1>3 DEF AppDone
<1>4. ASSUME NEW r \in requests, AppRefuses(r)
      PROVE  LeftoversInv'
  BY <1>4 DEF AppRefuses
<1> QED BY <1>1, <1>2, <1>3, <1>4 DEF AppAnswers

LEMMA LeftoversFill ==
    ASSUME TabletTypeOK, LeftoversInv, NEW f \in TextFields, NEW missed \in BOOLEAN,
           FillField(f, missed)
    PROVE  LeftoversInv'
<1> USE DEF Goto
<1>1. /\ at = f /\ at' = AfterField[f] /\ UNCHANGED job
      /\ disturbed' = (disturbed \/ missed)
  BY DEF FillField, Disturb
<1>2. job.of \in Meetups /\ f \in Checked /\ Wanted(job.of)[f] \in Value
  BY WantedType DEF TabletTypeOK, Job, Checked
<1>3. at' \in {"place", "cost", "count", "map"}
  BY <1>1 DEF AfterField, TextFields
<1>4. CASE disturbed'
  BY <1>3, <1>4
  DEF LeftoversInv, KeyboardIsDown, FilledIsWanted, LeftoversDoNoHarm
<1>5. CASE ~disturbed'
  <2>1. ~missed /\ ~disturbed
    BY <1>1, <1>5
  <2>2. form'.text = [form.text EXCEPT ![f] = Wanted(job.of)[f]]
    BY <1>2, <2>1, SetTextEffect
    DEF FillField, Reached, HideKeyboard, Typed, TabletTypeOK
  <2>3. form.text \in [Checked -> Value]
    BY DEF TabletTypeOK, Form
  <2>4. f \in FillStages
        => \A g \in Filled[f] : form.text[g] = Wanted(job.of)[g]
    BY <1>1, <2>1, FilledFields DEF LeftoversInv, FilledIsWanted
  <2>5. f \in FillStages /\ Filled[at'] \subseteq Filled[f] \cup {f}
    <3>1. CASE f = "title"
      BY <1>1, <3>1, FilledFields DEF AfterField, FillStages
    <3>2. CASE f = "place"
      BY <1>1, <3>2, FilledFields DEF AfterField, FillStages
    <3>3. CASE f = "cost"
      BY <1>1, <3>3, FilledFields DEF AfterField, FillStages, Checked, TextFields
    <3>4. CASE f = "count"
      BY <1>1, <3>4, FilledFields DEF AfterField, FillStages, Checked, TextFields
    <3> QED BY <3>1, <3>2, <3>3, <3>4 DEF TextFields
  <2>6. Filled[at'] \subseteq Checked
    BY <1>3, FilledFields DEF Checked, TextFields
  <2>7. \A g \in Filled[at'] : form'.text[g] = Wanted(job.of)[g]
    BY <1>2, <2>2, <2>3, <2>4, <2>5, <2>6
  <2>8. FilledIsWanted'
    BY <1>1, <2>7 DEF FilledIsWanted, Filled
  <2> QED BY <1>3, <2>8 DEF LeftoversInv, KeyboardIsDown, LeftoversDoNoHarm
<1> QED BY <1>4, <1>5

\* The other steps on the form: date and time, the map, the photo, the notice.
LEMMA LeftoversForm ==
    ASSUME TabletTypeOK, LeftoversInv,
           \/ \E next \in {"form", "timePicker"} : SetDate(next)
           \/ SetTime \/ SkipMap \/ AttachMeetupPhoto \/ SetNoticeCheckbox
           \/ \E missed \in BOOLEAN : AttachMapUrl(missed)
    PROVE  LeftoversInv'
<1> USE FilledFields DEF Goto, screenVars
<1>1. job.of \in Meetups /\ job.of \in Value
  BY DEF TabletTypeOK, Job, Value
<1>2. /\ Wanted(job.of)["date"] = job.of
      /\ Wanted(job.of)["time"] = job.of
  BY DEF Wanted, Checked
<1>3. ASSUME NEW next \in {"form", "timePicker"}, SetDate(next)
      PROVE  LeftoversInv'
  <2>1. form'.text = [form.text EXCEPT !["date"] = job.of]
    BY <1>1, <1>3, SetTextEffect DEF SetDate, TabletTypeOK, Checked
  <2>2. form.text \in [Checked -> Value]
    BY DEF TabletTypeOK, Form
  <2>3. form'.text["date"] = job.of
    BY <2>1, <2>2 DEF Checked
  <2> QED BY <1>2, <1>3, <2>3
      DEF SetDate, LeftoversInv, KeyboardIsDown, FilledIsWanted, LeftoversDoNoHarm
<1>4. CASE SetTime
  <2>1. form'.text = [form.text EXCEPT !["time"] = job.of]
    BY <1>1, <1>4, SetTextEffect DEF SetTime, TabletTypeOK, Checked
  <2>2. form.text \in [Checked -> Value]
    BY DEF TabletTypeOK, Form
  <2>3. ~disturbed => form.text["date"] = Wanted(job.of)["date"]
    BY <1>4 DEF SetTime, LeftoversInv, FilledIsWanted, FillStages
  <2>4. ~disturbed => \A g \in {"date", "time"} : form'.text[g] = Wanted(job.of)[g]
    BY <1>2, <2>1, <2>2, <2>3 DEF Checked
  <2> QED BY <1>4, <2>4
      DEF SetTime, LeftoversInv, KeyboardIsDown, FilledIsWanted, LeftoversDoNoHarm
<1>5. ~disturbed /\ at \in {"map", "photo", "notice"}
        => \A g \in Checked : form.text[g] = Wanted(job.of)[g]
  BY DEF LeftoversInv, FilledIsWanted, FillStages
<1>6. ASSUME at \in {"map", "photo", "notice"}, at' \in {"photo", "notice", "verify"},
             disturbed => disturbed', UNCHANGED job, form'.text = form.text
      PROVE  FilledIsWanted'
  BY <1>5, <1>6 DEF FilledIsWanted
<1>7. CASE SkipMap
  <2>1. KeyboardIsDown' /\ LeftoversDoNoHarm'
    BY <1>7 DEF SkipMap, KeyboardIsDown, LeftoversDoNoHarm
  <2> QED BY <1>6, <1>7, <2>1 DEF SkipMap, LeftoversInv
<1>8. CASE AttachMeetupPhoto
  <2>1. form'.text = form.text
    BY <1>8 DEF AttachMeetupPhoto, TabletTypeOK, Form
  <2>2. KeyboardIsDown' /\ LeftoversDoNoHarm'
    BY <1>8 DEF AttachMeetupPhoto, HideKeyboard, LeftoversInv, KeyboardIsDown,
                LeftoversDoNoHarm
  <2> QED BY <1>6, <1>8, <2>1, <2>2 DEF AttachMeetupPhoto, LeftoversInv
<1>9. CASE SetNoticeCheckbox
  <2>1. form'.text = form.text
    BY <1>9 DEF SetNoticeCheckbox, TabletTypeOK, Form
  <2>2. KeyboardIsDown' /\ LeftoversDoNoHarm'
    BY <1>9 DEF SetNoticeCheckbox, KeyboardIsDown, LeftoversDoNoHarm
  <2> QED BY <1>6, <1>9, <2>1, <2>2 DEF SetNoticeCheckbox, LeftoversInv
<1>10. ASSUME NEW missed \in BOOLEAN, AttachMapUrl(missed)
       PROVE  LeftoversInv'
  <2>1. form'.text = form.text
    BY <1>10 DEF AttachMapUrl, TabletTypeOK, Form
  <2>2. KeyboardIsDown' /\ LeftoversDoNoHarm'
    BY <1>10 DEF AttachMapUrl, KeyboardIsDown, LeftoversDoNoHarm
  <2>3. disturbed => disturbed'
    BY <1>10 DEF AttachMapUrl, Disturb
  <2> QED BY <1>6, <1>10, <2>1, <2>2, <2>3 DEF AttachMapUrl, LeftoversInv
<1> QED BY <1>3, <1>4, <1>7, <1>8, <1>9, <1>10

\* Where an undisturbed job could have ended in a check, it does not.
LEMMA LeftoversChecks ==
    ASSUME LeftoversInv, VerifyForm \/ NoticeUnderKeyboard
    PROVE  LeftoversInv'
<1>1. CASE VerifyForm
  <2>1. ~disturbed => FormMatches
    BY <1>1, FilledFields
    DEF VerifyForm, LeftoversInv, FilledIsWanted, FillStages, FormMatches,
        VerifiedFields
  <2>2. at' \notin FillStages /\ (at' = "idle" => disturbed')
    BY <1>1, <2>1 DEF VerifyForm, Goto, End, FillStages
  <2> QED BY <2>2, LeftoversElsewhere
<1>2. CASE NoticeUnderKeyboard
  <2>1. at = "notice" /\ keyboard /\ at' = "idle" /\ UNCHANGED job
    BY <1>2 DEF NoticeUnderKeyboard, End
  <2>2. ~(job.submit \/ job.of \in WithMap)
    BY <2>1 DEF LeftoversInv, KeyboardIsDown
  <2> QED BY <2>1, <2>2
      DEF LeftoversInv, KeyboardIsDown, FilledIsWanted, LeftoversDoNoHarm,
          Filled
<1> QED BY <1>1, <1>2

LEMMA LeftoversOther ==
    ASSUME StagesMatchJob,
           \/ \E k \in {"create", "delete"}, m \in Meetups, s \in BOOLEAN :
                 StartJob(k, m, s)
           \/ Navigate \/ DeleteMeetup
           \/ \E kept, notice \in BOOLEAN : OpenCreateMeetupForm(kept, notice)
           \/ \E missed \in BOOLEAN : PressSave(missed)
           \/ SubmitConfirmed \/ SubmitUnconfirmed \/ MarkRecorded \/ MarkFails
           \/ Evidence \/ LaunchTimesOut \/ HandlerFails
    PROVE  LeftoversInv'
<1> USE LeftoversElsewhere DEF Goto, End, Disturb, FillStages
<1>1. ASSUME NEW k \in {"create", "delete"}, NEW m \in Meetups, NEW s \in BOOLEAN,
             StartJob(k, m, s)
      PROVE  LeftoversInv'
  BY <1>1 DEF StartJob
<1>2. CASE Navigate
  <2>1. CASE LaunchApp \/ HomeSeen \/ CloseCrashDialog \/ DismissRegionGate
    BY <2>1 DEF LaunchApp, HomeSeen, CloseCrashDialog, DismissRegionGate,
                handlerVars
  <2>2. ASSUME NEW gate \in BOOLEAN, OpenGroups(gate)
        PROVE  LeftoversInv'
    BY <2>2 DEF OpenGroups
  <2>3. ASSUME NEW page \in {"club", "board", "otherClub"}, PickGroup(page)
        PROVE  LeftoversInv'
    BY <2>3 DEF PickGroup
  <2>4. CASE OtherClub
    BY <2>4 DEF OtherClub
  <2> QED BY <1>2, <2>1, <2>2, <2>3, <2>4 DEF Navigate
<1>3. CASE DeleteMeetup
  <2>1. ASSUME NEW e \in events, NEW wrong \in BOOLEAN, FindCard(e, wrong)
        PROVE  LeftoversInv'
    BY <2>1 DEF FindCard
  <2>2. CASE CardNotFound \/ VerifyTarget \/ DeleteUnconfirmed
    <3>1. ~Creating'
      BY <2>2 DEF CardNotFound, VerifyTarget, DeleteUnconfirmed, StagesMatchJob,
                  DeleteStages, Creating
    <3>2. at' \in {"idle", "mark", "evidence"}
      BY <2>2 DEF CardNotFound, VerifyTarget, DeleteUnconfirmed
    <3> QED BY <3>1, <3>2
  <2>3. ASSUME NEW missed \in BOOLEAN, PressDelete(missed) \/ PressConfirm(missed)
        PROVE  LeftoversInv'
    BY <2>3 DEF PressDelete, PressConfirm
  <2>4. CASE DeleteConfirmed
    BY <2>4 DEF DeleteConfirmed
  <2> QED BY <1>3, <2>1, <2>2, <2>3, <2>4 DEF DeleteMeetup
<1>4. ASSUME NEW kept \in BOOLEAN, NEW notice \in BOOLEAN,
             OpenCreateMeetupForm(kept, notice)
      PROVE  LeftoversInv'
  BY <1>4 DEF OpenCreateMeetupForm
<1>5. ASSUME NEW missed \in BOOLEAN, PressSave(missed)
      PROVE  LeftoversInv'
  BY <1>5 DEF PressSave
<1>6. CASE SubmitConfirmed \/ SubmitUnconfirmed
  BY <1>6 DEF SubmitConfirmed, SubmitUnconfirmed
<1>7. CASE MarkRecorded \/ MarkFails \/ Evidence
  BY <1>7 DEF MarkRecorded, MarkFails, Evidence
<1>8. CASE LaunchTimesOut \/ HandlerFails
  BY <1>8 DEF LaunchTimesOut, HandlerFails
<1> QED BY <1>1, <1>2, <1>3, <1>4, <1>5, <1>6, <1>7, <1>8

LEMMA LeftoversStep ==
    TabletTypeOK /\ StagesMatchJob /\ LeftoversInv /\ [TabletNext]_tabletVars
        => LeftoversInv'
<1> SUFFICES ASSUME TabletTypeOK, StagesMatchJob, LeftoversInv,
                    [TabletNext]_tabletVars
             PROVE  LeftoversInv'
  OBVIOUS
<1>1. CASE UNCHANGED tabletVars
  BY <1>1, LeftoversWhileWaiting DEF tabletVars, handlerVars, screenVars
<1>2. CASE CreateMeetup
  <2>1. ASSUME NEW f \in TextFields, NEW missed \in BOOLEAN, FillField(f, missed)
        PROVE  LeftoversInv'
    BY <2>1, LeftoversFill
  <2> QED BY <1>2, <2>1, LeftoversForm, LeftoversChecks, LeftoversOther
      DEF CreateMeetup
<1>3. CASE HandlerStep /\ ~CreateMeetup
  BY <1>3, LeftoversOther DEF HandlerStep
<1> QED BY <1>1, <1>2, <1>3, LeftoversOther, LeftoversApp DEF TabletNext, HandlerStep

\* A create job that nothing disturbs is reported complete, whatever form,
\* keyboard or dialog the jobs before it left.
THEOREM LeftoversDoNoHarmCorrect == TabletSpec => []LeftoversDoNoHarm
<1>1. SubmitInv => StagesMatchJob
  BY DEF SubmitInv
<1>2. TabletSpec => []LeftoversInv
  BY <1>1, LeftoversInit, LeftoversStep, TabletTypeCorrect, SubmitInvCorrect, PTL
  DEF TabletSpec
<1>3. LeftoversInv => LeftoversDoNoHarm
  BY DEF LeftoversInv
<1> QED BY <1>2, <1>3, PTL
-----------------------------------------------------------------------------
(* The handlers implement JobHandler.                                      *)

\* A step between two stages of one phase.
LEMMA PhaseStutter ==
    ASSUME UNCHANGED <<job, report>>, Phase' = Phase
    PROVE  UNCHANGED Contract!handlerContractVars
BY DEF Contract!handlerContractVars

LEMMA Working ==
    ASSUME UNCHANGED <<job, report>>, at # "idle", at' # "idle",
           at \notin {"press", "confirm", "dialog", "gone", "evidence"},
           at' \notin {"press", "confirm", "dialog", "gone"},
           at' = "evidence" => ~job.submit
    PROVE  UNCHANGED Contract!handlerContractVars
BY PhaseStutter DEF Phase

LEMMA EndsInContract ==
    ASSUME NEW r \in Report, at # "idle", End(r), Contract!MayReport(r)
    PROVE  Contract!HandlerNext
BY DEF End, Contract!HandlerNext, Contract!End, Contract!Report, Report, Phase

LEMMA NavigateRefines ==
    ASSUME Navigate
    PROVE  [Contract!HandlerNext]_(Contract!handlerContractVars)
<1> USE Working DEF Goto, handlerVars
<1>1. CASE LaunchApp \/ HomeSeen \/ CloseCrashDialog \/ DismissRegionGate
  BY <1>1 DEF LaunchApp, HomeSeen, CloseCrashDialog, DismissRegionGate
<1>2. ASSUME NEW gate \in BOOLEAN, OpenGroups(gate)
      PROVE  UNCHANGED Contract!handlerContractVars
  BY <1>2 DEF OpenGroups
<1>3. ASSUME NEW page \in {"club", "board", "otherClub"}, PickGroup(page)
      PROVE  UNCHANGED Contract!handlerContractVars
  BY <1>3 DEF PickGroup
<1>4. CASE OtherClub
  BY <1>4, EndsInContract DEF OtherClub, Contract!MayReport, Report
<1> QED BY <1>1, <1>2, <1>3, <1>4 DEF Navigate

LEMMA FillsRefine ==
    ASSUME \/ \E kept, notice \in BOOLEAN : OpenCreateMeetupForm(kept, notice)
           \/ \E next \in {"form", "timePicker"} : SetDate(next)
           \/ SetTime
           \/ \E f \in TextFields, missed \in BOOLEAN : FillField(f, missed)
           \/ SkipMap \/ AttachMeetupPhoto \/ SetNoticeCheckbox
           \/ \E missed \in BOOLEAN : AttachMapUrl(missed)
    PROVE  UNCHANGED Contract!handlerContractVars
<1> USE Working DEF Goto
<1>1. ASSUME NEW kept \in BOOLEAN, NEW notice \in BOOLEAN,
             OpenCreateMeetupForm(kept, notice)
      PROVE  UNCHANGED Contract!handlerContractVars
  BY <1>1 DEF OpenCreateMeetupForm
<1>2. ASSUME NEW next \in {"form", "timePicker"}, SetDate(next)
      PROVE  UNCHANGED Contract!handlerContractVars
  BY <1>2 DEF SetDate
<1>3. ASSUME NEW f \in TextFields, NEW missed \in BOOLEAN, FillField(f, missed)
      PROVE  UNCHANGED Contract!handlerContractVars
  <2>1. /\ f \in {"title", "place", "cost", "count"}
        /\ AfterField[f] \in {"place", "cost", "count", "map"}
    BY DEF AfterField, TextFields
  <2> QED BY <1>3, <2>1 DEF FillField
<1>4. ASSUME NEW missed \in BOOLEAN, AttachMapUrl(missed)
      PROVE  UNCHANGED Contract!handlerContractVars
  BY <1>4 DEF AttachMapUrl
<1>5. CASE SetTime \/ SkipMap \/ AttachMeetupPhoto \/ SetNoticeCheckbox
  BY <1>5 DEF SetTime, SkipMap, AttachMeetupPhoto, SetNoticeCheckbox
<1> QED BY <1>1, <1>2, <1>3, <1>4, <1>5

\* A retry is asked for only from the start of the app and from a mark that
\* failed, both before the press.
LEMMA EndsRefine ==
    ASSUME TabletTypeOK, StagesMatchJob,
           \/ NoticeUnderKeyboard \/ SubmitUnconfirmed \/ CardNotFound
           \/ DeleteUnconfirmed \/ MarkFails \/ Evidence \/ LaunchTimesOut
           \/ HandlerFails
    PROVE  Contract!HandlerNext
<1> USE EndsInContract DEF Contract!MayReport, Report
<1>1. CASE NoticeUnderKeyboard \/ SubmitUnconfirmed
  BY <1>1 DEF NoticeUnderKeyboard, SubmitUnconfirmed, AfterUnconfirmed
<1>2. CASE CardNotFound \/ DeleteUnconfirmed
  BY <1>2 DEF CardNotFound, DeleteUnconfirmed
<1>3. CASE MarkFails
  BY <1>3 DEF MarkFails, AfterFailedMark, Phase
<1>4. CASE Evidence
  BY <1>4 DEF Evidence, Phase
<1>5. CASE LaunchTimesOut
  BY <1>5 DEF LaunchTimesOut, Phase
<1>6. CASE HandlerFails
  BY <1>6 DEF HandlerFails
<1> QED BY <1>1, <1>2, <1>3, <1>4, <1>5, <1>6

LEMMA ChecksRefine ==
    ASSUME \/ VerifyForm \/ VerifyTarget
           \/ \E e \in events, wrong \in BOOLEAN : FindCard(e, wrong)
    PROVE  [Contract!HandlerNext]_(Contract!handlerContractVars)
<1> USE EndsInContract, Working DEF Goto, Contract!MayReport, Report
<1>1. CASE VerifyForm
  BY <1>1 DEF VerifyForm
<1>2. CASE VerifyTarget
  BY <1>2 DEF VerifyTarget
<1>3. ASSUME NEW e \in events, NEW wrong \in BOOLEAN, FindCard(e, wrong)
      PROVE  UNCHANGED Contract!handlerContractVars
  BY <1>3 DEF FindCard
<1> QED BY <1>1, <1>2, <1>3

\* A submit job is marked, then presses, then reads what came of it.
LEMMA PressRefines ==
    ASSUME StagesMatchJob,
           \/ MarkRecorded \/ SubmitConfirmed \/ DeleteConfirmed
           \/ \E missed \in BOOLEAN :
                 PressSave(missed) \/ PressDelete(missed) \/ PressConfirm(missed)
    PROVE  [Contract!HandlerNext]_(Contract!handlerContractVars)
<1> USE DEF Goto, Phase
<1>1. CASE MarkRecorded
  <2>1. job.submit
    BY <1>1 DEF MarkRecorded, StagesMatchJob, SubmitStages
  <2> QED BY <1>1, <2>1 DEF MarkRecorded, Contract!HandlerNext, Contract!Mark
<1>2. ASSUME NEW missed \in BOOLEAN, PressSave(missed)
      PROVE  Contract!HandlerNext
  BY <1>2 DEF PressSave, Contract!HandlerNext, Contract!Press
<1>3. ASSUME NEW missed \in BOOLEAN, PressDelete(missed)
      PROVE  Contract!HandlerNext
  BY <1>3 DEF PressDelete, Contract!HandlerNext, Contract!Press
<1>4. ASSUME NEW missed \in BOOLEAN, PressConfirm(missed)
      PROVE  UNCHANGED Contract!handlerContractVars
  BY <1>4, PhaseStutter DEF PressConfirm
<1>5. CASE SubmitConfirmed \/ DeleteConfirmed
  <2>1. at \in {"confirm", "gone"} /\ at' = "evidence" /\ UNCHANGED <<job, report>>
    BY <1>5 DEF SubmitConfirmed, DeleteConfirmed
  <2>2. job.submit
    BY <2>1 DEF StagesMatchJob, SubmitStages
  <2> QED BY <2>1, <2>2, PhaseStutter
<1> QED BY <1>1, <1>2, <1>3, <1>4, <1>5

LEMMA OthersRefine ==
    ASSUME \/ UNCHANGED tabletVars
           \/ \E gate \in BOOLEAN : AppStarts(gate)
           \/ KeyboardDies \/ AppAnswers
    PROVE  UNCHANGED Contract!handlerContractVars
<1>1. UNCHANGED <<at, job, report>>
  BY DEF tabletVars, handlerVars, AppStarts, KeyboardDies, AppAnswers, AppDone,
         AppRefuses
<1> QED BY <1>1, PhaseStutter DEF Phase

LEMMA StartRefines ==
    ASSUME NEW k \in {"create", "delete"}, NEW m \in Meetups, NEW s \in BOOLEAN,
           StartJob(k, m, s)
    PROVE  Contract!HandlerNext
BY DEF StartJob, Phase, Contract!HandlerNext, Contract!Begin

\* The queue may rely on the handlers as JobHandler says: a dry run presses
\* nothing, a press follows the mark and happens once, and no retry is asked
\* for after it.
THEOREM HandlerContractCorrect == TabletSpec => HandlerContractKept
<1>1. TabletInit => Contract!HandlerInit
  BY DEF TabletInit, Phase, Contract!HandlerInit, Contract!Report
<1>2. TabletTypeOK /\ SubmitInv /\ [TabletNext]_tabletVars
        => [Contract!HandlerNext]_(Contract!handlerContractVars)
  <2> SUFFICES ASSUME TabletTypeOK, SubmitInv, [TabletNext]_tabletVars
               PROVE  [Contract!HandlerNext]_(Contract!handlerContractVars)
    OBVIOUS
  <2>1. StagesMatchJob
    BY DEF SubmitInv
  <2>2. CASE CreateMeetup
    BY <2>1, <2>2, FillsRefine, EndsRefine, ChecksRefine, PressRefines
    DEF CreateMeetup
  <2>3. CASE DeleteMeetup
    BY <2>1, <2>3, EndsRefine, ChecksRefine, PressRefines DEF DeleteMeetup
  <2>4. CASE MarkRecorded \/ MarkFails \/ Evidence \/ LaunchTimesOut \/ HandlerFails
    BY <2>1, <2>4, EndsRefine, PressRefines
  <2> QED
    BY <2>2, <2>3, <2>4, NavigateRefines, OthersRefine, StartRefines
    DEF TabletNext, HandlerStep
<1> QED
  BY <1>1, <1>2, TabletTypeCorrect, SubmitInvCorrect, PTL
  DEF TabletSpec, HandlerContractKept, Contract!HandlerSpec
=============================================================================
