------------------------------- MODULE Device -------------------------------
(***************************************************************************)
(* How the worker finds its tablet and tells people that it is gone        *)
(* (worker/adb.js, port-scan.js, host-scan.js, device-watch.js, and        *)
(* checkDevice and main of worker/index.js).  The tablet is reached over   *)
(* Wi-Fi: a reboot changes its port, DHCP may change its address and give  *)
(* it to another Android device.  resolveDevice is a sequence of adb       *)
(* commands and scans, and the network may change between any two of them. *)
(* A command may fail, or time out and still have its effect; an address   *)
(* that a scan misses counts as one whose adb connect fails.               *)
(*                                                                         *)
(* The worker is configured with one address, the tablet's home and the    *)
(* fixed port, as ADB_CONNECT_ADDRESS and ADB_SERIAL.                      *)
(***************************************************************************)
EXTENDS Integers, FiniteSets

CONSTANTS Tablet,        \* the device the worker is for
          Strangers,     \* other Android devices of the network
          Hosts,         \* addresses of the subnet
          Home,          \* the configured address
          HomeReserved,  \* the router gives Home to no stranger
          SerialKnown,   \* ADB_DEVICE_SERIALNO is set
          StrangerPorts, \* bound: ports that strangers listen on
          MaxFaults,     \* bound: commands of adb that fail, and restarts
          Nowhere        \* no address, no device

Devices == {Tablet} \cup Strangers
Port == {"fixed", "random"}
Address == [host : Hosts, port : Port]

ASSUME DeviceAssumption ==
    /\ Home \in Hosts
    /\ Tablet \notin Strangers
    /\ Nowhere \notin Hosts \cup Devices \cup Address
    /\ {HomeReserved, SerialKnown} \subseteq BOOLEAN
    /\ StrangerPorts \subseteq Port /\ MaxFaults \in Nat

VARIABLES mdnsWorks,  \* this build of adb finds services with mDNS
          place,      \* [Devices -> Address or Nowhere], where adbd listens
          link,       \* [Address -> "none", "device", or "offline" for any
                      \* state that is not ready], what adb devices lists
          slipped,    \* addresses ready with a stranger past the check of its
                      \* serial number (history)
          faults,     \* commands of adb that have failed, restarts
          stage,      \* the step of resolveDevice, or "idle"
          asker,      \* who waits for it: "check" or "job"
          attempted,  \* addresses this reconnect has tried
          todo,       \* addresses the current scan has found and not tried
          confirmed,  \* host whose serial number was checked, or Nowhere
          using,      \* the device that resolveDevice has returned, or Nowhere
          watch,      \* state of the device watch
          sent        \* the last alert sent; delivery is tried once

networkVars == <<mdnsWorks, place, link, slipped, faults>>
resolveVars == <<stage, asker, attempted, todo, confirmed, using>>
watchVars == <<watch, sent>>
deviceVars == <<networkVars, resolveVars, watchVars>>

HomeAddress == [host |-> Home, port |-> "fixed"]
-----------------------------------------------------------------------------
DeviceTypeOK ==
    /\ mdnsWorks \in BOOLEAN
    /\ place \in [Devices -> Address \cup {Nowhere}]
    /\ link \in [Address -> {"none", "device", "offline"}]
    /\ slipped \subseteq Address /\ faults \in 0..MaxFaults
    /\ stage \in {"idle", "select", "known", "mdns", "ports", "hosts", "serial",
                  "reselect"}
    /\ asker \in {"check", "job"}
    /\ attempted \subseteq Address /\ todo \subseteq Address
    /\ confirmed \in Hosts \cup {Nowhere}
    /\ using \in Devices \cup {Nowhere}
    /\ watch \in {"unknown", "online", "offline"}
    /\ sent \in {"started", "lost", "recovered"}

DeviceInit ==
    /\ mdnsWorks \in BOOLEAN
    /\ place = [d \in Devices |-> IF d = Tablet THEN HomeAddress ELSE Nowhere]
    /\ link = [a \in Address |-> "none"]
    /\ slipped = {} /\ faults = 0
    /\ stage = "idle" /\ asker = "check"
    /\ attempted = {} /\ todo = {} /\ confirmed = Nowhere /\ using = Nowhere
    /\ watch = "unknown" /\ sent = "started"
-----------------------------------------------------------------------------
(* adb and the network (external).                                         *)

Listening(a) == \E d \in Devices : place[d] = a
At(a) == IF Listening(a) THEN CHOOSE d \in Devices : place[d] = a ELSE Nowhere
Strange(a) == \E d \in Strangers : place[d] = a

\* slipped follows link: these addresses join it.
Slips(as) == slipped' = {a \in slipped \cup as : link'[a] = "device"}

\* A device moves, reboots or goes away, and adb has not noticed yet; what it had
\* connected at the address of one that arrives is not connected to that one.
Moves(d, a) ==
    /\ a # place[d]
    /\ a # Nowhere => /\ \A e \in Devices \ {d} :
                            place[e] # Nowhere => place[e].host # a.host
                      /\ HomeReserved /\ d # Tablet => a.host # Home
                      /\ d # Tablet => a.port \in StrangerPorts
    /\ place' = [place EXCEPT ![d] = a]
    /\ link' = IF a # Nowhere /\ link[a] = "device"
               THEN [link EXCEPT ![a] = "offline"] ELSE link
    /\ Slips({})
    /\ UNCHANGED <<mdnsWorks, faults, resolveVars, watchVars>>

\* adb notices that nobody answers any more.
LinkDrops(a) ==
    /\ link[a] = "device" /\ ~ Listening(a)
    /\ link' = [link EXCEPT ![a] = "offline"]

\* adb gives up a transport that is not ready, or it gets ready with whoever
\* answers at the address by now.
OfflineEnds(a) ==
    /\ link[a] = "offline"
    /\ \/ link' = [link EXCEPT ![a] = "none"]
       \/ Listening(a) /\ link' = [link EXCEPT ![a] = "device"]

Settles(a) ==
    /\ LinkDrops(a) \/ OfflineEnds(a)
    /\ Slips(IF Strange(a) THEN {a} ELSE {})
    /\ UNCHANGED <<mdnsWorks, place, faults, resolveVars, watchVars>>

AdbFails == faults < MaxFaults /\ faults' = faults + 1

\* adb connect answers "connected to" or "already connected to", or something else.
Connects(a) == Listening(a) \/ link[a] # "none"
ConnectWorks(a, answer) ==
    /\ answer = Connects(a)
    /\ link' = [link EXCEPT ![a] = IF @ = "none" /\ answer THEN "device" ELSE @]
    /\ Slips({}) /\ UNCHANGED faults

\* It runs into its time limit or the device does not authorize it, and may leave
\* a transport that is not ready.  With another answer, reconnect goes on and asks
\* for no serial number.
ConnectFails(a, answer) ==
    /\ AdbFails
    /\ \/ link' = link /\ ~ answer
       \/ /\ link[a] = "none" /\ Listening(a)
          /\ link' = [link EXCEPT ![a] = "offline"]
    /\ Slips(IF Strange(a) THEN {a} ELSE {})

Connect(a, answer) == ConnectWorks(a, answer) \/ ConnectFails(a, answer)
-----------------------------------------------------------------------------
(* resolveDevice.                                                          *)

NoAlert == UNCHANGED watchVars

Ask(who) ==
    /\ stage = "idle"
    /\ stage' = "select" /\ asker' = who /\ using' = Nowhere
    /\ UNCHANGED <<networkVars, attempted, todo, confirmed>> /\ NoAlert

\* parseWirelessHost: the port is not part of what a device is known by.
HostOf(a) == a.host

\* matchPreferred and selectDevice: the host is the identity of a wireless
\* device, and of its transports any that is ready will do.
Preferred == IF confirmed # Nowhere THEN confirmed ELSE Home
Ready == {a \in Address : HostOf(a) = Preferred /\ link[a] = "device"}

\* createDeviceWatch.record: an event only where the state changes, and none
\* for a first check that is fine.
Event_NotAtFirst(old, new) ==
    IF old = new \/ old = "unknown" THEN "none"
    ELSE IF new = "offline" THEN "lost" ELSE "recovered"
Event(old, new) ==
    IF old = new THEN "none"
    ELSE IF new = "offline" THEN "lost"
    ELSE IF old = "unknown" THEN "none" ELSE "recovered"

\* notifyDeviceEvent is tried once.  An alert that is not delivered is logged and
\* forgotten.
Sent(event) == IF event = "none" THEN sent ELSE event

Record(new) == watch' = new /\ sent' = Sent(Event(watch, new))

Return(d, status) ==
    /\ stage' = "idle" /\ using' = d
    /\ IF asker = "check" THEN Record(status) ELSE NoAlert
    /\ asker' = "check" /\ attempted' = {} /\ todo' = {}
    /\ UNCHANGED <<mdnsWorks, place, link, slipped, confirmed>>

\* The address is returned; nobody may answer there by now.
Selected(a) ==
    /\ stage \in {"select", "reselect"} /\ a \in Ready
    /\ Return(At(a), "online") /\ UNCHANGED faults

\* Nothing is ready, or adb devices fails.
NoneListed == (Ready = {} /\ UNCHANGED faults) \/ AdbFails

NotSelected ==
    /\ stage = "select" /\ NoneListed
    /\ stage' = "known"
    /\ UNCHANGED <<mdnsWorks, place, link, slipped, asker, attempted, todo, confirmed,
                   using>>
    /\ NoAlert

Unresolved ==
    /\ stage = "reselect" /\ NoneListed
    /\ Return(Nowhere, "offline")

\* The configured address; it works again, so nothing needs to be confirmed.
ConfirmedAfterHome_Kept == confirmed
ConfirmedAfterHome == Nowhere

\* Each scan runs when its stage is entered, and leaves out what was tried.
Enter(s, as) == stage' = s /\ todo' = as \ attempted'

Advertised == IF mdnsWorks
              THEN {a \in Address : a.port = "random" /\ Listening(a)} ELSE {}
OpenPorts == {a \in Address : a.host = Home /\ Listening(a)}
OpenHosts == IF SerialKnown
             THEN {a \in Address : a.port = "fixed" /\ Listening(a)} ELSE {}

TryHome ==
    /\ stage = "known"
    /\ attempted' = {HomeAddress}
    /\ \/ /\ Connect(HomeAddress, TRUE)
          /\ confirmed' = ConfirmedAfterHome
          /\ Enter("reselect", {})
       \/ /\ Connect(HomeAddress, FALSE)
          /\ UNCHANGED confirmed /\ Enter("mdns", Advertised)
    /\ UNCHANGED <<mdnsWorks, place, asker, using>> /\ NoAlert

NothingLeft ==
    /\ todo = {}
    /\ UNCHANGED <<networkVars, asker, attempted, confirmed, using>> /\ NoAlert
    /\ \/ stage = "mdns" /\ Enter("ports", OpenPorts)
       \/ stage = "ports" /\ Enter("hosts", OpenHosts)
       \/ stage = "hosts" /\ Enter("reselect", {})

\* tryAddress.  A service that connects ends the search; an open port that
\* connects ends only the scan of the ports.
Try(s, a, Then) ==
    /\ stage = s /\ a \in todo
    /\ attempted' = attempted \cup {a}
    /\ \/ Connect(a, TRUE) /\ Then
       \/ Connect(a, FALSE) /\ UNCHANGED stage /\ todo' = todo \ {a}
    /\ UNCHANGED <<mdnsWorks, place, asker, confirmed, using>> /\ NoAlert

TryService(a) == Try("mdns", a, Enter("reselect", {}))
TryPort(a) == Try("ports", a, Enter("hosts", OpenHosts))
TryHost(a) == Try("hosts", a, stage' = "serial" /\ UNCHANGED todo)

\* isExpectedDevice asks the device for its serial number.
IsExpectedDevice_Answers(a) == link[a] = "device"
IsExpectedDevice(a) == link[a] = "device" /\ At(a) = Tablet

Disconnected_Kept(a) == link
Disconnected(a) == [link EXCEPT ![a] = "none"]

Expected(a) ==
    /\ IsExpectedDevice(a)
    /\ confirmed' = HostOf(a) /\ Enter("reselect", {})
    /\ UNCHANGED <<link, slipped, faults>>

\* The wrong device, or no answer: it is disconnected.  If adb fails in one of the
\* two commands, or in both, reconnect goes on all the same.
Unexpected(a) ==
    /\ \/ /\ ~ IsExpectedDevice(a) /\ UNCHANGED faults
          /\ link' = Disconnected(a) /\ Slips({})
       \/ AdbFails /\ link' = Disconnected(a) /\ Slips({})
       \/ AdbFails /\ UNCHANGED link /\ Slips(IF Strange(a) THEN {a} ELSE {})
    /\ stage' = "hosts" /\ todo' = todo \ {a} /\ UNCHANGED confirmed

\* The address just tried is the only one in both sets.
CheckSerial(a) ==
    /\ stage = "serial" /\ a \in todo \cap attempted
    /\ UNCHANGED <<mdnsWorks, place, asker, attempted, using>> /\ NoAlert
    /\ Expected(a) \/ Unexpected(a)

\* The process starts again: main tells people so.
WorkerRestarts ==
    /\ faults < MaxFaults /\ faults' = faults + 1
    /\ stage' = "idle" /\ asker' = "check" /\ attempted' = {} /\ todo' = {}
    /\ confirmed' = Nowhere /\ using' = Nowhere
    /\ watch' = "unknown"
    /\ sent' = "started"
    /\ UNCHANGED <<mdnsWorks, place, link, slipped>>
-----------------------------------------------------------------------------
Resolve ==
    \/ NotSelected \/ TryHome \/ NothingLeft
    \/ \E a \in Address : TryService(a) \/ TryPort(a) \/ TryHost(a) \/ CheckSerial(a)
    \/ \E a \in Address : Selected(a)
    \/ Unresolved

DeviceNext ==
    \/ \E who \in {"check", "job"} : Ask(who)
    \/ Resolve
    \/ \E d \in Devices, a \in Address \cup {Nowhere} : Moves(d, a)
    \/ \E a \in Address : Settles(a)
    \/ WorkerRestarts

DeviceSpec == DeviceInit /\ [][DeviceNext]_deviceVars

\* The loop of main checks the device whenever the queue is empty, and it is empty
\* again and again; resolveDevice has no unbounded loop; and adb keeps nothing for
\* ever that is not ready or that nobody answers.
DeviceFairness ==
    /\ SF_deviceVars(Ask("check"))
    /\ WF_deviceVars(Resolve)
    /\ \A a \in Address : WF_deviceVars(Settles(a))

FairDeviceSpec == DeviceSpec /\ DeviceFairness
-----------------------------------------------------------------------------
(* What must hold.                                                         *)

\* A job is given the tablet.  Whatever moves and fails, a stranger gets it only
\* at the host where the tablet's serial number was right, and only over a
\* transport that no search has checked or could cut: adb has made it ready by
\* itself, or the connect or the disconnect of a search has failed
\* (adb.js:122-135, 156-162, 172-177, 230).  The configured address is trusted;
\* where mDNS works, so is a service it finds, and this does not hold.
OnlyTheTablet ==
    [][~mdnsWorks /\ stage # "idle" /\ stage' = "idle" /\ using' \in Strangers
         => place[using'] \in slipped /\ place[using'].host = confirmed]_deviceVars

\* What adb.js:102-105 and 126-127 are after, in no run: it fails so.
NeverAStranger == ~mdnsWorks => using \in {Tablet, Nowhere}

\* Of the addresses the scan of the subnet has tried, none is left ready with a
\* stranger, whoever moved while it ran, unless a command failed or adb has made
\* it ready since (adb.js:140-141).
Estranged(a) == link[a] = "device" /\ Strange(a)
StrangersLeftAlone ==
    stage = "reselect" =>
       \A a \in attempted : a.port = "fixed" /\ Estranged(a) => a \in slipped

\* A stranger is taken for the tablet, and no search is made.
Mistaken == \E a \in slipped : a.host = confirmed

\* A tablet that goes away for good is reported, without waiting for a job that
\* needs it: in the end the last alert sent is that it is lost, over any number of
\* losses, recoveries and restarts (device-watch.js:1-5, index.js:119-121).
LossIsReported ==
    <>[](~mdnsWorks /\ place[Tablet] = Nowhere /\ ~ Mistaken) => <>[](sent = "lost")

\* A tablet that from some time on stays at one address with the fixed port,
\* wherever that is, is found again and again if its serial number is known, and
\* so is one that is back at the configured host with any port, unless a search
\* has confirmed another host meanwhile.  Neither is, while a stranger at the
\* confirmed host is mistaken for it.  Where mDNS works this is not promised: a
\* service that connects ends the search, and nothing is confirmed.
Findable(p) ==
    /\ ~mdnsWorks /\ place[Tablet] = p /\ ~ Mistaken
    /\ \/ p = HomeAddress
       \/ p.port = "fixed" /\ SerialKnown
       \/ p.host = Home /\ confirmed = Nowhere

FoundAgain ==
    \A p \in Address : <>[]Findable(p) => []<>(using = Tablet)

\* As the comments promise (adb.js:193-195, index.js:119-121): a tablet that has
\* come up again at the configured host with a random port is found by the scan
\* of the ports, without a person.
FoundAfterReboot ==
    LET p == [host |-> Home, port |-> "random"]
    IN <>[](~mdnsWorks /\ place[Tablet] = p) => []<>(using = Tablet)
-----------------------------------------------------------------------------
(* The inductive invariant.                                                *)

\* No two devices have one address, and no stranger has Home.
HostsDiffer ==
    \A d, e \in Devices :
       d # e /\ place[d] # Nowhere /\ place[e] # Nowhere
          => place[d].host # place[e].host

HomeIsKept ==
    HomeReserved => \A d \in Strangers : place[d] # Nowhere => place[d].host # Home

\* What each stage looks through, and that it tries nothing twice.
SearchInOrder ==
    /\ stage \in {"idle", "select", "known"} => attempted = {} /\ todo = {}
    /\ stage = "mdns" => \A a \in todo : mdnsWorks /\ a.port = "random"
    /\ stage = "ports" => \A a \in todo : a.host = Home
    /\ stage \in {"hosts", "serial"} => \A a \in todo : a.port = "fixed"
    /\ stage # "serial" => todo \cap attempted = {}
    /\ \A a, b \in todo \cap attempted : a = b

\* Where a stranger may be ready without having slipped: not under an address that
\* was tried, but for the one whose serial number is being asked for; without mDNS,
\* not under the confirmed host either.
SerialAsked(a) == stage = "serial" /\ a \in todo \cap attempted
Cleared(a) == Estranged(a) => a \in slipped \/ SerialAsked(a)
TriedIsTablet ==
    HomeReserved => \A a \in attempted : a.port = "fixed" => Cleared(a)
ConfirmedIsTablet ==
    HomeReserved /\ ~mdnsWorks =>
       \A a \in Address : a.host = confirmed => Cleared(a)

DeviceInv ==
    /\ DeviceTypeOK
    /\ HostsDiffer /\ HomeIsKept
    /\ SearchInOrder /\ TriedIsTablet /\ ConfirmedIsTablet
=============================================================================
