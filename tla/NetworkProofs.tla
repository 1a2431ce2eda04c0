---------------------------- MODULE NetworkProofs ----------------------------
(***************************************************************************)
(* The invariants of NetworkSwitch for all thresholds, those of            *)
(* NetInterfaces whatever the leases and however many events wait, and     *)
(* both of them for the two parts side by side.                            *)
(*                                                                         *)
(* TornDownOnce depends on flags: modem_is_disconnected and modem_status   *)
(* are all that the network task looks at before it calls sim_denit, and   *)
(* the event task stores them.  SwitchInv ties them to the modem: a flag   *)
(* that allows a teardown is set only while there is something to tear     *)
(* down.  SwitchFlags says it of the flags, AtPoints of the modem at each  *)
(* point of the network task, Events of the modem while an event is under  *)
(* way.                                                                    *)
(*                                                                         *)
(* NetifSound needs NetifInv:                                              *)
(*   TypesHold   the types, and only the station ever has a timeout;       *)
(*   Present     the drivers and PPP run only interfaces that are listed;  *)
(*   Chosen      the default is right among what the choice has seen;      *)
(*   Station     how the DHCP client, its address, what the application    *)
(*               was told and the timer go together;                       *)
(*   Tells       the event task tells only an address that there is;       *)
(*   Others      the access point keeps its address, PPP has no timer;     *)
(*   Remembered  the default is listed.                                    *)
(***************************************************************************)
EXTENDS MCNetworkSwitch, TLAPS

(* The network switch *)

SwitchFlags ==
    /\ modem_is_disconnected = TRUE => modem = "ended" /\ handler = "none"
    /\ modem_status = TRUE =>
          modem = "online" \/ (modem = "ended" /\ handler = "lost")
    /\ connect_info = "SIM3G" => modem_status = TRUE

AtPoints ==
    /\ modem = "dialing" => pc \in {"dial", "redialled"}
    /\ pc \in {"start", "open", "reopen"} => modem = "off"
    /\ pc = "stopRedial" =>
          modem = "ended" /\ handler = "none" /\ modem_is_disconnected = FALSE
    /\ pc = "stopOff" => modem \in {"online", "ended"}
    /\ bits = TRUE => modem \in {"online", "ended"}

Events ==
    /\ handler \in {"addressed", "switch", "switching"} => modem = "online"
    /\ handler = "lost" => modem = "ended"
    /\ handler = "addressed" => modem_status = FALSE
    /\ modem = "online" /\ handler # "addressed" => modem_status = TRUE

\* The counter has room for one more check.
Room == pc \in {"start", "open", "dial", "count"} => mqtt_count < RestartAt

SwitchInv == TypeOK /\ SwitchFlags /\ AtPoints /\ Events /\ Room
\* The Boolean variables, apart from the rest: their values are also formulas,
\* which needs another prover than the arithmetic.
Booleans ==
    /\ bits \in BOOLEAN /\ modem_is_disconnected \in BOOLEAN
    /\ modem_status \in BOOLEAN
    /\ wifi_status \in BOOLEAN /\ ifwifi \in BOOLEAN /\ retried \in BOOLEAN
    /\ mqtt_status \in BOOLEAN
    /\ job \in BOOLEAN /\ download \in BOOLEAN
    /\ simNet \in BOOLEAN

\* Every step leaves Booleans in the Boolean variables.
LEMMA BooleansKept == TypeOK /\ [Next]_vars => Booleans'
<1> SUFFICES ASSUME TypeOK, [Next]_vars PROVE Booleans'
    OBVIOUS
<1>0. Booleans
      BY Zenon DEF TypeOK, Booleans
<1> USE <1>0 DEF Booleans, task, sim, wifi, mqtt, update, world
<1>1. CASE Start
      BY <1>1, Zenon DEF Start
<1>2. CASE NoSim
      BY <1>2, Zenon DEF NoSim, AfterInit
<1>3. CASE Dial
      BY <1>3, Zenon DEF Dial
<1>4. CASE DialReturns
      BY <1>4, Zenon DEF DialReturns, AfterInit
<1>5. CASE CountFailure
      BY <1>5, Zenon DEF CountFailure
<1>6. CASE CountReset
      BY <1>6, Zenon DEF CountReset
<1>7. CASE Redial
      BY <1>7, Zenon DEF Redial
<1>8. CASE RedialDenit
      BY <1>8, Zenon DEF RedialDenit, Denit
<1>9. CASE Off
      BY <1>9, Zenon DEF Off
<1>10. CASE OffDenit
      BY <1>10, Zenon DEF OffDenit, Denit
<1>11. CASE DenitAborts
      BY <1>11, Zenon DEF DenitAborts, Restart
<1>12. CASE Judge
      BY <1>12, Zenon DEF Judge
<1>13. CASE ForcedRestart
      BY <1>13, Zenon DEF ForcedRestart, Restart
<1>14. CASE PppGotIp
      BY <1>14, Zenon DEF PppGotIp
<1>15. CASE PppStatus
      BY <1>15, Zenon DEF PppStatus
<1>16. CASE PppSwitch
      BY <1>16, Zenon DEF PppSwitch
<1>17. CASE PppSwitched
      BY <1>17, Zenon DEF PppSwitched
<1>18. CASE PppSwitchCrashes
      BY <1>18, Zenon DEF PppSwitchCrashes, Restart
<1>19. CASE PppEnds
      BY <1>19, Zenon DEF PppEnds
<1>20. CASE PppLostIp
      BY <1>20, Zenon DEF PppLostIp
<1>21. CASE WifiDisconnected
      BY <1>21, Zenon DEF WifiDisconnected
<1>22. CASE WifiGotIp
      BY <1>22, Zenon DEF WifiGotIp
<1>23. CASE ClientStart
      BY <1>23, Zenon DEF ClientStart
<1>24. CASE ClientConnected
      BY <1>24, Zenon DEF ClientConnected, Route
<1>25. CASE ClientFails
      BY <1>25, Zenon DEF ClientFails
<1>26. CASE UpdateCommand
      BY <1>26, Zenon DEF UpdateCommand
<1>27. CASE ClientDestroyed
      BY <1>27, Zenon DEF ClientDestroyed
<1>28. CASE UpdateBegins
      BY <1>28, Zenon DEF UpdateBegins
<1>29. CASE UpdateFails
      BY <1>29, Zenon DEF UpdateFails
<1>30. CASE UpdateDone
      BY <1>30, Zenon DEF UpdateDone, Restart
<1>31. CASE World
      BY <1>31, Zenon DEF World
<1>32. CASE UNCHANGED vars
      BY <1>32, Zenon DEF vars
<1>33. QED
      BY <1>1, <1>2, <1>3, <1>4, <1>5, <1>6, <1>7, <1>8, <1>9, <1>10, <1>11,
         <1>12, <1>13, <1>14, <1>15, <1>16, <1>17, <1>18, <1>19, <1>20,
         <1>21, <1>22, <1>23, <1>24, <1>25, <1>26, <1>27, <1>28, <1>29,
         <1>30, <1>31, <1>32 DEF Next, NetworkTask, EventTask, Client

\* The initial states satisfy the strengthened invariant.
LEMMA InitSwitchInv == Init => SwitchInv
<1> SUFFICES ASSUME Init PROVE SwitchInv
    OBVIOUS
<1> USE NetworkAssumption DEF Init
<1>1. Booleans
      BY Zenon DEF Booleans
<1>2. QED
      BY <1>1 DEF SwitchInv, TypeOK, Booleans, SwitchFlags, AtPoints, Events, Room,
                  Teardowns, Connected

\* The steps of the network task preserve it.
LEMMA TaskSwitchInv == SwitchInv /\ Booleans' /\ NetworkTask => SwitchInv'
<1> SUFFICES ASSUME SwitchInv, Booleans', NetworkTask PROVE SwitchInv'
    OBVIOUS
<1> USE NetworkAssumption
    DEF SwitchInv, TypeOK, Booleans, SwitchFlags, AtPoints, Events, Room, Teardowns,
        Connected, task, sim, wifi, mqtt, update, world
<1>1. CASE Start
      BY <1>1 DEF Start
<1>2. CASE NoSim
      BY <1>2 DEF NoSim, AfterInit
<1>3. CASE Dial
      BY <1>3 DEF Dial
<1>4. CASE DialReturns
      BY <1>4 DEF DialReturns, AfterInit
<1>5. CASE CountFailure
      BY <1>5 DEF CountFailure
<1>6. CASE CountReset
      BY <1>6 DEF CountReset
<1>7. CASE Redial
      BY <1>7 DEF Redial
<1>8. CASE RedialDenit
      BY <1>8 DEF RedialDenit, Denit
<1>9. CASE Off
      BY <1>9 DEF Off
<1>10. CASE OffDenit
      BY <1>10 DEF OffDenit, Denit
<1>11. CASE DenitAborts
      BY <1>11 DEF DenitAborts, Restart
<1>12. CASE Judge
      BY <1>12 DEF Judge
<1>13. CASE ForcedRestart
      BY <1>13 DEF ForcedRestart, Restart
<1>14. QED
      BY <1>1, <1>2, <1>3, <1>4, <1>5, <1>6, <1>7, <1>8, <1>9, <1>10, <1>11,
         <1>12, <1>13 DEF NetworkTask

\* So do the handlers,
LEMMA EventSwitchInv == SwitchInv /\ Booleans' /\ EventTask => SwitchInv'
<1> SUFFICES ASSUME SwitchInv, Booleans', EventTask PROVE SwitchInv'
    OBVIOUS
<1> USE NetworkAssumption
    DEF SwitchInv, TypeOK, Booleans, SwitchFlags, AtPoints, Events, Room, Teardowns,
        Connected, task, sim, wifi, mqtt, update, world
<1>1. CASE PppGotIp
      BY <1>1 DEF PppGotIp
<1>2. CASE PppStatus
      BY <1>2 DEF PppStatus
<1>3. CASE PppSwitch
      BY <1>3 DEF PppSwitch
<1>4. CASE PppSwitched
      BY <1>4 DEF PppSwitched
<1>5. CASE PppSwitchCrashes
      BY <1>5 DEF PppSwitchCrashes, Restart
<1>6. CASE PppEnds
      BY <1>6 DEF PppEnds
<1>7. CASE PppLostIp
      BY <1>7 DEF PppLostIp
<1>8. CASE WifiDisconnected
      BY <1>8 DEF WifiDisconnected
<1>9. CASE WifiGotIp
      BY <1>9 DEF WifiGotIp
<1>10. QED
      BY <1>1, <1>2, <1>3, <1>4, <1>5, <1>6, <1>7, <1>8, <1>9 DEF EventTask

\* and the MQTT client with the update.
LEMMA MqttSwitchInv == SwitchInv /\ Booleans' /\ Client => SwitchInv'
<1> SUFFICES ASSUME SwitchInv, Booleans', Client PROVE SwitchInv'
    OBVIOUS
<1> USE NetworkAssumption
    DEF SwitchInv, TypeOK, Booleans, SwitchFlags, AtPoints, Events, Room, Teardowns,
        Connected, task, sim, wifi, mqtt, update, world
<1>1. CASE ClientStart
      BY <1>1 DEF ClientStart
<1>2. CASE ClientConnected
      BY <1>2 DEF ClientConnected, Route
<1>3. CASE ClientFails
      BY <1>3 DEF ClientFails
<1>4. CASE UpdateCommand
      BY <1>4 DEF UpdateCommand
<1>5. CASE ClientDestroyed
      BY <1>5 DEF ClientDestroyed
<1>6. CASE UpdateBegins
      BY <1>6 DEF UpdateBegins
<1>7. CASE UpdateFails
      BY <1>7 DEF UpdateFails
<1>8. CASE UpdateDone
      BY <1>8 DEF UpdateDone, Restart
<1>9. QED
      BY <1>1, <1>2, <1>3, <1>4, <1>5, <1>6, <1>7, <1>8 DEF Client

\* What changes outside changes nothing inside.
LEMMA WorldSwitchInv == SwitchInv /\ Booleans' /\ (World \/ UNCHANGED vars) => SwitchInv'
<1> SUFFICES ASSUME SwitchInv, Booleans', World \/ UNCHANGED vars PROVE SwitchInv'
    OBVIOUS
<1> USE DEF SwitchInv, TypeOK, Booleans, SwitchFlags, AtPoints, Events, Room, Teardowns,
            Connected, task, sim, wifi, mqtt, update, world, vars
<1>1. CASE World
      BY <1>1 DEF World
<1>2. CASE UNCHANGED vars
      BY <1>2
<1>3. QED
      BY <1>1, <1>2

\* Every step keeps the strengthened invariant ...
LEMMA SwitchInvKept == SwitchInv /\ [Next]_vars => SwitchInv'
<1>1. SwitchInv /\ [Next]_vars => Booleans'
      BY BooleansKept DEF SwitchInv
<1>2. QED
      BY <1>1, TaskSwitchInv, EventSwitchInv, MqttSwitchInv, WorldSwitchInv DEF Next

\* ... which implies what the runs check.
LEMMA SwitchInvSafe == SwitchInv => TypeOK /\ TornDownOnce /\ SimStatusTrue
<1>1. SwitchInv => TornDownOnce
      BY DEF SwitchInv, AtPoints, TornDownOnce, Teardowns
<1>2. SwitchInv => SimStatusTrue
      BY DEF SwitchInv, TypeOK, SwitchFlags, Events, SimStatusTrue
<1>3. QED
      BY <1>1, <1>2 DEF SwitchInv

\* The strengthened invariant holds in every reachable state.
THEOREM Inductive == Spec => []SwitchInv
BY InitSwitchInv, SwitchInvKept, PTL DEF Spec

\* Every variable keeps its type; mqtt_count never passes the threshold of the
\* forced restart.
THEOREM TypeCorrect == Spec => []TypeOK
BY SwitchInvSafe, Inductive, PTL

\* sim_denit is called for a modem that is in PPP mode, and once.
THEOREM TeardownCorrect == Spec => []TornDownOnce
BY SwitchInvSafe, Inductive, PTL

\* With no event under way, the stored status is the modem's.
THEOREM StatusCorrect == Spec => []SimStatusTrue
BY SwitchInvSafe, Inductive, PTL

-----------------------------------------------------------------------------
(* The interfaces *)

Addresses == Leases \cup {Any4, ApAddress, PppAddress}

Client4 == [ip_info : Addresses, dhcpc_status : {"init", "started", "stopped"},
            dhcps_status : {"init", "started", "stopped"}, timer_running : BOOLEAN]
Stack == [added : BOOLEAN, up : BOOLEAN, link : BOOLEAN,
          addr : Addresses, dhcp : {"off", "asking", "bound"}]

Choice ==
    /\ s_head \subseteq Netifs
    /\ s_last_default_esp_netif \in Netifs \cup {None} /\ netif_default \in Netifs \cup {None}
    /\ unseen \subseteq Netifs \cup {"left"}

Tasks ==
    /\ ppp \in {"dead", "opening", "running", "closing"}
    /\ driver \in [{STA, AP} -> {"off", "started", "connected"}]
    /\ action \in {Idle} \cup [step : {"status", "dhcpc_start", "static"}, netif : {STA}]
                 \cup [step : {"tell"}, netif : {STA}, ip : Addresses]
    /\ events \in Seq({"got_ip", "lost_ip"})
    /\ told \in Addresses

Flags == lostTold \in BOOLEAN /\ raced \in BOOLEAN

TypesHold ==
    /\ esp_netif \in [Netifs -> Client4]
    /\ lwip_netif \in [Netifs -> Stack]
    /\ timeouts \subseteq {STA}
    /\ Choice /\ Tasks /\ Flags

\* The side l of lwIP is this record.
Fields(l, added, up, link, addr, dhcp) ==
    /\ l \in Stack
    /\ l.added = added /\ l.up = up /\ l.link = link /\ l.addr = addr /\ l.dhcp = dhcp

\* What lwIP's operations leave of its side of an interface.
LEMMA StackOps ==
    ASSUME NEW l \in Stack, NEW a \in Addresses
    PROVE  /\ Fields(Bound(l, a), l.added, l.up, l.link, a, "bound")
           /\ Fields(Asking(l), l.added, l.up, l.link, Any4, "asking")
           /\ Fields(Stopped(l), l.added, l.up, l.link,
                     IF l.dhcp = "bound" THEN Any4 ELSE l.addr, "off")
           /\ Fields(SetUp(l, a), l.added, TRUE, l.link, a, l.dhcp)
           /\ Fields(SetDown(l), l.added, FALSE, l.link, Any4, l.dhcp)
           /\ Fields(PppRuns(l), l.added, TRUE, TRUE, PppAddress, l.dhcp)
           /\ Fields(PppDead(l), l.added, FALSE, FALSE, Any4, l.dhcp)
           /\ Fields([l EXCEPT !.addr = a], l.added, l.up, l.link, a, l.dhcp)
           /\ Fields([l EXCEPT !.added = TRUE], TRUE, l.up, l.link, l.addr, l.dhcp)
           /\ Fields(LwipNetif, FALSE, FALSE, FALSE, Any4, "off")
BY DEF Stack, Fields, Bound, Asking, Stopped, SetUp, SetDown, PppRuns, PppDead, LwipNetif, Addresses

\* netif_add: the address of ip_info, no DHCP client.
LEMMA AddedOps ==
    ASSUME NEW n \in Netifs, esp_netif[n] \in Client4
    PROVE  Fields(Added(n), TRUE, n \in AUTOUP, n \notin POINT2POINT, esp_netif[n].ip_info, "off")
BY DEF Stack, Client4, Fields, Added

\* The object e is this record.
Object(e, ip, dhcpc, dhcps, timer) ==
    /\ e \in Client4
    /\ e.ip_info = ip /\ e.dhcpc_status = dhcpc /\ e.dhcps_status = dhcps
    /\ e.timer_running = timer

\* What setting one field leaves of the object.
LEMMA ObjectOps ==
    ASSUME NEW e \in Client4
    PROVE  /\ \A a \in Addresses :
                  Object([e EXCEPT !.ip_info = a], a, e.dhcpc_status, e.dhcps_status,
                         e.timer_running)
           /\ \A st \in {"init", "started", "stopped"} :
                  /\ Object([e EXCEPT !.dhcpc_status = st], e.ip_info, st, e.dhcps_status,
                            e.timer_running)
                  /\ Object([e EXCEPT !.dhcps_status = st], e.ip_info, e.dhcpc_status, st,
                            e.timer_running)
           /\ \A b \in BOOLEAN :
                  Object([e EXCEPT !.timer_running = b], e.ip_info, e.dhcpc_status,
                         e.dhcps_status, b)
BY DEF Client4, Object

\* Clearing the address leaves the rest; the timer then has no reason to start.
LEMMA ResetOps ==
    ASSUME NEW e \in Client4
    PROVE  /\ Object(ResetIp(e), Any4, e.dhcpc_status, e.dhcps_status, e.timer_running)
           /\ Object(WithTimer(e), e.ip_info, e.dhcpc_status, e.dhcps_status,
                     IF WantsTimer(e) THEN TRUE ELSE e.timer_running)
           /\ WithTimer(ResetIp(e)) = ResetIp(e)
<1>1. Object(ResetIp(e), Any4, e.dhcpc_status, e.dhcps_status, e.timer_running)
  BY ObjectOps DEF ResetIp, Addresses
<1>2. Object(WithTimer(e), e.ip_info, e.dhcpc_status, e.dhcps_status,
             IF WantsTimer(e) THEN TRUE ELSE e.timer_running)
  BY ObjectOps DEF WithTimer, Client4, Object
<1>3. WithTimer(ResetIp(e)) = ResetIp(e)
  BY <1>1 DEF WithTimer, WantsTimer, Object
<1> QED BY <1>1, <1>2, <1>3

\* The three route_prio differ.
LEMMA Priorities ==
    /\ route_prio[STA] = 20 /\ route_prio[AP] = 10 /\ route_prio[PPP] = 100
BY NetifAssumption DEF route_prio, Netifs

\* Among interfaces that are up there is one that goes before the others.
LEMMA Foremost ==
    ASSUME NEW up \in SUBSET Netifs, up # {}
    PROVE  \E best \in up : \A n \in up : route_prio[n] <= route_prio[best]
<1>1. CASE PPP \in up
  BY <1>1, Priorities DEF Netifs
<1>2. CASE PPP \notin up /\ STA \in up
  BY <1>2, Priorities DEF Netifs
<1>3. CASE PPP \notin up /\ STA \notin up
  BY <1>3, Priorities DEF Netifs
<1> QED BY <1>1, <1>2, <1>3

Up(lwip) == {n \in s_head : IsUp(lwip, n)}

\* The walk over the list finds it, and finds nothing when none is up.
LEMMA BestOfList ==
    ASSUME NEW lwip, s_head \subseteq Netifs
    PROVE  /\ Up(lwip) = {} => BestOf(s_head, lwip) = None
           /\ Up(lwip) # {} =>
                  /\ BestOf(s_head, lwip) \in Up(lwip)
                  /\ \A n \in Up(lwip) : route_prio[n] <= route_prio[BestOf(s_head, lwip)]
<1>1. CASE Up(lwip) = {}
  BY <1>1 DEF BestOf, Up
<1>2. CASE Up(lwip) # {}
  <2>1. \E best \in Up(lwip) : \A n \in Up(lwip) : route_prio[n] <= route_prio[best]
    <3>1. Up(lwip) \in SUBSET Netifs
      BY DEF Up
    <3> QED BY <1>2, <3>1, Foremost
  <2>2. BestOf(s_head, lwip) =
            CHOOSE best \in Up(lwip) : \A n \in Up(lwip) : route_prio[n] <= route_prio[best]
    BY <1>2, Zenon DEF BestOf, Up
  <2> QED BY <1>2, <2>1, <2>2, Zenon
<1> QED BY <1>1, <1>2

\* The choice after a start is listed and goes before the started one and the last one.
LEMMA ChosenOne ==
    ASSUME NEW lwip, NEW n \in s_head, s_head \subseteq Netifs
    PROVE  LET chosen == ChosenAtStart(n, lwip)
           IN /\ chosen \in s_head \cup {None}
              /\ IsUp(lwip, n) =>
                    /\ chosen \in Up(lwip)
                    /\ route_prio[n] <= route_prio[chosen]
                    /\ chosen = n \/ (chosen = s_last_default_esp_netif)
              /\ s_last_default_esp_netif \in Up(lwip) =>
                    /\ chosen \in Up(lwip)
                    /\ route_prio[s_last_default_esp_netif] <= route_prio[chosen]
<1> DEFINE last == IF s_last_default_esp_netif \in s_head THEN s_last_default_esp_netif
                   ELSE None
           chosen == ChosenAtStart(n, lwip)
<1>1. None \notin s_head
  BY NetifAssumption DEF None
<1>2. \A m \in s_head : route_prio[m] \in Nat
  BY Priorities DEF Netifs
<1>3. chosen = IF last # None /\ IsUp(lwip, last) /\ route_prio[last] > route_prio[n] THEN last
               ELSE IF IsUp(lwip, n) THEN n ELSE last
  BY DEF ChosenAtStart
<1> HIDE DEF chosen
<1>4. \A m : m \in Up(lwip) <=> m \in s_head /\ IsUp(lwip, m)
  BY DEF Up
<1>5. last \in s_head \cup {None}
  OBVIOUS
<1>6. s_last_default_esp_netif \in s_head => last = s_last_default_esp_netif
  OBVIOUS
<1>7. last # None => last = s_last_default_esp_netif /\ last \in s_head
  BY <1>1
<1> HIDE DEF last
<1>8. chosen \in s_head \cup {None}
  BY <1>3, <1>5
<1>9. IsUp(lwip, n) =>
          /\ chosen \in Up(lwip)
          /\ route_prio[n] <= route_prio[chosen]
          /\ chosen = n \/ (chosen = s_last_default_esp_netif)
  BY <1>1, <1>2, <1>3, <1>4, <1>7
<1>10. s_last_default_esp_netif \in Up(lwip) =>
          /\ chosen \in Up(lwip)
          /\ route_prio[s_last_default_esp_netif] <= route_prio[chosen]
  BY <1>1, <1>2, <1>3, <1>4, <1>6
<1> QED BY <1>8, <1>9, <1>10 DEF chosen

\* Both choices keep to the listed interfaces.
LEMMA StartedTypes ==
    ASSUME Choice, NEW n \in s_head, NEW lwip, UpdateDefaultStarted(n, lwip), s_head' = s_head
    PROVE  Choice'
BY ChosenOne DEF Choice, UpdateDefaultStarted

LEMMA StoppedTypes ==
    ASSUME Choice, NEW lwip, NEW gone, UpdateDefaultStopped(lwip, gone), s_head' = s_head
    PROVE  Choice'
<1>1. BestOf(s_head, lwip) \in Netifs \cup {None}
  BY BestOfList DEF Choice, Up
<1> QED BY <1>1 DEF Choice, UpdateDefaultStopped

Objects == esp_netif \in [Netifs -> Client4] /\ lwip_netif \in [Netifs -> Stack]

\* What dhcp_stop leaves of the object.
TimerAfterStop(e, l, called) ==
    IF called /\ l.dhcp = "bound" /\ WantsTimer(e) THEN TRUE ELSE e.timer_running

\* Stopping the client clears the address; the timer runs if lwIP called back before.
LEMMA AfterStopOps ==
    ASSUME NEW e \in Client4, NEW l \in Stack, NEW called \in BOOLEAN,
           NEW st \in {"init", "started", "stopped"}
    PROVE  /\ ResetIp(AfterStop(e, l, called)) \in Client4
           /\ Object([ResetIp(AfterStop(e, l, called)) EXCEPT !.dhcpc_status = st],
                     Any4, st, e.dhcps_status, TimerAfterStop(e, l, called))
<1>1. Object(AfterStop(e, l, called), e.ip_info, e.dhcpc_status, e.dhcps_status,
             TimerAfterStop(e, l, called))
  <2>1. CASE called /\ l.dhcp = "bound"
    BY <2>1, ResetOps DEF AfterStop, TimerAfterStop
  <2>2. CASE ~(called /\ l.dhcp = "bound")
    <3>1. AfterStop(e, l, called) = e
      BY <2>2 DEF AfterStop
    <3>2. TimerAfterStop(e, l, called) = e.timer_running
      BY <2>2 DEF TimerAfterStop
    <3> QED BY <3>1, <3>2 DEF Object
  <2> QED BY <2>1, <2>2
<1> DEFINE r == ResetIp(AfterStop(e, l, called))
<1>2. Object(r, Any4, e.dhcpc_status, e.dhcps_status, TimerAfterStop(e, l, called))
  BY <1>1, ResetOps DEF Object
<1> HIDE DEF r
<1>3. Object([r EXCEPT !.dhcpc_status = st], r.ip_info, st, r.dhcps_status, r.timer_running)
  <2>1. r \in Client4
    BY <1>2 DEF Object
  <2> QED BY <2>1, ObjectOps
<1> QED BY <1>2, <1>3 DEF Object, r

\* The calls of the API keep the types.
LEMMA StartTypes ==
    ASSUME TypesHold, NEW n \in s_head, n \in {STA, AP}, StartApi(n)
    PROVE  Objects' /\ timeouts' \subseteq {STA} /\ Choice' /\ told' \in Addresses
<1> USE DEF TypesHold
<1>0. n \in Netifs
  BY DEF Choice
<1>1. Added(n) \in Stack
  BY <1>0, AddedOps DEF Fields
<1>2. lwip_netif' \in [Netifs -> Stack]
  BY <1>0, <1>1 DEF StartApi
<1>3. esp_netif' \in [Netifs -> Client4]
  <2>1. [esp_netif[n] EXCEPT !.dhcps_status = "started"] \in Client4
    BY <1>0 DEF Client4
  <2> QED BY <1>0, <2>1 DEF StartApi
<1>4. Choice'
  <2>1. CASE UpdateDefaultStarted(n, [lwip_netif EXCEPT ![n] = Added(n)])
    BY <2>1, StartedTypes DEF StartApi
  <2>2. CASE UNCHANGED <<esp_netif, s_last_default_esp_netif, netif_default>>
             /\ unseen' = unseen \cup {n}
    BY <2>2, <1>0 DEF Choice, StartApi
  <2> QED BY <2>1, <2>2 DEF StartApi
<1> QED BY <1>2, <1>3, <1>4 DEF StartApi, Objects, Tasks, Flags

LEMMA StopTypes ==
    ASSUME TypesHold, NEW n \in s_head, n \in {STA, AP}, NEW called \in BOOLEAN,
           StopApi(n, called)
    PROVE  Objects' /\ timeouts' \subseteq {STA} /\ Choice' /\ told' \in Addresses
<1> USE DEF TypesHold
<1>0. n \in Netifs
  BY DEF Choice
<1>2. lwip_netif' \in [Netifs -> Stack]
  BY <1>0 DEF StopApi, Stack, LwipNetif, Addresses
<1>3. esp_netif' \in [Netifs -> Client4]
  <2> DEFINE e == esp_netif[n]
             stop == [ResetIp(AfterStop(e, lwip_netif[n], called)) EXCEPT !.dhcpc_status = "init"]
  <2>1. e \in Client4
    BY <1>0
  <2>2. stop \in Client4
    BY <1>0, <2>1, AfterStopOps DEF Object
  <2>3. [e EXCEPT !.dhcps_status = IF @ = "stopped" THEN @ ELSE "init"] \in Client4
    BY <2>1 DEF Client4
  <2> QED BY <1>0, <2>2, <2>3 DEF StopApi
<1>4. Choice'
  <2>1. CASE UpdateDefaultStopped([lwip_netif EXCEPT ![n] = LwipNetif], {n})
    BY <2>1, StoppedTypes DEF StopApi
  <2>2. CASE netif_default' = (IF netif_default = n THEN None ELSE netif_default)
             /\ UNCHANGED <<s_last_default_esp_netif, unseen>>
    BY <2>2, <1>0 DEF Choice, StopApi
  <2> QED BY <2>1, <2>2 DEF StopApi
<1>5. timeouts' \subseteq {STA}
  BY DEF StopApi, DHCP_CLIENT, TimeoutsAfterStop, TimeoutsFor
<1> QED BY <1>2, <1>3, <1>4, <1>5 DEF StopApi, Objects, Tasks, Flags, Untold, Addresses

LEMMA UpTypes ==
    ASSUME TypesHold, NEW n \in s_head, UpApi(n)
    PROVE  Objects' /\ timeouts' \subseteq {STA} /\ Choice' /\ told' \in Addresses
<1> USE DEF TypesHold
<1>0. n \in Netifs
  BY DEF Choice
<1>1. SetUp(lwip_netif[n], esp_netif[n].ip_info) \in Stack
  BY <1>0, StackOps DEF Fields, Client4
<1> QED BY <1>0, <1>1, StartedTypes DEF UpApi, Objects, Tasks, Flags

LEMMA DownTypes ==
    ASSUME TypesHold, NEW n \in s_head, NEW called \in BOOLEAN, DownApi(n, called)
    PROVE  Objects' /\ timeouts' \subseteq {STA} /\ Choice' /\ told' \in Addresses
<1> USE DEF TypesHold
<1> DEFINE dhcp == n \in DHCP_CLIENT /\ esp_netif[n].dhcpc_status = "started"
           e == esp_netif[n]
           down == IF dhcp
                   THEN [ResetIp(AfterStop(esp_netif[n], lwip_netif[n], called))
                             EXCEPT !.dhcpc_status = "init"]
                   ELSE esp_netif[n]
<1>0. n \in Netifs
  BY DEF Choice
<1>1. SetDown(IF dhcp THEN Stopped(lwip_netif[n]) ELSE lwip_netif[n]) \in Stack
  BY <1>0, StackOps DEF Fields, Addresses
<1>2. e \in Client4 /\ down \in Client4
  BY <1>0, AfterStopOps DEF Object
<1>3. (IF n \in DHCP_CLIENT THEN WithTimer(down) ELSE down) \in Client4
  BY <1>2, ResetOps DEF Object
<1>4. /\ esp_netif' = [esp_netif EXCEPT ![n] =
                            IF n \in DHCP_CLIENT THEN WithTimer(down) ELSE down]
      /\ lwip_netif' = [lwip_netif EXCEPT ![n] = SetDown(IF dhcp THEN Stopped(@) ELSE @)]
      /\ timeouts' = IF dhcp THEN TimeoutsAfterStop(n, called)
                     ELSE IF n \in DHCP_CLIENT THEN TimeoutsFor(n, down) ELSE timeouts
      /\ UpdateDefaultStopped(
             [lwip_netif EXCEPT ![n] = SetDown(IF dhcp THEN Stopped(@) ELSE @)], {})
  BY DEF DownApi
<1>5. Objects'
  BY <1>0, <1>1, <1>3, <1>4 DEF Objects
<1>6. Choice'
  BY <1>4, StoppedTypes DEF DownApi
<1>7. timeouts' \subseteq {STA}
  BY <1>4 DEF DHCP_CLIENT, TimeoutsAfterStop, TimeoutsFor
<1> QED BY <1>5, <1>6, <1>7 DEF DownApi, Tasks, Flags, Untold, Addresses

Present ==
    /\ \A n \in {STA, AP} :
           /\ driver[n] # "off" => n \in s_head
           /\ driver[n] = "off" => lwip_netif[n] = LwipNetif
    /\ ppp # "dead" \/ events # <<>> => PPP \in s_head
    /\ \A n \in Netifs : lwip_netif[n].added => n \in s_head

\* Every step keeps the flags Boolean.
LEMMA FlagsKept == Flags /\ [NetifNext]_netifVars => Flags'
<1> SUFFICES ASSUME Flags, [NetifNext]_netifVars PROVE Flags'
  OBVIOUS
<1> USE DEF Flags
<1>1. ASSUME NEW n \in Netifs, New(n) \/ Destroy(n) \/ IpLostTimer(n) PROVE Flags'
  BY <1>1, Zenon DEF New, Destroy, IpLostTimer
<1>2. ASSUME NEW n, NEW called, ActionStart(n) \/ ActionStop(n, called) PROVE Flags'
  BY <1>2, Zenon DEF ActionStart, ActionStop, StartApi, StopApi
<1>3. ASSUME NEW called,
             ActionDisconnected(STA, called) \/ DhcpcStop(STA, called) \/ FirmwareDown(called)
      PROVE  Flags'
  BY <1>3, Zenon DEF ActionDisconnected, DhcpcStop, FirmwareDown, DownApi
<1>4. CASE ActionConnected(STA) \/ FirmwareUp
  BY <1>4, Zenon DEF ActionConnected, FirmwareUp, UpApi
<1>5. CASE ReadStatus \/ HandlerStartsDhcpc \/ ReadStatic \/ TellStatic
  BY <1>5, Zenon DEF ReadStatus, HandlerStartsDhcpc, ReadStatic, TellStatic, DhcpcAsks
<1>6. ASSUME NEW a, DhcpBinds(STA, a) \/ SetIpInfo(STA, a) PROVE Flags'
  BY <1>6, Zenon DEF DhcpBinds, SetIpInfo
<1>7. CASE DhcpLoses(STA) \/ UserStartsDhcpc(STA)
  BY <1>7, Zenon DEF DhcpLoses, UserStartsDhcpc, DhcpcAsks, DhcpcWaits
<1>8. CASE PppEvent
  BY <1>8, Zenon DEF PppEvent, UpApi, DownApi
<1>9. CASE StartPpp \/ StopPpp \/ PppUp \/ PppLinkEnds
  BY <1>9, Zenon DEF StartPpp, StopPpp, PppUp, PppLinkEnds
<1>10. CASE DhcpsStart \/ DhcpsStop
  BY <1>10, Zenon DEF DhcpsStart, DhcpsStop
<1>11. CASE UNCHANGED netifVars
  BY <1>11, Zenon DEF netifVars
<1> QED BY <1>1, <1>2, <1>3, <1>4, <1>5, <1>6, <1>7, <1>8, <1>9, <1>10, <1>11 DEF NetifNext

\* Every step keeps the types of the tasks, the drivers and what was told.
LEMMA TasksKept == TypesHold /\ Present /\ [NetifNext]_netifVars => Tasks'
<1> SUFFICES ASSUME TypesHold, Present, [NetifNext]_netifVars PROVE Tasks'
  OBVIOUS
<1> USE NetifAssumption DEF TypesHold, Tasks
<1>0. Any4 \in Addresses /\ PppAddress \in Addresses /\ Leases \subseteq Addresses
  BY DEF Addresses
<1>1. ASSUME NEW n \in Netifs, New(n) \/ Destroy(n) \/ IpLostTimer(n) PROVE Tasks'
  BY <1>0, <1>1 DEF New, Destroy, IpLostTimer, Untold
<1>2. ASSUME NEW n \in {STA, AP}, NEW called \in BOOLEAN,
             ActionStart(n) \/ ActionStop(n, called)
      PROVE  Tasks'
  BY <1>0, <1>2 DEF ActionStart, ActionStop, StartApi, StopApi, Untold
<1>3. ASSUME NEW called \in BOOLEAN,
             ActionDisconnected(STA, called) \/ DhcpcStop(STA, called) \/ FirmwareDown(called)
      PROVE  Tasks'
  BY <1>0, <1>3 DEF ActionDisconnected, DhcpcStop, FirmwareDown, DownApi, Untold
<1>4. CASE ActionConnected(STA) \/ FirmwareUp
  BY <1>0, <1>4 DEF ActionConnected, FirmwareUp, UpApi
<1>5. CASE ReadStatus \/ HandlerStartsDhcpc \/ ReadStatic \/ TellStatic
  <2>0. STA \in Netifs /\ esp_netif[STA] \in Client4 /\ lwip_netif[STA] \in Stack
    BY DEF Netifs
  <2>1. StaticIp(STA) \in Addresses
    BY <2>0 DEF StaticIp, Client4, Stack
  <2>2. CASE ReadStatus
    BY <2>2 DEF ReadStatus, Idle
  <2>3. CASE HandlerStartsDhcpc
    BY <2>3 DEF HandlerStartsDhcpc, DhcpcAsks
  <2>4. CASE ReadStatic
    <3>1. action.netif = STA
      BY <2>4 DEF ReadStatic, Idle
    <3> QED BY <2>1, <2>4, <3>1 DEF ReadStatic, Idle
  <2>5. CASE TellStatic
    <3>1. action.ip \in Addresses
      BY <2>5 DEF TellStatic, Idle
    <3> QED BY <2>5, <3>1 DEF TellStatic
  <2> QED BY <1>5, <2>2, <2>3, <2>4, <2>5
<1>6. ASSUME NEW a \in Leases, DhcpBinds(STA, a) \/ SetIpInfo(STA, a) PROVE Tasks'
  BY <1>0, <1>6 DEF DhcpBinds, SetIpInfo
<1>7. CASE DhcpLoses(STA) \/ UserStartsDhcpc(STA)
  BY <1>7 DEF DhcpLoses, UserStartsDhcpc, DhcpcAsks, DhcpcWaits
<1>8. CASE PppEvent
  <2>1. events' \in Seq({"got_ip", "lost_ip"})
    BY <1>8 DEF PppEvent
  <2>2. told' = told /\ ppp' = ppp
    BY <1>8 DEF PppEvent, UpApi, DownApi, Untold
  <2> QED BY <1>8, <2>1, <2>2 DEF PppEvent
<1>9. CASE StartPpp \/ StopPpp \/ PppUp \/ PppLinkEnds
  BY <1>9 DEF StartPpp, StopPpp, PppUp, PppLinkEnds
<1>10. CASE DhcpsStart \/ DhcpsStop
  BY <1>10 DEF DhcpsStart, DhcpsStop
<1>11. CASE UNCHANGED netifVars
  BY <1>11 DEF netifVars
<1> QED BY <1>1, <1>2, <1>3, <1>4, <1>5, <1>6, <1>7, <1>8, <1>9, <1>10, <1>11 DEF NetifNext

\* Every step keeps the types of the list and of the default.
LEMMA ChoiceKept == TypesHold /\ Present /\ [NetifNext]_netifVars => Choice'
<1> SUFFICES ASSUME TypesHold, Present, [NetifNext]_netifVars PROVE Choice'
  OBVIOUS
<1> USE NetifAssumption DEF TypesHold, Present
<1>0. s_head \subseteq Netifs /\ STA \in Netifs /\ AP \in Netifs /\ PPP \in Netifs
  BY DEF Choice, Netifs
<1>1. ASSUME NEW n \in Netifs, New(n) \/ Destroy(n) \/ IpLostTimer(n) PROVE Choice'
  BY <1>1 DEF New, Destroy, IpLostTimer, NoUpdate, DefaultLeft, Choice
<1>2. ASSUME NEW n \in {STA, AP}, NEW called \in BOOLEAN,
             ActionStart(n) \/ ActionStop(n, called)
      PROVE  Choice'
  <2>1. n \in s_head
    BY <1>2 DEF ActionStart, ActionStop, Listed
  <2> QED BY <1>2, <2>1, StartTypes, StopTypes DEF ActionStart, ActionStop
<1>3. ASSUME NEW called \in BOOLEAN,
             ActionDisconnected(STA, called) \/ DhcpcStop(STA, called) \/ FirmwareDown(called)
      PROVE  Choice'
  <2>1. CASE DhcpcStop(STA, called)
    BY <2>1 DEF DhcpcStop, NoUpdate, Choice
  <2>2. CASE ActionDisconnected(STA, called) \/ FirmwareDown(called)
    <3>1. STA \in s_head
      BY <1>0, <2>2 DEF ActionDisconnected, FirmwareDown
    <3> QED BY <2>2, <3>1, DownTypes DEF ActionDisconnected, FirmwareDown
  <2> QED BY <1>3, <2>1, <2>2
<1>4. CASE ActionConnected(STA) \/ FirmwareUp
  <2>1. STA \in s_head
    BY <1>0, <1>4 DEF ActionConnected, FirmwareUp
  <2> QED BY <1>4, <2>1, UpTypes DEF ActionConnected, FirmwareUp
<1>5. CASE ReadStatus \/ HandlerStartsDhcpc \/ ReadStatic \/ TellStatic
  BY <1>5 DEF ReadStatus, HandlerStartsDhcpc, ReadStatic, TellStatic, DhcpcAsks, NoUpdate, Choice
<1>6. ASSUME NEW a \in Leases, DhcpBinds(STA, a) \/ SetIpInfo(STA, a) PROVE Choice'
  BY <1>6 DEF DhcpBinds, SetIpInfo, NoUpdate, Choice
<1>7. CASE DhcpLoses(STA) \/ UserStartsDhcpc(STA)
  BY <1>7 DEF DhcpLoses, UserStartsDhcpc, DhcpcAsks, DhcpcWaits, NoUpdate, Choice
<1>8. CASE PppEvent
  BY <1>0, <1>8, UpTypes, DownTypes DEF PppEvent
<1>9. CASE StartPpp \/ StopPpp \/ PppUp \/ PppLinkEnds
  BY <1>0, <1>9, StartedTypes, StoppedTypes
     DEF StartPpp, StopPpp, PppUp, PppLinkEnds, Listed, DefaultLeft, Choice
<1>10. CASE DhcpsStart \/ DhcpsStop
  BY <1>10 DEF DhcpsStart, DhcpsStop, NoUpdate, Choice
<1>11. CASE UNCHANGED netifVars
  BY <1>11 DEF netifVars, Choice
<1> QED BY <1>1, <1>2, <1>3, <1>4, <1>5, <1>6, <1>7, <1>8, <1>9, <1>10, <1>11 DEF NetifNext

\* Every step keeps the types of both sides of the interfaces.
LEMMA ObjectsKept ==
    TypesHold /\ Present /\ [NetifNext]_netifVars => Objects' /\ timeouts' \subseteq {STA}
<1> SUFFICES ASSUME TypesHold, Present, [NetifNext]_netifVars
             PROVE  Objects' /\ timeouts' \subseteq {STA}
  OBVIOUS
<1> USE NetifAssumption DEF TypesHold, Present, Objects
<1>0. /\ s_head \subseteq Netifs /\ STA \in Netifs /\ AP \in Netifs /\ PPP \in Netifs
      /\ Any4 \in Addresses /\ PppAddress \in Addresses /\ Leases \subseteq Addresses
  BY DEF Choice, Netifs, Addresses
<1>e. esp_netif[STA] \in Client4 /\ lwip_netif[STA] \in Stack
  BY <1>0
<1>1. ASSUME NEW n \in Netifs, New(n) \/ Destroy(n) \/ IpLostTimer(n)
      PROVE  Objects' /\ timeouts' \subseteq {STA}
  <2>1. EspNetif(n) \in Client4 /\ LwipNetif \in Stack
    BY DEF EspNetif, Client4, Addresses, LwipNetif, Stack, Static
  <2>2. [esp_netif[n] EXCEPT !.timer_running = FALSE] \in Client4
    BY DEF Client4
  <2> QED BY <1>1, <2>1, <2>2 DEF New, Destroy, IpLostTimer
<1>2. ASSUME NEW n \in {STA, AP}, NEW called \in BOOLEAN,
             ActionStart(n) \/ ActionStop(n, called)
      PROVE  Objects' /\ timeouts' \subseteq {STA}
  <2>1. n \in s_head
    BY <1>2 DEF ActionStart, ActionStop, Listed
  <2> QED BY <1>2, <2>1, StartTypes, StopTypes DEF ActionStart, ActionStop
<1>3. ASSUME NEW called \in BOOLEAN,
             ActionDisconnected(STA, called) \/ DhcpcStop(STA, called) \/ FirmwareDown(called)
      PROVE  Objects' /\ timeouts' \subseteq {STA}
  <2>1. CASE DhcpcStop(STA, called)
    <3>1. ResetIp(AfterStop(esp_netif[STA], lwip_netif[STA], called)) \in Client4
      BY <1>e, AfterStopOps
    <3>2. WithTimer(ResetIp(AfterStop(esp_netif[STA], lwip_netif[STA], called))) \in Client4
      BY <3>1, ResetOps DEF Object
    <3>3. /\ [WithTimer(ResetIp(AfterStop(esp_netif[STA], lwip_netif[STA], called)))
                  EXCEPT !.dhcpc_status = "stopped"] \in Client4
          /\ [esp_netif[STA] EXCEPT !.dhcpc_status = "stopped"] \in Client4
      BY <1>e, <3>2, ObjectOps DEF Object
    <3>4. Stopped(lwip_netif[STA]) \in Stack
      BY <1>0, <1>e, StackOps DEF Fields
    <3>5. timeouts' \subseteq {STA}
      BY <2>1 DEF DhcpcStop, TimeoutsAfterStop, TimeoutsFor
    <3> QED BY <1>0, <2>1, <3>3, <3>4, <3>5 DEF DhcpcStop
  <2>2. CASE ActionDisconnected(STA, called) \/ FirmwareDown(called)
    <3>1. STA \in s_head
      BY <1>0, <2>2 DEF ActionDisconnected, FirmwareDown
    <3> QED BY <2>2, <3>1, DownTypes DEF ActionDisconnected, FirmwareDown
  <2> QED BY <1>3, <2>1, <2>2
<1>4. CASE ActionConnected(STA) \/ FirmwareUp
  <2>1. STA \in s_head
    BY <1>0, <1>4 DEF ActionConnected, FirmwareUp
  <2> QED BY <1>4, <2>1, UpTypes DEF ActionConnected, FirmwareUp
<1>a. ASSUME DhcpcAsks(STA) \/ DhcpcWaits(STA)
      PROVE  Objects' /\ timeouts' \subseteq {STA}
  <2>1. WithTimer(ResetIp(esp_netif[STA])) \in Client4 /\ ResetIp(esp_netif[STA]) \in Client4
    BY <1>e, ResetOps DEF Object
  <2>2. /\ [WithTimer(ResetIp(esp_netif[STA])) EXCEPT !.dhcpc_status = "started"] \in Client4
        /\ [ResetIp(esp_netif[STA]) EXCEPT !.dhcpc_status = "init"] \in Client4
    BY <2>1, ObjectOps DEF Object
  <2>3. Asking(lwip_netif[STA]) \in Stack
    BY <1>0, <1>e, StackOps DEF Fields
  <2> QED BY <1>0, <1>a, <2>2, <2>3 DEF DhcpcAsks, DhcpcWaits
<1>5. CASE ReadStatus \/ HandlerStartsDhcpc \/ ReadStatic \/ TellStatic
  <2>1. CASE HandlerStartsDhcpc
    <3>1. action.netif = STA
      BY <2>1 DEF HandlerStartsDhcpc, Tasks, Idle
    <3> QED BY <1>a, <2>1, <3>1 DEF HandlerStartsDhcpc
  <2> QED BY <1>5, <2>1 DEF ReadStatus, ReadStatic, TellStatic
<1>6. ASSUME NEW a \in Leases, DhcpBinds(STA, a) \/ SetIpInfo(STA, a)
      PROVE  Objects' /\ timeouts' \subseteq {STA}
  <2>1. /\ Bound(lwip_netif[STA], a) \in Stack
        /\ [lwip_netif[STA] EXCEPT !.addr = a] \in Stack
    BY <1>0, <1>e, StackOps DEF Fields
  <2>2. [esp_netif[STA] EXCEPT !.ip_info = a] \in Client4
    BY <1>0, <1>e, ObjectOps DEF Object
  <2> QED BY <1>0, <1>6, <2>1, <2>2 DEF DhcpBinds, SetIpInfo
<1>7. CASE DhcpLoses(STA) \/ UserStartsDhcpc(STA)
  <2>1. CASE DhcpLoses(STA)
    <3>1. WithTimer(esp_netif[STA]) \in Client4 /\ Asking(lwip_netif[STA]) \in Stack
      BY <1>0, <1>e, ResetOps, StackOps DEF Object, Fields
    <3> QED BY <1>0, <2>1, <3>1 DEF DhcpLoses, TimeoutsFor
  <2> QED BY <1>7, <1>a, <2>1 DEF UserStartsDhcpc
<1>8. CASE PppEvent
  <2>1. PPP \in s_head
    BY <1>8 DEF PppEvent
  <2> QED BY <1>8, <2>1, UpTypes, DownTypes DEF PppEvent
<1>9. CASE StartPpp \/ StopPpp \/ PppUp \/ PppLinkEnds
  <2>1. /\ [lwip_netif[PPP] EXCEPT !.added = TRUE] \in Stack
        /\ PppRuns(lwip_netif[PPP]) \in Stack /\ PppDead(lwip_netif[PPP]) \in Stack
    BY <1>0, StackOps DEF Fields
  <2>2. [esp_netif[PPP] EXCEPT !.ip_info = PppAddress] \in Client4
    <3>1. esp_netif[PPP] \in Client4
      BY <1>0
    <3> QED BY <1>0, <3>1, ObjectOps DEF Object
  <2> QED BY <1>0, <1>9, <2>1, <2>2 DEF StartPpp, StopPpp, PppUp, PppLinkEnds
<1>10. CASE DhcpsStart \/ DhcpsStop
  <2>1. \A st \in {"init", "started", "stopped"} :
            [esp_netif[AP] EXCEPT !.dhcps_status = st] \in Client4
    <3>1. esp_netif[AP] \in Client4
      BY <1>0
    <3> QED BY <3>1, ObjectOps DEF Object
  <2> QED BY <1>0, <1>10, <2>1 DEF DhcpsStart, DhcpsStop
<1>11. CASE UNCHANGED netifVars
  BY <1>11 DEF netifVars
<1> QED BY <1>1, <1>2, <1>3, <1>4, <1>5, <1>6, <1>7, <1>8, <1>9, <1>10, <1>11 DEF NetifNext

\* Every step keeps the types.
LEMMA TypesKept == TypesHold /\ Present /\ [NetifNext]_netifVars => TypesHold'
BY FlagsKept, TasksKept, ChoiceKept, ObjectsKept DEF TypesHold, Objects

\* None of lwIP's operations adds an interface or takes it away.
LEMMA AddedSame ==
    ASSUME NEW l \in Stack, NEW a \in Addresses
    PROVE  /\ Bound(l, a).added = l.added
           /\ Asking(l).added = l.added
           /\ Stopped(l).added = l.added
           /\ SetUp(l, a).added = l.added
           /\ SetDown(l).added = l.added
           /\ SetDown(Stopped(l)).added = l.added
           /\ PppRuns(l).added = l.added
           /\ PppDead(l).added = l.added
           /\ [l EXCEPT !.addr = a].added = l.added
BY DEF Stack, Bound, Asking, Stopped, SetUp, SetDown, PppRuns, PppDead

\* An interface that lwIP does not have is down, without address and client.
LEMMA BareSide ==
    /\ LwipNetif.added = FALSE /\ LwipNetif.up = FALSE /\ LwipNetif.link = FALSE
    /\ LwipNetif.dhcp = "off" /\ LwipNetif.addr = Any4
    /\ Stopped(LwipNetif) = LwipNetif
<1>1. /\ LwipNetif.added = FALSE /\ LwipNetif.up = FALSE /\ LwipNetif.link = FALSE
      /\ LwipNetif.dhcp = "off" /\ LwipNetif.addr = Any4
      /\ LwipNetif \in Stack
  BY DEF LwipNetif, Stack, Addresses
<1>2. /\ Stopped(LwipNetif) \in Stack
      /\ Stopped(LwipNetif).added = FALSE /\ Stopped(LwipNetif).up = FALSE
      /\ Stopped(LwipNetif).link = FALSE
      /\ Stopped(LwipNetif).dhcp = "off" /\ Stopped(LwipNetif).addr = Any4
  BY <1>1 DEF Stopped, Stack
<1> QED BY <1>1, <1>2 DEF Stack

\* A step that changes lwIP's side of one interface that is listed, or was not added.
LEMMA PresentSide ==
    ASSUME TypesHold, Present, NEW n \in Netifs, NEW l,
           l.added => n \in s_head,
           lwip_netif' = [lwip_netif EXCEPT ![n] = l], s_head' = s_head,
           n \in {STA, AP} => driver[n] # "off" /\ driver'[n] # "off",
           \A m \in {STA, AP} \ {n} : driver'[m] = driver[m],
           ppp' # "dead" \/ events' # <<>> => PPP \in s_head
    PROVE  Present'
BY NetifAssumption DEF TypesHold, Present, Netifs

\* Every step keeps Present: what runs is listed.
LEMMA PresentKept == TypesHold /\ Present /\ [NetifNext]_netifVars => Present'
<1> SUFFICES ASSUME TypesHold, Present, [NetifNext]_netifVars PROVE Present'
  OBVIOUS
<1> USE NetifAssumption DEF TypesHold, Present
<1>0. /\ s_head \subseteq Netifs /\ STA \in Netifs /\ AP \in Netifs /\ PPP \in Netifs
      /\ Any4 \in Addresses /\ PppAddress \in Addresses /\ Leases \subseteq Addresses
      /\ driver \in [{STA, AP} -> {"off", "started", "connected"}]
      /\ events \in Seq({"got_ip", "lost_ip"})
  BY DEF Choice, Netifs, Addresses, Tasks
<1>a. /\ LwipNetif.added = FALSE /\ LwipNetif.up = FALSE /\ LwipNetif.dhcp = "off"
      /\ Stopped(LwipNetif) = LwipNetif
  BY BareSide
<1>b. \A n \in Netifs : lwip_netif[n] \in Stack /\ esp_netif[n].ip_info \in Addresses
  BY DEF Client4
<1>1. ASSUME NEW n \in Netifs, New(n) \/ Destroy(n) \/ IpLostTimer(n) PROVE Present'
  BY <1>0, <1>1, <1>a DEF New, Destroy, IpLostTimer, Listed
<1>2. ASSUME NEW n \in {STA, AP}, NEW called \in BOOLEAN,
             ActionStart(n) \/ ActionStop(n, called)
      PROVE  Present'
  <2>1. n \in s_head
    BY <1>2 DEF ActionStart, ActionStop, Listed
  <2> QED BY <1>0, <1>2, <1>a, <2>1 DEF ActionStart, ActionStop, StartApi, StopApi
<1>d. STA # PPP /\ (driver[STA] # "off" => STA \in s_head)
  OBVIOUS
<1>3. ASSUME NEW called \in BOOLEAN,
             ActionDisconnected(STA, called) \/ DhcpcStop(STA, called) \/ FirmwareDown(called)
      PROVE  Present'
  <2>1. CASE DhcpcStop(STA, called)
    <3>1. CASE driver[STA] = "off"
      <4>1. lwip_netif' = lwip_netif
        BY <1>0, <1>a, <2>1, <3>1 DEF DhcpcStop
      <4> QED BY <2>1, <4>1 DEF DhcpcStop
    <3>2. CASE driver[STA] # "off"
      BY <1>0, <1>b, <2>1, <3>2, AddedSame, PresentSide DEF DhcpcStop
    <3> QED BY <3>1, <3>2
  <2>2. CASE ActionDisconnected(STA, called) \/ FirmwareDown(called)
    <3>1. PICK l : /\ lwip_netif' = [lwip_netif EXCEPT ![STA] = l]
                   /\ l.added = lwip_netif[STA].added
      BY <1>0, <1>b, <2>2, AddedSame DEF ActionDisconnected, FirmwareDown, DownApi
    <3>2. driver[STA] # "off"
      BY <1>a, <2>2 DEF ActionDisconnected, FirmwareDown
    <3>3. driver'[STA] # "off" /\ driver'[AP] = driver[AP]
      BY <1>0, <2>2, <3>2 DEF ActionDisconnected, FirmwareDown
    <3>4. UNCHANGED <<s_head, ppp, events>>
      BY <2>2 DEF ActionDisconnected, FirmwareDown, DownApi
    <3> QED BY <1>0, <3>1, <3>2, <3>3, <3>4, PresentSide
  <2> QED BY <1>3, <2>1, <2>2
<1>4. CASE ActionConnected(STA) \/ FirmwareUp
  <2>1. driver[STA] # "off" /\ driver'[STA] # "off" /\ driver'[AP] = driver[AP]
    BY <1>0, <1>4, <1>a DEF ActionConnected, FirmwareUp
  <2>2. UNCHANGED <<s_head, ppp, events>>
    BY <1>4 DEF ActionConnected, FirmwareUp, UpApi
  <2>3. lwip_netif' = [lwip_netif EXCEPT ![STA] = SetUp(@, esp_netif[STA].ip_info)]
    BY <1>4 DEF ActionConnected, FirmwareUp, UpApi
  <2> QED BY <1>0, <1>b, <2>1, <2>2, <2>3, AddedSame, PresentSide
<1>e. ASSUME DhcpcAsks(STA), driver' = driver PROVE Present'
  <2>1. driver[STA] # "off"
    BY <1>a, <1>e DEF DhcpcAsks
  <2>2. UNCHANGED <<s_head, ppp, events>>
    BY <1>e DEF DhcpcAsks
  <2>3. lwip_netif' = [lwip_netif EXCEPT ![STA] = Asking(@)]
    BY <1>e DEF DhcpcAsks
  <2> QED BY <1>0, <1>b, <1>e, <2>1, <2>2, <2>3, AddedSame, PresentSide
<1>5. CASE ReadStatus \/ HandlerStartsDhcpc \/ ReadStatic \/ TellStatic
  <2>1. CASE HandlerStartsDhcpc
    <3>1. action.netif = STA
      BY <2>1 DEF HandlerStartsDhcpc, Tasks, Idle
    <3>2. CASE DhcpcAsks(STA)
      BY <1>e, <3>2 DEF DhcpcAsks
    <3> QED BY <2>1, <3>1, <3>2 DEF HandlerStartsDhcpc
  <2> QED BY <1>5, <2>1 DEF ReadStatus, ReadStatic, TellStatic
<1>6. ASSUME NEW a \in Leases, DhcpBinds(STA, a) \/ SetIpInfo(STA, a) PROVE Present'
  <2>1. UNCHANGED <<s_head, ppp, events, driver>>
    BY <1>6 DEF DhcpBinds, SetIpInfo
  <2>2. CASE lwip_netif' = lwip_netif
    BY <2>1, <2>2
  <2>3. CASE lwip_netif' # lwip_netif
    <3>1. driver[STA] # "off"
      BY <1>6, <1>a, <2>3 DEF DhcpBinds, SetIpInfo
    <3>2. \/ lwip_netif' = [lwip_netif EXCEPT ![STA] = Bound(@, a)]
          \/ lwip_netif' = [lwip_netif EXCEPT ![STA] = [@ EXCEPT !.addr = a]]
      BY <1>0, <1>6, <2>3 DEF DhcpBinds, SetIpInfo
    <3> QED BY <1>0, <1>b, <2>1, <3>1, <3>2, AddedSame, PresentSide
  <2> QED BY <2>2, <2>3
<1>7. CASE DhcpLoses(STA) \/ UserStartsDhcpc(STA)
  <2>1. CASE DhcpLoses(STA)
    <3>1. driver[STA] # "off"
      BY <1>a, <2>1 DEF DhcpLoses
    <3> QED BY <1>0, <1>b, <2>1, <3>1, AddedSame, PresentSide DEF DhcpLoses
  <2>2. CASE DhcpcWaits(STA)
    BY <2>2 DEF DhcpcWaits
  <2> QED BY <1>7, <1>e, <2>1, <2>2 DEF UserStartsDhcpc, DhcpcAsks
<1>8. CASE PppEvent
  <2>1. PICK l : /\ lwip_netif' = [lwip_netif EXCEPT ![PPP] = l]
                 /\ l.added = lwip_netif[PPP].added
    <3>1. CASE UpApi(PPP)
      <4>1. lwip_netif' = [lwip_netif EXCEPT ![PPP] = SetUp(@, esp_netif[PPP].ip_info)]
        BY <3>1 DEF UpApi
      <4>2. SetUp(lwip_netif[PPP], esp_netif[PPP].ip_info).added = lwip_netif[PPP].added
        BY <1>0, <1>b, AddedSame
      <4> QED BY <4>1, <4>2
    <3>2. CASE DownApi(PPP, FALSE)
      BY <1>0, <1>b, <3>2, AddedSame DEF DownApi, DHCP_CLIENT
    <3> QED BY <1>8, <3>1, <3>2 DEF PppEvent
  <2>2. UNCHANGED <<s_head, ppp, driver>> /\ PPP \in s_head
    BY <1>8 DEF PppEvent, UpApi, DownApi
  <2> QED BY <1>0, <2>1, <2>2, PresentSide
<1>9. CASE StartPpp \/ StopPpp \/ PppUp \/ PppLinkEnds
  <2>1. PPP \in s_head /\ s_head' = s_head /\ driver' = driver
    BY <1>9 DEF StartPpp, StopPpp, PppUp, PppLinkEnds, Listed
  <2>2. CASE StopPpp
    BY <2>1, <2>2 DEF StopPpp
  <2>3. CASE ~StopPpp
    <3>1. \E l : lwip_netif' = [lwip_netif EXCEPT ![PPP] = l]
      BY <1>0, <1>9, <2>3 DEF StartPpp, PppUp, PppLinkEnds
    <3> QED BY <1>0, <2>1, <3>1, PresentSide
  <2> QED BY <2>2, <2>3
<1>10. CASE DhcpsStart \/ DhcpsStop
  BY <1>10 DEF DhcpsStart, DhcpsStop
<1>11. CASE UNCHANGED netifVars
  BY <1>11 DEF netifVars
<1> QED BY <1>1, <1>2, <1>3, <1>4, <1>5, <1>6, <1>7, <1>8, <1>9, <1>10, <1>11 DEF NetifNext

-----------------------------------------------------------------------------
(* The default interface. *)

UpNow == {n \in s_head : IsUp(lwip_netif, n)}

Chosen ==
    "left" \notin unseen /\ UpNow \ unseen # {} =>
        /\ s_last_default_esp_netif \in UpNow
        /\ netif_default = s_last_default_esp_netif
        /\ \A n \in UpNow \ unseen : route_prio[n] <= route_prio[s_last_default_esp_netif]

\* A choice after a start keeps Chosen, if the step changes what is up of that interface only.
LEMMA ChosenStarted ==
    ASSUME Choice, Chosen, NEW n \in s_head, s_head' = s_head,
           NEW lwip, UpdateDefaultStarted(n, lwip),
           \A m \in s_head : IsUp(lwip, m) <=> IsUp(lwip_netif', m),
           \A m \in s_head \ {n} : IsUp(lwip_netif', m) <=> IsUp(lwip_netif, m),
           n = s_last_default_esp_netif /\ IsUp(lwip_netif, n) => IsUp(lwip_netif', n)
    PROVE  Chosen'
<1> DEFINE chosen == ChosenAtStart(n, lwip)
<1>1. s_last_default_esp_netif' = chosen /\ unseen' = unseen \ {n}
      /\ netif_default' = IF chosen # None /\ IsUp(lwip, chosen) THEN chosen ELSE netif_default
  BY DEF UpdateDefaultStarted
<1>2. /\ \A m : m \in UpNow <=> m \in s_head /\ IsUp(lwip_netif, m)
      /\ \A m : m \in UpNow' <=> m \in s_head /\ IsUp(lwip_netif', m)
      /\ \A m : m \in Up(lwip) <=> m \in s_head /\ IsUp(lwip, m)
  BY DEF UpNow, IsUp, Up
<1>3. None \notin s_head /\ "left" \notin s_head
  BY NetifAssumption DEF None, Choice
<1>4. s_head \subseteq Netifs /\ \A m \in s_head : route_prio[m] \in Nat
  BY Priorities DEF Netifs, Choice
<1>5. /\ IsUp(lwip, n) => chosen \in Up(lwip) /\ route_prio[n] <= route_prio[chosen]
      /\ s_last_default_esp_netif \in Up(lwip) =>
             /\ chosen \in Up(lwip)
             /\ route_prio[s_last_default_esp_netif] <= route_prio[chosen]
      /\ chosen \in s_head \cup {None}
  BY <1>4, ChosenOne
<1> HIDE DEF chosen
<1> SUFFICES ASSUME "left" \notin unseen', UpNow' \ unseen' # {}
             PROVE  /\ s_last_default_esp_netif' \in UpNow'
                    /\ netif_default' = s_last_default_esp_netif'
                    /\ \A m \in UpNow' \ unseen' :
                           route_prio[m] <= route_prio[s_last_default_esp_netif']
  BY DEF Chosen
<1>6. "left" \notin unseen
  BY <1>1, <1>3
<1>7. \A m \in UpNow' \ unseen' : m = n \/ m \in UpNow \ unseen
  BY <1>1, <1>2
<1>8. CASE UpNow \ unseen = {}
  <2>1. n \in UpNow' /\ \A m \in UpNow' \ unseen' : m = n
    BY <1>7, <1>8
  <2> QED BY <1>1, <1>2, <1>3, <1>5, <2>1
<1>9. CASE UpNow \ unseen # {}
  <2>1. /\ s_last_default_esp_netif \in UpNow
        /\ \A m \in UpNow \ unseen : route_prio[m] <= route_prio[s_last_default_esp_netif]
    BY <1>6, <1>9 DEF Chosen
  <2>2. s_last_default_esp_netif \in Up(lwip)
    BY <1>2, <2>1
  <2>3. chosen \in UpNow' /\ chosen # None
    BY <1>2, <1>3, <1>5, <2>2
  <2>4. \A m \in UpNow' \ unseen' : route_prio[m] <= route_prio[chosen]
    BY <1>2, <1>4, <1>5, <1>7, <2>1, <2>2, <2>3
  <2> QED BY <1>1, <1>2, <2>3, <2>4
<1> QED BY <1>8, <1>9

\* The walk over the list makes Chosen true.
LEMMA ChosenStopped ==
    ASSUME Choice, NEW gone, s_head' = s_head, UpdateDefaultStopped(lwip_netif', gone)
    PROVE  Chosen'
<1>1. UpNow' = Up(lwip_netif')
  BY DEF UpNow, Up, IsUp
<1>2. s_head \subseteq Netifs /\ None \notin s_head
  BY NetifAssumption DEF None, Choice
<1> QED BY <1>1, <1>2, BestOfList DEF Chosen, UpdateDefaultStopped, Up

\* A step without a choice keeps it, if nothing comes up that is not unseen, and the default
\* does not go.
LEMMA ChosenUnseen ==
    ASSUME Choice, Chosen,
           UpNow' \ unseen' \subseteq UpNow \ unseen,
           "left" \notin unseen' =>
               /\ "left" \notin unseen
               /\ s_last_default_esp_netif \in UpNow => s_last_default_esp_netif \in UpNow'
               /\ UNCHANGED s_last_default_esp_netif
               /\ netif_default \in UpNow => netif_default' = netif_default
    PROVE  Chosen'
BY DEF Chosen

\* Which of lwIP's operations bring an interface up or down.
LEMMA UpSame ==
    ASSUME NEW l \in Stack, NEW a \in Addresses
    PROVE  /\ Bound(l, a).up = l.up
           /\ Asking(l).up = l.up
           /\ Stopped(l).up = l.up
           /\ SetUp(l, a).up = TRUE
           /\ SetDown(l).up = FALSE
           /\ [l EXCEPT !.addr = a].up = l.up
           /\ PppRuns(l).link = TRUE
           /\ PppDead(l).link = FALSE
           /\ [l EXCEPT !.added = TRUE].link = l.link
BY DEF Stack, Bound, Asking, Stopped, SetUp, SetDown, PppRuns, PppDead

\* Bringing an interface up leaves its link.
LEMMA LinkSame ==
    ASSUME NEW l \in Stack, NEW a \in Addresses
    PROVE  SetUp(l, a).link = l.link
BY DEF Stack, SetUp

\* A step that neither brings an interface up nor down nor chooses.
LEMMA ChosenSame ==
    ASSUME Choice, Chosen, s_head' = s_head, NoUpdate,
           \A m \in s_head : IsUp(lwip_netif', m) <=> IsUp(lwip_netif, m)
    PROVE  Chosen'
<1>1. UpNow' = UpNow
  BY DEF UpNow, IsUp
<1> QED BY <1>1 DEF Chosen, NoUpdate

\* A step that gives one interface the side l of lwIP.
LEMMA OneSide ==
    ASSUME lwip_netif \in [Netifs -> Stack], NEW n \in Netifs, NEW l,
           lwip_netif' = [lwip_netif EXCEPT ![n] = l]
    PROVE  /\ lwip_netif'[n] = l
           /\ \A m \in Netifs \ {n} : lwip_netif'[m] = lwip_netif[m]
           /\ \A m \in Netifs \ {n} : IsUp(lwip_netif', m) <=> IsUp(lwip_netif, m)
           /\ n \in {STA, AP} => (IsUp(lwip_netif', n) <=> l.up)
           /\ n = PPP => (IsUp(lwip_netif', n) <=> l.link)
<1>1. lwip_netif'[n] = l
  OBVIOUS
<1>2. \A m \in Netifs \ {n} : lwip_netif'[m] = lwip_netif[m]
  OBVIOUS
<1>3. \A m \in Netifs \ {n} : IsUp(lwip_netif', m) <=> IsUp(lwip_netif, m)
  BY <1>2, Zenon DEF IsUp
<1>4. n \in {STA, AP} => (IsUp(lwip_netif', n) <=> l.up)
  <2>1. n \in {STA, AP} => n \notin POINT2POINT
    BY NetifAssumption DEF POINT2POINT
  <2> QED BY <1>1, <2>1, Zenon DEF IsUp
<1>5. n = PPP => (IsUp(lwip_netif', n) <=> l.link)
  <2>1. n = PPP => n \in POINT2POINT
    BY DEF POINT2POINT
  <2> QED BY <1>1, <2>1, Zenon DEF IsUp
<1> QED BY <1>1, <1>2, <1>3, <1>4, <1>5, Zenon

\* PPP is up with its link, the others with lwIP's flag.
LEMMA UpDef ==
    ASSUME NEW lwip
    PROVE  /\ IsUp(lwip, STA) <=> lwip[STA].up
           /\ IsUp(lwip, AP) <=> lwip[AP].up
           /\ IsUp(lwip, PPP) <=> lwip[PPP].link
BY NetifAssumption, Zenon DEF IsUp, POINT2POINT

\* A step that gives the station a side of lwIP that is as up as before.
LEMMA StationUp ==
    ASSUME lwip_netif \in [Netifs -> Stack], NEW l, l.up = lwip_netif[STA].up,
           lwip_netif' = [lwip_netif EXCEPT ![STA] = l]
    PROVE  \A m \in Netifs : IsUp(lwip_netif', m) <=> IsUp(lwip_netif, m)
<1>1. IsUp(lwip_netif', STA) <=> IsUp(lwip_netif, STA)
  <2>1. lwip_netif'[STA].up = lwip_netif[STA].up
    BY DEF Netifs
  <2>2. (IsUp(lwip_netif', STA) <=> lwip_netif'[STA].up)
        /\ (IsUp(lwip_netif, STA) <=> lwip_netif[STA].up)
    BY UpDef, Zenon
  <2> QED BY <2>1, <2>2, Zenon
<1>2. \A m \in Netifs \ {STA} : IsUp(lwip_netif', m) <=> IsUp(lwip_netif, m)
  BY OneSide DEF Netifs
<1> QED BY <1>1, <1>2

\* The same for the link of PPP.
LEMMA LinkUp ==
    ASSUME lwip_netif \in [Netifs -> Stack], NEW l, l.link = lwip_netif[PPP].link,
           lwip_netif' = [lwip_netif EXCEPT ![PPP] = l]
    PROVE  \A m \in Netifs : IsUp(lwip_netif', m) <=> IsUp(lwip_netif, m)
<1>1. IsUp(lwip_netif', PPP) <=> IsUp(lwip_netif, PPP)
  <2>1. lwip_netif'[PPP].link = lwip_netif[PPP].link
    BY DEF Netifs
  <2>2. (IsUp(lwip_netif', PPP) <=> lwip_netif'[PPP].link)
        /\ (IsUp(lwip_netif, PPP) <=> lwip_netif[PPP].link)
    BY UpDef, Zenon
  <2> QED BY <2>1, <2>2, Zenon
<1>2. \A m \in Netifs \ {PPP} : IsUp(lwip_netif', m) <=> IsUp(lwip_netif, m)
  BY OneSide DEF Netifs
<1> QED BY <1>1, <1>2

\* A step that takes one interface away from lwIP.
LEMMA BareUp ==
    ASSUME lwip_netif \in [Netifs -> Stack], NEW n \in Netifs,
           lwip_netif' = [lwip_netif EXCEPT ![n] = LwipNetif]
    PROVE  /\ ~IsUp(lwip_netif', n)
           /\ \A m \in Netifs \ {n} : IsUp(lwip_netif', m) <=> IsUp(lwip_netif, m)
<1>1. lwip_netif'[n] = LwipNetif
  OBVIOUS
<1>2. ~lwip_netif'[n].up /\ ~lwip_netif'[n].link
  BY <1>1, BareSide
<1>3. ~IsUp(lwip_netif', n)
  BY <1>2, Zenon DEF IsUp
<1> QED BY <1>3, OneSide

\* Membership in UpNow, before and after a step.
LEMMA UpNowDef ==
    /\ \A m : m \in UpNow <=> m \in s_head /\ IsUp(lwip_netif, m)
    /\ \A m : m \in UpNow' <=> m \in s_head' /\ IsUp(lwip_netif', m)
BY DEF UpNow, IsUp

\* Every step keeps the default right among what the choice has seen.
LEMMA ChosenKept == TypesHold /\ Present /\ Chosen /\ [NetifNext]_netifVars => Chosen'
<1> SUFFICES ASSUME TypesHold, Present, Chosen, [NetifNext]_netifVars PROVE Chosen'
  OBVIOUS
<1> USE NetifAssumption DEF TypesHold, Present
<1>0. /\ s_head \subseteq Netifs /\ STA \in Netifs /\ AP \in Netifs /\ PPP \in Netifs
      /\ Any4 \in Addresses /\ PppAddress \in Addresses /\ Leases \subseteq Addresses
      /\ lwip_netif \in [Netifs -> Stack]
      /\ Choice
  BY DEF Choice, Netifs, Addresses
<1>b. \A n \in Netifs : lwip_netif[n] \in Stack /\ esp_netif[n].ip_info \in Addresses
  BY DEF Client4
<1>n. \A n : n \in Netifs <=> n = STA \/ n = AP \/ n = PPP
  BY DEF Netifs
\* Other sides of lwIP than that of the station stay, and it keeps its state.
<1>s. ASSUME s_head' = s_head, NoUpdate, NEW l, lwip_netif' = [lwip_netif EXCEPT ![STA] = l],
             l.up = lwip_netif[STA].up
      PROVE  Chosen'
  <2>1. \A m \in s_head : IsUp(lwip_netif', m) <=> IsUp(lwip_netif, m)
    BY <1>0, <1>s, StationUp
  <2> QED BY <1>0, <1>s, <2>1, ChosenSame
<1>1. ASSUME NEW n \in Netifs, New(n) PROVE Chosen'
  <2>1. /\ ~IsUp(lwip_netif', n)
        /\ \A m \in Netifs \ {n} : IsUp(lwip_netif', m) <=> IsUp(lwip_netif, m)
    BY <1>0, <1>1, BareUp DEF New
  <2>2. UpNow' = UpNow
    <3>1. s_head' = s_head \cup {n} /\ n \notin s_head
      BY <1>1 DEF New
    <3>2. \A m : m \in UpNow' <=> m \in UpNow
      BY <1>0, <2>1, <3>1, UpNowDef
    <3> QED BY <3>2 DEF UpNow
  <2> QED BY <1>1, <2>2 DEF New, NoUpdate, Chosen
<1>2. ASSUME NEW n \in Netifs, Destroy(n) PROVE Chosen'
  <2>1. /\ ~IsUp(lwip_netif', n)
        /\ \A m \in Netifs \ {n} : IsUp(lwip_netif', m) <=> IsUp(lwip_netif, m)
    BY <1>0, <1>2, BareUp DEF Destroy
  <2>2. UpNow' = UpNow \ {n}
    <3>1. s_head' = s_head \ {n}
      BY <1>2 DEF Destroy
    <3>2. \A m : m \in UpNow' <=> m \in UpNow /\ m # n
      BY <1>0, <2>1, <3>1, UpNowDef
    <3> QED BY <3>2 DEF UpNow
  <2> QED BY <1>0, <1>2, <2>2, ChosenUnseen DEF Destroy, DefaultLeft
<1>3. ASSUME NEW n \in Netifs, IpLostTimer(n) PROVE Chosen'
  BY <1>0, <1>3, ChosenSame DEF IpLostTimer
<1>4. ASSUME NEW n \in {STA, AP}, ActionStart(n) PROVE Chosen'
  <2>1. n \in s_head /\ ~IsUp(lwip_netif, n) /\ s_head' = s_head
    <3>1. lwip_netif[n] = LwipNetif
      BY <1>4 DEF ActionStart
    <3>2. ~lwip_netif[n].up /\ ~lwip_netif[n].link
      BY <3>1, BareSide
    <3>3. ~IsUp(lwip_netif, n)
      BY <3>2, Zenon DEF IsUp
    <3> QED BY <1>4, <3>3 DEF ActionStart, StartApi, Listed
  <2>2. lwip_netif' = [lwip_netif EXCEPT ![n] = Added(n)]
    BY <1>4 DEF ActionStart, StartApi
  <2>3. \A m \in s_head \ {n} : IsUp(lwip_netif', m) <=> IsUp(lwip_netif, m)
    BY <1>0, <2>2, OneSide
  <2>4. CASE UpdateDefaultStarted(n, [lwip_netif EXCEPT ![n] = Added(n)])
    BY <1>0, <2>1, <2>2, <2>3, <2>4, ChosenStarted
  <2>5. CASE UNCHANGED <<s_last_default_esp_netif, netif_default>>
             /\ unseen' = unseen \cup {n}
    <3>1. UpNow' \subseteq UpNow \cup {n} /\ UpNow \subseteq UpNow'
      BY <2>1, <2>3 DEF UpNow
    <3> QED BY <1>0, <2>5, <3>1, ChosenUnseen
  <2> QED BY <1>4, <2>4, <2>5 DEF ActionStart, StartApi
<1>5. ASSUME NEW n \in {STA, AP}, NEW called \in BOOLEAN, ActionStop(n, called) PROVE Chosen'
  <2>1. n \in s_head /\ s_head' = s_head
    BY <1>5 DEF ActionStop, StopApi
  <2>2. lwip_netif' = [lwip_netif EXCEPT ![n] = LwipNetif]
    BY <1>5 DEF ActionStop, StopApi
  <2>3. CASE UpdateDefaultStopped([lwip_netif EXCEPT ![n] = LwipNetif], {n})
    BY <1>0, <2>1, <2>2, <2>3, ChosenStopped
  <2>4. CASE /\ ~lwip_netif[n].up
             /\ netif_default' = (IF netif_default = n THEN None ELSE netif_default)
             /\ UNCHANGED <<s_last_default_esp_netif, unseen>>
    <3>1. n \notin UpNow
      <4>1. n \notin POINT2POINT
        BY <1>n DEF POINT2POINT
      <4>2. ~IsUp(lwip_netif, n)
        BY <2>4, <4>1, Zenon DEF IsUp
      <4> QED BY <4>2, UpNowDef
    <3>2. \A m \in s_head : IsUp(lwip_netif', m) <=> IsUp(lwip_netif, m)
      BY <1>0, <2>1, <2>2, <3>1, BareUp, UpNowDef
    <3>3. UpNow' = UpNow
      BY <2>1, <3>2 DEF UpNow
    <3> QED BY <1>0, <2>4, <3>1, <3>3, ChosenUnseen
  <2> QED BY <1>5, <2>3, <2>4 DEF ActionStop, StopApi
<1>6. ASSUME UpApi(STA), STA \in s_head PROVE Chosen'
  <2>1. /\ s_head' = s_head
        /\ lwip_netif' = [lwip_netif EXCEPT ![STA] = SetUp(@, esp_netif[STA].ip_info)]
    BY <1>6 DEF UpApi
  <2>2. IsUp(lwip_netif', STA)
    <3>1. SetUp(lwip_netif[STA], esp_netif[STA].ip_info).up
      BY <1>0, <1>b, UpSame
    <3>2. lwip_netif'[STA] = SetUp(lwip_netif[STA], esp_netif[STA].ip_info)
      BY <1>0, <2>1
    <3> QED BY <3>1, <3>2, UpDef
  <2>3. \A m \in s_head \ {STA} : IsUp(lwip_netif', m) <=> IsUp(lwip_netif, m)
    BY <1>0, <2>1, OneSide
  <2>4. UpdateDefaultStarted(STA, lwip_netif')
    BY <1>6, <2>1 DEF UpApi
  <2> QED BY <1>0, <1>6, <2>1, <2>2, <2>3, <2>4, ChosenStarted
<1>7. ASSUME NEW n \in Netifs, NEW called, DownApi(n, called) PROVE Chosen'
  BY <1>0, <1>7, ChosenStopped DEF DownApi
<1>8. CASE ActionConnected(STA) \/ FirmwareUp
  BY <1>0, <1>6, <1>8 DEF ActionConnected, FirmwareUp
<1>9. ASSUME NEW called \in BOOLEAN,
             ActionDisconnected(STA, called) \/ DhcpcStop(STA, called) \/ FirmwareDown(called)
      PROVE  Chosen'
  <2>1. CASE DhcpcStop(STA, called)
    <3>1. s_head' = s_head /\ NoUpdate
      BY <2>1 DEF DhcpcStop
    <3>2. CASE lwip_netif' = lwip_netif
      BY <1>0, <3>1, <3>2, ChosenSame
    <3>3. CASE lwip_netif' = [lwip_netif EXCEPT ![STA] = Stopped(@)]
      <4>1. Stopped(lwip_netif[STA]).up = lwip_netif[STA].up
        BY <1>0, <1>b, UpSame
      <4>2. lwip_netif' = [lwip_netif EXCEPT ![STA] = Stopped(lwip_netif[STA])]
        BY <3>3
      <4> QED BY <1>s, <3>1, <4>1, <4>2
    <3> QED BY <2>1, <3>2, <3>3 DEF DhcpcStop
  <2> QED BY <1>0, <1>7, <1>9, <2>1 DEF ActionDisconnected, FirmwareDown
<1>c. Asking(lwip_netif[STA]).up = lwip_netif[STA].up
  BY <1>0, <1>b, UpSame
<1>a. ASSUME DhcpcAsks(STA) \/ DhcpcWaits(STA) PROVE Chosen'
  <2>1. s_head' = s_head /\ NoUpdate
    BY <1>a DEF DhcpcAsks, DhcpcWaits
  <2>2. \/ lwip_netif' = lwip_netif
        \/ lwip_netif' = [lwip_netif EXCEPT ![STA] = Asking(lwip_netif[STA])]
    BY <1>a DEF DhcpcAsks, DhcpcWaits
  <2> QED BY <1>0, <1>c, <1>s, <2>1, <2>2, ChosenSame
<1>10. CASE ReadStatus \/ HandlerStartsDhcpc \/ ReadStatic \/ TellStatic
  <2>1. CASE HandlerStartsDhcpc
    <3>1. action.netif = STA
      BY <2>1 DEF HandlerStartsDhcpc, Tasks, Idle
    <3> QED BY <1>0, <1>a, <2>1, <3>1, ChosenSame DEF HandlerStartsDhcpc
  <2> QED BY <1>0, <1>10, <2>1, ChosenSame DEF ReadStatus, ReadStatic, TellStatic
<1>11. ASSUME NEW a \in Leases, DhcpBinds(STA, a) \/ SetIpInfo(STA, a) PROVE Chosen'
  <2>1. s_head' = s_head /\ NoUpdate
    BY <1>11 DEF DhcpBinds, SetIpInfo
  <2>2. CASE lwip_netif' = lwip_netif
    BY <1>0, <2>1, <2>2, ChosenSame
  <2>3. CASE lwip_netif' = [lwip_netif EXCEPT ![STA] = Bound(lwip_netif[STA], a)]
    <3>1. Bound(lwip_netif[STA], a).up = lwip_netif[STA].up
      BY <1>0, <1>b, UpSame
    <3> QED BY <1>s, <2>1, <2>3, <3>1
  <2>4. CASE lwip_netif' = [lwip_netif EXCEPT ![STA].addr = a]
    <3>1. [lwip_netif[STA] EXCEPT !.addr = a].up = lwip_netif[STA].up
      BY <1>0, <1>b, UpSame
    <3>2. lwip_netif' = [lwip_netif EXCEPT ![STA] = [lwip_netif[STA] EXCEPT !.addr = a]]
      BY <2>4
    <3> QED BY <1>s, <2>1, <3>1, <3>2
  <2> QED BY <1>11, <2>2, <2>3, <2>4 DEF DhcpBinds, SetIpInfo
<1>12. CASE DhcpLoses(STA) \/ UserStartsDhcpc(STA)
  <2>1. CASE DhcpLoses(STA)
    <3>1. /\ s_head' = s_head /\ NoUpdate
          /\ lwip_netif' = [lwip_netif EXCEPT ![STA] = Asking(lwip_netif[STA])]
      BY <2>1 DEF DhcpLoses
    <3> QED BY <1>c, <1>s, <3>1
  <2> QED BY <1>12, <1>a, <2>1 DEF UserStartsDhcpc
<1>13. CASE PppEvent
  <2>1. CASE UpApi(PPP)
    <3>1. /\ s_head' = s_head
          /\ lwip_netif' = [lwip_netif EXCEPT ![PPP] = SetUp(@, esp_netif[PPP].ip_info)]
      BY <2>1 DEF UpApi
    <3>2. SetUp(lwip_netif[PPP], esp_netif[PPP].ip_info).link = lwip_netif[PPP].link
      <4>1. lwip_netif[PPP] \in Stack /\ esp_netif[PPP].ip_info \in Addresses
        BY <1>0, <1>b
      <4> QED BY <4>1, LinkSame, Zenon
    <3>3. \A m \in s_head : IsUp(lwip_netif', m) <=> IsUp(lwip_netif, m)
      BY <1>0, <3>1, <3>2, LinkUp
    <3>4. UpdateDefaultStarted(PPP, lwip_netif')
      BY <2>1, <3>1 DEF UpApi
    <3>5. PPP \in s_head
      BY <1>13 DEF PppEvent
    <3> QED BY <1>0, <3>1, <3>3, <3>4, <3>5, ChosenStarted
  <2> QED BY <1>0, <1>7, <1>13, <2>1 DEF PppEvent
<1>14. CASE StartPpp
  <2>1. lwip_netif' = [lwip_netif EXCEPT ![PPP] = [@ EXCEPT !.added = TRUE]]
    BY <1>0, <1>14 DEF StartPpp
  <2>2. [lwip_netif[PPP] EXCEPT !.added = TRUE].link = lwip_netif[PPP].link
    BY <1>0, <1>b, UpSame
  <2>3. \A m \in s_head : IsUp(lwip_netif', m) <=> IsUp(lwip_netif, m)
    BY <1>0, <2>1, <2>2, LinkUp
  <2> QED BY <1>0, <1>14, <2>3, ChosenStarted DEF StartPpp, Listed
<1>15. CASE StopPpp
  BY <1>0, <1>15, ChosenStopped DEF StopPpp
<1>16. CASE PppUp
  <2>1. \A m \in s_head \ {PPP} : IsUp(lwip_netif', m) <=> IsUp(lwip_netif, m)
    BY <1>0, <1>16, OneSide DEF PppUp
  <2>2. IsUp(lwip_netif', PPP)
    BY <1>0, <1>b, <1>16, UpSame, OneSide DEF PppUp
  <2>3. UpNow' \subseteq UpNow \cup {PPP} /\ UpNow \subseteq UpNow'
    BY <1>16, <2>1, <2>2 DEF UpNow, PppUp
  <2> QED BY <1>0, <1>16, <2>3, ChosenUnseen DEF PppUp
<1>17. CASE PppLinkEnds
  <2>1. \A m \in s_head \ {PPP} : IsUp(lwip_netif', m) <=> IsUp(lwip_netif, m)
    BY <1>0, <1>17, OneSide DEF PppLinkEnds
  <2>2. ~IsUp(lwip_netif', PPP)
    <3>1. lwip_netif'[PPP] = PppDead(lwip_netif[PPP])
      BY <1>0, <1>17 DEF PppLinkEnds
    <3>2. ~PppDead(lwip_netif[PPP]).link
      BY <1>0, <1>b, UpSame
    <3> QED BY <3>1, <3>2, UpDef
  <2>3. UpNow' = UpNow \ {PPP}
    <3>1. s_head' = s_head
      BY <1>17 DEF PppLinkEnds
    <3>2. \A m : m \in UpNow' <=> m \in UpNow /\ m # PPP
      BY <2>1, <2>2, <3>1, UpNowDef
    <3> QED BY <3>2 DEF UpNow
  <2> QED BY <1>0, <1>17, <2>3, ChosenUnseen DEF PppLinkEnds, DefaultLeft
<1>18. CASE DhcpsStart \/ DhcpsStop
  BY <1>0, <1>18, ChosenSame DEF DhcpsStart, DhcpsStop
<1>19. CASE UNCHANGED netifVars
  BY <1>0, <1>19, ChosenSame DEF netifVars, NoUpdate
<1> QED BY <1>1, <1>2, <1>3, <1>4, <1>5, <1>8, <1>9, <1>10, <1>11, <1>12, <1>13, <1>14, <1>15,
           <1>16, <1>17, <1>18, <1>19 DEF NetifNext

-----------------------------------------------------------------------------
(* The address of the station. *)

Ip == esp_netif[STA].ip_info

\* DHCP asks or holds an address only on a station that is up, while the object says that the
\* client is started; without an association it holds none.
DhcpClient ==
    /\ lwip_netif[STA].dhcp # "off" =>
           lwip_netif[STA].up /\ esp_netif[STA].dhcpc_status = "started"
    /\ STA \in s_head /\ esp_netif[STA].dhcpc_status = "started" =>
           lwip_netif[STA].dhcp # "off"
    /\ lwip_netif[STA].dhcp = "asking" => lwip_netif[STA].addr = Any4
    /\ lwip_netif[STA].dhcp = "bound" => lwip_netif[STA].addr = Ip /\ Ip # Any4
    /\ lwip_netif[STA].dhcp # "off" /\ driver[STA] # "connected" =>
           lwip_netif[STA].dhcp # "bound" /\ Ip = Any4

Told ==
    lwip_netif[STA].dhcp # "off" /\ Ip # Any4 /\ ~lostTold /\ ~raced => told = Ip

Agree ==
    lwip_netif[STA].up /\ lwip_netif[STA].addr # Any4 => Ip = lwip_netif[STA].addr

Timers == STA \in s_head => (STA \in timeouts <=> esp_netif[STA].timer_running)

\* A static address is told only when there is one.
Tells == action.step = "tell" => action.ip # Any4

Station == DhcpClient /\ Told /\ Agree /\ Timers

\* The access point's address never changes, and only the station has a timer.
Others ==
    /\ esp_netif[AP].ip_info = ApAddress /\ lwip_netif[AP].addr \in {Any4, ApAddress}
    /\ \A n \in {AP, PPP} : ~esp_netif[n].timer_running

\* Every step keeps Tells.
LEMMA TellsKept == TypesHold /\ Tells /\ [NetifNext]_netifVars => Tells'
<1> SUFFICES ASSUME TypesHold, Tells, [NetifNext]_netifVars PROVE Tells'
  OBVIOUS
<1>1. CASE action' = action \/ action' = Idle \/ action'.step = "status"
  BY <1>1 DEF Tells, Idle
<1>2. CASE ReadStatus
  BY <1>2 DEF ReadStatus, Tells, Idle
<1>3. CASE ReadStatic
  BY <1>3 DEF ReadStatic, Tells, Idle
<1>4. ASSUME NEW n, NEW called,
             \/ New(n) \/ Destroy(n) \/ IpLostTimer(n)
             \/ ActionStart(n) \/ ActionStop(n, called)
             \/ ActionDisconnected(n, called) \/ DhcpcStop(n, called) \/ FirmwareDown(called)
             \/ UserStartsDhcpc(n) \/ DhcpLoses(n) \/ ActionConnected(n)
             \/ DhcpBinds(n, called) \/ SetIpInfo(n, called)
      PROVE  action' = action \/ action'.step = "status"
  BY <1>4 DEF New, Destroy, IpLostTimer, ActionStart, ActionStop, ActionDisconnected, DhcpcStop,
              FirmwareDown, UserStartsDhcpc, DhcpLoses, ActionConnected, DhcpBinds, SetIpInfo
<1>5. CASE HandlerStartsDhcpc \/ TellStatic
  BY <1>1, <1>5 DEF HandlerStartsDhcpc, TellStatic
<1>6. CASE \/ FirmwareUp \/ PppEvent \/ StartPpp \/ StopPpp \/ PppUp \/ PppLinkEnds
           \/ DhcpsStart \/ DhcpsStop \/ UNCHANGED netifVars
  BY <1>1, <1>6 DEF FirmwareUp, PppEvent, StartPpp, StopPpp, PppUp, PppLinkEnds, DhcpsStart,
                    DhcpsStop, netifVars
<1> QED BY <1>1, <1>2, <1>3, <1>4, <1>5, <1>6 DEF NetifNext

\* A step that leaves the station alone.
LEMMA StationSame ==
    ASSUME Station, esp_netif'[STA] = esp_netif[STA], lwip_netif'[STA] = lwip_netif[STA],
           STA \in timeouts' <=> STA \in timeouts, STA \in s_head' <=> STA \in s_head,
           driver'[STA] = driver[STA], UNCHANGED <<told, lostTold, raced>>
    PROVE  Station'
BY DEF Station, DhcpClient, Told, Agree, Timers, Ip

\* Every step keeps what goes together on the station.
LEMMA StationKept ==
    TypesHold /\ Present /\ Tells /\ Station /\ [NetifNext]_netifVars => Station'
<1> SUFFICES ASSUME TypesHold, Present, Tells, Station, [NetifNext]_netifVars PROVE Station'
  OBVIOUS
<1> USE NetifAssumption
<1>0. /\ s_head \subseteq Netifs /\ STA \in Netifs /\ AP \in Netifs /\ PPP \in Netifs
      /\ Any4 \in Addresses /\ PppAddress \in Addresses /\ Leases \subseteq Addresses \ {Any4}
      /\ lwip_netif \in [Netifs -> Stack] /\ esp_netif \in [Netifs -> Client4]
      /\ driver \in [{STA, AP} -> {"off", "started", "connected"}]
      /\ STA # AP /\ STA # PPP
  BY DEF TypesHold, Choice, Tasks, Netifs, Addresses
<1>n. \A n : n \in Netifs <=> n = STA \/ n = AP \/ n = PPP
  BY DEF Netifs
<1>e. /\ esp_netif[STA] \in Client4 /\ lwip_netif[STA] \in Stack /\ Ip \in Addresses
      /\ Ip = esp_netif[STA].ip_info
      /\ esp_netif[STA].dhcpc_status \in {"init", "started", "stopped"}
      /\ lwip_netif[STA].dhcp \in {"off", "asking", "bound"}
  BY <1>0 DEF Client4, Stack, Ip
<1>p. driver[STA] = "off" => lwip_netif[STA] = LwipNetif
  BY DEF Present
<1>q. driver[STA] # "off" => STA \in s_head
  BY DEF Present
<1>1. ASSUME NEW n \in Netifs, New(n) PROVE Station'
  <2>1. CASE n = STA
    <3>1. /\ EspNetif(STA).ip_info = Any4 /\ EspNetif(STA).dhcpc_status = "init"
          /\ EspNetif(STA).timer_running = FALSE
      BY DEF EspNetif, Static
    <3>2. esp_netif'[STA] = EspNetif(STA) /\ lwip_netif'[STA] = LwipNetif
      BY <1>0, <1>1, <2>1 DEF New
    <3>3. STA \notin timeouts'
      BY <1>1, <2>1 DEF New
    <3> QED BY <3>1, <3>2, <3>3, BareSide DEF Station, DhcpClient, Told, Agree, Timers, Ip
  <2>2. CASE n # STA
    <3>1. lostTold' = lostTold
      BY <1>1, <2>2 DEF New, TypesHold, Flags
    <3> QED BY <1>0, <1>1, <2>2, <3>1, StationSame DEF New, Untold
  <2> QED BY <2>1, <2>2
<1>2. ASSUME NEW n \in Netifs, Destroy(n) PROVE Station'
  <2>1. CASE n = STA
    <3>1. lwip_netif'[STA] = LwipNetif /\ STA \notin s_head'
      BY <1>0, <1>2, <2>1 DEF Destroy
    <3> QED BY <3>1, BareSide DEF Station, DhcpClient, Told, Agree, Timers, Ip
  <2>2. CASE n # STA
    BY <1>0, <1>2, <2>2, StationSame DEF Destroy
  <2> QED BY <2>1, <2>2
<1>3. ASSUME NEW n \in Netifs, IpLostTimer(n) PROVE Station'
  <2>1. n = STA
    BY <1>3 DEF IpLostTimer, TypesHold
  <2>2. STA \notin timeouts' /\ UNCHANGED <<s_head, lwip_netif, driver, raced>>
    BY <1>3, <2>1 DEF IpLostTimer
  <2>3. \/ UNCHANGED <<told, lostTold>>
        \/ lostTold' = TRUE
    BY <1>3, Zenon DEF IpLostTimer
  <2>4. esp_netif'[STA].ip_info = Ip
        /\ esp_netif'[STA].dhcpc_status = esp_netif[STA].dhcpc_status
        /\ (STA \in s_head => esp_netif'[STA].timer_running = FALSE)
    <3>1. CASE STA \notin s_head
      BY <1>3, <2>1, <3>1 DEF IpLostTimer, Listed, Ip
    <3>2. CASE STA \in s_head
      <4>1. esp_netif'[STA] = [esp_netif[STA] EXCEPT !.timer_running = FALSE]
        BY <1>0, <1>3, <2>1, <3>2 DEF IpLostTimer, Listed
      <4> QED BY <1>e, <4>1, ObjectOps DEF Object
    <3> QED BY <3>1, <3>2
  <2>5. DhcpClient' /\ Agree' /\ Timers'
    BY <2>2, <2>4 DEF Station, DhcpClient, Agree, Timers, Ip
  <2>6. Told'
    BY <2>2, <2>3, <2>4 DEF Station, Told, Ip
  <2> QED BY <2>5, <2>6 DEF Station
<1>4. ASSUME NEW n \in {STA, AP}, ActionStart(n) PROVE Station'
  <2>1. CASE n = STA
    <3>1. /\ UNCHANGED <<s_head, esp_netif, timeouts, told, lostTold, raced>>
          /\ lwip_netif'[STA] = Added(STA)
      BY <1>0, <1>4, <2>1 DEF ActionStart, StartApi, DHCP_SERVER
    <3>2. lwip_netif'[STA].dhcp = "off" /\ ~lwip_netif'[STA].up
      <4>1. Added(STA).dhcp = "off" /\ ~Added(STA).up
        BY <1>0 DEF Added, AUTOUP
      <4> QED BY <3>1, <4>1
    <3>3. lwip_netif[STA].dhcp = "off" /\ STA \in s_head
      BY <1>4, <1>p, <2>1, BareSide DEF ActionStart, Listed
    <3> QED BY <3>1, <3>2, <3>3 DEF Station, DhcpClient, Told, Agree, Timers, Ip
  <2>2. CASE n = AP
    <3>1. esp_netif'[STA] = esp_netif[STA] /\ lwip_netif'[STA] = lwip_netif[STA]
      BY <1>0, <1>4, <2>2 DEF ActionStart, StartApi, DHCP_SERVER
    <3> QED BY <1>0, <1>4, <2>2, <3>1, StationSame DEF ActionStart, StartApi
  <2> QED BY <2>1, <2>2
\* What dhcp_stop leaves of the timer.
<1>t. ASSUME NEW called \in BOOLEAN, NEW t,
             t <=> STA \in TimeoutsAfterStop(STA, called), STA \in s_head
      PROVE  t <=> TimerAfterStop(esp_netif[STA], lwip_netif[STA], called)
  BY <1>t DEF TimeoutsAfterStop, TimeoutsFor, TimerAfterStop, Station, Timers
<1>5. ASSUME NEW n \in {STA, AP}, NEW called \in BOOLEAN, ActionStop(n, called) PROVE Station'
  <2>1. CASE n = STA
    <3>1. /\ UNCHANGED <<s_head, lostTold, raced>> /\ lwip_netif'[STA] = LwipNetif
          /\ told' = Any4 /\ driver[STA] = "started" /\ STA \in s_head
      BY <1>0, <1>5, <1>q, <2>1 DEF ActionStop, StopApi, Untold
    <3>2. CASE lwip_netif[STA].up
      <4>1. esp_netif'[STA] = [ResetIp(AfterStop(esp_netif[STA], lwip_netif[STA], called))
                                   EXCEPT !.dhcpc_status = "init"]
            /\ timeouts' = TimeoutsAfterStop(STA, called)
        BY <1>0, <1>5, <2>1, <3>2 DEF ActionStop, StopApi, DHCP_SERVER, DHCP_CLIENT
      <4>2. Object(esp_netif'[STA], Any4, "init", esp_netif[STA].dhcps_status,
                   TimerAfterStop(esp_netif[STA], lwip_netif[STA], called))
        <5>1. Object([ResetIp(AfterStop(esp_netif[STA], lwip_netif[STA], called))
                          EXCEPT !.dhcpc_status = "init"],
                     Any4, "init", esp_netif[STA].dhcps_status,
                     TimerAfterStop(esp_netif[STA], lwip_netif[STA], called))
          BY <1>e, AfterStopOps
        <5>2. esp_netif'[STA] = [ResetIp(AfterStop(esp_netif[STA], lwip_netif[STA], called))
                                     EXCEPT !.dhcpc_status = "init"]
          BY <4>1
        <5> QED BY <5>1, <5>2, Zenon
      <4>3. Timers'
        BY <1>t, <3>1, <4>1, <4>2 DEF Timers, Object
      <4> QED BY <3>1, <4>2, <4>3, BareSide DEF Station, DhcpClient, Told, Agree, Ip, Object
    <3>3. CASE ~lwip_netif[STA].up
      <4>1. UNCHANGED <<esp_netif, timeouts>>
        BY <1>5, <2>1, <3>3 DEF ActionStop, StopApi
      <4>2. lwip_netif[STA].dhcp = "off"
        BY <3>3 DEF Station, DhcpClient
      <4> QED BY <3>1, <4>1, <4>2, BareSide DEF Station, DhcpClient, Told, Agree, Timers, Ip
    <3> QED BY <3>2, <3>3
  <2>2. CASE n = AP
    <3>1. /\ esp_netif'[STA] = esp_netif[STA] /\ lwip_netif'[STA] = lwip_netif[STA]
          /\ timeouts' = timeouts /\ told' = told
      BY <1>0, <1>5, <2>2 DEF ActionStop, StopApi, DHCP_SERVER, DHCP_CLIENT, Untold
    <3> QED BY <1>0, <1>5, <2>2, <3>1, StationSame DEF ActionStop, StopApi
  <2> QED BY <2>1, <2>2
<1>6. ASSUME UpApi(STA), STA \in s_head,
             \/ ~lwip_netif[STA].up /\ driver'[STA] = driver[STA] /\ raced' = raced
             \/ driver[STA] = "started" /\ driver'[STA] = "connected"
      PROVE  Station'
  <2>1. /\ UNCHANGED <<s_head, esp_netif, timeouts, told, lostTold>>
        /\ lwip_netif'[STA] = SetUp(lwip_netif[STA], Ip)
    BY <1>0, <1>6 DEF UpApi, Ip
  <2>2. /\ lwip_netif'[STA].up /\ lwip_netif'[STA].dhcp = lwip_netif[STA].dhcp
        /\ lwip_netif'[STA].addr = Ip
    <3>1. /\ SetUp(lwip_netif[STA], Ip).up /\ SetUp(lwip_netif[STA], Ip).addr = Ip
          /\ SetUp(lwip_netif[STA], Ip).dhcp = lwip_netif[STA].dhcp
      BY <1>e DEF SetUp, Stack
    <3> QED BY <2>1, <3>1
  <2>3. Ip' = Ip
    BY <2>1 DEF Ip
  <2>4. \/ lwip_netif[STA].dhcp = "off"
        \/ lwip_netif[STA].dhcp = "asking" /\ Ip = Any4 /\ driver'[STA] = "connected"
    BY <1>6, <1>e DEF Station, DhcpClient
  <2>5. Agree' /\ Timers'
    BY <2>1, <2>2, <2>3 DEF Station, Agree, Timers
  <2>6. DhcpClient'
    BY <1>6, <1>e, <2>1, <2>2, <2>3, <2>4 DEF Station, DhcpClient
  <2>7. Told'
    BY <2>1, <2>2, <2>3, <2>4 DEF Told
  <2> QED BY <2>5, <2>6, <2>7 DEF Station
<1>7. ASSUME NEW called \in BOOLEAN, DownApi(STA, called), STA \in s_head, raced' = raced
      PROVE  Station'
  <2>1. UNCHANGED <<s_head, lostTold>> /\ told' = Any4
    BY <1>7 DEF DownApi, Untold
  <2>2. CASE esp_netif[STA].dhcpc_status = "started"
    <3> DEFINE down == [ResetIp(AfterStop(esp_netif[STA], lwip_netif[STA], called))
                            EXCEPT !.dhcpc_status = "init"]
    <3>1. Object(down, Any4, "init", esp_netif[STA].dhcps_status,
                 TimerAfterStop(esp_netif[STA], lwip_netif[STA], called))
      BY <1>e, AfterStopOps
    <3>2. WithTimer(down) = down
      BY <3>1 DEF WithTimer, WantsTimer, Object
    <3>3. /\ esp_netif'[STA] = down
          /\ lwip_netif'[STA] = SetDown(Stopped(lwip_netif[STA]))
          /\ timeouts' = TimeoutsAfterStop(STA, called)
      BY <1>0, <1>7, <2>2, <3>2 DEF DownApi, DHCP_CLIENT
    <3>4. /\ ~lwip_netif'[STA].up /\ lwip_netif'[STA].dhcp = "off"
          /\ lwip_netif'[STA].addr = Any4
      <4>1. Stopped(lwip_netif[STA]) \in Stack /\ Stopped(lwip_netif[STA]).dhcp = "off"
        BY <1>e DEF Stopped, Stack, Addresses
      <4> QED BY <3>3, <4>1 DEF SetDown, Stack
    <3> HIDE DEF down
    <3>5. Timers'
      BY <1>7, <1>t, <2>1, <3>1, <3>3 DEF Timers, Object
    <3>6. DhcpClient' /\ Told' /\ Agree'
      BY <3>1, <3>3, <3>4 DEF DhcpClient, Told, Agree, Object
    <3> QED BY <3>5, <3>6 DEF Station
  <2>3. CASE esp_netif[STA].dhcpc_status # "started"
    <3>1. /\ esp_netif'[STA] = WithTimer(esp_netif[STA])
          /\ lwip_netif'[STA] = SetDown(lwip_netif[STA])
          /\ timeouts' = TimeoutsFor(STA, esp_netif[STA])
      BY <1>0, <1>7, <2>3 DEF DownApi, DHCP_CLIENT
    <3>2. /\ ~lwip_netif'[STA].up /\ lwip_netif'[STA].dhcp = lwip_netif[STA].dhcp
          /\ lwip_netif'[STA].addr = Any4
      BY <1>e, <3>1 DEF SetDown, Stack
    <3>3. lwip_netif[STA].dhcp = "off"
      BY <2>3 DEF Station, DhcpClient
    <3>4. esp_netif'[STA].dhcpc_status = esp_netif[STA].dhcpc_status
      BY <1>e, <3>1, ResetOps DEF Object
    <3>5. Timers'
      BY <1>7, <1>e, <2>1, <3>1, ResetOps DEF Station, Timers, Object, TimeoutsFor
    <3>6. DhcpClient' /\ Told' /\ Agree'
      BY <2>3, <3>2, <3>3, <3>4 DEF DhcpClient, Told, Agree
    <3> QED BY <3>5, <3>6 DEF Station
  <2> QED BY <2>2, <2>3
<1>8. CASE ActionConnected(STA) \/ FirmwareUp
  <2>1. lwip_netif[STA].added => STA \in s_head
    BY <1>0 DEF Present
  <2>2. CASE ActionConnected(STA)
    <3>1. driver'[STA] = "connected" /\ driver[STA] = "started"
      BY <1>0, <2>2 DEF ActionConnected
    <3>2. UpApi(STA) /\ STA \in s_head
      BY <1>q, <2>2, <3>1 DEF ActionConnected
    <3> QED BY <1>6, <3>1, <3>2
  <2>3. CASE FirmwareUp
    BY <1>6, <2>1, <2>3 DEF FirmwareUp
  <2> QED BY <1>8, <2>2, <2>3
<1>9. ASSUME NEW called \in BOOLEAN,
             ActionDisconnected(STA, called) \/ DhcpcStop(STA, called) \/ FirmwareDown(called)
      PROVE  Station'
  <2>1. lwip_netif[STA].added => STA \in s_head
    BY <1>0 DEF Present
  <2>2. CASE ActionDisconnected(STA, called) \/ FirmwareDown(called)
    <3>1. DownApi(STA, called) /\ STA \in s_head /\ raced' = raced
      BY <1>q, <2>1, <2>2 DEF ActionDisconnected, FirmwareDown
    <3> QED BY <1>7, <3>1
  <2>3. CASE DhcpcStop(STA, called) /\ esp_netif[STA].dhcpc_status = "started"
    <3> DEFINE r == ResetIp(AfterStop(esp_netif[STA], lwip_netif[STA], called))
               stop == [r EXCEPT !.dhcpc_status = "stopped"]
    <3>1. /\ r \in Client4
          /\ Object(stop, Any4, "stopped", esp_netif[STA].dhcps_status,
                    TimerAfterStop(esp_netif[STA], lwip_netif[STA], called))
      BY <1>e, AfterStopOps
    <3>2. r.ip_info = Any4
      BY <1>e DEF ResetIp, AfterStop, WithTimer, Client4
    <3>3. WithTimer(r) = r
      BY <3>2 DEF WithTimer, WantsTimer
    <3>4. /\ esp_netif'[STA] = stop /\ lwip_netif'[STA] = Stopped(lwip_netif[STA])
          /\ timeouts' = TimeoutsAfterStop(STA, called) /\ STA \in s_head
          /\ UNCHANGED <<s_head, driver, told, lostTold, raced>>
      BY <1>0, <2>3, <3>3 DEF DhcpcStop, Listed
    <3>5. /\ lwip_netif'[STA].dhcp = "off"
          /\ lwip_netif'[STA].addr = IF lwip_netif[STA].dhcp = "bound" THEN Any4
                                     ELSE lwip_netif[STA].addr
      BY <1>e, <3>4 DEF Stopped, Stack
    <3>6. lwip_netif'[STA].addr = Any4
      BY <1>e, <2>3, <3>4, <3>5 DEF Station, DhcpClient
    <3> HIDE DEF r, stop
    <3>7. Timers'
      BY <1>t, <3>1, <3>4 DEF Timers, Object
    <3>8. DhcpClient' /\ Told' /\ Agree'
      BY <3>1, <3>4, <3>5, <3>6 DEF DhcpClient, Told, Agree, Object
    <3> QED BY <3>7, <3>8 DEF Station
  <2>4. CASE DhcpcStop(STA, called) /\ esp_netif[STA].dhcpc_status # "started"
    <3>1. /\ esp_netif'[STA] = [esp_netif[STA] EXCEPT !.dhcpc_status = "stopped"]
          /\ UNCHANGED <<s_head, lwip_netif, timeouts, driver, told, lostTold, raced>>
      BY <1>0, <2>4 DEF DhcpcStop
    <3>2. Object(esp_netif'[STA], Ip, "stopped", esp_netif[STA].dhcps_status,
                 esp_netif[STA].timer_running)
      BY <1>e, <3>1, ObjectOps
    <3>3. lwip_netif[STA].dhcp = "off"
      BY <2>4 DEF Station, DhcpClient
    <3> QED BY <3>1, <3>2, <3>3 DEF Station, DhcpClient, Told, Agree, Timers, Ip, Object
  <2> QED BY <1>9, <2>2, <2>3, <2>4
<1>a. ASSUME DhcpcAsks(STA) \/ DhcpcWaits(STA), raced' = raced PROVE Station'
  <2>1. /\ STA \in s_head /\ UNCHANGED <<s_head, timeouts, driver, told, lostTold>>
        /\ esp_netif[STA].dhcpc_status # "started"
    BY <1>a DEF DhcpcAsks, DhcpcWaits, Listed
  <2>2. lwip_netif[STA].dhcp = "off"
    BY <2>1 DEF Station, DhcpClient
  <2>3. CASE DhcpcAsks(STA)
    <3>1. /\ esp_netif'[STA] = [WithTimer(ResetIp(esp_netif[STA]))
                                     EXCEPT !.dhcpc_status = "started"]
          /\ lwip_netif'[STA] = Asking(lwip_netif[STA]) /\ lwip_netif[STA].up
      BY <1>0, <2>3 DEF DhcpcAsks
    <3>2. /\ lwip_netif'[STA].up /\ lwip_netif'[STA].dhcp = "asking"
          /\ lwip_netif'[STA].addr = Any4
      BY <1>e, <3>1 DEF Asking, Stack
    <3>3. Object(esp_netif'[STA], Any4, "started", esp_netif[STA].dhcps_status,
                 esp_netif[STA].timer_running)
      <4> DEFINE r == ResetIp(esp_netif[STA])
      <4>1. /\ WithTimer(r) = r
            /\ Object(r, Any4, esp_netif[STA].dhcpc_status, esp_netif[STA].dhcps_status,
                      esp_netif[STA].timer_running)
        BY <1>e, ResetOps
      <4>2. esp_netif'[STA] = [r EXCEPT !.dhcpc_status = "started"]
        BY <3>1, <4>1
      <4> HIDE DEF r
      <4>3. r \in Client4
        BY <4>1 DEF Object
      <4>4. Object([r EXCEPT !.dhcpc_status = "started"], r.ip_info, "started", r.dhcps_status,
                   r.timer_running)
        BY <4>3, ObjectOps
      <4> QED BY <4>1, <4>2, <4>4 DEF Object
    <3> QED BY <2>1, <3>2, <3>3 DEF Station, DhcpClient, Told, Agree, Timers, Ip, Object
  <2>4. CASE DhcpcWaits(STA)
    <3>1. /\ esp_netif'[STA] = [ResetIp(esp_netif[STA]) EXCEPT !.dhcpc_status = "init"]
          /\ lwip_netif' = lwip_netif /\ ~lwip_netif[STA].up
      BY <1>0, <2>4 DEF DhcpcWaits
    <3>2. Object(esp_netif'[STA], Any4, "init", esp_netif[STA].dhcps_status,
                 esp_netif[STA].timer_running)
      <4> DEFINE r == ResetIp(esp_netif[STA])
      <4>1. Object(r, Any4, esp_netif[STA].dhcpc_status, esp_netif[STA].dhcps_status,
                   esp_netif[STA].timer_running)
        BY <1>e, ResetOps
      <4>2. esp_netif'[STA] = [r EXCEPT !.dhcpc_status = "init"]
        BY <3>1
      <4> HIDE DEF r
      <4>3. r \in Client4
        BY <4>1 DEF Object
      <4>4. Object([r EXCEPT !.dhcpc_status = "init"], r.ip_info, "init", r.dhcps_status,
                   r.timer_running)
        BY <4>3, ObjectOps
      <4> QED BY <4>1, <4>2, <4>4 DEF Object
    <3> QED BY <2>1, <2>2, <3>1, <3>2 DEF Station, DhcpClient, Told, Agree, Timers, Ip, Object
  <2> QED BY <1>a, <2>3, <2>4
<1>10. CASE ReadStatus \/ HandlerStartsDhcpc \/ ReadStatic \/ TellStatic
  <2>1. CASE HandlerStartsDhcpc
    <3>1. action.netif = STA
      BY <2>1 DEF HandlerStartsDhcpc, TypesHold, Tasks, Idle
    <3>2. CASE DhcpcAsks(STA)
      BY <1>a, <2>1, <3>2 DEF HandlerStartsDhcpc
    <3>3. CASE ~DhcpcAsks(STA)
      BY <2>1, <3>1, <3>3, StationSame DEF HandlerStartsDhcpc
    <3> QED BY <3>2, <3>3
  <2>2. CASE ReadStatus \/ ReadStatic
    BY <2>2, StationSame DEF ReadStatus, ReadStatic
  <2>3. CASE TellStatic
    <3>1. action.netif = STA /\ action.ip # Any4
      BY <2>3 DEF TellStatic, TypesHold, Tasks, Tells, Idle
    <3>2. /\ UNCHANGED <<s_head, esp_netif, lwip_netif, timeouts, driver>>
          /\ told' = action.ip /\ (~raced' => StaticIp(STA) = action.ip)
      BY <2>3, <3>1 DEF TellStatic
    <3>3. DhcpClient' /\ Agree' /\ Timers'
      BY <3>2 DEF Station, DhcpClient, Agree, Timers, Ip
    <3>4. Told'
      BY <1>e, <3>1, <3>2 DEF Station, DhcpClient, Told, Agree, Ip, StaticIp
    <3> QED BY <3>3, <3>4 DEF Station
  <2> QED BY <1>10, <2>1, <2>2, <2>3
<1>11. ASSUME NEW a \in Leases, DhcpBinds(STA, a) \/ SetIpInfo(STA, a) PROVE Station'
  <2>1. UNCHANGED <<s_head, timeouts, driver, raced>> /\ a \in Addresses /\ a # Any4
    BY <1>0, <1>11 DEF DhcpBinds, SetIpInfo
  <2>2. CASE DhcpBinds(STA, a)
    <3>1. /\ lwip_netif'[STA] = Bound(lwip_netif[STA], a) /\ driver[STA] = "connected"
          /\ lwip_netif[STA].up /\ lwip_netif[STA].dhcp # "off"
      BY <1>0, <2>2 DEF DhcpBinds
    <3>2. /\ lwip_netif'[STA].up /\ lwip_netif'[STA].dhcp = "bound"
          /\ lwip_netif'[STA].addr = a
      BY <1>e, <2>1, <3>1 DEF Bound, Stack
    <3>3. CASE Ip = a /\ UNCHANGED <<esp_netif, told, lostTold>>
      BY <2>1, <3>1, <3>2, <3>3 DEF Station, DhcpClient, Told, Agree, Timers, Ip
    <3>4. CASE esp_netif' = [esp_netif EXCEPT ![STA].ip_info = a] /\ told' = a
      <4>1. Object(esp_netif'[STA], a, esp_netif[STA].dhcpc_status,
                   esp_netif[STA].dhcps_status, esp_netif[STA].timer_running)
        <5>1. esp_netif'[STA] = [esp_netif[STA] EXCEPT !.ip_info = a]
          BY <1>0, <3>4
        <5> QED BY <1>e, <2>1, <5>1, ObjectOps
      <4> QED BY <2>1, <3>1, <3>2, <3>4, <4>1
              DEF Station, DhcpClient, Told, Agree, Timers, Ip, Object
    <3> QED BY <2>2, <3>3, <3>4 DEF DhcpBinds, CallbackTells, Ip
  <2>3. CASE SetIpInfo(STA, a)
    <3>1. /\ esp_netif' = [esp_netif EXCEPT ![STA].ip_info = a]
          /\ esp_netif[STA].dhcpc_status = "stopped"
      BY <2>3 DEF SetIpInfo
    <3>2. Object(esp_netif'[STA], a, esp_netif[STA].dhcpc_status,
                 esp_netif[STA].dhcps_status, esp_netif[STA].timer_running)
      <4>1. esp_netif'[STA] = [esp_netif[STA] EXCEPT !.ip_info = a]
        BY <1>0, <3>1
      <4> QED BY <1>e, <2>1, <4>1, ObjectOps
    <3>3. lwip_netif[STA].dhcp = "off"
      BY <3>1 DEF Station, DhcpClient
    <3>4. CASE lwip_netif[STA].up
      <4>1. lwip_netif'[STA] = [lwip_netif[STA] EXCEPT !.addr = a]
        BY <1>0, <2>3, <3>4 DEF SetIpInfo
      <4>2. lwip_netif'[STA].dhcp = "off" /\ lwip_netif'[STA].addr = a
        BY <1>e, <2>1, <3>3, <4>1 DEF Stack
      <4> QED BY <2>1, <3>1, <3>2, <4>2 DEF Station, DhcpClient, Told, Agree, Timers, Ip, Object
    <3>5. CASE ~lwip_netif[STA].up
      <4>1. lwip_netif' = lwip_netif
        BY <2>3, <3>5 DEF SetIpInfo
      <4> QED BY <2>1, <3>1, <3>2, <3>3, <3>5, <4>1
              DEF Station, DhcpClient, Told, Agree, Timers, Ip, Object
    <3> QED BY <3>4, <3>5
  <2> QED BY <1>11, <2>2, <2>3
<1>12. CASE DhcpLoses(STA) \/ UserStartsDhcpc(STA)
  <2>1. CASE DhcpLoses(STA)
    <3>1. /\ lwip_netif'[STA] = Asking(lwip_netif[STA]) /\ lwip_netif[STA].dhcp = "bound"
          /\ esp_netif'[STA] = WithTimer(esp_netif[STA])
          /\ timeouts' = TimeoutsFor(STA, esp_netif[STA])
          /\ UNCHANGED <<s_head, driver, told, lostTold, raced>>
      BY <1>0, <2>1 DEF DhcpLoses
    <3>2. /\ (lwip_netif'[STA].up <=> lwip_netif[STA].up) /\ lwip_netif'[STA].dhcp = "asking"
          /\ lwip_netif'[STA].addr = Any4
      BY <1>e, <3>1 DEF Asking, Stack
    <3>3. Object(esp_netif'[STA], Ip, esp_netif[STA].dhcpc_status, esp_netif[STA].dhcps_status,
                 IF WantsTimer(esp_netif[STA]) THEN TRUE ELSE esp_netif[STA].timer_running)
      BY <1>e, <3>1, ResetOps
    <3>4. Timers'
      BY <3>1, <3>3 DEF Station, Timers, Object, TimeoutsFor
    <3>5. DhcpClient' /\ Told' /\ Agree'
      BY <3>1, <3>2, <3>3 DEF Station, DhcpClient, Told, Agree, Ip, Object
    <3> QED BY <3>4, <3>5 DEF Station
  <2> QED BY <1>12, <1>a, <2>1 DEF UserStartsDhcpc
<1>13. CASE PppEvent
  <2>1. /\ esp_netif'[STA] = esp_netif[STA] /\ lwip_netif'[STA] = lwip_netif[STA]
        /\ timeouts' = timeouts /\ told' = told /\ lostTold' = lostTold
    BY <1>0, <1>13 DEF PppEvent, UpApi, DownApi, DHCP_CLIENT, Untold
  <2>2. UNCHANGED <<s_head, driver, raced>>
    BY <1>13 DEF PppEvent, UpApi, DownApi
  <2> QED BY <2>1, <2>2, StationSame
<1>14. CASE StartPpp \/ StopPpp \/ PppUp \/ PppLinkEnds
  <2>1. esp_netif'[STA] = esp_netif[STA] /\ lwip_netif'[STA] = lwip_netif[STA]
    BY <1>0, <1>14 DEF StartPpp, StopPpp, PppUp, PppLinkEnds
  <2> QED BY <1>14, <2>1, StationSame DEF StartPpp, StopPpp, PppUp, PppLinkEnds
<1>15. CASE DhcpsStart \/ DhcpsStop
  <2>1. esp_netif'[STA] = esp_netif[STA]
    BY <1>0, <1>15 DEF DhcpsStart, DhcpsStop
  <2> QED BY <1>15, <2>1, StationSame DEF DhcpsStart, DhcpsStop
<1>16. CASE UNCHANGED netifVars
  BY <1>16, StationSame DEF netifVars
<1> QED BY <1>1, <1>2, <1>3, <1>4, <1>5, <1>8, <1>9, <1>10, <1>11, <1>12, <1>13, <1>14, <1>15,
           <1>16 DEF NetifNext

\* Every step keeps the access point's address, and PPP without a timer.
LEMMA OthersKept == TypesHold /\ Present /\ Others /\ [NetifNext]_netifVars => Others'
<1> SUFFICES ASSUME TypesHold, Present, Others, [NetifNext]_netifVars PROVE Others'
  OBVIOUS
<1> USE NetifAssumption
<1>0. /\ s_head \subseteq Netifs /\ STA \in Netifs /\ AP \in Netifs /\ PPP \in Netifs
      /\ lwip_netif \in [Netifs -> Stack] /\ esp_netif \in [Netifs -> Client4]
      /\ timeouts \subseteq {STA}
      /\ STA # AP /\ STA # PPP /\ AP # PPP
  BY DEF TypesHold, Choice, Netifs
\* What Others tells of the access point and of PPP.
<1> DEFINE Ap == /\ esp_netif[AP].ip_info = ApAddress /\ ~esp_netif[AP].timer_running
                 /\ lwip_netif[AP].addr \in {Any4, ApAddress}
           Ppp == ~esp_netif[PPP].timer_running
<1>s. (Ap /\ Ppp <=> Others) /\ (Ap' /\ Ppp' <=> Others')
  BY DEF Others
<1>e. /\ esp_netif[AP] \in Client4 /\ lwip_netif[AP] \in Stack
      /\ esp_netif[PPP] \in Client4 /\ lwip_netif[PPP] \in Stack
  BY <1>0
<1>a. ASSUME esp_netif'[AP] = esp_netif[AP], esp_netif'[PPP] = esp_netif[PPP],
             lwip_netif'[AP] = lwip_netif[AP]
      PROVE  Others'
  BY <1>a DEF Others
<1>1. ASSUME NEW n \in Netifs, New(n) \/ Destroy(n) PROVE Others'
  <2>1. /\ EspNetif(AP).ip_info = ApAddress /\ ~EspNetif(AP).timer_running
        /\ ~EspNetif(PPP).timer_running
    BY DEF EspNetif, Static
  <2>2. /\ esp_netif'[AP] \in {esp_netif[AP], EspNetif(AP)}
        /\ esp_netif'[PPP] \in {esp_netif[PPP], EspNetif(PPP)}
        /\ lwip_netif'[AP] \in {lwip_netif[AP], LwipNetif}
    BY <1>0, <1>1 DEF New, Destroy
  <2> QED BY <2>1, <2>2, BareSide DEF Others
<1>2. ASSUME NEW n \in Netifs, IpLostTimer(n) PROVE Others'
  BY <1>0, <1>2, <1>a DEF IpLostTimer
<1>3. ASSUME NEW n \in {STA, AP}, ActionStart(n) PROVE Others'
  <2>1. CASE n = STA
    BY <1>0, <1>3, <1>a, <2>1 DEF ActionStart, StartApi, DHCP_SERVER
  <2>2. CASE n = AP
    <3>1. Added(AP).addr = ApAddress
      BY DEF Added, Others
    <3>2. lwip_netif'[AP] = Added(AP) /\ esp_netif'[PPP] = esp_netif[PPP]
          /\ esp_netif'[AP] \in {esp_netif[AP],
                                 [esp_netif[AP] EXCEPT !.dhcps_status = "started"]}
      BY <1>0, <1>3, <2>2 DEF ActionStart, StartApi
    <3>3. /\ esp_netif'[AP].ip_info = esp_netif[AP].ip_info
          /\ esp_netif'[AP].timer_running = esp_netif[AP].timer_running
      BY <1>e, <3>2 DEF Client4
    <3> QED BY <3>1, <3>2, <3>3 DEF Others
  <2> QED BY <2>1, <2>2
<1>4. ASSUME NEW n \in {STA, AP}, NEW called \in BOOLEAN, ActionStop(n, called) PROVE Others'
  <2>1. CASE n = STA
    BY <1>0, <1>4, <1>a, <2>1 DEF ActionStop, StopApi, DHCP_SERVER
  <2>2. CASE n = AP
    <3>1. lwip_netif'[AP] = LwipNetif /\ esp_netif'[PPP] = esp_netif[PPP]
          /\ esp_netif'[AP] \in {esp_netif[AP],
                                 [esp_netif[AP] EXCEPT !.dhcps_status =
                                      IF @ = "stopped" THEN @ ELSE "init"]}
      BY <1>0, <1>4, <2>2 DEF ActionStop, StopApi, DHCP_CLIENT
    <3>2. /\ esp_netif'[AP].ip_info = esp_netif[AP].ip_info
          /\ esp_netif'[AP].timer_running = esp_netif[AP].timer_running
      BY <1>e, <3>1 DEF Client4
    <3> QED BY <3>1, <3>2, BareSide DEF Others
  <2> QED BY <2>1, <2>2
<1>5. ASSUME NEW n \in {STA, PPP}, UpApi(n) PROVE Others'
  BY <1>0, <1>5, <1>a DEF UpApi
<1>6. ASSUME NEW called \in BOOLEAN, DownApi(STA, called) \/ DownApi(PPP, called) PROVE Others'
  BY <1>0, <1>6, <1>a DEF DownApi, DHCP_CLIENT
<1>7. CASE ActionConnected(STA) \/ FirmwareUp
  BY <1>5, <1>7 DEF ActionConnected, FirmwareUp
<1>8. ASSUME NEW called \in BOOLEAN,
             ActionDisconnected(STA, called) \/ DhcpcStop(STA, called) \/ FirmwareDown(called)
      PROVE  Others'
  <2>1. CASE DhcpcStop(STA, called)
    BY <1>0, <1>a, <2>1 DEF DhcpcStop
  <2> QED BY <1>6, <1>8, <2>1 DEF ActionDisconnected, FirmwareDown
<1>9. ASSUME DhcpcAsks(STA) \/ DhcpcWaits(STA) PROVE Others'
  BY <1>0, <1>9, <1>a DEF DhcpcAsks, DhcpcWaits
<1>10. CASE ReadStatus \/ HandlerStartsDhcpc \/ ReadStatic \/ TellStatic
  <2>1. CASE HandlerStartsDhcpc
    <3>1. action.netif = STA
      BY <2>1 DEF HandlerStartsDhcpc, TypesHold, Tasks, Idle
    <3> QED BY <1>9, <1>a, <2>1, <3>1 DEF HandlerStartsDhcpc
  <2> QED BY <1>10, <1>a, <2>1 DEF ReadStatus, ReadStatic, TellStatic
<1>11. ASSUME NEW a \in Leases, DhcpBinds(STA, a) \/ SetIpInfo(STA, a) PROVE Others'
  BY <1>0, <1>11, <1>a DEF DhcpBinds, SetIpInfo
<1>12. CASE DhcpLoses(STA) \/ UserStartsDhcpc(STA)
  <2>1. CASE DhcpLoses(STA)
    BY <1>0, <1>a, <2>1 DEF DhcpLoses
  <2> QED BY <1>9, <1>12, <2>1 DEF UserStartsDhcpc
<1>13. CASE PppEvent
  BY <1>5, <1>6, <1>13 DEF PppEvent
<1>14. CASE StartPpp \/ StopPpp \/ PppUp \/ PppLinkEnds
  <2>1. /\ esp_netif'[AP] = esp_netif[AP] /\ lwip_netif'[AP] = lwip_netif[AP]
        /\ esp_netif'[PPP] \in {esp_netif[PPP],
                                [esp_netif[PPP] EXCEPT !.ip_info = PppAddress]}
    BY <1>0, <1>14 DEF StartPpp, StopPpp, PppUp, PppLinkEnds
  <2>2. esp_netif'[PPP].timer_running = esp_netif[PPP].timer_running
    BY <1>e, <2>1 DEF Client4
  <2> QED BY <2>1, <2>2 DEF Others
<1>15. CASE DhcpsStart \/ DhcpsStop
  <2>1. /\ esp_netif'[PPP] = esp_netif[PPP] /\ lwip_netif' = lwip_netif
        /\ \E st : esp_netif'[AP] = [esp_netif[AP] EXCEPT !.dhcps_status = st]
    BY <1>0, <1>15 DEF DhcpsStart, DhcpsStop
  <2>2. /\ esp_netif'[AP].ip_info = esp_netif[AP].ip_info
        /\ esp_netif'[AP].timer_running = esp_netif[AP].timer_running
    BY <1>e, <2>1 DEF Client4
  <2> QED BY <2>1, <2>2 DEF Others
<1>16. CASE UNCHANGED netifVars
  BY <1>16, <1>a DEF netifVars
<1> QED BY <1>1, <1>2, <1>3, <1>4, <1>7, <1>8, <1>10, <1>11, <1>12, <1>13, <1>14, <1>15,
           <1>16 DEF NetifNext

\* The default and the one remembered are in the list.
Remembered == {s_last_default_esp_netif, netif_default} \subseteq s_head \cup {None}

\* Both choices keep the default listed.
LEMMA RememberedStarted ==
    ASSUME Choice, Remembered, NEW n \in s_head, NEW lwip, UpdateDefaultStarted(n, lwip),
           s_head' = s_head
    PROVE  Remembered'
BY ChosenOne DEF Choice, Remembered, UpdateDefaultStarted

LEMMA RememberedStopped ==
    ASSUME Choice, Remembered, NEW lwip, NEW gone, UpdateDefaultStopped(lwip, gone),
           s_head' = s_head
    PROVE  Remembered'
<1>1. BestOf(s_head, lwip) \in s_head \cup {None}
  BY BestOfList DEF Choice, Up
<1> QED BY <1>1 DEF Remembered, UpdateDefaultStopped

\* Every step keeps the default listed.
LEMMA RememberedKept == TypesHold /\ Present /\ Remembered /\ [NetifNext]_netifVars => Remembered'
<1> SUFFICES ASSUME TypesHold, Present, Remembered, [NetifNext]_netifVars PROVE Remembered'
  OBVIOUS
<1>0. /\ s_head \subseteq Netifs /\ STA \in Netifs /\ AP \in Netifs /\ PPP \in Netifs /\ Choice
  BY DEF TypesHold, Choice, Netifs
<1>p. /\ \A n \in {STA, AP} : driver[n] # "off" => n \in s_head
      /\ ppp # "dead" \/ events # <<>> => PPP \in s_head
      /\ \A n \in Netifs : lwip_netif[n].added => n \in s_head
  BY DEF Present
<1>a. ASSUME s_head' = s_head, NoUpdate PROVE Remembered'
  BY <1>a DEF Remembered, NoUpdate
<1>1. ASSUME NEW n \in Netifs, New(n) \/ Destroy(n) \/ IpLostTimer(n) PROVE Remembered'
  BY <1>1 DEF New, Destroy, IpLostTimer, NoUpdate, Remembered
<1>2. ASSUME NEW n \in {STA, AP}, ActionStart(n) PROVE Remembered'
  BY <1>0, <1>2, RememberedStarted DEF ActionStart, StartApi, Listed, Remembered
<1>3. ASSUME NEW n \in {STA, AP}, NEW called \in BOOLEAN, ActionStop(n, called)
      PROVE  Remembered'
  BY <1>0, <1>3, RememberedStopped DEF ActionStop, StopApi, Remembered
<1>4. ASSUME NEW n \in s_head, UpApi(n) PROVE Remembered'
  BY <1>0, <1>4, RememberedStarted DEF UpApi
<1>5. ASSUME NEW n, NEW called, DownApi(n, called) PROVE Remembered'
  BY <1>0, <1>5, RememberedStopped DEF DownApi
<1>6. CASE ActionConnected(STA) \/ FirmwareUp
  BY <1>0, <1>4, <1>6, <1>p DEF ActionConnected, FirmwareUp
<1>7. ASSUME NEW called \in BOOLEAN,
             ActionDisconnected(STA, called) \/ DhcpcStop(STA, called) \/ FirmwareDown(called)
      PROVE  Remembered'
  BY <1>5, <1>7, <1>a DEF ActionDisconnected, DhcpcStop, FirmwareDown
<1>8. CASE ReadStatus \/ HandlerStartsDhcpc \/ ReadStatic \/ TellStatic
  BY <1>8, <1>a DEF ReadStatus, HandlerStartsDhcpc, ReadStatic, TellStatic, DhcpcAsks
<1>9. ASSUME NEW a \in Leases, DhcpBinds(STA, a) \/ SetIpInfo(STA, a) PROVE Remembered'
  BY <1>9, <1>a DEF DhcpBinds, SetIpInfo
<1>10. CASE DhcpLoses(STA) \/ UserStartsDhcpc(STA)
  BY <1>10, <1>a DEF DhcpLoses, UserStartsDhcpc, DhcpcAsks, DhcpcWaits
<1>11. CASE PppEvent
  BY <1>4, <1>5, <1>11, <1>p DEF PppEvent
<1>12. CASE StartPpp \/ StopPpp \/ PppUp \/ PppLinkEnds
  BY <1>0, <1>12, RememberedStarted, RememberedStopped
     DEF StartPpp, StopPpp, PppUp, PppLinkEnds, Listed, Remembered
<1>13. CASE DhcpsStart \/ DhcpsStop
  BY <1>13, <1>a DEF DhcpsStart, DhcpsStop
<1>14. CASE UNCHANGED netifVars
  BY <1>14, <1>a DEF netifVars, NoUpdate
<1> QED BY <1>1, <1>2, <1>3, <1>6, <1>7, <1>8, <1>9, <1>10, <1>11, <1>12, <1>13, <1>14
        DEF NetifNext

-----------------------------------------------------------------------------
(* The inductive invariant and what follows from it. *)

NetifInv == TypesHold /\ Present /\ Chosen /\ Station /\ Tells /\ Others /\ Remembered

\* Every step keeps the inductive invariant.
LEMMA InvKept == NetifInv /\ [NetifNext]_netifVars => NetifInv'
BY TypesKept, PresentKept, ChosenKept, StationKept, TellsKept, OthersKept, RememberedKept
   DEF NetifInv

\* It holds at the start.
LEMMA InitInv == NetifInit => NetifInv
<1> SUFFICES ASSUME NetifInit PROVE NetifInv
  OBVIOUS
<1> USE NetifAssumption DEF NetifInit
<1>1. /\ STA \in Netifs /\ AP \in Netifs /\ PPP \in Netifs
      /\ esp_netif[STA] = EspNetif(STA) /\ esp_netif[AP] = EspNetif(AP)
      /\ esp_netif[PPP] = EspNetif(PPP) /\ \A n \in Netifs : lwip_netif[n] = LwipNetif
  BY DEF Netifs
<1>2. \A n \in Netifs : EspNetif(n) \in Client4
  BY DEF EspNetif, Client4, Static, Addresses
<1>3. LwipNetif \in Stack
  BY DEF LwipNetif, Stack, Addresses
<1>4. TypesHold
  <2>1. Choice /\ Flags
    BY DEF Choice, Flags, None
  <2>2. esp_netif \in [Netifs -> Client4] /\ lwip_netif \in [Netifs -> Stack]
    BY <1>2, <1>3
  <2>3. Tasks
    BY DEF Tasks, Idle, Addresses
  <2> QED BY <2>1, <2>2, <2>3 DEF TypesHold
<1>5. Present
  BY <1>1, BareSide DEF Present
<1>6. Chosen
  BY DEF Chosen, UpNow
<1>7. Station
  BY <1>1, BareSide DEF Station, DhcpClient, Told, Agree, Timers, Ip, EspNetif, Static
<1>8. Tells /\ Remembered
  BY DEF Tells, Remembered, Idle
<1>9. Others
  BY <1>1, BareSide DEF Others, EspNetif, Static
<1> QED BY <1>4, <1>5, <1>6, <1>7, <1>8, <1>9 DEF NetifInv

\* It implies what the runs check.
LEMMA InvSound == NetifInv => NetifSound
<1> SUFFICES ASSUME NetifInv PROVE NetifSound
  OBVIOUS
<1> USE DEF NetifInv
<1>0. s_head \subseteq Netifs /\ AP # STA /\ AP # PPP
  BY NetifAssumption DEF TypesHold, Choice
<1>1. DefaultRight
  <2>1. UpNetifs = UpNow
    BY <1>0 DEF UpNetifs, UpNow, Listed
  <2> QED BY <2>1 DEF Chosen, DefaultRight
<1>2. NoneDestroyed
  <2>1. \A n \in Netifs : n \in s_head => (n \in timeouts <=> esp_netif[n].timer_running)
    BY <1>0 DEF Station, Timers, Others, TypesHold, Netifs
  <2> QED BY <2>1 DEF NoneDestroyed, Remembered, Present, Listed
<1>3. AddressTold
  BY DEF AddressTold, Station, DhcpClient, Told
<1>4. AddressAgrees
  BY DEF AddressAgrees, Station, Agree, Others, Ip
<1> QED BY <1>1, <1>2, <1>3, <1>4 DEF NetifSound

\* esp_netif: the default interface is the right one among those that are up, nothing refers to
\* a destroyed interface, and the station's address is the one told and used by lwIP.
THEOREM NetifCorrect == NetifSpec => []NetifSound
<1>1. NetifInit => NetifInv
  BY InitInv
<1>2. NetifInv /\ [NetifNext]_netifVars => NetifInv'
  BY InvKept
<1>3. NetifInv => NetifSound
  BY InvSound
<1> QED BY <1>1, <1>2, <1>3, PTL DEF NetifSpec

-----------------------------------------------------------------------------
(* The two parts side by side *)

\* Each part keeps its invariant, as it rests while the other one runs.
LEMMA PartsKept ==
    SwitchInv /\ NetifInv /\ [SwitchNext]_allVars => SwitchInv' /\ NetifInv'
<1> SUFFICES ASSUME SwitchInv, NetifInv, [SwitchNext]_allVars PROVE SwitchInv' /\ NetifInv'
  OBVIOUS
<1>1. [Next]_vars /\ [NetifNext]_netifVars
  BY Zenon DEF SwitchNext, InSwitch, InNetif, allVars
<1> QED BY <1>1, SwitchInvKept, InvKept

\* The network switch and the interfaces it takes up and down are safe for every threshold
\* and every set of leases: no modem is torn down twice, the status is the modem's, and the
\* default interface, the addresses and the timer are right.
THEOREM NetworkSafe == SwitchSpec => [](TypeOK /\ TornDownOnce /\ SimStatusTrue /\ NetifSound)
<1>1. SwitchInit => SwitchInv /\ NetifInv
  BY InitSwitchInv, InitInv DEF SwitchInit
<1>2. SwitchInv /\ NetifInv /\ [SwitchNext]_allVars => (SwitchInv /\ NetifInv)'
  BY PartsKept
<1>3. SwitchInv /\ NetifInv => TypeOK /\ TornDownOnce /\ SimStatusTrue /\ NetifSound
  BY SwitchInvSafe, InvSound
<1> QED BY <1>1, <1>2, <1>3, PTL DEF SwitchSpec
=============================================================================
