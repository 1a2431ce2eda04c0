---------------------------- MODULE NetInterfaces ----------------------------
(* The network interfaces (esp_netif): the list of them, their addresses, the *)
(* DHCP client and server, the timer of a lost address and the choice of the  *)
(* default interface.  Three interfaces stand for the three kinds: the Wi-Fi  *)
(* station, the access point and PPP.                                         *)
(*                                                                            *)
(* A call of the API is one action: the lwIP task, or its lock, runs calls    *)
(* one at a time.  The event task makes several calls for one event; between  *)
(* them lwIP and other tasks run.  lwIP, the Wi-Fi driver and the DHCP server *)
(* of the network are external.  IPv6, DNS servers, host names, SLIP and DHCP *)
(* options are left out, and so is memory that runs out.                      *)
EXTENDS Integers, Sequences

CONSTANTS
    STA, AP, PPP,       \* the interfaces
    Leases,             \* the addresses DHCP gives, which are also the static ones
    MaxEvents           \* PPP's events that wait for the event task

VARIABLES
    s_head,                     \* the interfaces of the list
    s_last_default_esp_netif, netif_default,
    esp_netif,                  \* interface -> its esp_netif_obj
    lwip_netif,                 \* interface -> lwIP's side of it
    timeouts,                   \* the interfaces whose ip_lost_timer lwIP will call
    ppp,                        \* the phase of the PPP link
    driver,                     \* STA, AP -> state of the Wi-Fi driver
    action,                     \* what the event task does
    events,                     \* PPP's events that wait for it
    told,                       \* the station's address the application was told last
    lostTold,                   \* it was told that this address is lost
    unseen,                     \* changes that no choice of the default has seen
    raced                       \* the action told a static address that had changed

netifVars ==
    <<s_head, s_last_default_esp_netif, netif_default, esp_netif, lwip_netif, timeouts, ppp,
      driver, action, events, told, lostTold, unseen, raced>>

Netifs == {STA, AP, PPP}
None == "none"
Any4 == 0                       \* IP4_ADDR_ANY4

ASSUME NetifAssumption ==
    /\ STA # AP /\ STA # PPP /\ AP # PPP
    /\ Netifs \cap {"none", "left"} = {}
    /\ Leases \subseteq Nat \ {Any4}

ApAddress == 8
PppAddress == 9

Untold(n) == IF n = STA THEN Any4 ELSE told

DHCP_CLIENT == {STA}
DHCP_SERVER == {AP}
AUTOUP == {AP}
POINT2POINT == {PPP}
route_prio == [n \in Netifs |-> IF n = STA THEN 20 ELSE IF n = AP THEN 10 ELSE 100]
Static(n) == IF n = AP THEN ApAddress ELSE Any4

EspNetif(n) ==
    [ip_info |-> Static(n), dhcpc_status |-> "init", dhcps_status |-> "init",
     timer_running |-> FALSE]
LwipNetif == [added |-> FALSE, up |-> FALSE, link |-> FALSE, addr |-> Any4, dhcp |-> "off"]

NetifInit ==
    /\ s_head = {}
    /\ s_last_default_esp_netif = None /\ netif_default = None
    /\ esp_netif = [n \in Netifs |-> EspNetif(n)]
    /\ lwip_netif = [n \in Netifs |-> LwipNetif]
    /\ timeouts = {} /\ ppp = "dead"
    /\ driver = [n \in {STA, AP} |-> "off"]
    /\ action = [step |-> "idle"] /\ events = <<>>
    /\ told = Any4 /\ lostTold = FALSE
    /\ unseen = {} /\ raced = FALSE

Listed(n) == n \in s_head
IsUp(lwip, n) == IF n \in POINT2POINT THEN lwip[n].link ELSE lwip[n].up

-----------------------------------------------------------------------------
(* The default interface. *)

\* The walk over the list: the interface that goes before the others that are up.  No two
\* have the same route_prio, so that their order in the list does not matter.
BestOf(list, lwip) ==
    LET up == {n \in list : IsUp(lwip, n)}
    IN IF up = {} THEN None
       ELSE CHOOSE best \in up : \A n \in up : route_prio[n] <= route_prio[best]

\* The choice after interface n was started.
ChosenAtStart(n, lwip) ==
    LET last == IF s_last_default_esp_netif \in s_head
                THEN s_last_default_esp_netif ELSE None
    IN IF last # None /\ IsUp(lwip, last) /\ route_prio[last] > route_prio[n] THEN last
       ELSE IF IsUp(lwip, n) THEN n ELSE last

UpdateDefaultStarted(n, lwip) ==
    LET chosen == ChosenAtStart(n, lwip)
    IN /\ s_last_default_esp_netif' = chosen
       /\ netif_default' = IF chosen # None /\ IsUp(lwip, chosen) THEN chosen ELSE netif_default
       /\ unseen' = unseen \ {n}

\* lwip_remove takes an interface away from lwIP, which forgets it as its default.
UpdateDefaultStopped(lwip, removed) ==
    LET chosen == BestOf(s_head, lwip)
    IN /\ s_last_default_esp_netif' = chosen
       /\ netif_default' = IF chosen # None THEN chosen
                           ELSE IF netif_default \in removed THEN None ELSE netif_default
       /\ unseen' = {}

\* An interface that went without a choice: only the walk over the list makes up for that.
DefaultLeft(n) ==
    IF n \in {s_last_default_esp_netif, netif_default} THEN {"left"} ELSE {}

NoUpdate == UNCHANGED <<s_last_default_esp_netif, netif_default, unseen>>

-----------------------------------------------------------------------------
(* Creating and destroying. *)

\* Bound: none is created while a timeout for an earlier one at the same place in memory is
\* left.
New(n) ==
    /\ n \notin s_head \cup timeouts
    /\ s_head' = s_head \cup {n}
    /\ esp_netif' = [esp_netif EXCEPT ![n] = EspNetif(n)]
    /\ lwip_netif' = [lwip_netif EXCEPT ![n] = LwipNetif]
    /\ told' = Untold(n) /\ lostTold' = (lostTold /\ n # STA)
    /\ UNCHANGED <<timeouts, ppp, driver, action, events, raced>>
    /\ NoUpdate

\* The owner destroys an interface after its driver has stopped and no event for it waits.
Destroy(n) ==
    /\ Listed(n) /\ action.step = "idle"
    /\ IF n = PPP THEN ppp = "dead" /\ events = <<>> ELSE driver[n] = "off"
    /\ s_head' = s_head \ {n}
    /\ lwip_netif' = [lwip_netif EXCEPT ![n] = LwipNetif]
    /\ netif_default' = IF netif_default = n THEN None ELSE netif_default
    /\ s_last_default_esp_netif' =
           IF s_last_default_esp_netif = n THEN None ELSE s_last_default_esp_netif
    /\ unseen' = (unseen \ {n}) \cup DefaultLeft(n)
    /\ UNCHANGED <<esp_netif, timeouts, ppp, driver, action, events, told, lostTold, raced>>

-----------------------------------------------------------------------------
(* The lost address. *)

\* start_ip_lost_timer, on an interface whose state is e.
WantsTimer(e) == ~e.timer_running /\ e.ip_info # Any4
WithTimer(e) == IF WantsTimer(e) THEN [e EXCEPT !.timer_running = TRUE] ELSE e
TimeoutsFor(n, e) == IF WantsTimer(e) THEN timeouts \cup {n} ELSE timeouts

ResetIp(e) == [e EXCEPT !.ip_info = Any4]

\* Variant: the callback forgets that the timer has run.
IpLostTimer_KeepsRunning(n) ==
    /\ n \in timeouts
    /\ timeouts' = timeouts \ {n}
    /\ \/ Listed(n) /\ lwip_netif[n].addr = Any4 /\ told' = Any4 /\ lostTold' = TRUE
       \/ ~(Listed(n) /\ lwip_netif[n].addr = Any4) /\ UNCHANGED <<told, lostTold>>
    /\ UNCHANGED <<s_head, esp_netif, lwip_netif, ppp, driver, action, events, raced>>
    /\ NoUpdate

IpLostTimer(n) ==
    /\ n \in timeouts
    /\ timeouts' = timeouts \ {n}
    /\ \/ /\ ~Listed(n)
          /\ UNCHANGED <<esp_netif, told, lostTold>>
       \/ /\ Listed(n) /\ lwip_netif[n].addr = Any4
          /\ esp_netif' = [esp_netif EXCEPT ![n].timer_running = FALSE]
          /\ told' = Any4 /\ lostTold' = TRUE
       \/ /\ Listed(n) /\ lwip_netif[n].addr # Any4
          /\ esp_netif' = [esp_netif EXCEPT ![n].timer_running = FALSE]
          /\ UNCHANGED <<told, lostTold>>
    /\ UNCHANGED <<s_head, lwip_netif, ppp, driver, action, events, raced>>
    /\ NoUpdate

-----------------------------------------------------------------------------
(* What lwIP does with its side l of an interface. *)

Bound(l, a) == [l EXCEPT !.dhcp = "bound", !.addr = a]
Asking(l) == [l EXCEPT !.dhcp = "asking", !.addr = Any4]
\* dhcp_stop
Stopped(l) == [l EXCEPT !.dhcp = "off", !.addr = IF l.dhcp = "bound" THEN Any4 ELSE @]
SetUp(l, a) == [l EXCEPT !.up = TRUE, !.addr = a]
SetDown(l) == [l EXCEPT !.up = FALSE, !.addr = Any4]
PppRuns(l) == [l EXCEPT !.up = TRUE, !.link = TRUE, !.addr = PppAddress]
PppDead(l) == [l EXCEPT !.up = FALSE, !.link = FALSE, !.addr = Any4]

-----------------------------------------------------------------------------
(* The DHCP client.  Its callback takes over the address lwIP has; with none  *)
(* it starts the timer.  lwIP may call it while it stops the client.          *)

\* dhcpc_cb, with the address a.
CallbackTells(n, a) == esp_netif[n].ip_info # a

DhcpBinds(n, a) ==
    /\ lwip_netif[n].dhcp \in {"asking", "bound"} /\ lwip_netif[n].up
    /\ driver[n] = "connected"
    /\ lwip_netif' = [lwip_netif EXCEPT ![n] = Bound(@, a)]
    /\ \/ /\ CallbackTells(n, a)
          /\ esp_netif' = [esp_netif EXCEPT ![n].ip_info = a]
          /\ told' = a /\ lostTold' = FALSE
       \/ ~CallbackTells(n, a) /\ UNCHANGED <<esp_netif, told, lostTold>>
    /\ UNCHANGED <<s_head, timeouts, ppp, driver, action, events, raced>>
    /\ NoUpdate

DhcpLoses(n) ==
    /\ lwip_netif[n].dhcp = "bound"
    /\ lwip_netif' = [lwip_netif EXCEPT ![n] = Asking(@)]
    /\ esp_netif' = [esp_netif EXCEPT ![n] = WithTimer(@)]
    /\ timeouts' = TimeoutsFor(n, esp_netif[n])
    /\ UNCHANGED <<s_head, ppp, driver, action, events, told, lostTold, raced>>
    /\ NoUpdate

\* What dhcp_stop leaves of e; called says whether lwIP calls back on the way.
AfterStop(e, l, called) == IF called /\ l.dhcp = "bound" THEN WithTimer(e) ELSE e
TimeoutsAfterStop(n, called) ==
    IF called /\ lwip_netif[n].dhcp = "bound" THEN TimeoutsFor(n, esp_netif[n]) ELSE timeouts

\* The timer is asked for after the address was cleared and so never starts here.
DhcpcStop(n, called) ==
    /\ Listed(n) /\ esp_netif[n].dhcpc_status # "stopped"
    /\ \/ /\ esp_netif[n].dhcpc_status = "started"
          /\ lwip_netif' = [lwip_netif EXCEPT ![n] = Stopped(@)]
          /\ esp_netif' = [esp_netif EXCEPT ![n] =
                 [WithTimer(ResetIp(AfterStop(@, lwip_netif[n], called)))
                      EXCEPT !.dhcpc_status = "stopped"]]
          /\ timeouts' = TimeoutsAfterStop(n, called)
       \/ /\ esp_netif[n].dhcpc_status = "init"
          /\ esp_netif' = [esp_netif EXCEPT ![n].dhcpc_status = "stopped"]
          /\ UNCHANGED <<lwip_netif, timeouts>>
    /\ UNCHANGED <<s_head, ppp, driver, action, events, told, lostTold, raced>>
    /\ NoUpdate

\* dhcpc_start on an interface that is up.
DhcpcAsks(n) ==
    /\ Listed(n) /\ esp_netif[n].dhcpc_status # "started" /\ lwip_netif[n].up
    /\ lwip_netif' = [lwip_netif EXCEPT ![n] = Asking(@)]
    /\ esp_netif' = [esp_netif EXCEPT ![n] =
           [WithTimer(ResetIp(@)) EXCEPT !.dhcpc_status = "started"]]
    /\ UNCHANGED <<s_head, timeouts, ppp, driver, events, told, lostTold>>
    /\ NoUpdate

\* dhcpc_start on one that is not: the client waits for it to come up.
DhcpcWaits(n) ==
    /\ Listed(n) /\ esp_netif[n].dhcpc_status # "started" /\ ~lwip_netif[n].up
    /\ esp_netif' = [esp_netif EXCEPT ![n] = [ResetIp(@) EXCEPT !.dhcpc_status = "init"]]
    /\ UNCHANGED <<s_head, lwip_netif, timeouts, ppp, driver, events, told, lostTold>>
    /\ NoUpdate

\* A task other than the event task starts the client.
UserStartsDhcpc(n) ==
    /\ DhcpcAsks(n) \/ DhcpcWaits(n)
    /\ UNCHANGED <<action, raced>>

\* set_ip_info: a static address, told when the interface is up.
SetIpInfo(n, a) ==
    /\ Listed(n) /\ esp_netif[n].dhcpc_status = "stopped"
    /\ \/ /\ lwip_netif[n].up
          /\ lwip_netif' = [lwip_netif EXCEPT ![n].addr = a]
          /\ esp_netif' = [esp_netif EXCEPT ![n].ip_info = a]
          /\ told' = a /\ lostTold' = FALSE
       \/ /\ ~lwip_netif[n].up
          /\ esp_netif' = [esp_netif EXCEPT ![n].ip_info = a]
          /\ UNCHANGED <<lwip_netif, told, lostTold>>
    /\ UNCHANGED <<s_head, timeouts, ppp, driver, action, events, raced>>
    /\ NoUpdate

-----------------------------------------------------------------------------
(* Starting, stopping, up and down. *)

\* netif_add gives the interface the address of ip_info; the driver's init sets its link.
Added(n) ==
    [added |-> TRUE, up |-> n \in AUTOUP, link |-> n \notin POINT2POINT,
     addr |-> esp_netif[n].ip_info, dhcp |-> "off"]

\* With the DHCP server stopped, the new interface is not considered as the default.
StartApi(n) ==
    LET lwip == [lwip_netif EXCEPT ![n] = Added(n)]
    IN /\ lwip_netif' = lwip
       /\ \/ /\ n \in DHCP_SERVER /\ esp_netif[n].dhcps_status = "init"
             /\ esp_netif' = [esp_netif EXCEPT ![n].dhcps_status = "started"]
             /\ UpdateDefaultStarted(n, lwip)
          \/ /\ n \in DHCP_SERVER /\ esp_netif[n].dhcps_status = "stopped"
             /\ UNCHANGED <<esp_netif, s_last_default_esp_netif, netif_default>>
             /\ unseen' = unseen \cup {n}
          \/ n \notin DHCP_SERVER /\ UpdateDefaultStarted(n, lwip) /\ UNCHANGED esp_netif
       /\ UNCHANGED <<s_head, timeouts, ppp, told, lostTold>>

StopApi(n, called) ==
    LET lwip == [lwip_netif EXCEPT ![n] = LwipNetif]
    IN /\ lwip_netif' = lwip
       /\ \/ /\ ~lwip_netif[n].up
             /\ netif_default' = IF netif_default = n THEN None ELSE netif_default
             /\ UNCHANGED <<esp_netif, timeouts, s_last_default_esp_netif, unseen>>
          \/ /\ lwip_netif[n].up
             /\ \/ /\ n \in DHCP_SERVER
                   /\ esp_netif' = [esp_netif EXCEPT ![n].dhcps_status =
                                        IF @ = "stopped" THEN @ ELSE "init"]
                   /\ UNCHANGED timeouts
                \/ /\ n \in DHCP_CLIENT
                   /\ esp_netif' = [esp_netif EXCEPT ![n] =
                          [ResetIp(AfterStop(@, lwip_netif[n], called))
                               EXCEPT !.dhcpc_status = "init"]]
                   /\ timeouts' = TimeoutsAfterStop(n, called)
             /\ UpdateDefaultStopped(lwip, {n})
       /\ told' = Untold(n)
       /\ UNCHANGED <<s_head, ppp, lostTold>>

UpApi(n) ==
    LET lwip == [lwip_netif EXCEPT ![n] = SetUp(@, esp_netif[n].ip_info)]
    IN /\ lwip_netif' = lwip
       /\ UpdateDefaultStarted(n, lwip)
       /\ UNCHANGED <<s_head, esp_netif, timeouts, ppp, told, lostTold>>

\* The timer starts only for an address that DHCP did not give.
DownApi(n, called) ==
    LET dhcp == n \in DHCP_CLIENT /\ esp_netif[n].dhcpc_status = "started"
        down == IF dhcp
                THEN [ResetIp(AfterStop(esp_netif[n], lwip_netif[n], called))
                          EXCEPT !.dhcpc_status = "init"]
                ELSE esp_netif[n]
        lwip == [lwip_netif EXCEPT ![n] = SetDown(IF dhcp THEN Stopped(@) ELSE @)]
    IN /\ lwip_netif' = lwip
       /\ esp_netif' = [esp_netif EXCEPT ![n] = IF n \in DHCP_CLIENT THEN WithTimer(down)
                                                ELSE down]
       /\ timeouts' = IF dhcp THEN TimeoutsAfterStop(n, called)
                      ELSE IF n \in DHCP_CLIENT THEN TimeoutsFor(n, down) ELSE timeouts
       /\ UpdateDefaultStopped(lwip, {})
       /\ told' = Untold(n)
       /\ UNCHANGED <<s_head, ppp, lostTold>>

-----------------------------------------------------------------------------
(* The event task: the handlers of the Wi-Fi driver's events and of PPP's. *)

Idle == [step |-> "idle"]

ActionStart(n) ==
    /\ action = Idle /\ Listed(n) /\ driver[n] = "off"
    /\ driver' = [driver EXCEPT ![n] = "started"]
    /\ StartApi(n)
    /\ UNCHANGED <<action, events, raced>>

ActionStop(n, called) ==
    /\ action = Idle /\ driver[n] = "started"
    /\ driver' = [driver EXCEPT ![n] = "off"]
    /\ StopApi(n, called)
    /\ UNCHANGED <<action, events, raced>>

ActionConnected(n) ==
    /\ action = Idle /\ n \in DHCP_CLIENT /\ driver[n] = "started"
    /\ driver' = [driver EXCEPT ![n] = "connected"]
    /\ UpApi(n)
    /\ action' = [step |-> "status", netif |-> n] /\ raced' = FALSE
    /\ UNCHANGED events

ActionDisconnected(n, called) ==
    /\ action = Idle /\ n \in DHCP_CLIENT /\ driver[n] = "connected"
    /\ driver' = [driver EXCEPT ![n] = "started"]
    /\ DownApi(n, called)
    /\ UNCHANGED <<action, events, raced>>

\* dhcpc_get_status
ReadStatus ==
    /\ action.step = "status"
    /\ action' = CASE esp_netif[action.netif].dhcpc_status = "init" ->
                           [step |-> "dhcpc_start", netif |-> action.netif]
                    [] esp_netif[action.netif].dhcpc_status = "stopped" ->
                           [step |-> "static", netif |-> action.netif]
                    [] OTHER -> Idle
    /\ UNCHANGED <<s_head, esp_netif, lwip_netif, timeouts, ppp, driver, events, told,
                   lostTold, raced>>
    /\ NoUpdate

\* Only the event task takes an interface down, so it is still up here.
HandlerStartsDhcpc ==
    /\ action.step = "dhcpc_start"
    /\ action' = Idle
    /\ \/ DhcpcAsks(action.netif)
       \/ /\ esp_netif[action.netif].dhcpc_status = "started"
          /\ UNCHANGED <<s_head, esp_netif, lwip_netif, timeouts, ppp, driver, events, told,
                         lostTold>>
          /\ NoUpdate
    /\ UNCHANGED raced

\* get_ip_info: lwIP's address while the interface is up.
StaticIp(n) == IF lwip_netif[n].up THEN lwip_netif[n].addr ELSE esp_netif[n].ip_info

ReadStatic ==
    /\ action.step = "static"
    /\ action' = IF StaticIp(action.netif) = Any4 THEN Idle
                  ELSE [step |-> "tell", netif |-> action.netif,
                        ip |-> StaticIp(action.netif)]
    /\ UNCHANGED <<s_head, esp_netif, lwip_netif, timeouts, ppp, driver, events, told,
                   lostTold, raced>>
    /\ NoUpdate

TellStatic ==
    /\ action.step = "tell"
    /\ told' = action.ip /\ lostTold' = FALSE
    /\ raced' = (StaticIp(action.netif) # action.ip)
    /\ action' = Idle
    /\ UNCHANGED <<s_head, esp_netif, lwip_netif, timeouts, ppp, driver, events>>
    /\ NoUpdate

\* The gateway takes Wi-Fi down when PPP got its address.
FirmwareDown(called) ==
    /\ action = Idle /\ lwip_netif[STA].added
    /\ lwip_netif[PPP].up
    /\ DownApi(STA, called)
    /\ UNCHANGED <<driver, action, events, raced>>

\* The network task brings Wi-Fi up again.
FirmwareUp ==
    /\ lwip_netif[STA].added /\ ~lwip_netif[STA].up
    /\ UpApi(STA)
    /\ UNCHANGED <<driver, action, events, raced>>

PppEvent ==
    /\ action = Idle /\ events # <<>>
    /\ events' = Tail(events)
    /\ \/ Head(events) = "got_ip" /\ UpApi(PPP)
       \/ Head(events) = "lost_ip" /\ DownApi(PPP, FALSE)
    /\ UNCHANGED <<driver, action, raced>>

-----------------------------------------------------------------------------
(* PPP. *)

\* pppapi_connect has no effect on a link that is not dead, and the default stays.
StartPpp ==
    /\ Listed(PPP) /\ ppp = "dead"
    /\ ppp' = "opening"
    /\ lwip_netif' = [lwip_netif EXCEPT ![PPP].added = TRUE]
    /\ UpdateDefaultStarted(PPP, lwip_netif)
    /\ UNCHANGED <<s_head, esp_netif, timeouts, driver, action, events, told, lostTold, raced>>

\* The default is chosen anew while the link still goes down.
StopPpp ==
    /\ ppp \in {"opening", "running"}
    /\ ppp' = "closing"
    /\ UpdateDefaultStopped(lwip_netif, {})
    /\ UNCHANGED <<s_head, esp_netif, lwip_netif, timeouts, driver, action, events, told,
                   lostTold, raced>>

\* on_ppp_status_changed(PPPERR_NONE)
PppUp ==
    /\ ppp = "opening" /\ Len(events) < MaxEvents
    /\ ppp' = "running"
    /\ lwip_netif' = [lwip_netif EXCEPT ![PPP] = PppRuns(@)]
    /\ esp_netif' = [esp_netif EXCEPT ![PPP].ip_info = PppAddress]
    /\ events' = Append(events, "got_ip")
    /\ unseen' = unseen \cup {PPP}
    /\ UNCHANGED <<s_head, s_last_default_esp_netif, netif_default, timeouts, driver, action,
                   told, lostTold, raced>>

\* Only PPPERR_CONNECT tells that the address is lost; the other ends are errors or the
\* user's own.
PppLinkEnds ==
    /\ ppp \in {"opening", "running", "closing"} /\ Len(events) < MaxEvents
    /\ lwip_netif' = [lwip_netif EXCEPT ![PPP] = PppDead(@)]
    /\ \/ /\ ppp # "closing"
          /\ events' = Append(events, "lost_ip")
       \/ UNCHANGED events
    /\ ppp' = "dead"
    /\ unseen' = (unseen \ {PPP}) \cup DefaultLeft(PPP)
    /\ UNCHANGED <<s_head, s_last_default_esp_netif, netif_default, esp_netif, timeouts, driver,
                   action, told, lostTold, raced>>

-----------------------------------------------------------------------------
(* The DHCP server. *)

DhcpsStart ==
    /\ Listed(AP) /\ esp_netif[AP].dhcps_status # "started"
    /\ esp_netif' = [esp_netif EXCEPT ![AP].dhcps_status =
                         IF lwip_netif[AP].up THEN "started" ELSE "init"]
    /\ UNCHANGED <<s_head, lwip_netif, timeouts, ppp, driver, action, events, told, lostTold,
                   raced>>
    /\ NoUpdate

DhcpsStop ==
    /\ Listed(AP) /\ esp_netif[AP].dhcps_status # "stopped"
    /\ esp_netif' = [esp_netif EXCEPT ![AP].dhcps_status = "stopped"]
    /\ UNCHANGED <<s_head, lwip_netif, timeouts, ppp, driver, action, events, told, lostTold,
                   raced>>
    /\ NoUpdate

NetifNext ==
    \/ \E n \in Netifs : New(n) \/ Destroy(n) \/ IpLostTimer(n)
    \/ \E n \in {STA, AP} : ActionStart(n)
    \/ \E n \in {STA, AP}, called \in BOOLEAN : ActionStop(n, called)
    \/ ActionConnected(STA)
    \/ \E called \in BOOLEAN :
           ActionDisconnected(STA, called) \/ DhcpcStop(STA, called) \/ FirmwareDown(called)
    \/ ReadStatus \/ HandlerStartsDhcpc \/ ReadStatic \/ TellStatic
    \/ \E a \in Leases : DhcpBinds(STA, a) \/ SetIpInfo(STA, a)
    \/ DhcpLoses(STA) \/ UserStartsDhcpc(STA)
    \/ FirmwareUp
    \/ PppEvent \/ StartPpp \/ StopPpp \/ PppUp \/ PppLinkEnds
    \/ DhcpsStart \/ DhcpsStop

NetifSpec == NetifInit /\ [][NetifNext]_netifVars

-----------------------------------------------------------------------------
(* Properties. *)

UpNetifs == {n \in Netifs : Listed(n) /\ IsUp(lwip_netif, n)}

\* While the choice has seen every change, packets leave by the interface that goes before
\* all others that are up: lwIP's default and the one remembered are it.
DefaultRight ==
    unseen = {} /\ UpNetifs # {} =>
        /\ netif_default \in UpNetifs
        /\ \A n \in UpNetifs : route_prio[n] <= route_prio[netif_default]
        /\ s_last_default_esp_netif = netif_default

\* Nothing refers to an interface that was destroyed, but a timeout, which finds it gone;
\* no interface has two timeouts.
NoneDestroyed ==
    /\ {s_last_default_esp_netif, netif_default} \subseteq s_head \cup {None}
    /\ \A n \in Netifs :
           /\ lwip_netif[n].added => Listed(n)
           /\ Listed(n) => (n \in timeouts <=> esp_netif[n].timer_running)

\* A station that got an address by DHCP has told it to the application, unless it took the
\* address up again after telling that it was lost, or a static address was changed while the
\* event task told it.
AddressTold ==
    lwip_netif[STA].dhcp = "bound" /\ ~lostTold /\ ~raced => told = lwip_netif[STA].addr

\* The address an up interface tells to others is the one lwIP uses for it.
AddressAgrees ==
    \A n \in {STA, AP} :
        lwip_netif[n].up /\ lwip_netif[n].addr # Any4 =>
            esp_netif[n].ip_info = lwip_netif[n].addr

NetifSound == DefaultRight /\ NoneDestroyed /\ AddressTold /\ AddressAgrees
=============================================================================
