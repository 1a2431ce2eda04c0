---------------------------- MODULE NetworkSwitch ----------------------------
(***************************************************************************)
(* How the gateway keeps a way to the server (main_app.c): the network     *)
(* task, which dials with the SIM modem, turns it off and restarts the     *)
(* gateway; the handlers of the Wi-Fi and PPP events; the MQTT client, its *)
(* start (plan_task.c, mqtt_task.c) and its end for an update of the       *)
(* firmware (json_parser.c, ota_task.c).                                   *)
(*                                                                         *)
(* A step of the network task goes from one blocking call, or one read of  *)
(* what others write, to the next.  The event task runs one handler at a   *)
(* time; the handler of a PPP address, which stops and starts the client,  *)
(* is taken apart, the others are single steps.  Certificates, the pair    *)
(* key and the Wi-Fi credentials are on the gateway already; the restart   *)
(* for want of memory is left out.  The vendored parts are modelled by     *)
(* what the firmware sees of them: a new connection goes over Wi-Fi if its *)
(* interface is up and over the modem otherwise; a PPP link that ends      *)
(* reports its last phase, and the loss of its address unless it failed    *)
(* to authenticate; teardown may fail an ESP_ERROR_CHECK and so restart.   *)
(***************************************************************************)
EXTENDS Naturals

CONSTANTS
    OffAt,        \* checks without MQTT until the SIM is turned off (3)
    RedialAbove,  \* checks without MQTT a lost SIM is dialled after (6)
    RestartAt,    \* checks without MQTT until the forced restart (60)
    Updates       \* TRUE: the server may command updates

ASSUME NetworkAssumption ==
    /\ OffAt \in Nat \ {0} /\ RedialAbove \in Nat /\ RestartAt \in Nat
    /\ OffAt <= RedialAbove /\ RedialAbove < RestartAt
    /\ Updates \in BOOLEAN

VARIABLES
    pc, mqtt_count,               \* the network task
    modem,                        \* what has become of the modem's objects
    bits,                         \* CONNECT_BIT or DISCONNECT_BIT is set
    handler,                      \* the PPP event under way
    modem_is_disconnected, modem_status, connect_info,
    wifi_status, ifwifi, retried, \* address, interface up, s_retry_num # 0
    client, mqtt_status,          \* the MQTT client
    is_start_ota, job, download,  \* update wanted, its event queued, running
    accessPoint, simNet           \* what is out there

task == <<pc, mqtt_count>>
sim == <<modem, bits, handler, modem_is_disconnected, modem_status, connect_info>>
wifi == <<wifi_status, ifwifi, retried>>
mqtt == <<client, mqtt_status>>
update == <<is_start_ota, job, download>>
world == <<accessPoint, simNet>>
vars == <<task, sim, wifi, mqtt, update, world>>

Teardowns == {"stopRedial", "stopOff"}

Connected == {"overWifi", "overSim"}

TypeOK ==
    /\ pc \in {"start", "open", "dial", "count", "redial", "reopen",
               "redialled", "off", "judge"} \cup Teardowns
    /\ mqtt_count \in 0..RestartAt
    /\ modem \in {"off", "absent", "dialing", "online", "ended"}
    /\ handler \in {"none", "addressed", "switch", "switching", "lost"}
    /\ bits \in BOOLEAN /\ modem_is_disconnected \in BOOLEAN
    /\ modem_status \in BOOLEAN /\ connect_info \in {"WIFI", "SIM3G"}
    /\ wifi_status \in BOOLEAN /\ ifwifi \in BOOLEAN /\ retried \in BOOLEAN
    /\ client \in {"none", "stopped", "trying", "destroyed"} \cup Connected
    /\ mqtt_status \in BOOLEAN
    /\ is_start_ota \in {"OTA_PENDING", "OTA_START"}
    /\ job \in BOOLEAN /\ download \in BOOLEAN
    /\ accessPoint \in {"none", "noInternet", "internet"} /\ simNet \in BOOLEAN

\* The gateway as it boots, whatever is out there.
Init ==
    /\ pc = "start" /\ mqtt_count = 0
    /\ modem = "off" /\ bits = FALSE /\ handler = "none"
    /\ modem_is_disconnected = FALSE /\ modem_status = FALSE
    /\ connect_info = "WIFI"
    /\ wifi_status = FALSE /\ ifwifi = FALSE /\ retried = FALSE
    /\ client = "none" /\ mqtt_status = FALSE
    /\ is_start_ota = "OTA_PENDING" /\ job = FALSE /\ download = FALSE
    /\ accessPoint \in {"none", "noInternet", "internet"} /\ simNet \in BOOLEAN

\* esp_restart, or an ESP_ERROR_CHECK that aborts.
Restart ==
    /\ pc' = "start" /\ mqtt_count' = 0
    /\ modem' = "off" /\ bits' = FALSE /\ handler' = "none"
    /\ modem_is_disconnected' = FALSE /\ modem_status' = FALSE
    /\ connect_info' = "WIFI"
    /\ wifi_status' = FALSE /\ ifwifi' = FALSE /\ retried' = FALSE
    /\ client' = "none" /\ mqtt_status' = FALSE
    /\ is_start_ota' = "OTA_PENDING" /\ job' = FALSE /\ download' = FALSE
    /\ UNCHANGED world

-----------------------------------------------------------------------------
(* network_switch_task *)

\* The BLE window is over.  app_main has the pair key only after
\* wifi_init_sta has seen the first attempt succeed or fail.
Start ==
    /\ pc = "start" /\ (wifi_status \/ retried)
    /\ pc' = "open"
    /\ UNCHANGED <<mqtt_count, sim, wifi, mqtt, update, world>>

\* The point after main_sim_init, called from the start or to dial again.
AfterInit == IF pc \in {"open", "dial"} THEN "count" ELSE "off"

\* main_sim_init registers the handlers but finds no SIM card.
NoSim ==
    /\ pc \in {"open", "reopen"}
    /\ modem' = "absent" /\ bits' = FALSE
    /\ pc' = AfterInit
    /\ UNCHANGED <<mqtt_count, handler, modem_is_disconnected, modem_status,
                   connect_info, wifi, mqtt, update, world>>

\* main_sim_init sets PPP up and waits for one of the bits.
Dial ==
    /\ pc \in {"open", "reopen"}
    /\ modem' = "dialing" /\ bits' = FALSE
    /\ pc' = IF pc = "open" THEN "dial" ELSE "redialled"
    /\ UNCHANGED <<mqtt_count, handler, modem_is_disconnected, modem_status,
                   connect_info, wifi, mqtt, update, world>>

DialReturns ==
    /\ pc \in {"dial", "redialled"} /\ bits
    /\ bits' = FALSE
    /\ pc' = AfterInit
    /\ UNCHANGED <<mqtt_count, modem, handler, modem_is_disconnected,
                   modem_status, connect_info, wifi, mqtt, update, world>>

\* The check every ten seconds: MQTT is down and no update wanted.
CountFailure ==
    /\ pc = "count"
    /\ ~mqtt_status /\ is_start_ota = "OTA_PENDING"
    /\ mqtt_count' = mqtt_count + 1
    /\ pc' = "redial"
    /\ UNCHANGED <<sim, wifi, mqtt, update, world>>

\* The check finds MQTT up.  A Wi-Fi interface that was taken down is
\* brought up by reconnecting: the handler sees a disconnection.
CountReset ==
    /\ pc = "count"
    /\ mqtt_status \/ is_start_ota # "OTA_PENDING"
    /\ mqtt_count' = 0
    /\ IF ~ifwifi /\ ~retried
         THEN wifi_status' = FALSE /\ retried' = TRUE /\ UNCHANGED ifwifi
         ELSE UNCHANGED wifi
    /\ pc' = "redial"
    /\ UNCHANGED <<sim, mqtt, update, world>>

\* A lost SIM is dialled again, if there is time for it or need of it.
Redial ==
    /\ pc = "redial"
    /\ IF modem_is_disconnected /\ (mqtt_status \/ mqtt_count > RedialAbove)
         THEN modem_is_disconnected' = FALSE /\ pc' = "stopRedial"
         ELSE pc' = "off" /\ UNCHANGED modem_is_disconnected
    /\ UNCHANGED <<mqtt_count, modem, bits, handler, modem_status, connect_info,
                   wifi, mqtt, update, world>>

\* sim_denit: unregistering the handlers waits for one that runs, and an
\* event still in the event queue then finds none.
Denit ==
    /\ handler \in {"none", "lost"}
    /\ handler' = "none"
    /\ modem' = "off" /\ bits' = FALSE

RedialDenit ==
    /\ pc = "stopRedial"
    /\ Denit
    /\ pc' = "reopen"
    /\ UNCHANGED <<mqtt_count, modem_is_disconnected, modem_status,
                   connect_info, wifi, mqtt, update, world>>

\* MQTT does not come up over the SIM and there is Wi-Fi.
Off ==
    /\ pc = "off"
    /\ pc' = IF mqtt_count >= OffAt /\ modem_status /\ wifi_status
               THEN "stopOff" ELSE "judge"
    /\ UNCHANGED <<mqtt_count, sim, wifi, mqtt, update, world>>

\* Variant: the loss of the SIM stays noted when it is turned off.
OffDenit_KeepsFlag ==
    /\ pc = "stopOff"
    /\ Denit
    /\ modem_status' = FALSE
    /\ connect_info' = "WIFI"
    /\ pc' = "judge"
    /\ UNCHANGED <<mqtt_count, modem_is_disconnected, wifi, mqtt, update, world>>

OffDenit ==
    /\ pc = "stopOff"
    /\ Denit
    /\ modem_status' = FALSE
    /\ connect_info' = "WIFI"
    /\ modem_is_disconnected' = FALSE
    /\ pc' = "judge"
    /\ UNCHANGED <<mqtt_count, wifi, mqtt, update, world>>

\* esp_modem_stop_ppp gets no answer from the modem.
DenitAborts == pc \in Teardowns /\ Restart

\* Variant: the restart comes one check late.
Judge_Late ==
    /\ pc = "judge" /\ mqtt_count <= RestartAt
    /\ pc' = "count"
    /\ UNCHANGED <<mqtt_count, sim, wifi, mqtt, update, world>>

Judge ==
    /\ pc = "judge" /\ mqtt_count < RestartAt
    /\ pc' = "count"
    /\ UNCHANGED <<mqtt_count, sim, wifi, mqtt, update, world>>

ForcedRestart == pc = "judge" /\ mqtt_count >= RestartAt /\ Restart

NetworkTask ==
    \/ Start \/ NoSim \/ Dial \/ DialReturns
    \/ CountFailure \/ CountReset \/ Redial \/ RedialDenit
    \/ Off \/ OffDenit \/ DenitAborts \/ Judge \/ ForcedRestart

-----------------------------------------------------------------------------
(* The event task *)

\* PPP has an address: CONNECT_BIT is set first.
PppGotIp ==
    /\ modem = "dialing" /\ handler = "none"
    /\ modem' = "online" /\ bits' = TRUE
    /\ handler' = "addressed"
    /\ UNCHANGED <<task, modem_is_disconnected, modem_status, connect_info,
                   wifi, mqtt, update, world>>

PppStatus ==
    /\ handler = "addressed"
    /\ modem_status' = TRUE /\ modem_is_disconnected' = FALSE
    /\ handler' = IF is_start_ota = "OTA_PENDING" THEN "switch" ELSE "none"
    /\ UNCHANGED <<task, modem, bits, connect_info, wifi, mqtt, update, world>>

\* The client is stopped without an event that would tell mqtt_status.
\* Before plan_task has made one, there is nothing to stop.
PppSwitch ==
    /\ handler = "switch"
    /\ connect_info' = "SIM3G"
    /\ client' = IF client \in {"trying"} \cup Connected THEN "stopped" ELSE client
    /\ handler' = "switching"
    /\ UNCHANGED <<task, modem, bits, modem_is_disconnected, modem_status,
                   wifi, mqtt_status, update, world>>

PppSwitched ==
    /\ handler = "switching"
    /\ ifwifi' = FALSE
    /\ client' = IF client = "stopped" THEN "trying" ELSE client
    /\ handler' = "none"
    /\ UNCHANGED <<task, modem, bits, modem_is_disconnected, modem_status,
                   connect_info, wifi_status, retried, mqtt_status, update, world>>

\* mqtt_handle points to a client the sender has freed.
PppSwitchCrashes ==
    /\ handler \in {"switch", "switching"} /\ client = "destroyed"
    /\ Restart

\* The link ends: DISCONNECT_BIT, and mostly the loss of the address.
PppEnds ==
    /\ modem \in {"dialing", "online"} /\ handler = "none"
    /\ modem' = "ended" /\ bits' = TRUE
    /\ handler' \in IF modem = "dialing" THEN {"none", "lost"} ELSE {"lost"}
    /\ UNCHANGED <<task, modem_is_disconnected, modem_status, connect_info,
                   wifi, mqtt, update, world>>

\* Variant: the network reported stays the SIM's.
PppLostIp_KeepsType ==
    /\ handler = "lost"
    /\ modem_status' = FALSE
    /\ modem_is_disconnected' = TRUE
    /\ bits' = TRUE
    /\ handler' = "none"
    /\ UNCHANGED <<task, modem, connect_info, wifi, mqtt, update, world>>

PppLostIp ==
    /\ handler = "lost"
    /\ modem_status' = FALSE /\ connect_info' = "WIFI"
    /\ modem_is_disconnected' = TRUE
    /\ bits' = TRUE
    /\ handler' = "none"
    /\ UNCHANGED <<task, modem, wifi, mqtt, update, world>>

\* WIFI_EVENT_STA_DISCONNECTED; the default handler takes the interface down.
WifiDisconnected ==
    /\ accessPoint = "none" /\ (wifi_status \/ ~retried)
    /\ handler \in {"none", "lost"}
    /\ wifi_status' = FALSE /\ ifwifi' = FALSE /\ retried' = TRUE
    /\ UNCHANGED <<task, sim, mqtt, update, world>>

\* IP_EVENT_STA_GOT_IP; the interface came up with the connection.
WifiGotIp ==
    /\ accessPoint # "none" /\ ~wifi_status
    /\ handler \in {"none", "lost"}
    /\ wifi_status' = TRUE /\ ifwifi' = TRUE /\ retried' = FALSE
    /\ UNCHANGED <<task, sim, mqtt, update, world>>

EventTask ==
    \/ PppGotIp \/ PppStatus \/ PppSwitch \/ PppSwitched \/ PppSwitchCrashes
    \/ PppEnds \/ PppLostIp \/ WifiDisconnected \/ WifiGotIp

-----------------------------------------------------------------------------
(* The MQTT client, the plan task and the sender *)

\* What carries a connection made over the one or the other.
Carried(over) ==
    IF over = "overWifi" THEN wifi_status /\ accessPoint = "internet"
                         ELSE modem = "online" /\ simNet

\* The default route: Wi-Fi if its interface is up.
Route == IF ifwifi THEN "overWifi" ELSE "overSim"

Reachable == Carried(Route)

\* mqtt_app_start
ClientStart ==
    /\ client = "none" /\ (wifi_status \/ modem_status)
    /\ client' = "trying"
    /\ UNCHANGED <<task, sim, wifi, mqtt_status, update, world>>

ClientConnected ==
    /\ client = "trying" /\ Reachable
    /\ client' = Route /\ mqtt_status' = TRUE
    /\ UNCHANGED <<task, sim, wifi, update, world>>

\* MQTT_EVENT_ERROR or MQTT_EVENT_DISCONNECTED, of an attempt or of a
\* connection; the client tries again by itself.
ClientFails ==
    /\ client \in Connected \/ (client = "trying" /\ mqtt_status)
    /\ client' = "trying" /\ mqtt_status' = FALSE
    /\ UNCHANGED <<task, sim, wifi, update, world>>

\* The command to update; its event is lost if the queue is full.
UpdateCommand ==
    /\ Updates /\ client \in Connected
    /\ is_start_ota' = "OTA_START"
    /\ job' \in {job, TRUE}
    /\ UNCHANGED <<task, sim, wifi, mqtt, download, world>>

\* The sender takes JOB_REQUESTED_OTA, which it does not before mqtt_status.
ClientDestroyed ==
    /\ job /\ mqtt_status
    /\ job' = FALSE
    /\ client' = "destroyed" /\ mqtt_status' = FALSE
    /\ UNCHANGED <<task, sim, wifi, is_start_ota, download, world>>

\* WAIT_MANUAL_OTA
UpdateBegins ==
    /\ is_start_ota = "OTA_START" /\ ~download /\ (wifi_status \/ modem_status)
    /\ download' = TRUE
    /\ UNCHANGED <<task, sim, wifi, mqtt, is_start_ota, job, world>>

\* Variant: a failed update stays wanted, and counts as one under way.
UpdateFails_Stuck ==
    /\ download
    /\ download' = FALSE
    /\ UNCHANGED <<task, sim, wifi, mqtt, is_start_ota, job, world>>

UpdateFails ==
    /\ download
    /\ download' = FALSE /\ is_start_ota' = "OTA_PENDING"
    /\ UNCHANGED <<task, sim, wifi, mqtt, job, world>>

UpdateDone == download /\ Reachable /\ Restart

Client ==
    \/ ClientStart \/ ClientConnected \/ ClientFails \/ UpdateCommand
    \/ ClientDestroyed \/ UpdateBegins \/ UpdateFails \/ UpdateDone

-----------------------------------------------------------------------------
(* What is out there changes at any time. *)
World ==
    /\ \/ accessPoint' \in {"none", "noInternet", "internet"} \ {accessPoint}
          /\ UNCHANGED simNet
       \/ simNet' = ~simNet /\ UNCHANGED accessPoint
    /\ UNCHANGED <<task, sim, wifi, mqtt, update>>

Next == NetworkTask \/ EventTask \/ Client \/ World

\* The tasks are scheduled and handlers end.  The modem need not answer: no
\* fairness for PppGotIp and PppEnds.  A client with a way to the server is
\* not kept from it forever by links that come and go, nor by restarts: the
\* modem is left alone for at least 20 seconds after boot, dialling again
\* takes as long, and the client makes an attempt every ten.  Likewise the
\* plan task, which looks at the links every 20 ms.
Fairness ==
    /\ WF_vars(NetworkTask)
    /\ WF_vars(PppStatus \/ PppSwitch \/ PppSwitched \/ PppLostIp)
    /\ WF_vars(WifiGotIp) /\ WF_vars(WifiDisconnected)
    /\ SF_vars(ClientStart) /\ SF_vars(ClientConnected)
    /\ SF_vars(ClientFails /\ ~Carried(IF client = "trying" THEN Route ELSE client))
    /\ WF_vars(ClientDestroyed)
    /\ SF_vars(UpdateBegins) /\ WF_vars(UpdateFails)

Spec == Init /\ [][Next]_vars /\ Fairness

-----------------------------------------------------------------------------
(* Properties *)

\* sim_denit only takes down a modem that main_sim_init has put into PPP
\* mode, and takes it down once: otherwise it waits for a STOP_BIT that
\* nobody sets, or frees what it has freed (main_app.c:254-270, 606-627).
TornDownOnce == pc \in Teardowns => modem \in {"online", "ended"}

\* When the event task rests, modem_status says what the modem is, and the
\* network reported to the server is the SIM's only if there is one
\* (main_app.c:264-271 against the stores in 571-596).
SimStatusTrue ==
    handler = "none" =>
        /\ modem_status <=> modem = "online"
        /\ connect_info = "SIM3G" => modem_status

\* The modem takes longer to dial than plan_task to see that there is Wi-Fi
\* (20 seconds and more after boot against 20 ms).
DialIsSlow == PppGotIp => ~wifi_status \/ client # "none"

\* If Wi-Fi with internet is there to stay and dialling does not hang, the
\* gateway is connected again and again, whatever the SIM does and whatever
\* updates fail: the forced restart is what brings back a client that was
\* destroyed and an interface that was taken down (main_app.c:242-252, 281-285).
ComesBack ==
    /\ <>[](accessPoint = "internet")
    /\ []<>(pc \notin {"dial", "redialled"})
    /\ <>[][DialIsSlow]_vars
    => []<>(client \in Connected)

=============================================================================
