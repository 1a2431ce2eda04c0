-------------------------------- MODULE Startup --------------------------------
(***************************************************************************)
(* The start of the gateway: app_main, which creates the queues, groups    *)
(* and tasks in an order of its own and waits for Wi-Fi in the middle of   *)
(* it; the tasks as far as they use what it creates; the events of the     *)
(* Wi-Fi driver; the phone that gives Wi-Fi credentials and the pair key   *)
(* over BLE, and the network task, which turns BLE off.                    *)
(*                                                                         *)
(* app_main has reached the wait a few milliseconds after BLE is on.  A    *)
(* message that comes before is "early": it finds queues and groups that   *)
(* do not exist yet.  The driver is external: an attempt to connect is     *)
(* answered with an address or a disconnection, in the order of events.    *)
(* The contents of the files are Provisioning's and Registry's, dialling   *)
(* is NetworkSwitch's.                                                     *)
(***************************************************************************)
EXTENDS Naturals, Sequences

CONSTANTS
    MaxWrites,    \* messages of the phone
    MaxEvents,    \* Wi-Fi events waiting (32 in the event loop)
    MaxRestarts   \* power cuts

ASSUME StartupAssumption ==
    /\ MaxWrites \in Nat /\ MaxRestarts \in Nat
    /\ MaxEvents \in Nat /\ MaxEvents >= 2

\* What the phone may say: a pair key or none, an access point or none.
Messages == [pair : BOOLEAN, name : BOOLEAN]

Handles == {"ble_receive_queue", "data_process", "s_wifi_event_group"}
Tasks == {"hmi", "ble", "network", "rf", "plan", "heartbeat"}
WifiEvents == {"STA_START", "STA_DISCONNECTED", "STA_GOT_IP"}

VARIABLES
    ssid, pairFile, get_active_start,   \* flash
    main,                               \* what app_main does next
    created, running,                   \* handles and tasks
    bits,                               \* of s_wifi_event_group
    wifi, events, handler,              \* driver, event queue, event task
    wifi_status,
    bleOn, bleQueue, bleTask, author,   \* BLE and its task
    has_pair_key, network,
    early, crashed,                     \* history: an early message, a NULL handle
    messages, restarts                  \* used up

flash == <<ssid, pairFile, get_active_start>>
boot == <<main, created, running>>
air == <<bits, wifi, events, handler, wifi_status>>
ble == <<bleOn, bleQueue, bleTask, author>>
net == <<has_pair_key, network>>
history == <<early, crashed, messages, restarts>>
vars == <<flash, boot, air, ble, net, history>>

\* The order of app_main.
Order == <<"hmi", "files", "ble", "queue", "tasks", "data", "group", "wifi", "wait",
           "waited", "key", "rf", "plan", "alarm", "done">>
Following(step) == LET n == CHOOSE i \in 1..Len(Order) : Order[i] = step
                   IN  Order[n + 1]

TypeOK ==
    /\ ssid \in BOOLEAN /\ pairFile \in BOOLEAN /\ get_active_start \in BOOLEAN
    /\ main \in {Order[i] : i \in 1..Len(Order)}
    /\ created \subseteq Handles /\ running \subseteq Tasks
    /\ bits \subseteq {"CONNECTED", "FAIL"}
    /\ wifi \in {"off", "idle", "connecting", "up"}
    /\ events \in Seq(WifiEvents) /\ Len(events) <= MaxEvents
    /\ handler \in {"idle", "delay"} /\ wifi_status \in BOOLEAN
    /\ bleOn \in BOOLEAN /\ bleQueue \in Seq(Messages) /\ author \in BOOLEAN
    /\ bleTask \in {"receive", "stop", "config"}
    /\ has_pair_key \in BOOLEAN /\ network \in {"key", "window", "on"}
    /\ early \in BOOLEAN /\ crashed \in BOOLEAN
    /\ messages \in 0..MaxWrites /\ restarts \in 0..MaxRestarts

\* A gateway is activated over BLE: it has its pair key then.
Init ==
    /\ main = "hmi" /\ created = {} /\ running = {}
    /\ bits = {} /\ wifi = "off" /\ events = <<>> /\ handler = "idle"
    /\ wifi_status = FALSE
    /\ bleOn = FALSE /\ bleQueue = <<>> /\ bleTask = "receive" /\ author = FALSE
    /\ has_pair_key = FALSE /\ network = "key"
    /\ early = FALSE /\ crashed = FALSE
    /\ ssid \in BOOLEAN /\ pairFile \in BOOLEAN
    /\ get_active_start \in {FALSE, pairFile}
    /\ messages = 0 /\ restarts = 0

-----------------------------------------------------------------------------
(* app_main                                                                 *)

Goes(step) ==
    /\ main = step /\ ~crashed
    /\ main' = Following(step)

\* hmi_task, the files, ble_init, the BLE queue, the two tasks, data_process.
StartPanel ==
    /\ Goes("hmi")
    /\ running' = running \cup {"hmi"}
    /\ UNCHANGED <<flash, created, air, ble, net, history>>

ReadFiles ==
    /\ Goes("files")
    /\ UNCHANGED <<flash, created, running, air, ble, net, history>>

StartBle ==
    /\ Goes("ble")
    /\ bleOn' = TRUE
    /\ UNCHANGED <<flash, created, running, air, bleQueue, bleTask, author, net,
                   history>>

CreateBleQueue ==
    /\ Goes("queue")
    /\ created' = created \cup {"ble_receive_queue"}
    /\ UNCHANGED <<flash, running, air, ble, net, history>>

StartTasks ==
    /\ Goes("tasks")
    /\ running' = running \cup {"ble", "network"}
    /\ UNCHANGED <<flash, created, air, ble, net, history>>

\* Variant: data_process is created with the tasks that read it.
CreateDataQueue_Late ==
    /\ Goes("data")
    /\ UNCHANGED <<flash, created, running, air, ble, net, history>>

CreateDataQueue ==
    /\ Goes("data")
    /\ created' = created \cup {"data_process"}
    /\ UNCHANGED <<flash, running, air, ble, net, history>>

\* wifi_init_sta: the group and the handlers of the driver's events ...
CreateGroup ==
    /\ Goes("group")
    /\ created' = created \cup {"s_wifi_event_group"}
    /\ UNCHANGED <<flash, running, air, ble, net, history>>

Started(event) ==
    /\ wifi' = "idle"
    /\ events' = Append(events, event)

\* ... nothing more for an activated gateway that uses the SIM only ...
SkipWifi ==
    /\ main = "wifi" /\ ~crashed
    /\ get_active_start /\ ~ssid
    /\ main' = "key"
    /\ UNCHANGED <<flash, created, running, air, ble, net, history>>

\* ... the driver is started if it has credentials ...
StartWifi ==
    /\ ~get_active_start \/ ssid
    /\ Goes("wifi")
    /\ IF ssid /\ wifi = "off" THEN Started("STA_START") ELSE UNCHANGED <<wifi, events>>
    /\ Len(events) < MaxEvents
    /\ UNCHANGED <<flash, created, running, bits, handler, wifi_status, ble, net,
                   history>>

\* Variant: it goes on when it has a connection.
WaitWifi_Connected ==
    /\ Goes("wait")
    /\ "CONNECTED" \in bits
    /\ UNCHANGED <<flash, created, running, air, ble, net, history>>

\* ... and it goes on once an attempt has succeeded or failed ...
WaitWifi ==
    /\ Goes("wait")
    /\ bits # {}
    /\ UNCHANGED <<flash, created, running, air, ble, net, history>>

\* ... storing in the status what it saw when it woke up.
Waited ==
    /\ Goes("waited")
    /\ \/ "CONNECTED" \in bits /\ wifi_status' = TRUE /\ UNCHANGED bits
       \/ "FAIL" \in bits /\ wifi_status' = FALSE /\ bits' = bits \ {"CONNECTED"}
    /\ UNCHANGED <<flash, created, running, wifi, events, handler, ble, net, history>>

ReadPairKey ==
    /\ Goes("key")
    /\ has_pair_key' = (has_pair_key \/ pairFile)
    /\ UNCHANGED <<flash, created, running, air, ble, network, history>>

\* uart_fire_detector_sensor_start, plan_task and alarm_task.
StartTask(step, task) ==
    /\ Goes(step)
    /\ running' = running \cup {task}
    /\ UNCHANGED <<flash, created, air, ble, net, history>>

StartRf == StartTask("rf", "rf")
StartPlan == StartTask("plan", "plan")
StartAlarm == StartTask("alarm", "heartbeat")

-----------------------------------------------------------------------------
(* The tasks that post to data_process.                                     *)

\* The panel posts in the modes that the radio task enters after probing, the radio
\* task and the heartbeat when there are detectors, the MQTT client that the plan
\* task starts when it connects, the network task when the SIM's address comes.
Posts ==
    \/ "rf" \in running
    \/ "hmi" \in running /\ "rf" \in running
    \/ "plan" \in running
    \/ "heartbeat" \in running
    \/ network = "on"

Post ==
    /\ Posts /\ ~crashed
    /\ crashed' = ("data_process" \notin created)
    /\ UNCHANGED <<flash, boot, air, ble, net, early, messages, restarts>>

-----------------------------------------------------------------------------
(* wifi_event_handler                                                       *)

\* Events that come before the handler is registered are lost.
NextEvent(event) ==
    /\ handler = "idle" /\ ~crashed
    /\ events # <<>> /\ Head(events) = event
    /\ events' = Tail(events)

LostEvent ==
    /\ \E event \in WifiEvents : NextEvent(event)
    /\ "s_wifi_event_group" \notin created
    /\ UNCHANGED <<flash, boot, bits, wifi, handler, wifi_status, ble, net, history>>

Connecting == IF wifi = "idle" THEN "connecting" ELSE wifi

StaStart ==
    /\ NextEvent("STA_START") /\ "s_wifi_event_group" \in created
    /\ wifi' = Connecting
    /\ UNCHANGED <<flash, boot, bits, handler, wifi_status, ble, net, history>>

\* The failure bit is set at the first disconnection.
StaDisconnected ==
    /\ NextEvent("STA_DISCONNECTED") /\ "s_wifi_event_group" \in created
    /\ wifi_status' = FALSE
    /\ bits' = bits \cup {"FAIL"}
    /\ handler' = "delay"
    /\ UNCHANGED <<flash, boot, wifi, ble, net, history>>

\* 1.5 s later.
Retry ==
    /\ handler = "delay" /\ ~crashed
    /\ handler' = "idle"
    /\ wifi' = Connecting
    /\ UNCHANGED <<flash, boot, bits, events, wifi_status, ble, net, history>>

StaGotIp ==
    /\ NextEvent("STA_GOT_IP") /\ "s_wifi_event_group" \in created
    /\ wifi_status' = TRUE
    /\ bits' = bits \cup {"CONNECTED"}
    /\ UNCHANGED <<flash, boot, wifi, handler, ble, net, history>>

\* The driver: an attempt succeeds or fails, a connection is lost.
DriverAnswers ==
    /\ wifi = "connecting" /\ Len(events) < MaxEvents
    /\ \/ wifi' = "up" /\ events' = Append(events, "STA_GOT_IP")
       \/ wifi' = "idle" /\ events' = Append(events, "STA_DISCONNECTED")
    /\ UNCHANGED <<flash, boot, bits, handler, wifi_status, ble, net, history>>

DriverLoses ==
    /\ wifi = "up" /\ Len(events) < MaxEvents
    /\ wifi' = "idle" /\ events' = Append(events, "STA_DISCONNECTED")
    /\ UNCHANGED <<flash, boot, bits, handler, wifi_status, ble, net, history>>

-----------------------------------------------------------------------------
(* BLE                                                                      *)

\* A write of the phone: into a queue that may not be there.
PhoneWrites(m) ==
    /\ bleOn /\ ~crashed
    /\ messages < MaxWrites /\ messages' = messages + 1
    /\ early' = (early \/ \E i \in 1..8 : main = Order[i])
    /\ IF "ble_receive_queue" \in created
       THEN bleQueue' = Append(bleQueue, m) /\ UNCHANGED crashed
       ELSE crashed' = TRUE /\ UNCHANGED bleQueue
    /\ UNCHANGED <<flash, boot, air, bleOn, bleTask, author, net, restarts>>

\* ble_config_wifi_task: the message and the pair key ...
BleReceive ==
    /\ "ble" \in running /\ bleTask = "receive" /\ ~crashed
    /\ bleQueue # <<>>
    /\ bleQueue' = Tail(bleQueue)
    /\ author' = (author \/ Head(bleQueue).name)
    /\ pairFile' = (pairFile \/ Head(bleQueue).pair)
    /\ has_pair_key' = (has_pair_key \/ Head(bleQueue).pair)
    /\ bleTask' = "stop"
    /\ UNCHANGED <<ssid, get_active_start, boot, air, bleOn, network, history>>

\* ... Wi-Fi is stopped ...
BleStop ==
    /\ bleTask = "stop" /\ ~crashed /\ Len(events) < MaxEvents
    /\ wifi' = "off"
    /\ events' = IF wifi \in {"connecting", "up"}
                 THEN Append(events, "STA_DISCONNECTED") ELSE events
    /\ bleTask' = "config"
    /\ UNCHANGED <<flash, boot, bits, handler, wifi_status, bleOn, bleQueue, author, net,
                   history>>

\* ... and left so without the name of an access point: the name of an earlier start
\* is not read back ...
BleSkip ==
    /\ bleTask = "config" /\ ~author /\ ~crashed
    /\ ssid' = FALSE
    /\ IF "s_wifi_event_group" \in created
       THEN bits' = bits \cup {"FAIL"} /\ UNCHANGED crashed
       ELSE crashed' = TRUE /\ UNCHANGED bits
    /\ bleTask' = "receive"
    /\ UNCHANGED <<pairFile, get_active_start, boot, wifi, events, handler, wifi_status,
                   bleOn, bleQueue, author, net, early, messages, restarts>>

\* ... or started again.
BleStart ==
    /\ bleTask = "config" /\ author /\ ~crashed /\ Len(events) < MaxEvents
    /\ ssid' = TRUE
    /\ Started("STA_START")
    /\ bleTask' = "receive"
    /\ UNCHANGED <<pairFile, get_active_start, boot, bits, handler, wifi_status, bleOn,
                   bleQueue, author, net, history>>

\* network_switch_task waits for the pair key, for a minute more if the gateway is
\* activated, turns BLE off and dials.
Network ==
    /\ "network" \in running /\ ~crashed
    /\ \/ network = "key" /\ has_pair_key /\ network' = "window" /\ UNCHANGED bleOn
       \/ network = "window" /\ network' = "on" /\ bleOn' = FALSE
    /\ UNCHANGED <<flash, boot, air, bleQueue, bleTask, author, has_pair_key, history>>

\* The use of a NULL handle, and a power cut.
Restart ==
    /\ main' = "hmi" /\ created' = {} /\ running' = {}
    /\ bits' = {} /\ wifi' = "off" /\ events' = <<>> /\ handler' = "idle"
    /\ wifi_status' = FALSE
    /\ bleOn' = FALSE /\ bleQueue' = <<>> /\ bleTask' = "receive" /\ author' = FALSE
    /\ has_pair_key' = FALSE /\ network' = "key"
    /\ early' = FALSE /\ crashed' = FALSE
    /\ \/ crashed /\ UNCHANGED restarts
       \/ restarts < MaxRestarts /\ restarts' = restarts + 1
    /\ UNCHANGED <<flash, messages>>

-----------------------------------------------------------------------------
AppMain ==
    \/ StartPanel
    \/ ReadFiles
    \/ StartBle
    \/ CreateBleQueue
    \/ StartTasks
    \/ CreateDataQueue
    \/ CreateGroup
    \/ SkipWifi
    \/ StartWifi
    \/ WaitWifi
    \/ Waited
    \/ ReadPairKey
    \/ StartRf
    \/ StartPlan
    \/ StartAlarm

EventTask == LostEvent \/ StaStart \/ StaDisconnected \/ Retry \/ StaGotIp

BleTask == BleReceive \/ BleStop \/ BleSkip \/ BleStart

Next ==
    \/ AppMain
    \/ Post
    \/ EventTask
    \/ DriverAnswers
    \/ DriverLoses
    \/ \E m \in Messages : PhoneWrites(m)
    \/ BleTask
    \/ Network
    \/ Restart

\* Tasks run on; the driver answers an attempt to connect.
Fairness ==
    /\ WF_vars(AppMain)
    /\ WF_vars(EventTask)
    /\ WF_vars(DriverAnswers)
    /\ WF_vars(BleTask)

Spec == Init /\ [][Next]_vars /\ Fairness

-----------------------------------------------------------------------------
\* app_main creates data_process before any task that posts to it gets that far
\* (the panel task, started first, posts only once the radio task, started last, has
\* found its radio), and the other handles in time for a phone that is not early.
HandlesReady == crashed => early

\* As long as app_main waits for credentials, they can be given: the network task does
\* not turn BLE off under it before a message has ended the wait.
CanBeCommissioned ==
    (main = "wait" /\ bits = {} /\ wifi = "off" /\ events = <<>>)
        => bleOn \/ bleQueue # <<>> \/ bleTask # "receive" \/ early

\* What the start owes to its tasks and to the phone.
StartSafe == HandlesReady /\ CanBeCommissioned

\* A gateway with credentials, or that is activated, completes its start: wrong
\* credentials or an access point that is gone do not keep it from its detectors.
\* (A message without the name of an access point takes the credentials away.)
HasCredentials == ssid \/ get_active_start
StartCompletes == HasCredentials ~> (main = "done" \/ early \/ ~HasCredentials)

\* Whatever the order of restarts of Wi-Fi, disconnections and their delayed
\* treatment: there is always a next attempt.
TriesAgain == (wifi = "idle" /\ ~early) ~> (wifi # "idle" \/ early)

\* A status that app_main stores after the connection was lost is put right by the
\* next attempt.
StatusHeals ==
    (wifi_status /\ wifi \in {"idle", "connecting"} /\ ~early)
        ~> (~wifi_status \/ wifi \in {"up", "off"} \/ early)

\* Wi-Fi comes back, and is reported as it is.
WifiRecovers == TriesAgain /\ StatusHeals
=============================================================================
