------------------------------ MODULE LinksProofs ------------------------------
(***************************************************************************)
(* What holds of the start for every number of messages, events and power  *)
(* cuts: the types, and StartSafe, that no task uses a handle that is not  *)
(* there and that BLE stays on as long as the start waits for credentials. *)
(* And of the modem for every number of attempts, of late answers and of   *)
(* lines waiting: the types; that an interface is destroyed only after its *)
(* link is closed (TeardownClean); and that the two ends agree on the mode *)
(* as long as no answer has come late (ModeAgrees).                        *)
(*                                                                         *)
(* None is inductive.  StartSafe: what a task may touch depends on how far *)
(* app_main is, and what the phone has set off depends on how far it was   *)
(* when the message came.  The invariant ties the handles and tasks to the *)
(* position of app_main, and every trace of a message to a position behind *)
(* the creation of the handles, or to the phone's being early.             *)
(* TeardownClean needs the life of the link: what is in the event loop,    *)
(* and what the exit semaphore may have been given for, in each phase of   *)
(* the network task.  ModeAgrees needs what is on its way: as long as no   *)
(* answer is late, at most one command is under way, its answer is in one  *)
(* place, and a line more can only be the one that says the carrier is     *)
(* gone.                                                                   *)
(*                                                                         *)
(* Last, the two systems side by side: a step of the one leaves the        *)
(* variables of the other, so that each takes a step of its own or none.   *)
(***************************************************************************)
EXTENDS MCLinks, SequenceTheorems, TLAPS

\* The steps up to the one that reads the credentials: a phone that writes now is early.
Beginning == {"hmi", "files", "ble", "queue", "tasks", "data", "group", "wifi"}

\* What app_main has created and started is what it has passed.
HandlesPassed ==
    /\ "ble_receive_queue" \in created \/ main \in {"hmi", "files", "ble", "queue"}
    /\ "data_process" \in created
        \/ main \in {"hmi", "files", "ble", "queue", "tasks", "data"}
    /\ "s_wifi_event_group" \in created \/ main \in Beginning \ {"wifi"}

TasksPassed ==
    /\ "network" \in running => main \notin {"hmi", "files", "ble", "queue", "tasks"}
    /\ "rf" \in running => main \in {"plan", "alarm", "done"}
    /\ "plan" \in running => main \in {"alarm", "done"}
    /\ "heartbeat" \in running => main = "done"

\* A message, and all that comes of one, is early or finds the handles.
Heard == bleQueue # <<>> \/ bleTask # "receive" \/ has_pair_key \/ network # "key"
MessagesPlaced == Heard => early \/ main \notin Beginning

\* BLE is turned off for a pair key only.
BleKept ==
    /\ network # "key" => has_pair_key
    /\ network = "on" => "network" \in running
    /\ bleOn \/ network = "on" \/ main \in {"hmi", "files", "ble"}

\* A pair key that came while app_main waits has ended the wait, or is about to.
WaitEnds ==
    main = "wait" /\ has_pair_key => early \/ bits # {} \/ wifi # "off" \/ bleTask # "receive"

\* The inductive invariant, with TypeOK.
StartInv ==
    /\ HandlesPassed
    /\ TasksPassed
    /\ MessagesPlaced
    /\ BleKept
    /\ WaitEnds
    /\ HandlesReady

-----------------------------------------------------------------------------
(* The order of app_main.                                                   *)

\* The steps of app_main, each with the next one.
LEMMA Successors ==
    /\ Following("hmi") = "files" /\ Following("files") = "ble"
    /\ Following("ble") = "queue" /\ Following("queue") = "tasks"
    /\ Following("tasks") = "data" /\ Following("data") = "group"
    /\ Following("group") = "wifi" /\ Following("wifi") = "wait"
    /\ Following("wait") = "waited" /\ Following("waited") = "key"
    /\ Following("key") = "rf" /\ Following("rf") = "plan"
    /\ Following("plan") = "alarm" /\ Following("alarm") = "done"
<1>1. Len(Order) = 15
  BY DEF Order
<1>2. \A i, j \in 1..15 : Order[i] = Order[j] => i = j
  BY DEF Order
<1>3. ASSUME NEW i \in 1..14
      PROVE  Following(Order[i]) = Order[i + 1]
  <2>1. (CHOOSE j \in 1..Len(Order) : Order[j] = Order[i]) = i
    BY <1>1, <1>2
  <2> QED BY <2>1 DEF Following
<1>4. \A i \in 1..14 : Following(Order[i]) = Order[i + 1]
  BY <1>3
<1>5. /\ Order[1] = "hmi" /\ Order[2] = "files" /\ Order[3] = "ble"
      /\ Order[4] = "queue" /\ Order[5] = "tasks" /\ Order[6] = "data"
      /\ Order[7] = "group" /\ Order[8] = "wifi" /\ Order[9] = "wait"
      /\ Order[10] = "waited" /\ Order[11] = "key" /\ Order[12] = "rf"
      /\ Order[13] = "plan" /\ Order[14] = "alarm" /\ Order[15] = "done"
  BY DEF Order
<1> QED
  <2>1. /\ Following(Order[1]) = Order[2] /\ Following(Order[2]) = Order[3]
        /\ Following(Order[3]) = Order[4] /\ Following(Order[4]) = Order[5]
        /\ Following(Order[5]) = Order[6] /\ Following(Order[6]) = Order[7]
        /\ Following(Order[7]) = Order[8] /\ Following(Order[8]) = Order[9]
        /\ Following(Order[9]) = Order[10] /\ Following(Order[10]) = Order[11]
        /\ Following(Order[11]) = Order[12] /\ Following(Order[12]) = Order[13]
        /\ Following(Order[13]) = Order[14] /\ Following(Order[14]) = Order[15]
    BY <1>4
  <2> QED BY <2>1, <1>5

\* The positions of app_main, and those at which a message is early.
Positions == Beginning \cup {"wait", "waited", "key", "rf", "plan", "alarm", "done"}

LEMMA PositionsListed ==
    /\ {Order[i] : i \in 1..Len(Order)} = Positions
    /\ \A s : (\E i \in 1..8 : s = Order[i]) <=> s \in Beginning
BY DEF Order, Positions, Beginning

-----------------------------------------------------------------------------
(* Types.                                                                   *)

\* The types, in the three parts that the provers take one by one.
Switches ==
    /\ ssid \in BOOLEAN /\ pairFile \in BOOLEAN /\ get_active_start \in BOOLEAN
    /\ wifi_status \in BOOLEAN /\ bleOn \in BOOLEAN /\ author \in BOOLEAN
    /\ has_pair_key \in BOOLEAN /\ early \in BOOLEAN /\ crashed \in BOOLEAN

Places ==
    /\ main \in Positions
    /\ created \subseteq Handles /\ running \subseteq Tasks
    /\ bits \subseteq {"CONNECTED", "FAIL"}
    /\ wifi \in {"off", "idle", "connecting", "up"}
    /\ handler \in {"idle", "delay"}
    /\ bleTask \in {"receive", "stop", "config"}
    /\ network \in {"key", "window", "on"}

Amounts ==
    /\ events \in Seq(WifiEvents) /\ Len(events) <= MaxEvents
    /\ bleQueue \in Seq(Messages)
    /\ messages \in 0..MaxWrites /\ restarts \in 0..MaxRestarts

LEMMA TypesParts == TypeOK <=> Switches /\ Places /\ Amounts
<1>1. main \in {Order[i] : i \in 1..Len(Order)} <=> main \in Positions
  BY PositionsListed, Zenon
<1> QED BY <1>1, Zenon DEF TypeOK, Switches, Places, Amounts

\* What is put into the queues has their types.
LEMMA Queues ==
    ASSUME Amounts
    PROVE  /\ events # <<>> => /\ Tail(events) \in Seq(WifiEvents)
                               /\ Len(Tail(events)) <= MaxEvents
           /\ \A e \in WifiEvents : /\ Append(events, e) \in Seq(WifiEvents)
                                    /\ Len(events) < MaxEvents =>
                                          Len(Append(events, e)) <= MaxEvents
           /\ bleQueue # <<>> => /\ Head(bleQueue) \in Messages
                                 /\ Tail(bleQueue) \in Seq(Messages)
           /\ \A m \in Messages : Append(bleQueue, m) \in Seq(Messages)
<1>1. events \in Seq(WifiEvents) /\ Len(events) <= MaxEvents /\ bleQueue \in Seq(Messages)
  BY DEF Amounts
<1>2. MaxEvents \in Nat /\ Len(events) \in Nat
  BY <1>1, StartupAssumption
<1>3. ASSUME events # <<>>
      PROVE  Tail(events) \in Seq(WifiEvents) /\ Len(Tail(events)) <= MaxEvents
  BY <1>1, <1>2, <1>3, HeadTailProperties
<1>4. ASSUME NEW e \in WifiEvents
      PROVE  /\ Append(events, e) \in Seq(WifiEvents)
             /\ Len(events) < MaxEvents => Len(Append(events, e)) <= MaxEvents
  BY <1>1, <1>2, AppendProperties
<1>5. ASSUME bleQueue # <<>>
      PROVE  Head(bleQueue) \in Messages /\ Tail(bleQueue) \in Seq(Messages)
  BY <1>1, <1>5, HeadTailProperties
<1>6. \A m \in Messages : Append(bleQueue, m) \in Seq(Messages)
  BY <1>1, AppendProperties
<1> QED BY <1>3, <1>4, <1>5, <1>6

LEMMA TypesStart == Init => TypeOK
<1> SUFFICES ASSUME Init PROVE TypeOK
  OBVIOUS
<1>1. <<>> \in Seq(WifiEvents) /\ <<>> \in Seq(Messages) /\ Len(<<>>) = 0
  OBVIOUS
<1>2. MaxWrites \in Nat /\ MaxRestarts \in Nat /\ MaxEvents \in Nat
  BY StartupAssumption
<1>3. Amounts
  BY <1>1, <1>2 DEF Init, Amounts
<1>4. Places
  BY DEF Init, Places, Positions, Beginning
<1>5. Switches
  BY DEF Init, Switches
<1> QED BY <1>3, <1>4, <1>5, TypesParts

LEMMA SwitchesKept == Switches /\ Amounts /\ [Next]_vars => Switches'
<1> SUFFICES ASSUME Switches, Amounts, [Next]_vars PROVE Switches'
  OBVIOUS
<1> USE DEF flash, boot, air, ble, net, history
<1>1. CASE AppMain
  <2>1. UNCHANGED <<ssid, pairFile, get_active_start, author, early, crashed>>
        /\ bleOn' \in {TRUE, bleOn} /\ wifi_status' \in BOOLEAN /\ has_pair_key' \in BOOLEAN
    BY <1>1 DEF AppMain, StartPanel, ReadFiles, StartBle, CreateBleQueue, StartTasks,
       CreateDataQueue, CreateGroup, SkipWifi, StartWifi, WaitWifi, Waited, ReadPairKey,
       StartRf, StartPlan, StartAlarm, StartTask, Switches
  <2> QED BY <2>1 DEF Switches
<1>2. CASE Post
  BY <1>2 DEF Post, Switches
<1>3. CASE EventTask
  BY <1>3 DEF EventTask, LostEvent, StaStart, StaDisconnected, Retry, StaGotIp, Switches
<1>4. CASE DriverAnswers \/ DriverLoses
  BY <1>4 DEF DriverAnswers, DriverLoses, Switches
<1>5. CASE \E m \in Messages : PhoneWrites(m)
  BY <1>5 DEF PhoneWrites, Switches
<1>6. CASE BleTask
  <2>1. bleQueue # <<>> => Head(bleQueue) \in Messages
    BY HeadTailProperties DEF Amounts
  <2>2. CASE BleReceive
    BY <2>1, <2>2 DEF BleReceive, Switches, Messages
  <2>3. CASE BleStop \/ BleSkip \/ BleStart
    BY <2>3 DEF BleStop, BleSkip, BleStart, Switches
  <2> QED BY <1>6, <2>2, <2>3 DEF BleTask
<1>7. CASE Network
  BY <1>7 DEF Network, Switches
<1>8. CASE Restart
  BY <1>8 DEF Restart, Switches
<1>9. CASE UNCHANGED vars
  BY <1>9 DEF vars, Switches
<1> QED
  BY <1>1, <1>2, <1>3, <1>4, <1>5, <1>6, <1>7, <1>8, <1>9 DEF Next

LEMMA PlacesKept == Places /\ [Next]_vars => Places'
<1> SUFFICES ASSUME Places, [Next]_vars PROVE Places'
  OBVIOUS
<1> USE DEF flash, boot, air, ble, net, history, Places
<1>1. CASE AppMain
  <2>1. main' \in Positions
    BY <1>1, Successors DEF AppMain, Goes, StartPanel, ReadFiles, StartBle, CreateBleQueue,
       StartTasks, CreateDataQueue, CreateGroup, SkipWifi, StartWifi, WaitWifi, Waited,
       ReadPairKey, StartRf, StartPlan, StartAlarm, StartTask, Positions, Beginning
  <2>2. created' \subseteq Handles /\ running' \subseteq Tasks
    BY <1>1 DEF AppMain, StartPanel, ReadFiles, StartBle, CreateBleQueue,
       StartTasks, CreateDataQueue, CreateGroup, SkipWifi, StartWifi, WaitWifi, Waited,
       ReadPairKey, StartRf, StartPlan, StartAlarm, StartTask, Handles, Tasks
  <2>3. /\ UNCHANGED <<handler, bleTask, network>>
        /\ bits' \subseteq {"CONNECTED", "FAIL"} /\ wifi' \in {wifi, "idle"}
    BY <1>1 DEF AppMain, StartPanel, ReadFiles, StartBle, CreateBleQueue,
       StartTasks, CreateDataQueue, CreateGroup, SkipWifi, StartWifi, Started, WaitWifi,
       Waited, ReadPairKey, StartRf, StartPlan, StartAlarm, StartTask
  <2> QED BY <2>1, <2>2, <2>3
<1>2. CASE Post
  BY <1>2 DEF Post
<1>3. CASE EventTask
  BY <1>3 DEF EventTask, LostEvent, StaStart, StaDisconnected, Retry, StaGotIp, Connecting
<1>4. CASE DriverAnswers \/ DriverLoses
  BY <1>4 DEF DriverAnswers, DriverLoses
<1>5. CASE \E m \in Messages : PhoneWrites(m)
  BY <1>5 DEF PhoneWrites
<1>6. CASE BleTask
  BY <1>6 DEF BleTask, BleReceive, BleStop, BleSkip, BleStart, Started
<1>7. CASE Network
  BY <1>7 DEF Network
<1>8. CASE Restart
  BY <1>8 DEF Restart, Positions, Beginning
<1>9. CASE UNCHANGED vars
  BY <1>9 DEF vars
<1> QED
  BY <1>1, <1>2, <1>3, <1>4, <1>5, <1>6, <1>7, <1>8, <1>9 DEF Next

LEMMA AmountsKept == Amounts /\ [Next]_vars => Amounts'
<1> SUFFICES ASSUME Amounts, [Next]_vars PROVE Amounts'
  OBVIOUS
<1> USE DEF flash, boot, air, ble, net, history
<1>0. MaxWrites \in Nat /\ MaxRestarts \in Nat /\ MaxEvents \in Nat /\ MaxEvents >= 2
  BY StartupAssumption
<1>1. CASE AppMain
  <2>1. UNCHANGED <<bleQueue, messages, restarts>>
    BY <1>1 DEF AppMain, StartPanel, ReadFiles, StartBle, CreateBleQueue, StartTasks,
       CreateDataQueue, CreateGroup, SkipWifi, StartWifi, WaitWifi, Waited, ReadPairKey,
       StartRf, StartPlan, StartAlarm, StartTask
  <2>2. events' = events
          \/ (Len(events) < MaxEvents /\ events' = Append(events, "STA_START"))
    BY <1>1 DEF AppMain, StartPanel, ReadFiles, StartBle, CreateBleQueue, StartTasks,
       CreateDataQueue, CreateGroup, SkipWifi, StartWifi, Started, WaitWifi, Waited,
       ReadPairKey, StartRf, StartPlan, StartAlarm, StartTask
  <2> QED BY <2>1, <2>2, Queues DEF Amounts, WifiEvents
<1>2. CASE Post
  BY <1>2 DEF Post, Amounts
<1>3. CASE EventTask
  <2>1. UNCHANGED <<bleQueue, messages, restarts>>
        /\ (events' = events \/ (events # <<>> /\ events' = Tail(events)))
    BY <1>3 DEF EventTask, LostEvent, StaStart, StaDisconnected, Retry, StaGotIp, NextEvent
  <2> QED BY <2>1, Queues DEF Amounts
<1>4. CASE DriverAnswers \/ DriverLoses
  <2>1. /\ UNCHANGED <<bleQueue, messages, restarts>> /\ Len(events) < MaxEvents
        /\ \E e \in WifiEvents : events' = Append(events, e)
    BY <1>4 DEF DriverAnswers, DriverLoses, WifiEvents
  <2> QED BY <2>1, Queues DEF Amounts
<1>5. CASE \E m \in Messages : PhoneWrites(m)
  <2>1. PICK m \in Messages : PhoneWrites(m)
    BY <1>5
  <2>2. bleQueue' = bleQueue \/ bleQueue' = Append(bleQueue, m)
    BY <2>1 DEF PhoneWrites
  <2>3. messages' \in 0..MaxWrites /\ UNCHANGED <<events, restarts>>
    BY <1>0, <2>1 DEF PhoneWrites, Amounts
  <2> QED BY <2>2, <2>3, Queues DEF Amounts
<1>6. CASE BleTask
  <2>1. CASE BleReceive
    BY <2>1, Queues DEF BleReceive, Amounts
  <2>2. CASE BleStop
    BY <2>2, Queues DEF BleStop, Amounts, WifiEvents
  <2>3. CASE BleSkip
    BY <2>3 DEF BleSkip, Amounts
  <2>4. CASE BleStart
    BY <2>4, Queues DEF BleStart, Started, Amounts, WifiEvents
  <2> QED BY <1>6, <2>1, <2>2, <2>3, <2>4 DEF BleTask
<1>7. CASE Network
  BY <1>7 DEF Network, Amounts
<1>8. CASE Restart
  <2>1. <<>> \in Seq(WifiEvents) /\ <<>> \in Seq(Messages) /\ Len(<<>>) = 0
    OBVIOUS
  <2>2. restarts' \in 0..MaxRestarts
    BY <1>0, <1>8 DEF Restart, Amounts
  <2>3. events' = <<>> /\ bleQueue' = <<>> /\ messages' = messages
    BY <1>8 DEF Restart
  <2> QED BY <1>0, <2>1, <2>2, <2>3 DEF Amounts
<1>9. CASE UNCHANGED vars
  BY <1>9 DEF vars, Amounts
<1> QED
  BY <1>1, <1>2, <1>3, <1>4, <1>5, <1>6, <1>7, <1>8, <1>9 DEF Next

\* Every step of every task, of the driver and of the phone keeps the types.
LEMMA TypesKept == TypeOK /\ [Next]_vars => TypeOK'
<1> SUFFICES ASSUME TypeOK, [Next]_vars PROVE TypeOK'
  OBVIOUS
<1>1. Switches /\ Places /\ Amounts
  BY TypesParts
<1>2. Switches' /\ Places' /\ Amounts'
  BY <1>1, SwitchesKept, PlacesKept, AmountsKept
<1>3. main' \in {Order[i] : i \in 1..Len(Order)} <=> main' \in Positions
  BY PositionsListed, Zenon
<1> QED BY <1>2, <1>3, Zenon DEF TypeOK, Switches, Places, Amounts

\* Every variable keeps its type, whatever the phone, the driver and the power do.
THEOREM TypeCorrect == Spec => []TypeOK
<1>1. Init => TypeOK
  BY TypesStart
<1>2. TypeOK /\ [Next]_vars => TypeOK'
  BY TypesKept
<1> QED BY <1>1, <1>2, PTL DEF Spec

-----------------------------------------------------------------------------
(* The start.                                                               *)

\* A step of app_main: what it creates and starts is behind it, and it starts the
\* wait for credentials with nothing heard, or with an early phone.
LEMMA AppMainKeeps ==
    ASSUME TypeOK, StartInv, AppMain
    PROVE  StartInv'
<1> USE DEF flash, boot, air, ble, net, history
<1>1. UNCHANGED <<ssid, pairFile, get_active_start, handler, bleQueue, bleTask, author, network,
                  early, crashed>>
  BY DEF AppMain, StartPanel, ReadFiles, StartBle, CreateBleQueue, StartTasks,
     CreateDataQueue, CreateGroup, SkipWifi, StartWifi, WaitWifi, Waited, ReadPairKey,
     StartRf, StartPlan, StartAlarm, StartTask
<1>2. HandlesPassed'
  BY Successors DEF AppMain, StartInv, HandlesPassed, StartPanel, ReadFiles, StartBle,
     CreateBleQueue, StartTasks, CreateDataQueue, CreateGroup, SkipWifi, StartWifi,
     WaitWifi, Waited, ReadPairKey, StartRf, StartPlan, StartAlarm, StartTask, Goes, Beginning
<1>3. TasksPassed'
  BY Successors DEF AppMain, StartInv, TasksPassed, StartPanel, ReadFiles, StartBle,
     CreateBleQueue, StartTasks, CreateDataQueue, CreateGroup, SkipWifi, StartWifi,
     WaitWifi, Waited, ReadPairKey, StartRf, StartPlan, StartAlarm, StartTask, Goes
<1>4. MessagesPlaced'
  BY <1>1, Successors DEF AppMain, StartInv, MessagesPlaced, Heard, StartPanel, ReadFiles, StartBle,
     CreateBleQueue, StartTasks, CreateDataQueue, CreateGroup, SkipWifi, StartWifi,
     WaitWifi, Waited, ReadPairKey, StartRf, StartPlan, StartAlarm, StartTask, Goes, Beginning
<1>5. BleKept'
  BY <1>1, Successors DEF AppMain, StartInv, BleKept, StartPanel, ReadFiles, StartBle,
     CreateBleQueue, StartTasks, CreateDataQueue, CreateGroup, SkipWifi, StartWifi,
     WaitWifi, Waited, ReadPairKey, StartRf, StartPlan, StartAlarm, StartTask, Goes
<1>6. WaitEnds'
  BY <1>1, Successors DEF AppMain, StartInv, WaitEnds, MessagesPlaced, Heard, StartPanel, ReadFiles,
     StartBle, CreateBleQueue, StartTasks, CreateDataQueue, CreateGroup, SkipWifi, StartWifi,
     WaitWifi, Waited, ReadPairKey, StartRf, StartPlan, StartAlarm, StartTask, Goes, Beginning
<1>7. HandlesReady'
  BY <1>1 DEF StartInv, HandlesReady
<1> QED BY <1>2, <1>3, <1>4, <1>5, <1>6, <1>7 DEF StartInv

\* Whoever posts to data_process finds it, unless the phone was early: the tasks
\* that app_main starts come after it, and the network task dials for a pair key,
\* which comes from the file after it, or from a message.
LEMMA PostFindsQueue ==
    ASSUME TypeOK, StartInv, Posts
    PROVE  "data_process" \in created \/ early
<1>1. "data_process" \in created
        \/ main \in {"hmi", "files", "ble", "queue", "tasks", "data"}
  BY DEF StartInv, HandlesPassed
<1>2. CASE "rf" \in running \/ "plan" \in running \/ "heartbeat" \in running
  BY <1>1, <1>2 DEF StartInv, TasksPassed
<1>3. CASE network = "on"
  BY <1>1, <1>3 DEF StartInv, MessagesPlaced, Heard, Beginning
<1> QED BY <1>2, <1>3 DEF Posts

LEMMA PostKeeps ==
    ASSUME TypeOK, StartInv, Post
    PROVE  StartInv'
<1>1. crashed' => early
  BY PostFindsQueue DEF Post
<1>2. UNCHANGED <<flash, boot, air, ble, net, early>>
  BY DEF Post
<1> QED
  BY <1>1, <1>2 DEF StartInv, HandlesPassed, TasksPassed, MessagesPlaced, Heard, BleKept, WaitEnds,
     HandlesReady, flash, boot, air, ble, net

\* The event task and the driver: bits are only added, and Wi-Fi is not turned off.
LEMMA EventsKeep ==
    ASSUME TypeOK, StartInv, EventTask \/ DriverAnswers \/ DriverLoses
    PROVE  StartInv'
<1> USE DEF flash, boot, air, ble, net, history
<1>1. UNCHANGED <<flash, boot, ble, net, history>>
  BY DEF EventTask, LostEvent, StaStart, StaDisconnected, Retry, StaGotIp, DriverAnswers,
     DriverLoses
<1>2. bits \subseteq bits' /\ (wifi # "off" => wifi' # "off")
  BY DEF EventTask, LostEvent, StaStart, StaDisconnected, Retry, StaGotIp, Connecting,
     DriverAnswers, DriverLoses
<1> QED
  BY <1>1, <1>2 DEF StartInv, HandlesPassed, TasksPassed, MessagesPlaced, Heard, BleKept, WaitEnds,
     HandlesReady

\* A message finds its queue or is early.
LEMMA MessageKeeps ==
    ASSUME TypeOK, StartInv, NEW m \in Messages, PhoneWrites(m)
    PROVE  StartInv'
<1>1. early' = (early \/ main \in Beginning)
  BY PositionsListed DEF PhoneWrites
<1>2. UNCHANGED <<flash, boot, air, bleOn, bleTask, author, net>>
  BY DEF PhoneWrites
<1>3. crashed' => early'
  BY <1>1 DEF PhoneWrites, StartInv, HandlesPassed, HandlesReady, Beginning
<1> QED
  BY <1>1, <1>2, <1>3 DEF StartInv, HandlesPassed, TasksPassed, MessagesPlaced, Heard, BleKept,
     WaitEnds, HandlesReady, flash, boot, air, net

\* What comes of a message: Wi-Fi is stopped, then started again or given up with the
\* failure bit set, so that the wait does not go on without it.
LEMMA BleKeeps ==
    ASSUME TypeOK, StartInv, BleTask
    PROVE  StartInv'
<1> USE DEF flash, boot, air, ble, net, history
<1>1. UNCHANGED <<boot, bleOn, network, early>> /\ bits \subseteq bits'
  BY DEF BleTask, BleReceive, BleStop, BleSkip, BleStart
<1>2. Heard
  BY DEF BleTask, BleReceive, BleStop, BleSkip, BleStart, Heard
<1>3. early \/ main \notin Beginning
  BY <1>2 DEF StartInv, MessagesPlaced
<1>4. HandlesPassed' /\ TasksPassed' /\ MessagesPlaced'
  BY <1>1, <1>3 DEF StartInv, HandlesPassed, TasksPassed, MessagesPlaced
<1>5. BleKept'
  BY <1>1 DEF StartInv, BleKept, BleTask, BleReceive, BleStop, BleSkip, BleStart
<1>6. crashed' => early
  BY <1>3 DEF StartInv, HandlesReady, HandlesPassed, Beginning, BleTask, BleReceive, BleStop, BleSkip,
     BleStart
<1>7. WaitEnds'
  <2>1. CASE BleReceive \/ BleStop
    BY <2>1 DEF BleReceive, BleStop, WaitEnds
  <2>2. CASE BleSkip
    BY <1>1, <1>6, <2>2 DEF BleSkip, WaitEnds
  <2>3. CASE BleStart
    BY <2>3 DEF BleStart, Started, WaitEnds
  <2> QED BY <2>1, <2>2, <2>3 DEF BleTask
<1> QED BY <1>1, <1>4, <1>5, <1>6, <1>7 DEF StartInv, HandlesReady

LEMMA NetworkKeeps ==
    ASSUME TypeOK, StartInv, Network
    PROVE  StartInv'
<1>1. UNCHANGED <<flash, boot, air, bleQueue, bleTask, author, has_pair_key, history>>
  BY DEF Network
<1>2. BleKept'
  BY DEF Network, StartInv, BleKept, boot
<1>3. Heard
  BY DEF Network, StartInv, BleKept, Heard
<1> QED
  BY <1>1, <1>2, <1>3 DEF StartInv, HandlesPassed, TasksPassed, MessagesPlaced, WaitEnds, HandlesReady,
     flash, boot, air, history

\* A boot begins with nothing.
LEMMA NothingYet ==
    ASSUME main = "hmi", created = {}, running = {}, bleQueue = <<>>, bleTask = "receive",
           has_pair_key = FALSE, network = "key", crashed = FALSE
    PROVE  StartInv
BY DEF StartInv, HandlesPassed, TasksPassed, MessagesPlaced, Heard, BleKept, WaitEnds, HandlesReady,
   Beginning

LEMMA StartBegins == Init => TypeOK /\ StartInv
BY TypesStart, NothingYet DEF Init

LEMMA StartKept == TypeOK /\ StartInv /\ [Next]_vars => (TypeOK /\ StartInv)'
<1> SUFFICES ASSUME TypeOK, StartInv, [Next]_vars PROVE StartInv'
  BY TypesKept
<1>1. CASE AppMain
  BY <1>1, AppMainKeeps
<1>2. CASE Post
  BY <1>2, PostKeeps
<1>3. CASE EventTask \/ DriverAnswers \/ DriverLoses
  BY <1>3, EventsKeep
<1>4. CASE \E m \in Messages : PhoneWrites(m)
  BY <1>4, MessageKeeps
<1>5. CASE BleTask
  BY <1>5, BleKeeps
<1>6. CASE Network
  BY <1>6, NetworkKeeps
<1>7. CASE Restart
  <2>1. /\ main' = "hmi" /\ created' = {} /\ running' = {} /\ bleQueue' = <<>>
        /\ bleTask' = "receive" /\ has_pair_key' = FALSE /\ network' = "key"
        /\ crashed' = FALSE
    BY <1>7 DEF Restart
  <2> QED BY <2>1 DEF StartInv, HandlesPassed, TasksPassed, MessagesPlaced, Heard, BleKept,
             WaitEnds, HandlesReady, Beginning
<1>8. CASE UNCHANGED vars
  BY <1>8 DEF vars, flash, boot, air, ble, net, history, StartInv, HandlesPassed,
     TasksPassed, MessagesPlaced, Heard, BleKept, WaitEnds, HandlesReady
<1> QED
  BY <1>1, <1>2, <1>3, <1>4, <1>5, <1>6, <1>7, <1>8 DEF Next

\* The invariant is what is claimed, and more.
LEMMA StartInvImplies == StartInv => StartSafe
<1> SUFFICES ASSUME StartInv PROVE StartSafe
  OBVIOUS
<1>1. CanBeCommissioned
  <2> SUFFICES ASSUME main = "wait", bits = {}, wifi = "off", ~early, bleTask = "receive"
               PROVE  bleOn
    BY DEF CanBeCommissioned
  <2>1. ~has_pair_key
    BY DEF StartInv, WaitEnds
  <2>2. network = "key"
    BY <2>1 DEF StartInv, BleKept
  <2> QED BY <2>2 DEF StartInv, BleKept
<1> QED BY <1>1 DEF StartInv, StartSafe

\* No task and no message of a phone that is not early uses a handle that app_main
\* has not created; and app_main does not wait for credentials that nobody can give
\* any more: BLE is on, or what was heard is on its way.
THEOREM StartIsSafe == Spec => []StartSafe
<1>1. Init => TypeOK /\ StartInv
  BY StartBegins
<1>2. TypeOK /\ StartInv /\ [Next]_vars => (TypeOK /\ StartInv)'
  BY StartKept
<1>3. StartInv => StartSafe
  BY StartInvImplies
<1> QED BY <1>1, <1>2, <1>3, PTL DEF Spec


-----------------------------------------------------------------------------
(* The life of the link.                                                    *)

\* Before the call is set up, while it is waited for, while it is used, and after
\* the modem is back in command mode.
Before == {"power", "sync", "absent", "off"} \cup Elements(Opening) \cup Elements(Checking)
             \cup Dialling
Used == {"online"} \cup Leaving
Torn == {"ATH", "exit", "stopped", "deinit"}

NoLink == ppp = "dead" /\ ~pppBits /\ loop = <<>> /\ uart # "closing" /\ ~exit_sem /\ ~STOP_BIT
Closed == ppp = "dead" /\ loop = <<>> /\ uart # "closing"

\* The event that starts PPP is handled before the wait can end.
Waiting ==
    /\ uart # "closing" /\ ~STOP_BIT /\ (exit_sem => errors)
    /\ \/ loop = <<>> /\ ppp # "terminating"
       \/ loop = <<"START">> /\ ppp = "dead" /\ ~pppBits
    /\ mode # "ppp" => NoLink
    /\ pppBits => loop = <<>> /\ ppp \in {"up", "dead"}

Using ==
    /\ loop = <<>> /\ ppp \in {"up", "dead"}
    /\ uart # "closing" /\ ~STOP_BIT /\ (exit_sem => errors)

\* The event that stops it comes once; the semaphore is given after it.
Tearing ==
    /\ ppp # "connecting"
    /\ \/ loop = <<"STOP">> /\ ~STOP_BIT /\ uart # "closing" /\ ppp \in {"up", "dead"}
       \/ loop = <<>> /\ (uart = "closing" => ppp \in {"up", "dead"})
    /\ exit_sem => errors \/ Closed
    /\ pc \in {"stopped", "deinit"} => gaveUp \/ errors \/ Closed

LinkInv ==
    /\ pc \in Before => NoLink
    /\ pc = "wait" => Waiting
    /\ pc \in Used => Using
    /\ pc \in Torn => Tearing
    /\ pc \in Before => mode # "ppp"

-----------------------------------------------------------------------------
(* What is on its way, as long as no answer is late.                        *)

NoLine == rx = <<>> /\ uart # "call"
Quiet == answering = <<>> /\ NoLine /\ ~process_sem

\* One command is under way, and is in one place.
OneAnswer ==
    \/ Quiet
    \/ answering = <<pc>> /\ NoLine /\ ~process_sem
    \/ answering = <<>> /\ (\E l \in Lines : rx = <<l>>) /\ uart # "call" /\ ~process_sem
    \/ answering = <<>> /\ rx = <<>> /\ uart = "call" /\ call[1] = pc /\ ~process_sem
    \/ answering = <<>> /\ NoLine /\ process_sem

\* The modem has said that it is in data mode, and at most that it is not any more.
Gone == rx \in {<<>>, <<"NO CARRIER">>}
Connected ==
    /\ answering = <<>>
    /\ \/ /\ rx \in {<<"CONNECT">>, <<"CONNECT", "NO CARRIER">>} /\ uart # "call"
          /\ ~process_sem /\ (data => rx = <<"CONNECT">>)
       \/ /\ Gone /\ uart = "call" /\ call = <<pc, "CONNECT">>
          /\ ~process_sem /\ (data => rx = <<>>)
       \/ /\ Gone /\ (uart = "call" => call = <<pc, "NO CARRIER">>)
          /\ process_sem /\ state = "SUCCESS" /\ (data => NoLine)

\* It has not said so.
Unconnected ==
    /\ rx # <<"CONNECT">>
    /\ uart = "call" => call[2] # "CONNECT"
    /\ process_sem => state # "SUCCESS"

\* Dialling: the judgement is the right one.
Dialled ==
    /\ step \in {"ready", "installed", "timeout"} => Quiet /\ ~data /\ ~lost
    /\ step = "waiting" =>
          \/ (data \/ lost) /\ Connected
          \/ ~data /\ ~lost /\ OneAnswer /\ Unconnected
    /\ step = "judge" =>
          \/ /\ data \/ lost
             /\ answering = <<>> /\ Gone /\ (uart = "call" => call = <<pc, "NO CARRIER">>)
             /\ ~process_sem /\ state = "SUCCESS" /\ (data => NoLine)
          \/ ~data /\ ~lost /\ Quiet /\ state # "SUCCESS"

Speaking == ~data /\ ~lost /\ (IF step = "waiting" THEN OneAnswer ELSE Quiet)

InPpp == (data \/ lost) /\ answering = <<>> /\ (data => NoLine /\ ~process_sem)

InLeaving ==
    /\ Elements(answering) \subseteq Leaving
    /\ data => NoLine /\ ~process_sem /\ step # "judge"

InTorn == Elements(answering) \subseteq Leaving \cup {"ATH"} /\ ~data

InOrder ==
    /\ lost => ~data
    /\ pc \in Before \ Dialling => Speaking
    /\ pc \in Dialling => Dialled
    /\ pc = "wait" /\ mode # "ppp" => Quiet /\ ~data /\ ~lost
    /\ mode = "ppp" => InPpp
    /\ pc \in Leaving => InLeaving
    /\ pc \in Torn => InTorn

-----------------------------------------------------------------------------
(* The inductive invariant.                                                 *)

\* A handler is installed while a command is under way, and only then.
Handlers ==
    /\ mode = "ppp" => pc \in {"wait", "online"}
    /\ pc = "online" => mode = "ppp"
    /\ step # "ready" => pc \in Commands
    /\ step \in {"installed", "waiting"} => handle_line = pc
    /\ step \notin {"installed", "waiting"} => handle_line = "NULL"

ModemSwitches ==
    /\ reset \in BOOLEAN /\ process_sem \in BOOLEAN /\ exit_sem \in BOOLEAN
    /\ data \in BOOLEAN /\ pppBits \in BOOLEAN /\ STOP_BIT \in BOOLEAN
    /\ lost \in BOOLEAN /\ errors \in BOOLEAN /\ gaveUp \in BOOLEAN

ModemPlaces ==
    /\ pc \in Before \cup {"wait"} \cup Used \cup Torn
    /\ step \in {"ready", "installed", "waiting", "judge", "timeout"}
    /\ handle_line \in {"NULL"} \cup Commands
    /\ state \in {"PROCESSING", "SUCCESS", "FAIL"}
    /\ mode \in {"command", "transition", "ppp"}
    /\ uart \in {"run", "spin", "call", "closing"}
    /\ ppp \in {"dead", "connecting", "up", "terminating"}

ModemAmounts ==
    /\ attempts \in 0..(MaxSync - 1) /\ late \in 0..MaxLate
    /\ call \in {<<>>} \cup (Commands \X Lines) /\ (uart = "call" => call # <<>>)
    /\ answering \in Seq(Commands)
    /\ rx \in Seq(Lines) /\ Len(rx) <= MaxLines

Sound ==
    /\ ModemSwitches /\ ModemPlaces /\ ModemAmounts
    /\ Handlers
    /\ LinkInv

ModemInv == Sound /\ (late = 0 => InOrder)

\* What the proofs ask of the constants: the modem is spoken to at least once.
Sizes == MaxSync \in Nat \ {0} /\ MaxLate \in Nat /\ MaxLines \in Nat

-----------------------------------------------------------------------------
(* The commands and their order.                                            *)

Early == {"AT", "ATE0", "AT+CGMM", "AT+CGSN", "AT+CIMI", "AT+COPS?"}
Later == {"AT&W", "AT+CSQ", "AT+CBC", "AT+CGDCONT"}

LEMMA CommandsListed ==
    /\ Elements(Opening) = Early
    /\ Elements(Checking) = Later
    /\ Before = {"power", "sync", "absent", "off"} \cup Early \cup Later \cup Dialling
    /\ Commands = {"sync"} \cup Early \cup Later \cup Dialling \cup Leaving \cup {"ATH"}
<1>1. /\ DOMAIN Opening = 1..6
      /\ Opening[1] = "AT" /\ Opening[2] = "ATE0" /\ Opening[3] = "AT+CGMM"
      /\ Opening[4] = "AT+CGSN" /\ Opening[5] = "AT+CIMI" /\ Opening[6] = "AT+COPS?"
  BY DEF Opening
<1>2. /\ DOMAIN Checking = 1..4
      /\ Checking[1] = "AT&W" /\ Checking[2] = "AT+CSQ" /\ Checking[3] = "AT+CBC"
      /\ Checking[4] = "AT+CGDCONT"
  BY DEF Checking
<1>3. Elements(Opening) = Early
  BY <1>1 DEF Elements, Early
<1>4. Elements(Checking) = Later
  BY <1>2 DEF Elements, Later
<1> QED BY <1>3, <1>4 DEF Before, Commands

\* The command after one of a list is one of the list, or what comes after it.
LEMMA AfterListed ==
    /\ \A c \in Early : After(c, Opening, "AT&W") \in Early \cup {"AT&W"}
    /\ \A c \in Later : After(c, Checking, "ATD*99#") \in Later \cup {"ATD*99#"}
<1>1. ASSUME NEW s, NEW n \in Nat, DOMAIN s = 1..n, Len(s) = n, NEW c \in Elements(s), NEW then
      PROVE  After(c, s, then) \in Elements(s) \cup {then}
  <2>1. \E j \in DOMAIN s : s[j] = c
    BY <1>1 DEF Elements
  <2>2. PICK i \in DOMAIN s : i = CHOOSE j \in DOMAIN s : s[j] = c
    BY <2>1
  <2>3. i # n => i + 1 \in DOMAIN s
    BY <1>1, <2>2
  <2> QED BY <1>1, <2>2, <2>3 DEF After, Elements
<1>2. DOMAIN Opening = 1..6 /\ Len(Opening) = 6 /\ DOMAIN Checking = 1..4 /\ Len(Checking) = 4
  BY DEF Opening, Checking
<1>3. \A c \in Elements(Opening) :
         After(c, Opening, "AT&W") \in Elements(Opening) \cup {"AT&W"}
  BY <1>1, <1>2
<1>4. \A c \in Elements(Checking) :
         After(c, Checking, "ATD*99#") \in Elements(Checking) \cup {"ATD*99#"}
  BY <1>1, <1>2
<1> QED BY <1>3, <1>4, CommandsListed

\* What the handlers make of a line, and what the modem says to a command.
LEMMA Finals ==
    /\ \A c, l : Final(c, l) \in {"SUCCESS", "FAIL", "none"}
    /\ \A c \in Dialling : /\ Final(c, "CONNECT") = "SUCCESS"
                           /\ Final(c, "NO CARRIER") = "none"
                           /\ \A l : Final(c, l) = "SUCCESS" => l = "CONNECT"
BY DEF Final, Dialling

LEMMA AnswersListed ==
    /\ \A c : Answers(c) \subseteq Lines
    /\ \A c : "CONNECT" \in Answers(c) => c \in Dialling
BY DEF Answers, Lines, Dialling

-----------------------------------------------------------------------------
(* Types.                                                                   *)

LEMMA ModemSwitchesKept == ModemSwitches /\ [ModemNext]_modemVars => ModemSwitches'
<1> SUFFICES ASSUME ModemSwitches, [ModemNext]_modemVars PROVE ModemSwitches'
  OBVIOUS
<1> USE DEF command, uartTask, modem, link, modemHistory, GoesOn
<1>1. CASE Sending
  BY <1>1 DEF Sending, Install, Send, Take, Timeout, ModemSwitches
<1>2. CASE \E next : Again(next)
  BY <1>2 DEF Again, ModemSwitches
<1>3. CASE PowerUp \/ SyncOk \/ SyncAgain \/ Absent \/ OpeningOk \/ CheckingOk \/ DialAgain
           \/ DialOk \/ DialFails \/ Stop \/ Resync \/ CommandMode \/ HangUp
  <2>1. UNCHANGED <<reset, process_sem, exit_sem, data, pppBits, STOP_BIT, lost, errors, gaveUp>>
    BY <1>3 DEF PowerUp, SyncOk, SyncAgain, Absent, OpeningOk, CheckingOk, DialAgain, DialOk,
       DialFails, Stop, Resync, CommandMode, HangUp
  <2> QED BY <2>1 DEF ModemSwitches
<1>4. CASE SyncReset \/ WaitOver \/ Exit \/ Stopped
  BY <1>4 DEF SyncReset, WaitOver, Exit, Stopped, ModemSwitches
<1>5. CASE UartDrops \/ UartSpins \/ UartSpinFull \/ UartLine \/ UartCall
  BY <1>5 DEF UartDrops, UartSpins, UartSpinFull, UartLine, UartCall, ModemSwitches
<1>6. CASE UartStarts \/ UartStops \/ UartCloses
  BY <1>6 DEF UartStarts, UartStops, UartCloses, ModemSwitches
<1>7. CASE PppUp \/ PppEnds \/ PppClosed
  BY <1>7 DEF PppUp, PppEnds, PppClosed, ModemSwitches
<1>8. CASE ModemAnswers
  <2>1. /\ UNCHANGED <<reset, process_sem, exit_sem, pppBits, STOP_BIT, lost, errors, gaveUp>>
        /\ data' = data \/ \E l : data' = (l = "CONNECT")
    BY <1>8 DEF ModemAnswers
  <2> QED BY <2>1 DEF ModemSwitches
<1>9. CASE ModemLoses
  BY <1>9 DEF ModemLoses, ModemSwitches
<1>10. CASE UNCHANGED modemVars
  BY <1>10 DEF modemVars, ModemSwitches
<1>11. CheckingFails \/ StopFails \/ Deinit \/ UartCallsNull => \E next : Again(next)
  BY DEF CheckingFails, StopFails, Deinit, UartCallsNull, ModemRestart
<1> QED
  BY <1>1, <1>2, <1>3, <1>4, <1>5, <1>6, <1>7, <1>8, <1>9, <1>10, <1>11
     DEF ModemNext, SimInit, SimDenit, Uart

LEMMA ModemPlacesKept == ModemPlaces /\ Handlers /\ [ModemNext]_modemVars => ModemPlaces'
<1> SUFFICES ASSUME ModemPlaces, Handlers, [ModemNext]_modemVars PROVE ModemPlaces'
  OBVIOUS
<1> USE DEF command, uartTask, modem, link, modemHistory, GoesOn
<1>0. /\ pc \in Early => pc \in Before /\ pc \in Commands
      /\ pc \in Later => pc \in Before /\ pc \in Commands
      /\ Early \cup Later \cup Dialling \cup {"power", "sync", "absent", "off"} = Before
      /\ Elements(Opening) = Early /\ Elements(Checking) = Later
  BY CommandsListed
<1>1. CASE \E c \in Commands : Install(c)
  BY <1>1 DEF Install, ModemPlaces
<1>2. CASE Send \/ Take \/ Timeout
  BY <1>2 DEF Send, Take, Timeout, ModemPlaces
<1>3. CASE \E next \in {"power", "off"} : Again(next)
  BY <1>0, <1>3 DEF Again, ModemPlaces
<1>4. CASE PowerUp \/ SyncOk \/ SyncAgain \/ SyncReset \/ Absent \/ OpeningOk \/ CheckingOk
           \/ DialAgain
  <2>1. /\ UNCHANGED <<handle_line, state, uart, ppp>> /\ step' = "ready"
        /\ mode' \in {mode, "transition"}
    BY <1>4 DEF PowerUp, SyncOk, SyncAgain, SyncReset, Absent, OpeningOk, CheckingOk, DialAgain
  <2>2. CASE PowerUp \/ SyncOk \/ SyncAgain \/ SyncReset \/ Absent \/ DialAgain
    <3>1. pc' \in {"sync", "absent", "AT", "ATO"}
      BY <2>2 DEF PowerUp, SyncOk, SyncAgain, SyncReset, Absent, DialAgain
    <3> QED BY <1>0, <2>1, <3>1 DEF ModemPlaces, Early, Dialling
  <2>3. CASE OpeningOk
    <3>1. pc' \in Early \cup {"AT&W"}
      BY <1>0, <2>3, AfterListed DEF OpeningOk
    <3> QED BY <1>0, <2>1, <3>1 DEF ModemPlaces, Later
  <2>4. CASE CheckingOk
    <3>1. pc' \in Later \cup {"ATD*99#"}
      BY <1>0, <2>4, AfterListed DEF CheckingOk
    <3> QED BY <1>0, <2>1, <3>1 DEF ModemPlaces, Dialling
  <2> QED BY <1>4, <2>2, <2>3, <2>4
<1>5. CASE DialOk \/ DialFails \/ WaitOver \/ Stop \/ Resync \/ CommandMode \/ HangUp \/ Exit
           \/ Stopped
  <2>1. UNCHANGED <<handle_line, state, uart, ppp>> /\ step' = "ready"
        /\ mode' \in {mode, "ppp", "command", "transition"}
    BY <1>5 DEF DialOk, DialFails, WaitOver, Stop, Resync, CommandMode, HangUp, Exit, Stopped
  <2>2. pc' \in {"wait", "online", "ATH", "exit", "stopped", "deinit"} \cup Leaving
    BY <1>5 DEF DialOk, DialFails, WaitOver, Stop, Resync, CommandMode, HangUp, Exit, Stopped,
       Leaving
  <2> QED BY <2>1, <2>2 DEF ModemPlaces, Used, Torn
<1>6. CASE UartDrops \/ UartSpins \/ UartSpinFull \/ UartLine
  BY <1>6 DEF UartDrops, UartSpins, UartSpinFull, UartLine, ModemPlaces
<1>7. CASE UartCall
  BY <1>7, Finals DEF UartCall, ModemPlaces
<1>8. CASE UartStarts \/ UartStops \/ UartCloses
  BY <1>8 DEF UartStarts, UartStops, UartCloses, ModemPlaces
<1>9. CASE PppUp \/ PppEnds \/ PppClosed
  BY <1>9 DEF PppUp, PppEnds, PppClosed, ModemPlaces
<1>10. CASE ModemAnswers \/ ModemLoses
  BY <1>10 DEF ModemAnswers, ModemLoses, ModemPlaces
<1>11. CASE UNCHANGED modemVars
  BY <1>11 DEF modemVars, ModemPlaces
<1>12. CheckingFails \/ StopFails \/ Deinit \/ UartCallsNull
          => \E next \in {"power", "off"} : Again(next)
  BY DEF CheckingFails, StopFails, Deinit, UartCallsNull, ModemRestart
<1> QED
  BY <1>1, <1>2, <1>3, <1>4, <1>5, <1>6, <1>7, <1>8, <1>9, <1>10, <1>11, <1>12
     DEF ModemNext, Sending, SimInit, SimDenit, Uart

\* A handler is installed and removed by the task that sends the command.
LEMMA HandlersKept == ModemPlaces /\ Handlers /\ LinkInv /\ [ModemNext]_modemVars => Handlers'
<1> SUFFICES ASSUME ModemPlaces, Handlers, LinkInv, [ModemNext]_modemVars PROVE Handlers'
  OBVIOUS
<1> USE DEF command, uartTask, modem, link, modemHistory, GoesOn
<1>0. /\ Elements(Opening) = Early /\ Elements(Checking) = Later
      /\ Early \cup Later \cup Dialling \cup {"sync"} \subseteq Before
      /\ "power" \in Before
      /\ \A p \in Before : p \notin {"wait", "online"}
      /\ \A p \in Commands : p \notin {"power", "wait", "online", "exit", "stopped", "deinit"}
  BY CommandsListed DEF Early, Later, Dialling, Leaving
<1>10. step # "ready" => pc \in Commands
  BY DEF Handlers
<1>1. CASE \E c \in Commands : Install(c)
  BY <1>1 DEF Install, Handlers
<1>2. CASE Send \/ Take \/ Timeout
  BY <1>2 DEF Send, Take, Timeout, Handlers
<1>3. CASE \E next \in {"power", "off"} : Again(next)
  BY <1>3 DEF Again, Handlers
<1>4. CASE PowerUp \/ SyncOk \/ SyncAgain \/ SyncReset \/ Absent \/ OpeningOk \/ CheckingOk
           \/ DialAgain
  <2>1. /\ UNCHANGED handle_line /\ step' = "ready" /\ mode' \in {mode, "transition"}
    BY <1>4 DEF PowerUp, SyncOk, SyncAgain, SyncReset, Absent, OpeningOk, CheckingOk, DialAgain
  <2>3. pc \in Before
    BY <1>0, <1>4 DEF PowerUp, SyncOk, SyncAgain, SyncReset, Absent, OpeningOk, CheckingOk,
       DialAgain, Succeeds, Fails, Synced, Dialling
  <2>4. step \notin {"installed", "waiting"}
    BY <1>0, <1>10, <1>4 DEF PowerUp, SyncOk, SyncAgain, SyncReset, Absent, OpeningOk, CheckingOk,
       DialAgain, Succeeds, Fails, Synced
  <2>2. pc' # "online"
    BY <1>0, <1>4, AfterListed DEF PowerUp, SyncOk, SyncAgain, SyncReset, Absent, OpeningOk,
       CheckingOk, DialAgain, Early, Later
  <2> QED BY <1>0, <2>1, <2>2, <2>3, <2>4 DEF Handlers, LinkInv
<1>5. CASE DialOk \/ DialFails \/ Stop \/ Resync \/ CommandMode \/ HangUp \/ Exit
           \/ Stopped
  <2>1. UNCHANGED handle_line /\ step' = "ready" /\ pc' # "online"
    BY <1>5 DEF DialOk, DialFails, Stop, Resync, CommandMode, HangUp, Exit, Stopped
  <2>2. step \notin {"installed", "waiting"}
    BY <1>0, <1>10, <1>5 DEF DialOk, DialFails, Stop, Resync, CommandMode, HangUp, Exit, Stopped,
       Succeeds, Fails
  <2>3. mode' = "ppp" => pc' = "wait" \/ (mode = "ppp" /\ pc \notin {"wait", "online"})
    BY <1>5 DEF DialOk, DialFails, Stop, Resync, CommandMode, HangUp, Exit, Stopped, Succeeds,
       Fails
  <2> QED BY <2>1, <2>2, <2>3 DEF Handlers
<1>6. CASE WaitOver
  <2>1. mode = "ppp" /\ step = "ready"
    BY <1>0, <1>10, <1>6 DEF WaitOver, LinkInv, Waiting, NoLink
  <2> QED BY <1>6, <2>1 DEF WaitOver, Handlers
<1>7. CASE UartDrops \/ UartSpins \/ UartSpinFull \/ UartLine \/ UartCall
           \/ UartStarts \/ UartStops \/ UartCloses \/ PppUp \/ PppEnds \/ PppClosed
           \/ ModemAnswers \/ ModemLoses
  <2>1. UNCHANGED <<pc, step, mode, handle_line>>
    BY <1>7 DEF UartDrops, UartSpins, UartSpinFull, UartLine, UartCall, UartStarts, UartStops,
       UartCloses, PppUp, PppEnds, PppClosed, ModemAnswers, ModemLoses
  <2> QED BY <2>1 DEF Handlers
<1>8. CASE UNCHANGED modemVars
  BY <1>8 DEF modemVars, Handlers
<1>9. CheckingFails \/ StopFails \/ Deinit \/ UartCallsNull
          => \E next \in {"power", "off"} : Again(next)
  BY DEF CheckingFails, StopFails, Deinit, UartCallsNull, ModemRestart
<1> QED
  BY <1>1, <1>2, <1>3, <1>4, <1>5, <1>6, <1>7, <1>8, <1>9
     DEF ModemNext, Sending, SimInit, SimDenit, Uart

LEMMA ModemAmountsKept ==
    ASSUME Sizes, ModemAmounts, ModemPlaces, Handlers, [ModemNext]_modemVars
    PROVE  ModemAmounts'
<1> USE DEF command, uartTask, modem, link, modemHistory, GoesOn
<1>0. MaxSync - 1 \in Nat /\ MaxLate \in Nat /\ MaxLines \in Nat
  BY DEF Sizes
<1>1. CASE \E c \in Commands : Install(c)
  BY <1>1 DEF Install, ModemAmounts
<1>2. CASE Send
  <2>1. pc \in Commands
    BY <1>2 DEF Send, Handlers
  <2>2. Append(answering, pc) \in Seq(Commands)
    BY <2>1, AppendProperties DEF ModemAmounts
  <2> QED BY <1>2, <2>2 DEF Send, ModemAmounts
<1>3. CASE Take \/ Timeout
  BY <1>0, <1>3 DEF Take, Timeout, ModemAmounts
<1>4. CASE \E next : Again(next)
  BY <1>0, <1>4 DEF Again, ModemAmounts
<1>5. CASE PowerUp \/ SyncOk \/ Absent \/ OpeningOk \/ CheckingOk
           \/ DialAgain \/ DialOk \/ DialFails \/ WaitOver \/ Stop \/ Resync \/ HangUp \/ Exit
           \/ Stopped
  <2>1. UNCHANGED <<attempts, late, call, uart, answering, rx>>
    BY <1>5 DEF PowerUp, SyncOk, Absent, OpeningOk, CheckingOk, DialAgain, DialOk, DialFails,
       WaitOver, Stop, Resync, HangUp, Exit, Stopped
  <2> QED BY <2>1 DEF ModemAmounts
<1>6. CASE SyncAgain
  BY <1>0, <1>6 DEF SyncAgain, ModemAmounts
<1>7. CASE SyncReset
  BY <1>0, <1>7 DEF SyncReset, ModemAmounts
<1>8. CASE CommandMode
  BY <1>0, <1>8 DEF CommandMode, ModemAmounts
<1>9. CASE UartDrops \/ UartLine
  <2>1. rx # <<>> /\ rx' = Tail(rx) /\ UNCHANGED <<attempts, late, answering>>
    BY <1>9 DEF UartDrops, UartLine
  <2>2. Head(rx) \in Lines /\ rx' \in Seq(Lines) /\ Len(rx') <= MaxLines
    BY <1>0, <2>1, HeadTailProperties DEF ModemAmounts
  <2>3. CASE UartDrops
    BY <2>1, <2>2, <2>3 DEF UartDrops, ModemAmounts
  <2>4. CASE UartLine
    <3>1. call' = <<handle_line, Head(rx)>> /\ handle_line \in Commands
      BY <2>4 DEF UartLine, ModemPlaces
    <3>2. call' \in Commands \X Lines /\ call' # <<>>
      BY <2>2, <3>1
    <3> QED BY <2>1, <2>2, <3>2 DEF ModemAmounts
  <2> QED BY <1>9, <2>3, <2>4
<1>10. CASE UartSpins \/ UartSpinFull \/ UartCall \/ UartStarts \/ UartStops \/ UartCloses
  <2>1. UNCHANGED <<attempts, late, answering, rx>> /\ uart' # "call" /\ call' \in {call, <<>>}
    BY <1>10 DEF UartSpins, UartSpinFull, UartCall, UartStarts, UartStops, UartCloses
  <2> QED BY <2>1 DEF ModemAmounts
<1>11. CASE PppUp \/ PppEnds \/ PppClosed
  BY <1>11 DEF PppUp, PppEnds, PppClosed, ModemAmounts
<1>12. CASE ModemAnswers
  <2>1. Tail(answering) \in Seq(Commands) /\ <<>> \in Seq(Commands)
    BY <1>12, HeadTailProperties DEF ModemAnswers, ModemAmounts
  <2>2. rx' = rx \/ \E l \in Lines : rx' = Append(rx, l)
    BY <1>12, AnswersListed DEF ModemAnswers
  <2>3. Len(rx) < MaxLines /\ UNCHANGED <<attempts, late, call, uart>>
        /\ (answering' = Tail(answering) \/ answering' = <<>>)
    BY <1>12 DEF ModemAnswers
  <2>4. rx' \in Seq(Lines) /\ Len(rx') <= MaxLines
    BY <1>0, <2>2, <2>3, AppendProperties DEF ModemAmounts
  <2> QED BY <2>1, <2>3, <2>4 DEF ModemAmounts
<1>13. CASE ModemLoses
  <2>1. Len(rx) < MaxLines /\ UNCHANGED <<attempts, late, call, uart, answering>>
    BY <1>13 DEF ModemLoses
  <2>2. \E l \in Lines : rx' = Append(rx, l)
    BY <1>13 DEF ModemLoses, Lines
  <2>3. rx' \in Seq(Lines) /\ Len(rx') <= MaxLines
    BY <1>0, <2>1, <2>2, AppendProperties DEF ModemAmounts
  <2> QED BY <2>1, <2>3 DEF ModemAmounts
<1>14. CASE UNCHANGED modemVars
  BY <1>14 DEF modemVars, ModemAmounts
<1>15. CheckingFails \/ StopFails \/ Deinit \/ UartCallsNull => \E next : Again(next)
  BY DEF CheckingFails, StopFails, Deinit, UartCallsNull, ModemRestart
<1> QED
  BY <1>1, <1>2, <1>3, <1>4, <1>5, <1>6, <1>7, <1>8, <1>9, <1>10, <1>11, <1>12, <1>13, <1>14,
     <1>15 DEF ModemNext, Sending, SimInit, SimDenit, Uart

-----------------------------------------------------------------------------
(* The link.                                                                *)

\* The phases exclude each other.
LEMMA Phases ==
    /\ \A p \in Before : p # "wait" /\ p \notin Used /\ p \notin Torn
    /\ \A p \in Used : p # "wait" /\ p \notin Before /\ p \notin Torn
    /\ \A p \in Torn : p # "wait" /\ p \notin Before /\ p \notin Used
    /\ "wait" \notin Before /\ "wait" \notin Used /\ "wait" \notin Torn
    /\ {"power", "sync", "absent", "off", "ATD*99#", "ATO"} \cup Early \cup Later = Before
    /\ {"online", "+++", "resync"} = Used /\ {"ATH", "exit", "stopped", "deinit"} = Torn
    /\ Dialling \subseteq Before
BY CommandsListed DEF Early, Later, Dialling, Used, Torn, Leaving

\* Each step of the link is a step of the phase that the network task is in.
LEMMA LinkKept ==
    ASSUME ModemPlaces, Handlers, LinkInv, [ModemNext]_modemVars
    PROVE  LinkInv'
<1> USE DEF command, uartTask, modem, link, modemHistory, GoesOn
<1>0. pc \in Before \/ pc = "wait" \/ pc \in Used \/ pc \in Torn
  BY DEF ModemPlaces
<1>1. ASSUME UNCHANGED <<pc, mode, loop, ppp, pppBits, exit_sem, STOP_BIT, errors, gaveUp>>,
             uart' = "closing" <=> uart = "closing"
      PROVE  LinkInv'
  BY <1>1 DEF LinkInv, NoLink, Waiting, Using, Tearing, Closed
<1>2. CASE Sending
  BY <1>1, <1>2 DEF Sending, Install, Send, Take, Timeout
<1>3. CASE \E next \in {"power", "off"} : Again(next)
  BY <1>3, Phases DEF Again, LinkInv, NoLink
<1>4. CASE PowerUp \/ SyncOk \/ SyncAgain \/ SyncReset \/ Absent \/ OpeningOk \/ CheckingOk
           \/ DialAgain
  <2>1. UNCHANGED <<loop, uart, ppp, pppBits, exit_sem, STOP_BIT>> /\ mode' \in {mode, "transition"}
    BY <1>4 DEF PowerUp, SyncOk, SyncAgain, SyncReset, Absent, OpeningOk, CheckingOk, DialAgain
  <2>2. pc \in Before
    BY <1>4, Phases, CommandsListed DEF PowerUp, SyncOk, SyncAgain, SyncReset, Absent, OpeningOk,
       CheckingOk, DialAgain, Succeeds, Fails, Synced
  <2>3. pc' \in Before
    <3>1. CASE PowerUp \/ SyncOk \/ SyncAgain \/ SyncReset \/ Absent \/ DialAgain
      BY <3>1, Phases DEF PowerUp, SyncOk, SyncAgain, SyncReset, Absent, DialAgain, Early
    <3>2. CASE OpeningOk
      BY <3>2, Phases, CommandsListed, AfterListed DEF OpeningOk, Later
    <3>3. CASE CheckingOk
      BY <3>3, Phases, CommandsListed, AfterListed DEF CheckingOk
    <3> QED BY <1>4, <3>1, <3>2, <3>3
  <2> QED BY <2>1, <2>2, <2>3, Phases DEF LinkInv, NoLink
<1>5. CASE DialOk
  <2>1. pc \in Before /\ pc' = "wait" /\ mode' = "ppp" /\ loop' = Append(loop, "START")
        /\ UNCHANGED <<uart, ppp, pppBits, exit_sem, STOP_BIT>>
    BY <1>5, Phases DEF DialOk, Succeeds
  <2>2. NoLink /\ loop' = <<"START">>
    BY <2>1 DEF LinkInv, NoLink
  <2> QED BY <2>1, <2>2, Phases DEF LinkInv, NoLink, Waiting
<1>6. CASE DialFails
  <2>1. pc \in Before /\ pc' = "wait" /\ mode' = "command"
        /\ UNCHANGED <<loop, uart, ppp, pppBits, exit_sem, STOP_BIT>>
    BY <1>6, Phases DEF DialFails, Fails, Later
  <2>2. NoLink
    BY <2>1 DEF LinkInv
  <2> QED BY <2>1, <2>2, Phases DEF LinkInv, NoLink, Waiting
<1>7. CASE WaitOver
  BY <1>7, Phases DEF WaitOver, LinkInv, Waiting, Using, NoLink
<1>8. CASE Stop \/ Resync
  <2>1. pc \in Used /\ pc' \in Used /\ UNCHANGED <<loop, uart, ppp, exit_sem, STOP_BIT, errors>>
    BY <1>8, Phases DEF Stop, Resync
  <2> QED BY <2>1, Phases DEF LinkInv, Using
<1>9. CASE CommandMode
  <2>1. pc \in Used /\ pc' = "ATH" /\ loop' = Append(loop, "STOP")
        /\ UNCHANGED <<uart, ppp, exit_sem, STOP_BIT, errors>>
    BY <1>9, Phases DEF CommandMode, Succeeds
  <2>2. Using /\ loop' = <<"STOP">>
    BY <2>1 DEF LinkInv, Using
  <2> QED BY <2>1, <2>2, Phases DEF LinkInv, Using, Tearing
<1>10. CASE HangUp \/ Exit \/ Stopped
  <2>1. pc \in Torn /\ pc' \in Torn /\ UNCHANGED <<loop, uart, ppp, errors>>
    BY <1>10, Phases DEF HangUp, Exit, Stopped, Succeeds
  <2>2. Tearing
    BY <2>1 DEF LinkInv
  <2>3. Tearing'
    <3>1. CASE HangUp
      <4>1. pc' = "exit" /\ UNCHANGED <<exit_sem, STOP_BIT>>
        BY <3>1 DEF HangUp
      <4> QED BY <2>1, <2>2, <4>1 DEF Tearing, Closed
    <3>2. CASE Exit
      <4>1. pc' = "stopped" /\ ~exit_sem' /\ UNCHANGED STOP_BIT /\ (gaveUp' \/ exit_sem)
        BY <3>2 DEF Exit
      <4> QED BY <2>1, <2>2, <4>1 DEF Tearing, Closed
    <3>3. CASE Stopped
      <4>1. pc = "stopped" /\ ~STOP_BIT' /\ UNCHANGED <<exit_sem, gaveUp>>
        BY <3>3 DEF Stopped
      <4> QED BY <2>1, <2>2, <4>1 DEF Tearing, Closed
    <3> QED BY <1>10, <3>1, <3>2, <3>3
  <2> QED BY <2>1, <2>3, Phases DEF LinkInv
<1>11. CASE UartDrops \/ UartSpins \/ UartSpinFull \/ UartLine \/ UartCall
            \/ ModemAnswers \/ ModemLoses
  BY <1>1, <1>11 DEF UartDrops, UartSpins, UartSpinFull, UartLine, UartCall, ModemAnswers,
     ModemLoses
<1>12. CASE UartStarts
  <2>1. UNCHANGED <<pc, mode, pppBits, uart, exit_sem, STOP_BIT, errors>> /\ ppp' = "connecting"
        /\ Head(loop) = "START" /\ loop # <<>> /\ loop' = Tail(loop) /\ uart = "run"
    BY <1>12 DEF UartStarts
  <2>2. pc = "wait"
    BY <1>0, <2>1 DEF LinkInv, NoLink, Using, Tearing
  <2>3. Waiting /\ loop = <<"START">> /\ loop' = <<>>
    BY <2>1, <2>2 DEF LinkInv, Waiting, NoLink
  <2>4. Waiting'
    BY <2>1, <2>3 DEF Waiting, NoLink
  <2> QED BY <2>1, <2>2, <2>4, Phases DEF LinkInv
<1>13. CASE UartStops
  <2>1. UNCHANGED <<pc, mode, pppBits, ppp, exit_sem, errors, gaveUp>> /\ STOP_BIT' = TRUE
        /\ Head(loop) = "STOP" /\ loop # <<>> /\ loop' = Tail(loop) /\ uart' = "closing"
    BY <1>13 DEF UartStops
  <2>2. pc \in Torn
    BY <1>0, <2>1 DEF LinkInv, NoLink, Using, Waiting
  <2>3. Tearing /\ loop = <<"STOP">> /\ loop' = <<>>
    BY <2>1, <2>2 DEF LinkInv, Tearing
  <2>4. Tearing'
    BY <2>1, <2>3 DEF Tearing, Closed
  <2> QED BY <2>1, <2>2, <2>4, Phases DEF LinkInv
<1>14. CASE UartCloses
  <2>1. UNCHANGED <<pc, mode, pppBits, loop, STOP_BIT, errors, gaveUp>>
        /\ uart = "closing" /\ uart' = "run"
    BY <1>14 DEF UartCloses
  <2>2. pc \in Torn
    BY <1>0, <2>1 DEF LinkInv, NoLink, Using, Waiting
  <2>3. Tearing /\ loop = <<>>
    BY <2>1, <2>2 DEF LinkInv, Tearing
  <2>4. Tearing'
    BY <1>14, <2>1, <2>3 DEF UartCloses, Tearing, Closed
  <2> QED BY <2>1, <2>2, <2>4, Phases DEF LinkInv
<1>15. CASE PppUp \/ PppEnds \/ PppClosed
  <2>1. UNCHANGED <<pc, mode, loop, uart, STOP_BIT, gaveUp>>
    BY <1>15 DEF PppUp, PppEnds, PppClosed
  <2>2. CASE pc \in Before
    BY <1>15, <2>2 DEF LinkInv, NoLink, PppUp, PppEnds, PppClosed
  <2>3. CASE pc = "wait"
    <3>1. Waiting
      BY <2>3 DEF LinkInv
    <3>2. Waiting'
      BY <1>15, <2>1, <3>1 DEF Waiting, NoLink, PppUp, PppEnds, PppClosed
    <3> QED BY <2>1, <2>3, <3>2, Phases DEF LinkInv
  <2>4. CASE pc \in Used
    <3>1. Using
      BY <2>4 DEF LinkInv
    <3>2. Using'
      BY <1>15, <2>1, <3>1 DEF Using, PppUp, PppEnds, PppClosed
    <3> QED BY <2>1, <2>4, <3>2, Phases DEF LinkInv
  <2>5. CASE pc \in Torn
    <3>1. Tearing
      BY <2>5 DEF LinkInv
    <3>2. Tearing'
      BY <1>15, <2>1, <3>1 DEF Tearing, Closed, PppUp, PppEnds, PppClosed
    <3> QED BY <2>1, <2>5, <3>2, Phases DEF LinkInv
  <2> QED BY <1>0, <2>2, <2>3, <2>4, <2>5
<1>16. CASE UNCHANGED modemVars
  BY <1>1, <1>16 DEF modemVars
<1>17. CheckingFails \/ StopFails \/ Deinit \/ UartCallsNull
          => \E next \in {"power", "off"} : Again(next)
  BY DEF CheckingFails, StopFails, Deinit, UartCallsNull, ModemRestart
<1> QED
  BY <1>2, <1>3, <1>4, <1>5, <1>6, <1>7, <1>8, <1>9, <1>10, <1>11, <1>12, <1>13, <1>14, <1>15,
     <1>16, <1>17 DEF ModemNext, SimInit, SimDenit, Uart

-----------------------------------------------------------------------------
(* The order of the answers.                                                *)

LEMMA ShortSequences ==
    /\ \A x : Append(<<>>, x) = <<x>>
    /\ \A x : Head(<<x>>) = x /\ Tail(<<x>>) = <<>> /\ <<x>> # <<>>
    /\ \A x, y : <<x>> = <<y>> => x = y
    /\ \A x, y : Head(<<x, y>>) = x /\ Tail(<<x, y>>) = <<y>> /\ <<x, y>> # <<>>
    /\ \A x, y : Append(<<x>>, y) = <<x, y>>
    /\ \A x, y, z : <<z>> # <<x, y>>
<1>1. \A x : Append(<<>>, x) = <<x>>
  OBVIOUS
<1>2. \A x : Head(<<x>>) = x /\ Tail(<<x>>) = <<>> /\ <<x>> # <<>>
  OBVIOUS
<1>3. \A x, y : <<x>> = <<y>> => x = y
  OBVIOUS
<1>4. \A x, y : Head(<<x, y>>) = x /\ Tail(<<x, y>>) = <<y>> /\ <<x, y>> # <<>>
  OBVIOUS
<1>5. ASSUME NEW x, NEW y
      PROVE  Append(<<x>>, y) = <<x, y>>
  <2>1. <<x>> \in Seq({x, y}) /\ <<x, y>> \in Seq({x, y}) /\ Len(<<x>>) = 1 /\ Len(<<x, y>>) = 2
    OBVIOUS
  <2>2. /\ Append(<<x>>, y) \in Seq({x, y}) /\ Len(Append(<<x>>, y)) = 2
        /\ Append(<<x>>, y)[1] = <<x>>[1] /\ Append(<<x>>, y)[2] = y
    BY <2>1, AppendProperties
  <2>3. \A i \in 1..2 : Append(<<x>>, y)[i] = <<x, y>>[i]
    BY <2>2
  <2> QED BY <2>1, <2>2, <2>3, SeqEqual
<1>6. \A x, y, z : <<z>> # <<x, y>>
  OBVIOUS
<1> QED BY <1>1, <1>2, <1>3, <1>4, <1>5, <1>6

\* The elements of what is left, and of what has one more.
LEMMA ElementsKept ==
    ASSUME NEW S, NEW s \in Seq(S)
    PROVE  /\ s # <<>> => Elements(Tail(s)) \subseteq Elements(s) /\ Head(s) \in Elements(s)
           /\ \A x \in S : Elements(Append(s, x)) \subseteq Elements(s) \cup {x}
           /\ Elements(<<>>) = {}
<1>1. ASSUME s # <<>>
      PROVE  Elements(Tail(s)) \subseteq Elements(s) /\ Head(s) \in Elements(s)
  <2>1. /\ DOMAIN Tail(s) = 1..(Len(s) - 1) /\ DOMAIN s = 1..Len(s) /\ Len(s) \in Nat \ {0}
        /\ \A i \in 1..(Len(s) - 1) : Tail(s)[i] = s[i + 1]
        /\ Head(s) = s[1]
    BY <1>1, HeadTailProperties, LenProperties, EmptySeq
  <2> QED BY <2>1 DEF Elements
<1>2. ASSUME NEW x \in S
      PROVE  Elements(Append(s, x)) \subseteq Elements(s) \cup {x}
  <2>1. /\ DOMAIN Append(s, x) = 1..(Len(s) + 1) /\ DOMAIN s = 1..Len(s) /\ Len(s) \in Nat
        /\ \A i \in 1..Len(s) : Append(s, x)[i] = s[i]
        /\ Append(s, x)[Len(s) + 1] = x
    BY AppendProperties, LenProperties
  <2> QED BY <2>1 DEF Elements
<1>3. Elements(<<>>) = {}
  BY DEF Elements
<1> QED BY <1>1, <1>2, <1>3

LEMMA PhasesApart ==
    /\ \A p \in Before : p \notin Leaving /\ p \notin Torn /\ p \notin {"wait", "online"}
    /\ \A p \in Leaving : p \notin Before /\ p \notin Torn /\ p \notin {"wait", "online"}
    /\ \A p \in Torn : p \notin Before /\ p \notin Leaving /\ p \notin {"wait", "online"}
    /\ {"wait", "online"} \cap (Before \cup Leaving \cup Torn) = {}
    /\ Dialling \subseteq Before /\ Dialling \subseteq Commands
    /\ \A p \in Commands : p \in Before \/ p \in Leaving \/ p = "ATH"
    /\ \A p \in Commands : p \notin {"wait", "online", "exit", "stopped", "deinit", "power"}
BY CommandsListed DEF Early, Later, Dialling, Leaving, Torn

\* A step of the UART or of the link that has nothing to do with lines.
LEMMA OrderStays ==
    ASSUME InOrder,
           UNCHANGED <<pc, step, state, process_sem, mode, answering, data, rx, lost>>,
           \/ UNCHANGED <<uart, call>>
           \/ uart # "call" /\ uart' # "call"
    PROVE  InOrder'
BY DEF InOrder, Speaking, Dialled, Connected, Unconnected, OneAnswer, Quiet, NoLine, Gone, InPpp,
   InLeaving, InTorn

LEMMA InstallOrder ==
    ASSUME Sound, InOrder, NEW c \in Commands, Install(c)
    PROVE  InOrder'
<1>1. /\ UNCHANGED <<pc, state, process_sem, mode, uart, call, answering, data, rx, lost>>
      /\ step = "ready" /\ step' = "installed"
  BY DEF Install, uartTask, modem, modemHistory
<1> QED
  BY <1>1 DEF InOrder, Speaking, Dialled, OneAnswer, Quiet, NoLine, InPpp, InLeaving, InTorn

\* The command is the only thing under way.
LEMMA SendOrder ==
    ASSUME Sound, InOrder, Send
    PROVE  InOrder'
<1>1. /\ UNCHANGED <<pc, process_sem, mode, uart, call, data, rx, lost>>
      /\ step = "installed" /\ step' = "waiting" /\ pc \in Commands
  BY DEF Send, uartTask, modemHistory, Sound, Handlers
<1>2. mode # "ppp"
  BY <1>1, PhasesApart DEF Sound, Handlers
<1>3. CASE pc \in Before
  <2>1. Quiet /\ ~data /\ ~lost
    BY <1>1, <1>3 DEF InOrder, Speaking, Dialled
  <2>2. answering' = <<pc>>
    BY <2>1, ShortSequences DEF Send, Quiet
  <2>3. NoLine' /\ ~process_sem' /\ ~data' /\ ~lost'
    BY <1>1, <2>1 DEF Quiet, NoLine
  <2>4. OneAnswer'
    BY <1>1, <2>2, <2>3 DEF OneAnswer
  <2>5. Unconnected'
    BY <2>3, ShortSequences DEF Unconnected, NoLine
  <2> QED
    BY <1>1, <1>2, <1>3, <2>3, <2>4, <2>5, PhasesApart DEF InOrder, Speaking, Dialled
<1>4. CASE pc \in Leaving
  <2>1. Elements(answering') \subseteq Leaving
    <3>1. \A x \in Commands : Elements(Append(answering, x)) \subseteq Elements(answering) \cup {x}
      BY ElementsKept DEF Sound, ModemAmounts
    <3>2. Elements(Append(answering, pc)) \subseteq Elements(answering) \cup {pc}
      BY <1>1, <3>1
    <3>3. answering' = answering \/ answering' = Append(answering, pc)
      BY DEF Send
    <3> QED BY <1>4, <3>2, <3>3 DEF InOrder, InLeaving
  <2>2. InLeaving'
    BY <1>1, <1>4, <2>1 DEF InOrder, InLeaving, NoLine
  <2> QED BY <1>1, <1>2, <1>4, <2>2, PhasesApart DEF InOrder
<1>5. CASE pc = "ATH"
  <2>1. pc \in Torn
    BY <1>5 DEF Torn
  <2>2. Elements(answering') \subseteq Leaving \cup {"ATH"}
    <3>1. \A x \in Commands : Elements(Append(answering, x)) \subseteq Elements(answering) \cup {x}
      BY ElementsKept DEF Sound, ModemAmounts
    <3>2. Elements(Append(answering, pc)) \subseteq Elements(answering) \cup {pc}
      BY <1>1, <3>1
    <3>3. answering' = answering \/ answering' = Append(answering, pc)
      BY DEF Send
    <3> QED BY <1>5, <2>1, <3>2, <3>3 DEF InOrder, InTorn
  <2> QED BY <1>1, <1>2, <2>1, <2>2, PhasesApart DEF InOrder, InTorn
<1> QED BY <1>1, <1>3, <1>4, <1>5, PhasesApart

\* The answer is taken where there is one.
LEMMA TakeOrder ==
    ASSUME Sound, InOrder, Take
    PROVE  InOrder'
<1>1. /\ UNCHANGED <<pc, state, mode, uart, call, answering, data, rx, lost>>
      /\ step = "waiting" /\ step' = "judge" /\ pc \in Commands /\ process_sem /\ ~process_sem'
  BY DEF Take, uartTask, modem, modemHistory, Sound, Handlers
<1>2. mode # "ppp"
  BY <1>1, PhasesApart DEF Sound, Handlers
<1>3. OneAnswer => Quiet'
  BY <1>1 DEF OneAnswer, Quiet, NoLine
<1>4. CASE pc \in Before \ Dialling
  BY <1>1, <1>2, <1>3, <1>4, PhasesApart DEF InOrder, Speaking
<1>5. CASE pc \in Dialling
  <2>1. \/ (data \/ lost) /\ Connected
        \/ ~data /\ ~lost /\ OneAnswer /\ Unconnected
    BY <1>1, <1>5 DEF InOrder, Dialled
  <2>2. Dialled'
    BY <1>1, <1>3, <2>1 DEF Dialled, Connected, Unconnected, Gone, NoLine
  <2> QED BY <1>1, <1>2, <1>5, <2>2, PhasesApart DEF InOrder
<1>6. CASE pc \in Leaving
  BY <1>1, <1>2, <1>6, PhasesApart DEF InOrder, InLeaving, NoLine
<1>7. CASE pc = "ATH"
  BY <1>1, <1>2, <1>7, PhasesApart DEF InOrder, InTorn, Torn
<1> QED BY <1>1, <1>4, <1>5, <1>6, <1>7, PhasesApart

\* A command that times out without being late is not answered at all.
LEMMA TimeoutOrder ==
    ASSUME Sound, InOrder, Timeout, late = 0, late' = 0
    PROVE  InOrder'
<1>1. /\ UNCHANGED <<pc, state, process_sem, mode, uart, call, answering, data, rx, lost>>
      /\ step = "waiting" /\ step' = "timeout" /\ pc \in Commands /\ ~process_sem
  BY DEF Timeout, uartTask, modem, Sound, Handlers
<1>2. mode # "ppp"
  BY <1>1, PhasesApart DEF Sound, Handlers
<1>3. Quiet
  BY <1>1 DEF Timeout, Quiet, NoLine
<1>4. Quiet'
  BY <1>1, <1>3 DEF Quiet, NoLine
<1>5. CASE pc \in Before \ Dialling
  BY <1>1, <1>2, <1>4, <1>5, PhasesApart DEF InOrder, Speaking
<1>6. CASE pc \in Dialling
  <2>1. ~Connected
    BY <1>3, ShortSequences DEF Connected, Quiet, NoLine
  <2>2. ~data /\ ~lost
    BY <1>1, <1>6, <2>1 DEF InOrder, Dialled
  <2>3. Dialled'
    BY <1>1, <1>4, <2>2 DEF Dialled
  <2> QED BY <1>1, <1>2, <1>6, <2>3, PhasesApart DEF InOrder
<1>7. CASE pc \in Leaving
  BY <1>1, <1>2, <1>7, PhasesApart DEF InOrder, InLeaving, NoLine
<1>8. CASE pc = "ATH"
  BY <1>1, <1>2, <1>8, PhasesApart DEF InOrder, InTorn, Torn
<1> QED BY <1>1, <1>5, <1>6, <1>7, <1>8, PhasesApart

\* Before the call: the next command begins with nothing on its way.
LEMMA SetUpOrder ==
    ASSUME Sound, InOrder,
           \/ PowerUp \/ SyncOk \/ SyncAgain \/ SyncReset \/ Absent \/ OpeningOk \/ CheckingOk
           \/ DialAgain \/ DialFails
    PROVE  InOrder'
<1> USE DEF command, uartTask, modemHistory, GoesOn
<1>1. /\ UNCHANGED <<state, process_sem, uart, call, rx, lost>> /\ step' = "ready"
      /\ answering' \in {answering, <<>>} /\ (data' => data)
  BY DEF PowerUp, SyncOk, SyncAgain, SyncReset, Absent, OpeningOk, CheckingOk, DialAgain, DialFails,
     modem
<1>2. pc \in Before
  <2>1. CASE DialFails
    BY <2>1, Phases DEF DialFails, Fails, Later
  <2>2. CASE ~DialFails
    BY <2>2, Phases, CommandsListed DEF PowerUp, SyncOk, SyncAgain, SyncReset, Absent, OpeningOk,
       CheckingOk, DialAgain, Succeeds, Fails, Synced
  <2> QED BY <2>1, <2>2
<1>3. step # "waiting" /\ (pc \in Dialling => step = "timeout" \/ (step = "judge" /\ state # "SUCCESS"))
  BY PhasesApart, CommandsListed DEF PowerUp, SyncOk, SyncAgain, SyncReset, Absent, OpeningOk,
     CheckingOk, DialAgain, DialFails, Succeeds, Fails, Synced, Sound, Handlers, Dialling, Early,
     Later
<1>4. Quiet /\ ~data /\ ~lost
  <2>1. CASE pc \in Dialling
    BY <1>3, <2>1 DEF InOrder, Dialled
  <2>2. CASE pc \notin Dialling
    BY <1>2, <1>3, <2>2 DEF InOrder, Speaking
  <2> QED BY <2>1, <2>2
<1>5. Quiet' /\ ~data' /\ ~lost'
  BY <1>1, <1>4 DEF Quiet, NoLine
<1>6. (pc' \in Before /\ mode' # "ppp") \/ (pc' = "wait" /\ mode' # "ppp")
  <2>1. CASE DialFails
    BY <2>1 DEF DialFails
  <2>2. mode # "ppp"
    BY <1>2, PhasesApart DEF Sound, Handlers
  <2>3. CASE PowerUp \/ SyncOk \/ SyncAgain \/ SyncReset \/ Absent \/ DialAgain
    BY <2>2, <2>3, Phases DEF PowerUp, SyncOk, SyncAgain, SyncReset, Absent, DialAgain, Early
  <2>4. CASE OpeningOk
    BY <2>2, <2>4, Phases, CommandsListed, AfterListed DEF OpeningOk, Later
  <2>5. CASE CheckingOk
    BY <2>2, <2>5, Phases, CommandsListed, AfterListed DEF CheckingOk
  <2> QED BY <2>1, <2>3, <2>4, <2>5
<1> QED BY <1>1, <1>5, <1>6, PhasesApart DEF InOrder, Speaking, Dialled

\* The judgement of the dial command, and the call.
LEMMA CallOrder ==
    ASSUME Sound, InOrder, DialOk \/ WaitOver \/ Stop
    PROVE  InOrder'
<1>1. UNCHANGED <<state, process_sem, uart, call, answering, data, rx, lost>> /\ step' = "ready"
  BY DEF DialOk, WaitOver, Stop, GoesOn, command, uartTask, modem, modemHistory
<1>2. CASE DialOk
  <2>1. pc \in Dialling /\ step = "judge" /\ state = "SUCCESS" /\ pc' = "wait" /\ mode' = "ppp"
    BY <1>2 DEF DialOk, Succeeds
  <2>2. InPpp
    BY <2>1 DEF InOrder, Dialled, InPpp
  <2> QED BY <1>1, <2>1, <2>2, PhasesApart DEF InOrder, InPpp, NoLine
<1>3. CASE WaitOver
  <2>1. mode = "ppp" /\ mode' = "ppp" /\ pc' = "online"
    BY <1>3 DEF WaitOver, GoesOn, Sound, LinkInv, Waiting, NoLink
  <2> QED BY <1>1, <2>1, PhasesApart DEF InOrder, InPpp, NoLine
<1>4. CASE Stop
  <2>1. mode = "ppp" /\ mode' = "transition" /\ pc' = "+++"
    BY <1>4 DEF Stop, GoesOn, Sound, Handlers
  <2>2. InPpp
    BY <2>1 DEF InOrder
  <2>3. Elements(answering') = {}
    BY <1>1, <2>2 DEF InPpp, Elements
  <2>4. pc' \in Leaving
    BY <2>1 DEF Leaving
  <2> QED BY <1>1, <2>1, <2>2, <2>3, <2>4, PhasesApart DEF InOrder, InPpp, InLeaving, NoLine
<1> QED BY <1>2, <1>3, <1>4

\* Leaving: the modem in data mode is silent, so that a success is a change of mode.
LEMMA TearDownOrder ==
    ASSUME Sound, InOrder,
           Resync \/ CommandMode \/ HangUp \/ Exit \/ Stopped
    PROVE  InOrder'
<1>1. /\ UNCHANGED <<state, process_sem, uart, call, answering, data, lost>> /\ step' = "ready"
      /\ mode' \in {mode, "command"}
  BY DEF Resync, CommandMode, HangUp, Exit, Stopped, GoesOn, command, uartTask, modem, modemHistory
<1>2. CASE Resync
  <2>1. pc \in Leaving /\ pc' \in Leaving /\ UNCHANGED <<rx, mode>>
    BY <1>2 DEF Resync, GoesOn, modem, Leaving
  <2> QED BY <1>1, <2>1, PhasesApart DEF InOrder, InLeaving, NoLine, Sound, Handlers
<1>3. CASE CommandMode
  <2>1. pc \in Leaving /\ step = "judge" /\ pc' = "ATH" /\ mode' = "command"
    BY <1>3 DEF CommandMode, Succeeds, Leaving
  <2>2. InLeaving /\ ~data
    BY <2>1 DEF InOrder, InLeaving
  <2>3. InTorn' /\ pc' \in Torn
    BY <1>1, <2>1, <2>2 DEF InLeaving, InTorn, Torn
  <2> QED BY <1>1, <2>1, <2>2, <2>3, PhasesApart DEF InOrder
<1>4. CASE HangUp \/ Exit \/ Stopped
  <2>1. pc \in Torn /\ pc' \in Torn
    BY <1>4 DEF HangUp, Exit, Stopped, GoesOn, Succeeds, Torn
  <2>2. mode # "ppp"
    BY <2>1, PhasesApart DEF Sound, Handlers
  <2> QED BY <1>1, <2>1, <2>2, PhasesApart DEF InOrder, InTorn
<1> QED BY <1>2, <1>3, <1>4

\* A line is dropped only when none is waited for.
LEMMA DropOrder ==
    ASSUME Sound, InOrder, UartDrops
    PROVE  InOrder'
<1>1. /\ UNCHANGED <<pc, step, state, process_sem, mode, uart, call, answering, data, lost>>
      /\ uart = "run" /\ rx # <<>> /\ rx' = Tail(rx)
      /\ mode = "ppp" \/ handle_line = "NULL"
  BY DEF UartDrops, command, uartTask, link, modemHistory
<1>2. pc \in Before => step \notin {"installed", "waiting"}
  BY <1>1, PhasesApart, CommandsListed DEF Sound, Handlers, Early, Later, Dialling, Leaving
<1>3. ~Quiet /\ ~NoLine
  BY <1>1 DEF Quiet, NoLine
<1>4. ~(pc \in Before \ Dialling)
  BY <1>2, <1>3 DEF InOrder, Speaking
<1>5. pc \in Dialling => Dialled'
  <2> SUFFICES ASSUME pc \in Dialling PROVE Dialled'
    OBVIOUS
  <2>1. Dialled /\ pc \in Before
    BY PhasesApart DEF InOrder
  <2>2. step = "judge"
    BY <1>2, <1>3, <2>1 DEF Dialled, Sound, ModemPlaces
  <2>3. ~data /\ lost /\ answering = <<>> /\ rx = <<"NO CARRIER">> /\ ~process_sem
        /\ state = "SUCCESS" /\ (uart = "call" => call = <<pc, "NO CARRIER">>)
    BY <1>1, <1>3, <2>1, <2>2 DEF Dialled, Gone
  <2>4. rx' = <<>>
    BY <1>1, <2>3, ShortSequences
  <2> QED BY <1>1, <2>2, <2>3, <2>4 DEF Dialled, Gone
<1> QED BY <1>1, <1>3, <1>4, <1>5 DEF InOrder, InPpp, InLeaving, InTorn

\* A line goes to the handler of the command that it answers.
LEMMA LineOrder ==
    ASSUME Sound, InOrder, UartLine
    PROVE  InOrder'
<1>1. /\ UNCHANGED <<pc, step, state, process_sem, mode, answering, data, lost>>
      /\ uart # "call" /\ uart' = "call" /\ rx # <<>> /\ rx' = Tail(rx)
      /\ call' = <<handle_line, Head(rx)>> /\ handle_line # "NULL" /\ mode # "ppp"
  BY DEF UartLine, command, link, modemHistory
<1>2. step \in {"installed", "waiting"} /\ handle_line = pc /\ pc \in Commands
  BY <1>1 DEF Sound, Handlers, ModemPlaces
<1>3. ~Quiet /\ ~NoLine
  BY <1>1 DEF Quiet, NoLine
<1>4. CASE pc \in Before \ Dialling
  <2>1. step = "waiting" /\ OneAnswer /\ ~data /\ ~lost
    BY <1>2, <1>3, <1>4 DEF InOrder, Speaking
  <2>2. PICK l \in Lines : rx = <<l>> /\ answering = <<>> /\ ~process_sem
    BY <1>1, <1>3, <2>1 DEF OneAnswer, Quiet, NoLine
  <2>3. rx' = <<>> /\ call' = <<pc, l>>
    BY <1>1, <1>2, <2>2, ShortSequences
  <2>4. OneAnswer'
    BY <1>1, <2>2, <2>3 DEF OneAnswer
  <2> QED BY <1>1, <1>4, <2>1, <2>4, PhasesApart DEF InOrder, Speaking
<1>5. CASE pc \in Dialling
  <2>1. step = "waiting"
    BY <1>2, <1>3, <1>5 DEF InOrder, Dialled
  <2>2. CASE (data \/ lost) /\ Connected
    <3>1. CASE rx \in {<<"CONNECT">>, <<"CONNECT", "NO CARRIER">>} /\ ~process_sem
                /\ (data => rx = <<"CONNECT">>)
      <4>1. /\ rx' \in {<<>>, <<"NO CARRIER">>} /\ call' = <<pc, "CONNECT">>
            /\ (data => rx' = <<>>)
        <5>1. /\ Head(<<"CONNECT">>) = "CONNECT" /\ Tail(<<"CONNECT">>) = <<>>
              /\ Head(<<"CONNECT", "NO CARRIER">>) = "CONNECT"
              /\ Tail(<<"CONNECT", "NO CARRIER">>) = <<"NO CARRIER">>
          BY ShortSequences
        <5>2. Head(rx) = "CONNECT" /\ Tail(rx) \in {<<>>, <<"NO CARRIER">>}
          BY <3>1, <5>1
        <5>3. data => Tail(rx) = <<>>
          BY <3>1, <5>1
        <5> QED BY <1>1, <1>2, <5>2, <5>3
      <4>2. Connected'
        BY <1>1, <2>2, <3>1, <4>1 DEF Connected, Gone
      <4> QED BY <1>1, <1>5, <2>1, <2>2, <4>2, PhasesApart DEF InOrder, Dialled
    <3>2. CASE Gone /\ process_sem /\ state = "SUCCESS" /\ (data => NoLine)
      <4>1. rx = <<"NO CARRIER">> /\ ~data
        BY <1>1, <1>3, <3>2 DEF Gone
      <4>2. rx' = <<>> /\ call' = <<pc, "NO CARRIER">>
        BY <1>1, <1>2, <4>1, ShortSequences
      <4>3. Connected'
        BY <1>1, <2>2, <3>2, <4>1, <4>2 DEF Connected, Gone
      <4> QED BY <1>1, <1>5, <2>1, <2>2, <4>3, PhasesApart DEF InOrder, Dialled
    <3> QED BY <1>1, <2>2, <3>1, <3>2 DEF Connected
  <2>3. CASE ~data /\ ~lost /\ OneAnswer /\ Unconnected
    <3>1. PICK l \in Lines : rx = <<l>> /\ answering = <<>> /\ ~process_sem
      BY <1>1, <1>3, <2>3 DEF OneAnswer, Quiet, NoLine
    <3>2. rx' = <<>> /\ call' = <<pc, l>> /\ l # "CONNECT"
      BY <1>1, <1>2, <2>3, <3>1, ShortSequences DEF Unconnected
    <3>3. OneAnswer'
      BY <1>1, <3>1, <3>2 DEF OneAnswer
    <3>4. Unconnected'
      BY <1>1, <3>1, <3>2, ShortSequences DEF Unconnected
    <3> QED BY <1>1, <1>5, <2>1, <2>3, <3>3, <3>4, PhasesApart DEF InOrder, Dialled
  <2> QED BY <1>5, <2>1, <2>2, <2>3 DEF InOrder, Dialled
<1>6. CASE pc \in Leaving
  BY <1>1, <1>3, <1>6, PhasesApart DEF InOrder, InLeaving
<1>7. CASE pc = "ATH"
  BY <1>1, <1>7, PhasesApart DEF InOrder, InTorn, Torn
<1> QED BY <1>2, <1>4, <1>5, <1>6, <1>7, PhasesApart

\* The handler gives the semaphore for the answer of its command.
LEMMA CallsOrder ==
    ASSUME Sound, InOrder, UartCall
    PROVE  InOrder'
<1>1. /\ UNCHANGED <<pc, step, mode, answering, data, rx, lost>>
      /\ uart = "call" /\ uart' = "run"
  BY DEF UartCall, modem, link, modemHistory
<1>2. PICK c \in {call[1], handle_line} \ {"NULL"} :
         \/ Final(c, call[2]) = "none" /\ UNCHANGED <<state, process_sem>>
         \/ Final(c, call[2]) \in {"SUCCESS", "FAIL"} /\ state' = Final(c, call[2])
               /\ process_sem' = TRUE
  BY Finals DEF UartCall
<1>3. ~Quiet /\ ~NoLine
  BY <1>1 DEF Quiet, NoLine
<1>4. CASE pc \in Before \ Dialling
  <2>1. step = "waiting" /\ OneAnswer /\ ~data /\ ~lost
    BY <1>3, <1>4 DEF InOrder, Speaking
  <2>2. answering = <<>> /\ rx = <<>> /\ ~process_sem
    BY <1>1, <1>3, <2>1 DEF OneAnswer, NoLine
  <2>3. OneAnswer'
    BY <1>1, <1>2, <2>2 DEF OneAnswer, Quiet, NoLine
  <2>4. mode # "ppp"
    BY <1>4, PhasesApart DEF Sound, Handlers
  <2> QED BY <1>1, <1>4, <2>1, <2>3, <2>4, PhasesApart DEF InOrder, Speaking
<1>5. CASE pc \in Dialling
  <2>1. step \in {"waiting", "judge"}
    BY <1>3, <1>5 DEF InOrder, Dialled, Sound, ModemPlaces
  <2>2. mode # "ppp" /\ pc \in Before
    BY <1>5, PhasesApart DEF Sound, Handlers
  <2>3. /\ Final(pc, "CONNECT") = "SUCCESS" /\ Final(pc, "NO CARRIER") = "none"
        /\ \A l : Final(pc, l) = "SUCCESS" => l = "CONNECT"
    BY <1>5, Finals
  <2>4. CASE step = "waiting" /\ (data \/ lost) /\ Connected
    <3>1. c = pc
      <4>1. handle_line = pc
        BY <2>4 DEF Sound, Handlers
      <4>2. call[1] = pc
        <5>1. call = <<pc, "CONNECT">> \/ call = <<pc, "NO CARRIER">>
          BY <1>1, <2>4 DEF Connected
        <5>2. <<pc, "CONNECT">>[1] = pc /\ <<pc, "NO CARRIER">>[1] = pc
          OBVIOUS
        <5> QED BY <5>1, <5>2
      <4> QED BY <4>1, <4>2
    <3>2. CASE call = <<pc, "CONNECT">> /\ Gone /\ (data => rx = <<>>)
      <4>1. state' = "SUCCESS" /\ process_sem'
        BY <1>2, <2>3, <3>1, <3>2
      <4>2. Connected'
        BY <1>1, <2>4, <3>2, <4>1 DEF Connected, Gone, NoLine
      <4> QED BY <1>1, <1>5, <2>2, <2>4, <4>2, PhasesApart DEF InOrder, Dialled
    <3>3. CASE call = <<pc, "NO CARRIER">> /\ Gone /\ process_sem /\ state = "SUCCESS" /\ ~data
      <4>1. UNCHANGED <<state, process_sem>>
        BY <1>2, <2>3, <3>1, <3>3
      <4>2. Connected'
        BY <1>1, <2>4, <3>3, <4>1 DEF Connected, Gone, NoLine
      <4> QED BY <1>1, <1>5, <2>2, <2>4, <4>2, PhasesApart DEF InOrder, Dialled
    <3> QED BY <1>1, <1>3, <2>4, <3>2, <3>3 DEF Connected
  <2>5. CASE step = "waiting" /\ ~data /\ ~lost /\ OneAnswer /\ Unconnected
    <3>1. answering = <<>> /\ rx = <<>> /\ ~process_sem /\ call[1] = pc /\ call[2] # "CONNECT"
      BY <1>1, <1>3, <2>5 DEF OneAnswer, Unconnected, NoLine
    <3>2. c = pc
      BY <2>5, <3>1 DEF Sound, Handlers
    <3>3. Final(c, call[2]) # "SUCCESS"
      BY <2>3, <3>1, <3>2
    <3>4. OneAnswer'
      BY <1>1, <1>2, <3>1 DEF OneAnswer, Quiet, NoLine
    <3>5. Unconnected'
      BY <1>1, <1>2, <3>1, <3>3, ShortSequences DEF Unconnected
    <3> QED BY <1>1, <1>5, <2>2, <2>5, <3>4, <3>5, PhasesApart DEF InOrder, Dialled
  <2>6. CASE step = "judge"
    <3>1. /\ data \/ lost
          /\ answering = <<>> /\ Gone /\ call = <<pc, "NO CARRIER">>
          /\ ~process_sem /\ state = "SUCCESS" /\ (data => NoLine)
      BY <1>1, <1>3, <1>5, <2>6 DEF InOrder, Dialled
    <3>2. c = pc
      BY <2>6, <3>1 DEF Sound, Handlers
    <3>3. UNCHANGED <<state, process_sem>>
      BY <1>2, <2>3, <3>1, <3>2
    <3>4. Dialled'
      BY <1>1, <2>6, <3>1, <3>3 DEF Dialled, Gone, NoLine
    <3> QED BY <1>1, <1>5, <2>2, <3>4, PhasesApart DEF InOrder
  <2> QED BY <1>5, <2>1, <2>4, <2>5, <2>6 DEF InOrder, Dialled
<1>6. CASE pc \notin Before
  BY <1>1, <1>3, <1>6, PhasesApart DEF InOrder, InPpp, InLeaving, InTorn, Quiet
<1> QED BY <1>4, <1>5, <1>6

\* The modem answers what it has; what it says is CONNECT when it goes to data mode.
LEMMA AnswerOrder ==
    ASSUME Sound, InOrder, ModemAnswers
    PROVE  InOrder'
<1>1. /\ UNCHANGED <<pc, step, state, process_sem, mode, uart, call, lost>> /\ answering # <<>>
      /\ \/ \E l \in Answers(Head(answering)) :
               /\ rx' = Append(rx, l) /\ data' = (l = "CONNECT")
               /\ answering' = IF data' THEN <<>> ELSE Tail(answering)
         \/ UNCHANGED <<rx, data>> /\ answering' = Tail(answering)
  BY DEF ModemAnswers, command, uartTask, link, modemHistory
<1>2. answering \in Seq(Commands)
  BY DEF Sound, ModemAmounts
<1>3. ~Quiet /\ mode # "ppp" /\ ~Connected
  BY <1>1 DEF Quiet, InOrder, InPpp, Connected
<1>4. CASE pc \in Before
  <2>1. step = "waiting" /\ OneAnswer /\ ~data /\ ~lost /\ (pc \in Dialling => Unconnected)
    BY <1>1, <1>3, <1>4 DEF InOrder, Speaking, Dialled, Sound, ModemPlaces
  <2>2. answering = <<pc>> /\ NoLine /\ ~process_sem
    BY <1>1, <1>3, <2>1 DEF OneAnswer
  <2>3. Head(answering) = pc /\ Tail(answering) = <<>>
    BY <2>2, ShortSequences
  <2>4. CASE UNCHANGED <<rx, data>> /\ answering' = Tail(answering)
    <3>1. Quiet' /\ OneAnswer'
      BY <1>1, <2>2, <2>3, <2>4 DEF Quiet, NoLine, OneAnswer
    <3>2. pc \in Dialling => Unconnected'
      BY <1>1, <2>1, <2>4 DEF Unconnected
    <3> QED BY <1>1, <1>3, <1>4, <2>1, <2>4, <3>1, <3>2, PhasesApart
            DEF InOrder, Speaking, Dialled
  <2>5. ASSUME NEW l \in Answers(pc), rx' = Append(rx, l), data' = (l = "CONNECT"),
               answering' = <<>>
        PROVE  InOrder'
    <3>1. rx' = <<l>> /\ l \in Lines
      BY <2>2, <2>5, ShortSequences, AnswersListed DEF NoLine
    <3>2. CASE l = "CONNECT"
      <4>1. pc \in Dialling
        BY <2>5, <3>2, AnswersListed
      <4>2. Connected'
        BY <1>1, <2>2, <2>5, <3>1, <3>2 DEF Connected, NoLine
      <4> QED BY <1>1, <1>3, <1>4, <2>1, <2>5, <3>2, <4>1, <4>2, PhasesApart DEF InOrder, Dialled
    <3>3. CASE l # "CONNECT"
      <4>1. OneAnswer'
        BY <1>1, <2>2, <2>5, <3>1 DEF OneAnswer, NoLine
      <4>2. Unconnected'
        BY <1>1, <2>2, <3>1, <3>3, ShortSequences DEF Unconnected, NoLine
      <4> QED BY <1>1, <1>3, <1>4, <2>1, <2>5, <3>3, <4>1, <4>2, PhasesApart
              DEF InOrder, Speaking, Dialled
    <3> QED BY <3>2, <3>3
  <2> QED BY <1>1, <2>3, <2>4, <2>5
<1>5. CASE pc \in Leaving \/ pc \in Torn
  <2>1. Elements(answering) \subseteq Leaving \cup {"ATH"}
        /\ (pc \in Leaving => Elements(answering) \subseteq Leaving)
    BY <1>5 DEF InOrder, InLeaving, InTorn
  <2>2. Head(answering) \in Elements(answering)
        /\ Elements(Tail(answering)) \subseteq Elements(answering)
    BY <1>1, <1>2, ElementsKept
  <2>3. "CONNECT" \notin Answers(Head(answering))
    BY <2>1, <2>2, AnswersListed DEF Dialling, Leaving
  <2>4. answering' = Tail(answering) /\ ((data' = data /\ rx' = rx) \/ ~data')
    BY <1>1, <2>3
  <2>5. Elements(answering') \subseteq Elements(answering)
    BY <2>2, <2>4
  <2>6. pc \in Leaving => InLeaving'
    BY <1>1, <2>1, <2>4, <2>5 DEF InOrder, InLeaving, NoLine
  <2>7. pc \in Torn => InTorn'
    BY <1>1, <2>1, <2>4, <2>5 DEF InOrder, InTorn
  <2>8. lost' => ~data'
    BY <1>1, <2>4 DEF InOrder
  <2> QED BY <1>1, <1>3, <1>5, <2>6, <2>7, <2>8, PhasesApart DEF InOrder
<1>6. pc \notin {"wait", "online"}
  BY <1>3 DEF InOrder, Sound, Handlers
<1> QED BY <1>4, <1>5, <1>6 DEF Sound, ModemPlaces, Used

\* The carrier is lost: data mode ends, and says so.
LEMMA LossOrder ==
    ASSUME Sound, InOrder, ModemLoses
    PROVE  InOrder'
<1>1. /\ UNCHANGED <<pc, step, state, process_sem, mode, uart, call, answering>>
      /\ data /\ ~data' /\ lost' /\ rx' = Append(rx, "NO CARRIER")
  BY DEF ModemLoses, command, uartTask, link
<1>2. ~(pc \in Before \ Dialling) /\ ~(pc = "wait" /\ mode # "ppp")
  BY <1>1 DEF InOrder, Speaking
<1>3. CASE pc \in Dialling
  <2>1. \/ step = "waiting" /\ Connected
        \/ /\ step = "judge" /\ answering = <<>> /\ NoLine /\ ~process_sem /\ state = "SUCCESS"
    BY <1>1, <1>3 DEF InOrder, Dialled, Sound, ModemPlaces
  <2>2. rx = <<>> => rx' = <<"NO CARRIER">>
    BY <1>1, ShortSequences
  <2>3. rx = <<"CONNECT">> => rx' = <<"CONNECT", "NO CARRIER">>
    <3>1. Append(<<"CONNECT">>, "NO CARRIER") = <<"CONNECT", "NO CARRIER">>
      BY ShortSequences
    <3> QED BY <1>1, <3>1, Zenon
  <2>4. CASE step = "waiting" /\ Connected
    <3>1. Connected'
      BY <1>1, <2>2, <2>3, <2>4 DEF Connected, Gone, NoLine
    <3> QED BY <1>1, <1>2, <1>3, <2>4, <3>1, PhasesApart DEF InOrder, Dialled, InPpp
  <2>5. CASE step = "judge" /\ answering = <<>> /\ NoLine /\ ~process_sem /\ state = "SUCCESS"
    <3>1. Dialled'
      BY <1>1, <2>2, <2>5 DEF Dialled, Gone, NoLine
    <3> QED BY <1>1, <1>2, <1>3, <3>1, PhasesApart DEF InOrder, InPpp
  <2> QED BY <2>1, <2>4, <2>5
<1>4. CASE pc \notin Dialling
  BY <1>1, <1>2, <1>4 DEF InOrder, InPpp, InLeaving, InTorn
<1> QED BY <1>3, <1>4

-----------------------------------------------------------------------------
(* The theorems.                                                            *)

\* Nothing is made yet, or nothing is left: the first state, and every restart.
LEMMA Fresh ==
    ASSUME Sizes
    PROVE  /\ ModemInit => ModemInv
           /\ \A next \in {"power", "off"} : Again(next) => InOrder'
<1>1. ASSUME ModemInit PROVE ModemSwitches /\ ModemPlaces /\ ModemAmounts
  <2>1. ModemSwitches
    BY <1>1 DEF ModemInit, ModemSwitches
  <2>2. ModemPlaces
    BY <1>1, Phases DEF ModemInit, ModemPlaces
  <2>3. ModemAmounts
    BY <1>1 DEF ModemInit, ModemAmounts, Sizes
  <2> QED BY <2>1, <2>2, <2>3
<1>2. ASSUME ModemInit PROVE Handlers /\ LinkInv
  BY <1>2, Phases DEF ModemInit, Handlers, LinkInv, NoLink
<1>3. "power" \in Before /\ "off" \in Before /\ "power" \notin Dialling /\ "off" \notin Dialling
  BY Phases DEF Dialling
<1>4. ASSUME ModemInit PROVE InOrder
  BY <1>3, <1>4, PhasesApart DEF ModemInit, InOrder, Speaking, Quiet, NoLine
<1>5. ASSUME NEW next \in {"power", "off"}, Again(next) PROVE InOrder'
  BY <1>3, <1>5, PhasesApart DEF Again, InOrder, Speaking, Quiet, NoLine
<1> QED BY <1>1, <1>2, <1>4, <1>5 DEF ModemInv, Sound

\* While no answer is late, every step keeps their order.
LEMMA OrderKept ==
    ASSUME Sizes, Sound, late = 0 => InOrder, [ModemNext]_modemVars, late' = 0
    PROVE  InOrder'
<1>1. CheckingFails \/ StopFails \/ Deinit \/ UartCallsNull => InOrder'
  BY Fresh DEF CheckingFails, StopFails, Deinit, UartCallsNull, ModemRestart
<1>2. CASE ~(CheckingFails \/ StopFails \/ Deinit \/ UartCallsNull)
  <2>1. late' = late \/ late' = late + 1
    BY <1>2 DEF ModemNext, Sending, Install, Send, Take, Timeout, SimInit, PowerUp, SyncOk, SyncAgain,
       SyncReset, Absent, OpeningOk, CheckingOk, DialAgain, DialOk, DialFails, WaitOver,
       SimDenit, Resync, CommandMode, HangUp, Exit, Stopped, Stop, GoesOn, Uart, UartDrops,
       UartLine, UartCall, UartStarts, UartStops, UartCloses, UartSpins, UartSpinFull, PppUp,
       PppEnds, PppClosed, ModemAnswers, ModemLoses, modemHistory, modemVars
  <2>2. late \in Nat
    BY DEF Sound, ModemAmounts, Sizes
  <2>3. late = 0 /\ InOrder
    BY <2>1, <2>2
  <2>4. CASE Sending
    BY <2>3, <2>4, InstallOrder, SendOrder, TakeOrder, TimeoutOrder DEF Sending
  <2>5. CASE SimInit \/ SimDenit \/ Stop
    BY <1>2, <2>3, <2>5, SetUpOrder, CallOrder, TearDownOrder DEF SimInit, SimDenit
  <2>6. CASE UartDrops \/ UartLine \/ UartCall \/ ModemAnswers \/ ModemLoses
    BY <2>3, <2>6, DropOrder, LineOrder, CallsOrder, AnswerOrder, LossOrder
  <2>7. CASE UartStarts \/ UartStops \/ UartCloses \/ UartSpins \/ UartSpinFull \/ PppUp
             \/ PppEnds \/ PppClosed \/ UNCHANGED modemVars
    <3>1. UNCHANGED <<pc, step, state, process_sem, mode, answering, data, rx, lost>>
      BY <2>7 DEF UartStarts, UartStops, UartCloses, UartSpins, UartSpinFull, PppUp, PppEnds,
         PppClosed, command, modem, link, modemHistory, uartTask, modemVars
    <3>2. UNCHANGED <<uart, call>> \/ (uart # "call" /\ uart' # "call")
      BY <2>7 DEF UartStarts, UartStops, UartCloses, UartSpins, UartSpinFull, PppUp, PppEnds,
         PppClosed, uartTask, modemVars
    <3> QED BY <2>3, <3>1, <3>2, OrderStays
  <2> QED BY <1>2, <2>4, <2>5, <2>6, <2>7 DEF ModemNext, Uart
<1> QED BY <1>1, <1>2

LEMMA ModemInvariant ==
    ASSUME Sizes
    PROVE  ModemInv /\ [ModemNext]_modemVars => ModemInv'
BY ModemSwitchesKept, ModemPlacesKept, HandlersKept, ModemAmountsKept, LinkKept, OrderKept
   DEF ModemInv, Sound

\* What the invariant says of the loop: it never holds more than one event.
LEMMA LoopShort == Sound => loop \in {<<>>, <<"START">>, <<"STOP">>}
BY DEF Sound, ModemPlaces, LinkInv, NoLink, Waiting, Using, Tearing

\* The invariant is what is claimed, and more.
LEMMA ModemInvImplies ==
    ModemInv => ModeAgrees /\ TeardownClean
<1>1. ASSUME ModemInv PROVE ModeAgrees
  <2>1. late = 0 /\ mode = "ppp" => data \/ lost
    BY <1>1 DEF ModemInv, InOrder, InPpp
  <2>2. late = 0 /\ pc = "ATH" => ~data
    BY <1>1 DEF ModemInv, InOrder, InTorn, Torn
  <2> QED BY <2>1, <2>2 DEF ModeAgrees
<1>2. ASSUME ModemInv, pc = "deinit" PROVE (ppp = "dead" /\ uart # "closing") \/ gaveUp \/ errors
  BY <1>2 DEF ModemInv, Sound, LinkInv, Tearing, Torn, Closed
<1> QED BY <1>1, <1>2 DEF TeardownClean

LEMMA InvTypes ==
    ASSUME Sizes, ModemInv
    PROVE  ModemTypeOK
<1>1. loop \in Seq({"START", "STOP"}) /\ Len(loop) <= 2
  <2>1. loop \in {<<>>, <<"START">>, <<"STOP">>}
    BY LoopShort DEF ModemInv
  <2>2. <<>> \in Seq({"START", "STOP"}) /\ Len(<<>>) <= 2
    OBVIOUS
  <2>3. \A e \in {"START", "STOP"} : <<e>> \in Seq({"START", "STOP"}) /\ Len(<<e>>) <= 2
    OBVIOUS
  <2> QED BY <2>1, <2>2, <2>3
<1>2. pc \in {"power", "wait", "online", "exit", "stopped", "deinit", "absent", "off"}
             \cup Commands
  BY CommandsListed DEF ModemInv, Sound, ModemPlaces, Used, Torn
<1> QED BY <1>1, <1>2 DEF ModemInv, Sound, ModemSwitches, ModemPlaces, ModemAmounts, ModemTypeOK

\* Every variable keeps its type: the loop holds at most two events, and the handlers
\* are those of commands.
THEOREM ModemTypeCorrect ==
    ASSUME Sizes
    PROVE  ModemSpec => []ModemTypeOK
<1>1. ModemInv => ModemTypeOK
  BY InvTypes
<1>2. ModemInit => ModemInv
  BY Fresh
<1>3. ModemInv /\ [ModemNext]_modemVars => ModemInv'
  BY ModemInvariant
<1> QED BY <1>1, <1>2, <1>3, PTL DEF ModemSpec

\* As long as no answer comes late, PPP talks to a modem in data mode, or one that has
\* said that its carrier is gone, and hanging up to one in command mode; and an
\* interface is destroyed only after its link is closed, or the wait for that was
\* given up, or an error was taken for it.
THEOREM LinkSound ==
    ASSUME Sizes
    PROVE  ModemSpec => [](ModeAgrees /\ TeardownClean)
<1>1. ModemInv => ModeAgrees /\ TeardownClean
  BY ModemInvImplies
<1>2. ModemInit => ModemInv
  BY Fresh
<1>3. ModemInv /\ [ModemNext]_modemVars => ModemInv'
  BY ModemInvariant
<1> QED BY <1>1, <1>2, <1>3, PTL DEF ModemSpec

-----------------------------------------------------------------------------
(* The start and the modem side by side.                                    *)

LEMMA Steps ==
    [LinksNext]_allVars => [Next]_vars /\ [ModemNext]_modemVars
<1>1. LinksNext => [Next]_vars /\ [ModemNext]_modemVars
  BY DEF LinksNext, InStart, InModem
<1>2. UNCHANGED allVars => UNCHANGED vars /\ UNCHANGED modemVars
  BY DEF allVars
<1> QED BY <1>1, <1>2

\* The two invariants, side by side.
LEMMA LinksInvariant == LinksSpec => [](TypeOK /\ StartInv /\ ModemInv)
<1>0. Sizes
  BY LinksAssumption DEF Sizes
<1>1. LinksInit => TypeOK /\ StartInv /\ ModemInv
  BY <1>0, StartBegins, Fresh DEF LinksInit
<1>2. TypeOK /\ StartInv /\ [Next]_vars => (TypeOK /\ StartInv)'
  BY StartKept
<1>3. ModemInv /\ [ModemNext]_modemVars => ModemInv'
  BY <1>0, ModemInvariant
<1>4. TypeOK /\ StartInv /\ ModemInv /\ [LinksNext]_allVars
          => (TypeOK /\ StartInv /\ ModemInv)'
  BY <1>2, <1>3, Steps
<1> QED BY <1>1, <1>4, PTL DEF LinksSpec

\* Both systems keep their types.
THEOREM LinksTypes == LinksSpec => []TypesOK
<1>0. Sizes
  BY LinksAssumption DEF Sizes
<1>1. TypeOK /\ ModemInv => TypesOK
  BY <1>0, InvTypes DEF TypesOK
<1> QED BY <1>1, LinksInvariant, PTL

\* The start uses no handle that is not there and does not wait for what cannot come;
\* the modem is spoken to in the mode it is in, and the interface is destroyed after
\* its link is closed.
THEOREM LinksSafe == LinksSpec => [](StartSafe /\ ModemSound)
<1>1. TypeOK /\ StartInv => StartSafe
  BY StartInvImplies
<1>2. ModemInv => ModemSound
  BY ModemInvImplies DEF ModemSound
<1> QED BY <1>1, <1>2, LinksInvariant, PTL
=============================================================================
