------------------------------ MODULE Registry ------------------------------
(***************************************************************************)
(* The detector registry: which of the slots 1..MAX_DECTECTOR are taken,   *)
(* in RAM (sensor_data) and in /spiffs/sensor_data.txt.                    *)
(*                                                                         *)
(* Slots are given out by the radio task (uart_task.c) and, for the wired  *)
(* input, by the panel task (hmi_service.c); they are given back by the    *)
(* server's remove_sub_devices in the MQTT client task; the sender task    *)
(* (mqtt_task.c) saves the registry after each feedback it publishes, and  *)
(* the removal saves it too.  Nothing but the order of the stores protects *)
(* the data: xMutex is taken by the radio task alone.  The gateway may     *)
(* lose power between any two steps.                                       *)
(*                                                                         *)
(* What the detectors measure is not modelled here: no step below depends  *)
(* on it.  data_process is reduced to its feedback events.                 *)
(***************************************************************************)
EXTENDS Naturals, FiniteSets

CONSTANTS
    MAX_DECTECTOR,   \* number of slots (50 in the code)
    QueueLength,     \* capacity of data_process (10 in the code)
    WiredInput,      \* TRUE: the wired input is used
    StrangeReports,  \* TRUE: reports from addresses above maxDetector arrive
    None,            \* no file
    Empty,           \* the file was truncated and not written
    MaxPairings, MaxRemovals, MaxRestarts    \* bounds

ASSUME RegistryAssumption ==
    /\ MAX_DECTECTOR \in Nat \ {0}
    /\ QueueLength \in Nat \ {0}
    /\ WiredInput \in BOOLEAN /\ StrangeReports \in BOOLEAN
    /\ MaxPairings \in Nat /\ MaxRemovals \in Nat /\ MaxRestarts \in Nat

Slots == 1..MAX_DECTECTOR

\* What flash_save_sensor_data writes, as far as it is modelled.
Images == [activated : SUBSET Slots, maxDetector : 0..MAX_DECTECTOR,
           inputChannel : 0..MAX_DECTECTOR, curDetector : 0..MAX_DECTECTOR]

ASSUME RegistryNotImages == None \notin Images /\ Empty \notin Images /\ None # Empty

VARIABLES
    activated,        \* slots with device_activated = 1
    maxDetector, inputChannel, curDetector,
    isRegisterSensor, \* a detector was given a slot and has not reported yet
    rf,               \* where the radio task is
    offered,          \* the slot the last {S..} offered (count_check_active)
    panel, taken,     \* where the panel task is and the slot it takes
    remove, target,   \* where a removal is and the slot it names
    feedbacks,        \* SS_FEEDBACK_FLAG events in data_process
    save, image,      \* per saving task: where it is and what it copied
    file,             \* /spiffs/sensor_data.txt
    pairings, removals, restarts

sensor_data == <<activated, maxDetector, inputChannel, curDetector>>
radioVars == <<isRegisterSensor, rf, offered, feedbacks>>
panelVars == <<panel, taken>>
removeVars == <<remove, target, removals>>
saveVars == <<save, image, file>>
vars == <<sensor_data, radioVars, panelVars, removeVars, saveVars, pairings, restarts>>

Savers == {"sender", "remover"}

NoImage == [activated |-> {}, maxDetector |-> 0, inputChannel |-> 0,
            curDetector |-> 0]

TypeOK ==
    /\ activated \in SUBSET Slots
    /\ maxDetector \in 0..MAX_DECTECTOR
    /\ inputChannel \in 0..MAX_DECTECTOR
    /\ curDetector \in 0..MAX_DECTECTOR
    /\ isRegisterSensor \in BOOLEAN
    /\ rf \in {"idle", "offer", "reported"}
    /\ offered \in Slots
    /\ panel \in {"idle", "take", "post"}
    /\ taken \in Slots
    /\ remove \in {"idle", "clear", "save"}
    /\ target \in Slots
    /\ feedbacks \in 0..QueueLength
    /\ save \in [Savers -> {"idle", "copied", "open"}]
    /\ image \in [Savers -> Images]
    /\ file \in Images \cup {None, Empty}
    /\ pairings \in 0..MaxPairings
    /\ removals \in 0..MaxRemovals
    /\ restarts \in 0..MaxRestarts

\* A gateway from the factory.
Init ==
    /\ activated = {} /\ maxDetector = 0 /\ inputChannel = 0 /\ curDetector = 0
    /\ isRegisterSensor = FALSE
    /\ rf = "idle" /\ offered = 1
    /\ panel = "idle" /\ taken = 1
    /\ remove = "idle" /\ target = 1
    /\ feedbacks = 0
    /\ save = [s \in Savers |-> "idle"]
    /\ image = [s \in Savers |-> NoImage]
    /\ file = None
    /\ pairings = 0 /\ removals = 0 /\ restarts = 0

-----------------------------------------------------------------------------
Free == Slots \ activated

IsLowest(k, S) == k \in S /\ \A i \in S : k <= i

\* Variant: the capacity of data_process is not respected.
PostFeedback_NoLimit ==
    \/ feedbacks' = feedbacks + 1
    \/ UNCHANGED feedbacks

\* xQueueSend of an SS_FEEDBACK_FLAG; the event is dropped when data_process is
\* full, which the other events in it can bring about at any time.
PostFeedback ==
    \/ feedbacks < QueueLength /\ feedbacks' = feedbacks + 1
    \/ UNCHANGED feedbacks

(* The radio task: sensor_data_handler, isRegister2Server.                  *)

\* {N00}: the first free slot is offered with {S..} (the write can block) ...
RfOffer(k) ==
    /\ rf = "idle"
    /\ pairings < MaxPairings
    /\ IsLowest(k, Free)
    /\ pairings' = pairings + 1
    /\ offered' = k
    /\ isRegisterSensor' = TRUE
    /\ rf' = "offer"
    /\ UNCHANGED <<sensor_data, feedbacks, panelVars, removeVars, saveVars, restarts>>

\* Variant: maxDetector is not raised.
RfOffered_NoMax ==
    /\ rf = "offer"
    /\ rf' = "idle"
    /\ UNCHANGED <<sensor_data, isRegisterSensor, offered, feedbacks, panelVars,
                   removeVars, saveVars, pairings, restarts>>

\* ... and counted, but not marked as taken.
RfOffered ==
    /\ rf = "offer"
    /\ maxDetector' = IF maxDetector < offered THEN offered ELSE maxDetector
    /\ rf' = "idle"
    /\ UNCHANGED <<activated, inputChannel, curDetector, isRegisterSensor, offered,
                   feedbacks, panelVars, removeVars, saveVars, pairings, restarts>>

\* A report ({Fxx}, {Lxx}, {Exx} or {Txx}) from address k, whether k is
\* registered or not.
RfReport(k) ==
    /\ rf = "idle"
    /\ StrangeReports \/ k <= maxDetector
    /\ curDetector' = k
    /\ rf' = "reported"
    /\ UNCHANGED <<activated, maxDetector, inputChannel, isRegisterSensor, offered,
                   feedbacks, panelVars, removeVars, saveVars, pairings, restarts>>

\* isRegister2Server(curDetector): the slot it takes is the lowest free one up to
\* curDetector, which another task may have changed since the report.
RegistersAt(k) == isRegisterSensor /\ IsLowest(k, Free) /\ k <= curDetector

\* Variant: isRegisterSensor is not reset.
RfRegister_NoReset(k) ==
    /\ rf = "reported"
    /\ RegistersAt(k)
    /\ activated' = activated \cup {k}
    /\ rf' = "idle"
    /\ PostFeedback
    /\ UNCHANGED <<maxDetector, inputChannel, curDetector, isRegisterSensor, offered,
                   panelVars, removeVars, saveVars, pairings, restarts>>

RfRegister(k) ==
    /\ rf = "reported"
    /\ RegistersAt(k)
    /\ activated' = activated \cup {k}
    /\ isRegisterSensor' = FALSE
    /\ rf' = "idle"
    /\ PostFeedback
    /\ UNCHANGED <<maxDetector, inputChannel, curDetector, offered, panelVars,
                   removeVars, saveVars, pairings, restarts>>

RfFeedback ==
    /\ rf = "reported"
    /\ ~\E k \in Slots : RegistersAt(k)
    /\ rf' = "idle"
    /\ PostFeedback
    /\ UNCHANGED <<sensor_data, isRegisterSensor, offered, panelVars, removeVars,
                   saveVars, pairings, restarts>>

(* The heartbeat monitor names a silent detector in curDetector; it knows    *)
(* the detectors that reported since the restart or were registered then.   *)
HeartbeatLost(k) ==
    /\ StrangeReports \/ k <= maxDetector
    /\ curDetector' = k
    /\ UNCHANGED <<activated, maxDetector, inputChannel, radioVars, panelVars,
                   removeVars, saveVars, pairings, restarts>>

-----------------------------------------------------------------------------
(* The panel task: REGISTER_SUB with both pins closed, and its reports.     *)

PanelTake(k) ==
    /\ WiredInput
    /\ panel = "idle"
    /\ pairings < MaxPairings
    /\ IsLowest(k, Free)
    /\ pairings' = pairings + 1
    /\ taken' = k
    /\ inputChannel' = k
    /\ panel' = "take"
    /\ UNCHANGED <<activated, maxDetector, curDetector, radioVars, removeVars,
                   saveVars, restarts>>

PanelTaken ==
    /\ panel = "take"
    /\ maxDetector' = IF maxDetector < taken THEN taken ELSE maxDetector
    /\ activated' = activated \cup {taken}
    /\ curDetector' = taken
    /\ panel' = "post"
    /\ UNCHANGED <<inputChannel, radioVars, taken, removeVars, saveVars, pairings,
                   restarts>>

\* 350 ms after SS_REGISTER_SERVER.
PanelPost ==
    /\ panel = "post"
    /\ panel' = "idle"
    /\ PostFeedback
    /\ UNCHANGED <<sensor_data, isRegisterSensor, rf, offered, taken, removeVars,
                   saveVars, pairings, restarts>>

\* The wired input reports its state in listening mode.
PanelReport ==
    /\ panel = "idle"
    /\ inputChannel # 0
    /\ curDetector' = inputChannel
    /\ PostFeedback
    /\ UNCHANGED <<activated, maxDetector, inputChannel, isRegisterSensor, rf,
                   offered, panelVars, removeVars, saveVars, pairings, restarts>>

-----------------------------------------------------------------------------
(* flash_erase_sensor_data in the MQTT client task.                         *)

\* Only slots up to maxDetector are found.
RemoveBegin(k) ==
    /\ remove = "idle"
    /\ removals < MaxRemovals
    /\ k <= maxDetector
    /\ removals' = removals + 1
    /\ target' = k
    /\ inputChannel' = IF inputChannel = k THEN 0 ELSE inputChannel
    /\ remove' = "clear"
    /\ UNCHANGED <<activated, maxDetector, curDetector, radioVars, panelVars,
                   saveVars, pairings, restarts>>

\* The first registered slot, or 0 without one (as a set of one value).
find_curDetector(S) == IF S = {} THEN {0} ELSE {k \in S : IsLowest(k, S)}

RemoveClear ==
    /\ remove = "clear"
    /\ activated' = activated \ {target}
    /\ curDetector' \in find_curDetector(activated')
    /\ remove' = "save"
    /\ UNCHANGED <<maxDetector, inputChannel, radioVars, panelVars, target, removals,
                   saveVars, pairings, restarts>>

-----------------------------------------------------------------------------
(* flash_save_sensor_data, by the sender after a feedback or by a removal.  *)

Snapshot == [activated |-> activated, maxDetector |-> maxDetector,
             inputChannel |-> inputChannel, curDetector |-> curDetector]

SaveCopy(s) ==
    /\ save[s] = "idle"
    /\ IF s = "sender"
       THEN feedbacks > 0 /\ feedbacks' = feedbacks - 1
       ELSE remove = "save" /\ UNCHANGED feedbacks
    /\ image' = [image EXCEPT ![s] = Snapshot]
    /\ save' = [save EXCEPT ![s] = "copied"]
    /\ UNCHANGED <<sensor_data, isRegisterSensor, rf, offered, panelVars, removeVars,
                   file, pairings, restarts>>

\* fopen(.., "w") truncates the file ...
SaveOpen(s) ==
    /\ save[s] = "copied"
    /\ file' = Empty
    /\ save' = [save EXCEPT ![s] = "open"]
    /\ UNCHANGED <<sensor_data, radioVars, panelVars, removeVars, image, pairings,
                   restarts>>

\* ... which gets its contents when it is closed; the copy is freed.
SaveClose(s) ==
    /\ save[s] = "open"
    /\ file' = image[s]
    /\ save' = [save EXCEPT ![s] = "idle"]
    /\ image' = [image EXCEPT ![s] = NoImage]
    /\ remove' = IF s = "remover" THEN "idle" ELSE remove
    /\ UNCHANGED <<sensor_data, radioVars, panelVars, target, removals, pairings,
                   restarts>>

-----------------------------------------------------------------------------
(* Power loss, watchdog or esp_restart, and app_main up to the tasks.       *)

\* flash_read_sensor_data: a file without contents reads like no file.
Restored(f) == IF f \in {None, Empty} THEN NoImage ELSE f

RestartFrom(f) ==
    /\ restarts < MaxRestarts
    /\ restarts' = restarts + 1
    /\ file' = f
    /\ activated' = Restored(f).activated
    /\ maxDetector' = Restored(f).maxDetector
    /\ inputChannel' = Restored(f).inputChannel
    /\ curDetector' = Restored(f).curDetector
    /\ isRegisterSensor' = FALSE
    /\ feedbacks' = 0
    /\ rf' = "idle" /\ panel' = "idle" /\ remove' = "idle"
    /\ save' = [s \in Savers |-> "idle"]
    /\ image' = [s \in Savers |-> NoImage]
    /\ UNCHANGED <<offered, taken, target, pairings, removals>>

Restart == RestartFrom(file)

\* The button held for USER_RESET_TIME: flash_erase_all_partions, esp_restart.
FactoryReset == RestartFrom(None)

-----------------------------------------------------------------------------
RfStep ==
    \/ \E k \in Slots : RfOffer(k) \/ RfReport(k) \/ RfRegister(k)
    \/ RfOffered
    \/ RfFeedback

PanelStep ==
    \/ \E k \in Slots : PanelTake(k)
    \/ PanelTaken
    \/ PanelPost
    \/ PanelReport

RemoveStep ==
    \/ \E k \in Slots : RemoveBegin(k)
    \/ RemoveClear

SaveStep == \E s \in Savers : SaveCopy(s) \/ SaveOpen(s) \/ SaveClose(s)

Next ==
    \/ RfStep
    \/ PanelStep
    \/ RemoveStep
    \/ SaveStep
    \/ \E k \in Slots : HeartbeatLost(k)
    \/ Restart
    \/ FactoryReset

Spec == Init /\ [][Next]_vars

-----------------------------------------------------------------------------
\* Every registered slot is within maxDetector, in RAM and in the file.  The
\* server's removal, the reset of alarms and the restart look no further than
\* maxDetector: a slot registered above it could never be given back, and after
\* a restart its silence would go unnoticed.
RegisteredInReach ==
    /\ \A k \in activated : k <= maxDetector
    /\ file \in Images => \A k \in file.activated : k <= file.maxDetector

\* No report registers a detector nobody paired: every slot in use was paid for
\* by one {N00} or one closing of the wired input, through any number of
\* reports, removals and restarts from old copies of the registry.
NoStranger ==
    /\ Cardinality(activated) <= pairings
    /\ isRegisterSensor => Cardinality(activated) < pairings
=============================================================================
