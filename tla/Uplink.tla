-------------------------------- MODULE Uplink --------------------------------
(***************************************************************************)
(* The way of a reading from a detector to the server and to the file:     *)
(* the reporting tasks (uart_task.c, hmi_service.c, alarm_task.c), the     *)
(* queue data_process, and the sender (mqtt_send_task in mqtt_task.c).     *)
(*                                                                         *)
(* An event in the queue says that there is something to publish, not      *)
(* about which detector: the sender publishes the one that curDetector     *)
(* names when it comes to the event.  Events that find the queue full are  *)
(* dropped.                                                                *)
(*                                                                         *)
(* The registry is fixed here (Registry models it): every slot has a       *)
(* detector, and one that is removed is paired again at once.              *)
(* Handing a message to the MQTT client counts as publishing: it keeps a   *)
(* QoS 1 message and sends it again until it is acknowledged or too old.   *)
(* Battery states go along with detector states and are left out, as is    *)
(* JOB_REQUESTED_OTA, which ends the client.                               *)
(***************************************************************************)
EXTENDS Naturals, Sequences, SequencesExt

CONSTANTS
    MAX_DECTECTOR,   \* number of slots
    States,          \* detector states told apart
    QueueLength,     \* capacity of data_process (10 in the code)
    inputChannel,    \* slot of the wired input, 0 without one
    OtherEvents      \* TRUE: events about the gateway itself are posted too

ASSUME UplinkAssumption ==
    /\ MAX_DECTECTOR \in Nat \ {0}
    /\ {"normal", "alarm"} \subseteq States
    /\ QueueLength \in Nat \ {0}
    /\ inputChannel \in 0..MAX_DECTECTOR
    /\ OtherEvents \in BOOLEAN

Slots == 1..MAX_DECTECTOR

\* data_event_t, the events that only report on the gateway being one.
Events == {"SS_FEEDBACK_FLAG", "SS_ERROR_FLAG", "SS_REGISTER_SERVER",
           "GW_RESET_SS_STATE", "GW_FEEDBACK_FLAG"}

\* What the server was last told about a detector.
Messages == [state : States, online : BOOLEAN]

VARIABLES
    dtor_sensor_state, curDetector,
    data_process,
    rf, panel, heartbeat,    \* where the reporting tasks are
    mqtt_status, is_mqtt_first_boot, user_reset,
    sender,                  \* where the sender is
    c,                       \* its loop over the detectors
    server,                  \* per detector, the last message
    file                     \* the states saved last

reporters == <<rf, panel, heartbeat>>
link == <<mqtt_status, is_mqtt_first_boot, user_reset>>
sending == <<sender, c, server, file>>
vars == <<dtor_sensor_state, curDetector, data_process, reporters, link, sending>>

TypeOK ==
    /\ dtor_sensor_state \in [Slots -> States]
    /\ curDetector \in 0..MAX_DECTECTOR
    /\ data_process \in BoundedSeq(Events, QueueLength)
    /\ rf \in {"idle", "report", "registered"}
    /\ panel \in {"idle", "report"}
    /\ heartbeat \in {"walk", "lost"}
    /\ mqtt_status \in BOOLEAN
    /\ is_mqtt_first_boot \in BOOLEAN
    /\ user_reset \in BOOLEAN
    /\ sender \in {"receive", "reset", "save"} \cup Events
    /\ c \in 1..(MAX_DECTECTOR + 1)
    /\ server \in [Slots -> Messages]
    /\ file \in [Slots -> States]

\* A start, after whatever an earlier run has saved and told the server: it may
\* have published what it did not come to save, and saved what it did not publish.
Init ==
    /\ file \in [Slots -> States]
    /\ dtor_sensor_state = file
    /\ curDetector \in 0..MAX_DECTECTOR
    /\ server \in [Slots -> Messages]
    /\ data_process = <<>>
    /\ rf = "idle" /\ panel = "idle" /\ heartbeat = "walk"
    /\ mqtt_status = FALSE /\ is_mqtt_first_boot = FALSE
    /\ user_reset \in BOOLEAN
    /\ sender = "receive" /\ c = 1

-----------------------------------------------------------------------------
Room == QueueLength - Len(data_process)

\* Variant: the queue takes any number of events.
Post_NoLimit(events) == data_process' = data_process \o events

\* xQueueSend with a time limit, of one event after the other.
Post(events) ==
    data_process' = data_process \o SubSeq(events, 1, IF Len(events) < Room
                                                      THEN Len(events) ELSE Room)

Posted(event) == event \in ToSet(data_process)

(* The reporting tasks.                                                     *)

\* {Fxx}, {Txx} or {Lxx}, and {Exx}: one read can hold several of them, and the
\* queue is fed once, after the last.
RfReport(k, s) ==
    /\ rf \in {"idle", "report"}
    /\ dtor_sensor_state' = [dtor_sensor_state EXCEPT ![k] = s]
    /\ curDetector' = k
    /\ rf' = "report"
    /\ UNCHANGED <<data_process, panel, heartbeat, link, sending>>

\* The detector was being paired.
RfRegister ==
    /\ rf = "report"
    /\ Post(<<"SS_REGISTER_SERVER">>)
    /\ rf' = "registered"
    /\ UNCHANGED <<dtor_sensor_state, curDetector, panel, heartbeat, link, sending>>

RfFeedback ==
    /\ rf \in {"report", "registered"}
    /\ Post(<<"SS_FEEDBACK_FLAG">>)
    /\ rf' = "idle"
    /\ UNCHANGED <<dtor_sensor_state, curDetector, panel, heartbeat, link, sending>>

\* The wired input, at the latest every SEND_MESSAGE_ALARM_TIME.
PanelReport(s) ==
    /\ panel = "idle"
    /\ inputChannel # 0
    /\ dtor_sensor_state' = [dtor_sensor_state EXCEPT ![inputChannel] = s]
    /\ curDetector' = inputChannel
    /\ panel' = "report"
    /\ UNCHANGED <<data_process, rf, heartbeat, link, sending>>

PanelFeedback ==
    /\ panel = "report"
    /\ Post(<<"SS_FEEDBACK_FLAG">>)
    /\ panel' = "idle"
    /\ UNCHANGED <<dtor_sensor_state, curDetector, rf, heartbeat, link, sending>>

HeartbeatLost(k) ==
    /\ heartbeat = "walk"
    /\ curDetector' = k
    /\ heartbeat' = "lost"
    /\ UNCHANGED <<dtor_sensor_state, data_process, rf, panel, link, sending>>

HeartbeatError ==
    /\ heartbeat = "lost"
    /\ Post(<<"SS_ERROR_FLAG">>)
    /\ heartbeat' = "walk"
    /\ UNCHANGED <<dtor_sensor_state, curDetector, rf, panel, link, sending>>

\* GW_FEEDBACK_FLAG and JOB_REQUESTED_FEEDBACK_FLAG, from the command handler and
\* the network.
OtherEvent ==
    /\ OtherEvents
    /\ Post(<<"GW_FEEDBACK_FLAG">>)
    /\ UNCHANGED <<dtor_sensor_state, curDetector, reporters, link, sending>>

-----------------------------------------------------------------------------
(* mqtt_event_handler_cb                                                    *)

Connected ==
    /\ ~mqtt_status
    /\ mqtt_status' = TRUE
    /\ is_mqtt_first_boot' = TRUE
    /\ IF is_mqtt_first_boot
       THEN UNCHANGED <<data_process, user_reset>>
       ELSE /\ Post(<<"GW_FEEDBACK_FLAG">> \o
                    IF user_reset THEN <<"GW_RESET_SS_STATE">> ELSE <<>>)
            /\ user_reset' = FALSE
    /\ UNCHANGED <<dtor_sensor_state, curDetector, reporters, sending>>

Disconnected ==
    /\ mqtt_status
    /\ mqtt_status' = FALSE
    /\ UNCHANGED <<dtor_sensor_state, curDetector, data_process, reporters,
                   is_mqtt_first_boot, user_reset, sending>>

-----------------------------------------------------------------------------
(* mqtt_send_task                                                           *)

\* Variant: the queue is emptied without a connection, for nothing.
Receive_Offline ==
    /\ sender = "receive"
    /\ data_process # <<>>
    /\ data_process' = Tail(data_process)
    /\ IF mqtt_status THEN sender' = Head(data_process) ELSE UNCHANGED sender
    /\ UNCHANGED <<dtor_sensor_state, curDetector, reporters, link, c, server, file>>

Receive ==
    /\ sender = "receive"
    /\ mqtt_status
    /\ data_process # <<>>
    /\ data_process' = Tail(data_process)
    /\ sender' = Head(data_process)
    /\ UNCHANGED <<dtor_sensor_state, curDetector, reporters, link, c, server, file>>

Publish(k, message) ==
    server' = IF k \in Slots THEN [server EXCEPT ![k] = message] ELSE server

\* Variant: the registry is only saved when it changes its size.
SendFeedback_NoSave ==
    /\ sender = "SS_FEEDBACK_FLAG"
    /\ \E s \in States :
          /\ curDetector \in Slots => s = dtor_sensor_state[curDetector]
          /\ Publish(curDetector, [state |-> s, online |-> TRUE])
    /\ sender' = "receive"
    /\ UNCHANGED <<dtor_sensor_state, curDetector, data_process, reporters, link, c,
                   file>>

SendFeedback ==
    /\ sender = "SS_FEEDBACK_FLAG"
    /\ \E s \in States :
          /\ curDetector \in Slots => s = dtor_sensor_state[curDetector]
          /\ Publish(curDetector, [state |-> s, online |-> TRUE])
    /\ sender' = "save"
    /\ UNCHANGED <<dtor_sensor_state, curDetector, data_process, reporters, link, c,
                   file>>

\* flash_save_sensor_data saves all detectors, the published one or not (Registry
\* takes the saving apart).
SendSave ==
    /\ sender = "save"
    /\ file' = dtor_sensor_state
    /\ sender' = "receive"
    /\ UNCHANGED <<dtor_sensor_state, curDetector, data_process, reporters, link, c,
                   server>>

\* json_packet_message_sensor_error: offline, and always "normal".
SendError ==
    /\ sender = "SS_ERROR_FLAG"
    /\ Publish(curDetector, [state |-> "normal", online |-> FALSE])
    /\ sender' = "receive"
    /\ UNCHANGED <<dtor_sensor_state, curDetector, data_process, reporters, link, c,
                   file>>

\* The messages that say nothing about a detector's state.
SendOther ==
    /\ sender \in {"GW_FEEDBACK_FLAG", "SS_REGISTER_SERVER"}
    /\ sender' = "receive"
    /\ UNCHANGED <<dtor_sensor_state, curDetector, data_process, reporters, link, c,
                   server, file>>

ResetBegin ==
    /\ sender = "GW_RESET_SS_STATE"
    /\ c' = 1
    /\ sender' = "reset"
    /\ UNCHANGED <<dtor_sensor_state, curDetector, data_process, reporters, link,
                   server, file>>

\* Variant: the last detector is not looked at.
ResetDone_OffByOne ==
    /\ sender = "reset" /\ c >= MAX_DECTECTOR
    /\ sender' = "receive"
    /\ UNCHANGED <<dtor_sensor_state, curDetector, data_process, reporters, link, c,
                   server, file>>

ResetDone ==
    /\ sender = "reset" /\ c > MAX_DECTECTOR
    /\ sender' = "receive"
    /\ UNCHANGED <<dtor_sensor_state, curDetector, data_process, reporters, link, c,
                   server, file>>

\* An alarm is cleared, published and saved; the next detector 20 ms later.
ResetNext ==
    /\ sender = "reset" /\ c <= MAX_DECTECTOR
    /\ IF dtor_sensor_state[c] = "alarm"
       THEN /\ dtor_sensor_state' = [dtor_sensor_state EXCEPT ![c] = "normal"]
            /\ Publish(c, [state |-> "normal", online |-> TRUE])
            /\ file' = dtor_sensor_state'
       ELSE UNCHANGED <<dtor_sensor_state, server, file>>
    /\ c' = c + 1
    /\ UNCHANGED <<curDetector, data_process, reporters, link, sender>>

-----------------------------------------------------------------------------
\* A removal clears the state of its target, names the first detector left, and
\* saves (flash_erase_sensor_data, in the command handler).
Removal(k) ==
    /\ dtor_sensor_state' = [dtor_sensor_state EXCEPT ![k] = "normal"]
    /\ curDetector' = IF Slots = {k} THEN 0 ELSE Min(Slots \ {k})
    /\ file' = dtor_sensor_state'
    /\ UNCHANGED <<data_process, reporters, link, sender, c, server>>

-----------------------------------------------------------------------------
Sender ==
    \/ SendFeedback
    \/ SendSave
    \/ SendError
    \/ SendOther
    \/ ResetBegin
    \/ ResetNext
    \/ ResetDone

Next ==
    \/ \E k \in Slots, s \in States : RfReport(k, s)
    \/ RfRegister
    \/ RfFeedback
    \/ \E s \in States : PanelReport(s)
    \/ PanelFeedback
    \/ \E k \in Slots : HeartbeatLost(k)
    \/ HeartbeatError
    \/ OtherEvent
    \/ Connected
    \/ Disconnected
    \/ Receive
    \/ Sender
    \/ \E k \in Slots : Removal(k)

\* The sender runs on when it has an event, and looks at the queue every 20 ms:
\* if the connection is there again and again, it is there at such a time.
Fairness ==
    /\ WF_vars(Connected)
    /\ SF_vars(Receive)
    /\ WF_vars(Sender)

Spec == Init /\ [][Next]_vars /\ Fairness

-----------------------------------------------------------------------------
\* After an accepted feedback event there comes a moment at which the server
\* agrees with the gateway on the detector that curDetector names, however often
\* that changed meanwhile: no connection loss, earlier event or reset in between
\* makes the sender forget it.
LatestPublished ==
    Posted("SS_FEEDBACK_FLAG")
        ~> \/ curDetector = 0
           \/ server[curDetector] = [state |-> dtor_sensor_state[curDetector],
                                     online |-> TRUE]

\* After an accepted error event, the detector named last has been marked offline.
LossPublished ==
    Posted("SS_ERROR_FLAG") ~> (curDetector = 0 \/ ~server[curDetector].online)

\* Neither kind of event is forgotten.
EventsPublished == LatestPublished /\ LossPublished

\* An accepted feedback event gets every alarm into the file, from which a restart
\* takes it up again: those included whose own report it does not publish.
AlarmSaved ==
    \A k \in Slots :
        (Posted("SS_FEEDBACK_FLAG") /\ dtor_sensor_state[k] = "alarm")
            ~> (file[k] = "alarm" \/ dtor_sensor_state[k] # "alarm")

\* README: the project "aims to update the status of the sensor system to users as
\* soon as possible".  An alarm in the detector named last, whose event has been
\* accepted, reaches the server, unless the detector reports another state first.
AlarmPublished ==
    \A k \in Slots :
        (Posted("SS_FEEDBACK_FLAG") /\ curDetector = k /\ dtor_sensor_state[k] = "alarm")
            ~> (server[k].state = "alarm" \/ dtor_sensor_state[k] # "alarm")
=============================================================================
