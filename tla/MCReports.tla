------------------------------ MODULE MCReports ------------------------------
(* What becomes of a detector that is silent and of one that is in alarm: the *)
(* heartbeat list with one adding task, uart_task.c ("list"), and the reset   *)
(* of alarms after a start, on a site with a detector on the air and a wired  *)
(* input ("reset").  The variables of one rest while the other runs, and each *)
(* has a variable that remembers what the task under way has to do.           *)
EXTENDS DetectorList, TLC

VARIABLES
    part,
    due,        \* detectors that were in the list and silent when the walk began, and
                \* have neither been declared lost nor heard of since
    dtor_sensor_state, curDetector, data_process, rf, panel, heartbeat, mqtt_status,
    is_mqtt_first_boot, user_reset, sender, c, server, file,
    unheard     \* slots that were in alarm when the reset began, and have not reported
                \* or been removed since

Uplink == INSTANCE Uplink WITH
    MAX_DECTECTOR <- 2, States <- {"normal", "alarm"},
    QueueLength <- 2, inputChannel <- 1, OtherEvents <- TRUE

listVars == <<vars, due>>
resetVars == <<dtor_sensor_state, curDetector, data_process, rf, panel, heartbeat, mqtt_status,
               is_mqtt_first_boot, user_reset, sender, c, server, file, unheard>>

Interchangeable == Permutations(Detectors) \cup Permutations(Cells)

-----------------------------------------------------------------------------
\* Nothing is asked of a walk during which somebody is misled.
DueNext ==
    due' = IF misled' # {} THEN {}
           ELSE IF checker = NULL /\ checker' # NULL
                THEN {k \in Detectors : CellsOf(k, List) # {} /\ silence[k] = HEART_BEAT_TIME}
                ELSE {k \in due : silence'[k] = HEART_BEAT_TIME /\ ~Lost(k)'}

\* A bound: while somebody is misled no report comes, no time passes, and no other cell
\* is overwritten.
ListNext ==
    /\ \/ misled = {} /\ Next
       \/ misled # {} /\ (Walk \/ Panic \/ \E a \in Adders : AddGoesOn(a))
    /\ DueNext

\* The user has asked for the reset, and the server knows what the file says.
ResetInit ==
    /\ Uplink!Init /\ user_reset /\ curDetector = 0
    /\ \A k \in Uplink!Slots : server[k] = [state |-> file[k], online |-> TRUE]

Alarms == {k \in Uplink!Slots : dtor_sensor_state[k] = "alarm"}

\* A step that is not the sender's changes the state of a detector that was heard of, or
\* removed.
UnheardNext ==
    unheard' = IF sender' # "reset" THEN {}
               ELSE IF sender # "reset" THEN Alarms
               ELSE IF c' # c THEN unheard
               ELSE {k \in unheard : dtor_sensor_state'[k] = dtor_sensor_state[k]}

\* A bound: no detector is registered or lost meanwhile, and the connection stays.
ResetNext ==
    /\ Uplink!Next
    /\ rf' # "registered" /\ heartbeat' = "walk" /\ (mqtt_status => mqtt_status')
    /\ UnheardNext

-----------------------------------------------------------------------------
\* A start with no detector in alarm, where nothing happens.
ResetRests == ResetInit /\ Alarms = {}

ReportsInit ==
    /\ Init /\ due = {} /\ unheard = {}
    /\ \/ part = "list" /\ ResetRests
       \/ part = "reset" /\ ResetInit

ReportsNext ==
    \/ part = "list" /\ ListNext /\ UNCHANGED <<part, resetVars>>
    \/ part = "reset" /\ ResetNext /\ UNCHANGED <<part, listVars>>

ReportsSpec == ReportsInit /\ [][ReportsNext]_<<part, listVars, resetVars>>

-----------------------------------------------------------------------------
\* alarm_task.c: a walk that has come to its end has declared lost every detector that was
\* in the list and silent when it began, unless it was heard of meanwhile: no removal of
\* another one, no cell added during the walk, and no stale head makes the walk miss it.
SilenceNoticed == monitor = "walk" /\ checker = NULL => due = {}

\* mqtt_task.c: a reset leaves out no detector.  When it ends, each that was in alarm when
\* it began, and has not reported in its pauses, is back to normal on the gateway, in the
\* file, and at the server.
ResetClearsAlarms ==
    [][sender = "reset" /\ sender' # "reset"
          => \A k \in unheard : /\ dtor_sensor_state[k] = "normal" /\ file[k] = "normal"
                                /\ server[k] = [state |-> "normal", online |-> TRUE]]_resetVars
=============================================================================
