------------------------------- MODULE RfMode -------------------------------
(***************************************************************************)
(* The radio mode machine of the gateway.                                  *)
(*                                                                         *)
(* The global ssStateMachine says whether the gateway probes, waits, pairs *)
(* new detectors (REGISTER_SUB, radio on its factory settings) or listens  *)
(* to its own network (LISTEN_SUB_EVENT, radio on the sync code of the     *)
(* site).  Three tasks store to it with no lock in common: the radio task  *)
(* (uart_task.c), the MQTT client task that runs the server's commands     *)
(* (json_parser.c) and the panel task that pairs the wired input           *)
(* (hmi_service.c).  A radio configuration takes seconds, so every store   *)
(* of the two other tasks can land in the middle of a pass of the radio    *)
(* task; each store and each test is therefore a step of its own.          *)
(* xMutex is taken by the radio task only and orders nothing here.         *)
(***************************************************************************)
EXTENDS Naturals

CONSTANTS
    Codes,        \* the sync codes the server may assign
    Torn,         \* a sync code of which only some bytes are stored yet
    Boot,         \* what the radio holds when the gateway starts
    Default,      \* the settings RF_config_default writes
    ProbeLimit,   \* passes of FINDING_SUB before WAIT_ADD_SUB (3 in the code)
    MaxCommands,  \* bound: server commands
    MaxPairings   \* bound: pairings, over the air or at the wired input

ASSUME RfModeAssumption ==
    /\ Torn \notin Codes /\ Boot \notin Codes /\ Default \notin Codes
    /\ Torn # Boot /\ Torn # Default /\ Boot # Default
    /\ ProbeLimit \in Nat \ {0}
    /\ MaxCommands \in Nat
    /\ MaxPairings \in Nat

VARIABLES
    ss,             \* ssStateMachine
    rf_config_mode, \* the server asked for pairing
    status,         \* gateway_data.status, as reported to the server
    sync,           \* sensor_data.sync_code
    probes,         \* switch_listen_mode
    elapsed,        \* 500 ticks have passed since prev_send_cmd
    radio,          \* what the radio module is configured to
    latched,        \* the arguments of the running SET_RF__SYNC_config
    pc,             \* where the radio task is
    cmd,            \* where the command handler is
    code,           \* the sync code the running add command carries
    panel,          \* where the pairing code of the panel task is
    is_start_add_device, \* the panel has used up the present closing of the pins
    commands, pairings   \* counters of the bounds

rfVars == <<probes, elapsed, radio, latched, pc>>
cmdVars == <<rf_config_mode, sync, cmd, code, commands>>
panelVars == <<panel, is_start_add_device>>
vars == <<ss, status, rfVars, cmdVars, panelVars, pairings>>

Modes == {"INIT_CMD", "FINDING_SUB", "WAIT_ADD_SUB", "CONFIG_ADD_MODE",
          "REGISTER_SUB", "CONFIG_LISTEN_MODE", "LISTEN_SUB_EVENT"}

\* Inside the case of the same name, or further down in it.
RfPoints == (Modes \ {"REGISTER_SUB", "LISTEN_SUB_EVENT"})
    \cup {"switch", "count_probe", "set_status", "set_add", "set_listen", "add_test",
          "set_register", "sync_config", "set_event", "handler", "paired"}

CmdPoints == {"idle", "add_code", "add_mode", "add_state",
              "stop_status", "stop_mode", "stop_state"}

TypeOK ==
    /\ ss \in Modes
    /\ rf_config_mode \in BOOLEAN
    /\ status \in {"NORMAL", "ADD_SUB_DEVICE"}
    /\ sync \in Codes \cup {Torn}
    /\ probes \in 0..ProbeLimit
    /\ elapsed \in BOOLEAN
    /\ radio \in Codes \cup {Torn, Boot, Default}
    /\ latched \in Codes \cup {Torn}
    /\ pc \in RfPoints
    /\ cmd \in CmdPoints
    /\ code \in Codes
    /\ panel \in {"idle", "paired"}
    /\ is_start_add_device \in BOOLEAN
    /\ commands \in 0..MaxCommands
    /\ pairings \in 0..MaxPairings

\* uart_fire_detector_sensor_start, after the sync code was read from flash.
Init ==
    /\ ss = "INIT_CMD"
    /\ rf_config_mode = FALSE
    /\ status = "NORMAL"
    /\ sync \in Codes
    /\ probes = 0
    /\ elapsed = FALSE
    /\ radio = Boot
    /\ latched = sync
    /\ pc = "switch"
    /\ cmd = "idle"
    /\ code = sync
    /\ panel = "idle"
    /\ is_start_add_device = FALSE
    /\ commands = 0
    /\ pairings = 0

-----------------------------------------------------------------------------
(* The radio task: rf_handle_ext_task and sensor_data_handler.             *)

\* From one labelled point to another, touching nothing else of the task.
Goto(from, to) == /\ pc = from
                  /\ pc' = to
                  /\ UNCHANGED <<probes, elapsed, radio, latched>>

\* switch (ssStateMachine): the mode is read once per pass.
Dispatch ==
    /\ Goto("switch", IF ss \in {"REGISTER_SUB", "LISTEN_SUB_EVENT"}
                      THEN "handler" ELSE ss)
    /\ UNCHANGED <<ss, status, cmdVars, panelVars, pairings>>

InitCmd ==
    /\ pc = "INIT_CMD"
    /\ elapsed' = FALSE
    /\ ss' = "FINDING_SUB"
    /\ pc' = "switch"
    /\ UNCHANGED <<status, probes, radio, latched, cmdVars, panelVars, pairings>>

\* usertimer_gettick() passes prev_send_cmd + 500.
Tick ==
    /\ ~elapsed
    /\ elapsed' = TRUE
    /\ UNCHANGED <<ss, status, probes, radio, latched, pc, cmdVars, panelVars,
                   pairings>>

FindingPoll ==
    /\ ~elapsed
    /\ Goto("FINDING_SUB", "switch")
    /\ UNCHANGED <<ss, status, cmdVars, panelVars, pairings>>

\* The {T00} probe.
FindingProbe ==
    /\ pc = "FINDING_SUB"
    /\ elapsed
    /\ pc' = "count_probe"
    /\ ss' = "INIT_CMD"
    /\ UNCHANGED <<status, probes, elapsed, radio, latched, cmdVars, panelVars, pairings>>

\* Variant: one probe too many.
CountProbe_OneMore ==
    /\ pc = "count_probe"
    /\ probes' = probes + 1
    /\ ss' = IF probes' > ProbeLimit THEN "WAIT_ADD_SUB" ELSE ss
    /\ pc' = "switch"
    /\ UNCHANGED <<status, elapsed, radio, latched, cmdVars, panelVars, pairings>>

\* Once enough were sent, the end of probing overwrites whatever was stored.
CountProbe ==
    /\ pc = "count_probe"
    /\ probes' = probes + 1
    /\ ss' = IF probes' >= ProbeLimit THEN "WAIT_ADD_SUB" ELSE ss
    /\ pc' = "switch"
    /\ UNCHANGED <<status, elapsed, radio, latched, cmdVars, panelVars, pairings>>

\* Variant: without rf_config_mode the task keeps waiting.
WaitTest_NoElse ==
    /\ Goto("WAIT_ADD_SUB", IF rf_config_mode THEN "set_status" ELSE "switch")
    /\ UNCHANGED <<ss, status, cmdVars, panelVars, pairings>>

WaitTest ==
    /\ Goto("WAIT_ADD_SUB", IF rf_config_mode THEN "set_status" ELSE "set_listen")
    /\ UNCHANGED <<ss, status, cmdVars, panelVars, pairings>>

SetStatus ==
    /\ Goto("set_status", "set_add")
    /\ status' = "ADD_SUB_DEVICE"
    /\ UNCHANGED <<ss, cmdVars, panelVars, pairings>>

\* One store to ssStateMachine at the end of a case.
Store(from, mode) ==
    /\ Goto(from, "switch")
    /\ ss' = mode
    /\ UNCHANGED <<status, cmdVars, panelVars, pairings>>

\* Variant: the radio is not brought back to its factory settings.
ConfigAdd_NoDefault ==
    /\ pc = "CONFIG_ADD_MODE"
    /\ pc' = "add_test"
    /\ UNCHANGED <<ss, status, probes, elapsed, radio, latched, cmdVars, panelVars,
                   pairings>>

\* RF_config_default, with the seconds it takes, and the report to the server.
ConfigAdd ==
    /\ pc = "CONFIG_ADD_MODE"
    /\ radio' = Default
    /\ pc' = "add_test"
    /\ UNCHANGED <<ss, status, probes, elapsed, latched, cmdVars, panelVars,
                   pairings>>

AddTest ==
    /\ Goto("add_test", IF rf_config_mode THEN "set_register" ELSE "set_listen")
    /\ UNCHANGED <<ss, status, cmdVars, panelVars, pairings>>

\* Variant: the code of the previous configuration is used again.
ConfigListen_Stale ==
    /\ pc = "CONFIG_LISTEN_MODE"
    /\ pc' = "sync_config"
    /\ UNCHANGED <<ss, status, probes, elapsed, radio, latched, cmdVars, panelVars,
                   pairings>>

\* The three bytes of sync_code are passed by value ...
ConfigListen ==
    /\ pc = "CONFIG_LISTEN_MODE"
    /\ latched' = sync
    /\ pc' = "sync_config"
    /\ UNCHANGED <<ss, status, probes, elapsed, radio, cmdVars, panelVars, pairings>>

\* ... and reach the radio seconds later.
SyncConfig ==
    /\ pc = "sync_config"
    /\ radio' = latched
    /\ pc' = "set_event"
    /\ UNCHANGED <<ss, status, probes, elapsed, latched, cmdVars, panelVars, pairings>>

\* sensor_data_handler returns: no frame for a second, or a frame handled.
HandlerReturn ==
    /\ Goto("handler", "switch")
    /\ UNCHANGED <<ss, status, cmdVars, panelVars, pairings>>

\* {N00} with a free slot: {S..} is sent, then the task sleeps 350 ms ...
HandlerPair ==
    /\ pairings < MaxPairings
    /\ Goto("handler", "paired")
    /\ pairings' = pairings + 1
    /\ UNCHANGED <<ss, status, cmdVars, panelVars>>

\* ... before it stores the mode and goes on with the frame.
HandlerPaired ==
    /\ Goto("paired", "handler")
    /\ ss' = "CONFIG_LISTEN_MODE"
    /\ UNCHANGED <<status, cmdVars, panelVars, pairings>>

RfStep ==
    \/ Dispatch
    \/ InitCmd
    \/ FindingPoll
    \/ FindingProbe
    \/ CountProbe
    \/ WaitTest
    \/ SetStatus
    \/ Store("set_add", "CONFIG_ADD_MODE")
    \/ Store("set_listen", "CONFIG_LISTEN_MODE")
    \/ ConfigAdd
    \/ AddTest
    \/ Store("set_register", "REGISTER_SUB")
    \/ ConfigListen
    \/ SyncConfig
    \/ Store("set_event", "LISTEN_SUB_EVENT")
    \/ HandlerReturn
    \/ HandlerPair
    \/ HandlerPaired

-----------------------------------------------------------------------------
(* The server's commands: json_parser_gw_job in the MQTT client task.      *)

CmdGoto(from, to) == /\ cmd = from
                     /\ cmd' = to

\* add_sub_devices: the bytes of the code are stored one after the other.
AddBegin(c) ==
    /\ commands < MaxCommands
    /\ CmdGoto("idle", "add_code")
    /\ commands' = commands + 1
    /\ code' = c
    /\ sync' = Torn
    /\ UNCHANGED <<ss, status, rf_config_mode, rfVars, panelVars, pairings>>

AddCode ==
    /\ CmdGoto("add_code", "add_mode")
    /\ sync' = code
    /\ UNCHANGED <<ss, status, rf_config_mode, code, commands, rfVars, panelVars,
                   pairings>>

AddMode ==
    /\ CmdGoto("add_mode", "add_state")
    /\ rf_config_mode' = TRUE
    /\ UNCHANGED <<ss, status, sync, code, commands, rfVars, panelVars, pairings>>

AddState ==
    /\ CmdGoto("add_state", "idle")
    /\ ss' = "WAIT_ADD_SUB"
    /\ UNCHANGED <<status, rf_config_mode, sync, code, commands, rfVars, panelVars,
                   pairings>>

\* stop_add_sub_devices
StopBegin ==
    /\ commands < MaxCommands
    /\ CmdGoto("idle", "stop_status")
    /\ commands' = commands + 1
    /\ UNCHANGED <<ss, status, rf_config_mode, sync, code, rfVars, panelVars,
                   pairings>>

StopStatus ==
    /\ CmdGoto("stop_status", "stop_mode")
    /\ status' = "NORMAL"
    /\ UNCHANGED <<ss, rf_config_mode, sync, code, commands, rfVars, panelVars,
                   pairings>>

StopMode ==
    /\ CmdGoto("stop_mode", "stop_state")
    /\ rf_config_mode' = FALSE
    /\ UNCHANGED <<ss, status, sync, code, commands, rfVars, panelVars, pairings>>

\* Variant: a stop command restarts the machine.
StopState_Restart ==
    /\ CmdGoto("stop_state", "idle")
    /\ ss' = "INIT_CMD"
    /\ UNCHANGED <<status, rf_config_mode, sync, code, commands, rfVars, panelVars,
                   pairings>>

StopState ==
    /\ CmdGoto("stop_state", "idle")
    /\ ss' = "CONFIG_LISTEN_MODE"
    /\ UNCHANGED <<status, rf_config_mode, sync, code, commands, rfVars, panelVars,
                   pairings>>

CmdContinue == AddCode \/ AddMode \/ AddState \/ StopStatus \/ StopMode \/ StopState

-----------------------------------------------------------------------------
(* The panel task: the wired input of hmi_process.                         *)

\* Both pins are closed in pairing mode; a slot is taken if one is free,
\* after which the task sleeps 350 ms ...
PanelPair ==
    /\ panel = "idle"
    /\ ss = "REGISTER_SUB"
    /\ ~is_start_add_device
    /\ is_start_add_device' = TRUE
    /\ \/ /\ pairings < MaxPairings
          /\ pairings' = pairings + 1
          /\ panel' = "paired"
       \/ UNCHANGED <<pairings, panel>>
    /\ UNCHANGED <<ss, status, rfVars, cmdVars>>

\* ... before it stores the mode.
PanelPaired ==
    /\ panel = "paired"
    /\ panel' = "idle"
    /\ ss' = "CONFIG_LISTEN_MODE"
    /\ UNCHANGED <<status, rfVars, cmdVars, is_start_add_device, pairings>>

\* A pin is open again while the gateway listens.
PanelRelease ==
    /\ panel = "idle"
    /\ ss = "LISTEN_SUB_EVENT"
    /\ is_start_add_device
    /\ is_start_add_device' = FALSE
    /\ UNCHANGED <<ss, status, rfVars, cmdVars, panel, pairings>>

-----------------------------------------------------------------------------
Next ==
    \/ RfStep
    \/ Tick
    \/ \E c \in Codes : AddBegin(c)
    \/ StopBegin
    \/ CmdContinue
    \/ PanelPair
    \/ PanelPaired
    \/ PanelRelease

\* No task is ever starved: each runs at its own priority and sleeps or blocks
\* in every pass, and time goes on.  Commands and closed pins need not come.
Fairness ==
    /\ WF_vars(RfStep)
    /\ WF_vars(Tick)
    /\ WF_vars(CmdContinue)
    /\ WF_vars(PanelPaired)

Spec == Init /\ [][Next]_vars /\ Fairness

-----------------------------------------------------------------------------
\* Whoever stored the mode last, the radio already has the settings the mode
\* needs: pairing happens on the factory settings new detectors use, listening
\* never does.  (Which of the site's codes it listens to is ListenCodeFresh.)
RadioMatchesMode ==
    /\ ss = "REGISTER_SUB" => radio = Default
    /\ ss = "LISTEN_SUB_EVENT" => radio \in Codes \cup {Torn}

\* Start-up probing ends for good: no command and no stale store of the radio
\* task brings the probing modes back once the radio was configured, and no
\* more than ProbeLimit probes are ever sent.
ProbesOnlyAtStart ==
    /\ radio # Boot => ss \notin {"INIT_CMD", "FINDING_SUB"}
    /\ probes = ProbeLimit => ss \notin {"INIT_CMD", "FINDING_SUB"}

\* When the server and the panel fall silent the machine comes to rest in one
\* of its two working modes, whatever stores raced before.
ModeSettles == <>[](ss \in {"REGISTER_SUB", "LISTEN_SUB_EVENT"})

\* An add command whose WAIT_ADD_SUB the radio task finds at its switch ends
\* in pairing mode, unless a stop command or a closed wired input intervenes.
AddHonoured ==
    (ss = "WAIT_ADD_SUB" /\ rf_config_mode /\ pc = "switch")
        ~> (ss = "REGISTER_SUB" \/ ~rf_config_mode \/ panel = "paired")

\* An add command that comes while the gateway still probes is not lost: the
\* flag rf_config_mode outlives the overwritten WAIT_ADD_SUB.
AddDuringProbing ==
    (rf_config_mode /\ ss \in {"INIT_CMD", "FINDING_SUB"})
        ~> (ss = "REGISTER_SUB" \/ ~rf_config_mode)

\* A gateway sent to listening with code c listens on exactly c, unless an add
\* command assigns a new code or takes the mode back meanwhile.
ListenCodeFresh ==
    \A c \in Codes :
        (ss = "CONFIG_LISTEN_MODE" /\ pc = "switch" /\ sync = c)
            ~> \/ ss = "LISTEN_SUB_EVENT" /\ radio = c
               \/ sync # c
               \/ ss = "WAIT_ADD_SUB"

\* What the server asks for is done, whenever it asks.
CommandsHonoured == AddHonoured /\ AddDuringProbing /\ ListenCodeFresh
=============================================================================
