--------------------------------- MODULE Modem ---------------------------------
(***************************************************************************)
(* The SIM modem: main_sim_init and sim_denit of the network task          *)
(* (main_app.c) down to the single AT command (esp_modem.c,                *)
(* esp_modem_dce_service.c, sim800.c), the UART task that handles its      *)
(* answers and drives the event loop, and the PPP link                     *)
(* (esp_netif_lwip_ppp.c, esp_modem_netif.c).                              *)
(*                                                                         *)
(* Two tasks share handle_line, the state of the command and a binary      *)
(* semaphore without a lock.  An answer may come after its command has     *)
(* timed out, when the next one is under way.  Lines of information (the   *)
(* IMEI, the signal quality) are only logged and left out; the text PPP    *)
(* sends is not.  The modem and the PPP peer are external.  A failed       *)
(* ESP_ERROR_CHECK restarts the gateway.                                   *)
(***************************************************************************)
EXTENDS Naturals, Sequences

CONSTANTS
    MaxSync,   \* attempts to get a first answer, before and after a reset (11)
    MaxLate,   \* answers that come too late
    MaxLines   \* lines waiting in the UART

\* What a line of the modem may say, as the handlers tell it.
Lines == {"OK", "ERROR", "CONNECT", "NO CARRIER"}

\* The commands in the order of main_sim_init, and those of sim_denit.
Opening == <<"AT", "ATE0", "AT+CGMM", "AT+CGSN", "AT+CIMI", "AT+COPS?">>
Checking == <<"AT&W", "AT+CSQ", "AT+CBC", "AT+CGDCONT">>
Elements(s) == {s[i] : i \in DOMAIN s}
Dialling == {"ATD*99#", "ATO"}
Leaving == {"+++", "resync"}
Commands == {"sync"} \cup Elements(Opening) \cup Elements(Checking)
    \cup Dialling \cup Leaving \cup {"ATH"}

VARIABLES
    pc, step,         \* the network task: its command, how far it is with it
    attempts, reset,  \* of the first synchronisation
    handle_line, state, process_sem,   \* one command at a time
    mode, exit_sem,
    uart, call,       \* the UART task; the handler it calls, with what
    loop,             \* its events
    answering, data,  \* the modem: commands it has, TRUE in data mode
    rx,               \* lines on their way
    ppp, pppBits, STOP_BIT,
    lost, errors, gaveUp, late  \* history

modemVars == <<pc, step, attempts, reset, handle_line, state, process_sem, mode, exit_sem,
               uart, call, loop, answering, data, rx, ppp, pppBits, STOP_BIT,
               lost, errors, gaveUp, late>>
command == <<handle_line, state, process_sem>>
uartTask == <<uart, call, loop>>
modem == <<answering, data, rx>>
link == <<ppp, pppBits, exit_sem, STOP_BIT>>
modemHistory == <<lost, errors, gaveUp, late>>

ModemTypeOK ==
    /\ pc \in {"power", "wait", "online", "exit", "stopped", "deinit", "absent", "off"}
              \cup Commands
    /\ step \in {"ready", "installed", "waiting", "judge", "timeout"}
    /\ attempts \in 0..(MaxSync - 1) /\ reset \in BOOLEAN
    /\ handle_line \in {"NULL"} \cup Commands
    /\ state \in {"PROCESSING", "SUCCESS", "FAIL"} /\ process_sem \in BOOLEAN
    /\ mode \in {"command", "transition", "ppp"} /\ exit_sem \in BOOLEAN
    /\ uart \in {"run", "spin", "call", "closing"}
    /\ call \in {<<>>} \cup (Commands \X Lines)
    /\ loop \in Seq({"START", "STOP"}) /\ Len(loop) <= 2
    /\ answering \in Seq(Commands)
    /\ data \in BOOLEAN
    /\ rx \in Seq(Lines) /\ Len(rx) <= MaxLines
    /\ ppp \in {"dead", "connecting", "up", "terminating"}
    /\ pppBits \in BOOLEAN /\ STOP_BIT \in BOOLEAN
    /\ lost \in BOOLEAN /\ errors \in BOOLEAN /\ gaveUp \in BOOLEAN
    /\ late \in 0..MaxLate

\* No objects yet.  sim_power_reset leaves the modem in command mode.
ModemInit ==
    /\ pc = "power" /\ step = "ready" /\ attempts = 0 /\ reset = FALSE
    /\ handle_line = "NULL" /\ state = "FAIL" /\ process_sem = FALSE
    /\ mode = "command" /\ exit_sem = FALSE
    /\ uart = "run" /\ call = <<>> /\ loop = <<>>
    /\ ppp = "dead" /\ pppBits = FALSE /\ STOP_BIT = FALSE
    /\ lost = FALSE /\ errors = FALSE /\ gaveUp = FALSE /\ late = 0
    /\ answering = <<>> /\ data = FALSE /\ rx = <<>>

\* The same for a step: esp_restart, or the objects are freed (dce->deinit,
\* dte->deinit) and made again.
Again(next) ==
    /\ pc' = next /\ step' = "ready" /\ attempts' = 0 /\ reset' = FALSE
    /\ handle_line' = "NULL" /\ state' = "FAIL" /\ process_sem' = FALSE
    /\ mode' = "command" /\ exit_sem' = FALSE
    /\ uart' = "run" /\ call' = <<>> /\ loop' = <<>>
    /\ ppp' = "dead" /\ pppBits' = FALSE /\ STOP_BIT' = FALSE
    /\ lost' = FALSE /\ errors' = FALSE /\ gaveUp' = FALSE /\ late' = 0
    /\ answering' = <<>> /\ data' = FALSE /\ rx' = <<>>

ModemRestart == Again("power")

-----------------------------------------------------------------------------
(* One command: send_cmd, with the handler installed before and the state   *)
(* read after.                                                              *)

Install(c) ==
    /\ pc = c /\ step = "ready"
    /\ handle_line' = c
    /\ step' = "installed"
    /\ UNCHANGED <<pc, attempts, reset, state, process_sem, mode, uartTask, modem, link,
                   modemHistory>>

\* What a modem in data mode takes for data, it does not answer.
Send ==
    /\ step = "installed"
    /\ state' = "PROCESSING"
    /\ answering' = IF data /\ pc # "+++" THEN answering ELSE Append(answering, pc)
    /\ step' = "waiting"
    /\ UNCHANGED <<pc, attempts, reset, handle_line, process_sem, mode, uartTask, data,
                   rx, link, modemHistory>>

Take ==
    /\ step = "waiting" /\ process_sem
    /\ process_sem' = FALSE
    /\ handle_line' = "NULL"
    /\ step' = "judge"
    /\ UNCHANGED <<pc, attempts, reset, state, mode, uartTask, modem, link, modemHistory>>

\* Too early if an answer is still to come.
Timeout ==
    /\ step = "waiting" /\ ~process_sem
    /\ IF answering = <<>> /\ rx = <<>> /\ uart # "call"
       THEN UNCHANGED late ELSE late < MaxLate /\ late' = late + 1
    /\ handle_line' = "NULL"
    /\ step' = "timeout"
    /\ UNCHANGED <<pc, attempts, reset, state, process_sem, mode, uartTask, modem, link,
                   lost, errors, gaveUp>>

Succeeds(c) == pc = c /\ step = "judge" /\ state = "SUCCESS"
Fails(c) == pc = c /\ (step = "timeout" \/ (step = "judge" /\ state # "SUCCESS"))

GoesOn(next) ==
    /\ pc' = next /\ step' = "ready"
    /\ UNCHANGED <<command, uartTask, modemHistory>>

After(c, s, then) ==
    LET i == CHOOSE j \in DOMAIN s : s[j] = c
    IN  IF i = Len(s) THEN then ELSE s[i + 1]

-----------------------------------------------------------------------------
(* main_sim_init                                                            *)

\* The status pin says that the module is on, or it never does.
PowerUp ==
    /\ pc = "power"
    /\ GoesOn("sync")
    /\ UNCHANGED <<attempts, reset, mode, modem, link>>

\* The module is spoken to until it answers.  Only the state is looked at: an answer
\* that was handled after the time was over counts.
Synced == pc = "sync" /\ step \in {"judge", "timeout"} /\ state = "SUCCESS"

SyncOk ==
    /\ Synced
    /\ GoesOn("AT")
    /\ UNCHANGED <<attempts, reset, mode, modem, link>>

SyncAgain ==
    /\ pc = "sync" /\ step \in {"judge", "timeout"} /\ ~Synced
    /\ attempts < MaxSync - 1
    /\ attempts' = attempts + 1
    /\ GoesOn("sync")
    /\ UNCHANGED <<reset, mode, modem, link>>

\* The reset pulse: what the module was doing is gone.
SyncReset ==
    /\ pc = "sync" /\ step \in {"judge", "timeout"} /\ ~Synced
    /\ attempts = MaxSync - 1 /\ ~reset
    /\ attempts' = 0 /\ reset' = TRUE
    /\ GoesOn("sync")
    /\ answering' = <<>> /\ data' = FALSE
    /\ UNCHANGED <<mode, rx, link>>

\* Sim not found, skip setup.
Absent ==
    /\ \/ /\ pc = "sync" /\ step \in {"judge", "timeout"} /\ ~Synced
          /\ attempts = MaxSync - 1 /\ reset
       \/ \E c \in Elements(Opening) : Fails(c) /\ (c = "AT" => state # "SUCCESS")
    /\ GoesOn("absent")
    /\ UNCHANGED <<attempts, reset, mode, modem, link>>

OpeningOk ==
    /\ \E c \in Elements(Opening) :
          /\ Succeeds(c) \/ (c = "AT" /\ Fails(c) /\ state = "SUCCESS")
          /\ GoesOn(After(c, Opening, "AT&W"))
    /\ UNCHANGED <<attempts, reset, mode, modem, link>>

\* store_profile, the signal, the battery, and define_pdp_context of start_ppp.
\* After the last one change_mode begins.
CheckingOk ==
    /\ \E c \in Elements(Checking) :
          /\ Succeeds(c)
          /\ GoesOn(After(c, Checking, "ATD*99#"))
          /\ mode' = IF c = "AT+CGDCONT" THEN "transition" ELSE mode
    /\ UNCHANGED <<attempts, reset, modem, link>>

CheckingFails ==
    /\ \E c \in Elements(Checking) \ {"AT+CGDCONT"} : Fails(c)
    /\ ModemRestart

\* Already dialled: the data mode may only have to be resumed.
DialAgain ==
    /\ pc = "ATD*99#" /\ step = "judge" /\ state # "SUCCESS"
    /\ GoesOn("ATO")
    /\ UNCHANGED <<attempts, reset, mode, modem, link>>

DialOk ==
    /\ \E c \in Dialling : Succeeds(c)
    /\ mode' = "ppp"
    /\ loop' = Append(loop, "START")
    /\ pc' = "wait" /\ step' = "ready"
    /\ UNCHANGED <<attempts, reset, command, uart, call, modem, link, modemHistory>>

\* start_ppp fails, which esp_netif_attach's caller does not look at: it waits for
\* events that nothing will cause.
DialFails ==
    /\ \/ Fails("AT+CGDCONT")
       \/ pc = "ATD*99#" /\ step = "timeout"
       \/ Fails("ATO")
    /\ mode' = "command"
    /\ GoesOn("wait")
    /\ UNCHANGED <<attempts, reset, modem, link>>

WaitOver ==
    /\ pc = "wait" /\ pppBits
    /\ pppBits' = FALSE
    /\ GoesOn("online")
    /\ UNCHANGED <<attempts, reset, mode, modem, ppp, exit_sem, STOP_BIT>>

-----------------------------------------------------------------------------
(* sim_denit                                                                *)

Stop ==
    /\ pc = "online"
    /\ mode' = "transition"
    /\ GoesOn("+++")
    /\ UNCHANGED <<attempts, reset, modem, link>>

\* The modem may be in command mode already.
Resync ==
    /\ pc = "+++" /\ step = "timeout"
    /\ GoesOn("resync")
    /\ UNCHANGED <<attempts, reset, mode, modem, link>>

\* Variant: the module is taken to be in command mode when it does not answer.
CommandMode_Assumed ==
    /\ Succeeds("+++") \/ (pc = "+++" /\ step = "timeout")
    /\ mode' = "command"
    /\ rx' = <<>>
    /\ loop' = Append(loop, "STOP")
    /\ pc' = "ATH" /\ step' = "ready"
    /\ UNCHANGED <<attempts, reset, command, uart, call, answering, data, link, modemHistory>>

\* Variant: the event is posted only after an escape that was answered.
CommandMode_NoEvent ==
    /\ Succeeds("+++") \/ Succeeds("resync")
    /\ mode' = "command"
    /\ rx' = <<>>
    /\ loop' = IF pc = "+++" THEN Append(loop, "STOP") ELSE loop
    /\ pc' = "ATH" /\ step' = "ready"
    /\ UNCHANGED <<attempts, reset, command, uart, call, answering, data, link, modemHistory>>

\* In command mode: the UART is flushed, the event is posted.
CommandMode ==
    /\ Succeeds("+++") \/ Succeeds("resync")
    /\ mode' = "command"
    /\ rx' = <<>>
    /\ loop' = Append(loop, "STOP")
    /\ pc' = "ATH" /\ step' = "ready"
    /\ UNCHANGED <<attempts, reset, command, uart, call, answering, data, link, modemHistory>>

StopFails ==
    /\ \/ pc = "+++" /\ step = "judge" /\ state # "SUCCESS"
       \/ Fails("resync")
       \/ Fails("ATH")
    /\ ModemRestart

HangUp ==
    /\ Succeeds("ATH")
    /\ GoesOn("exit")
    /\ UNCHANGED <<attempts, reset, mode, modem, link>>

\* The link has closed, or 20 s are over.
Exit ==
    /\ pc = "exit"
    /\ exit_sem' = FALSE
    /\ gaveUp' = ~exit_sem
    /\ pc' = "stopped" /\ step' = "ready"
    /\ UNCHANGED <<attempts, reset, command, mode, uartTask, modem, ppp, pppBits, STOP_BIT,
                   lost, errors, late>>

\* Without a limit.
Stopped ==
    /\ pc = "stopped" /\ STOP_BIT
    /\ STOP_BIT' = FALSE
    /\ GoesOn("deinit")
    /\ UNCHANGED <<attempts, reset, mode, modem, ppp, pppBits, exit_sem>>

\* To dial again, or to leave the SIM off.
Deinit == pc = "deinit" /\ (Again("power") \/ Again("off"))

-----------------------------------------------------------------------------
(* uart_event_task_entry                                                    *)

\* The handlers: the state that a line ends the command with, if any.
Final(c, l) ==
    CASE c = "+++" /\ l \in {"OK", "NO CARRIER"} -> "SUCCESS"
      [] c \in Dialling /\ l = "CONNECT" -> "SUCCESS"
      [] c \notin {"+++"} \cup Dialling /\ l = "OK" -> "SUCCESS"
      [] l = "ERROR" -> "FAIL"
      [] OTHER -> "none"

\* A line in PPP mode is PPP's.  One that no command waits for is only reported.
UartDrops ==
    /\ uart = "run" /\ rx # <<>>
    /\ mode = "ppp" \/ handle_line = "NULL"
    /\ rx' = Tail(rx)
    /\ UNCHANGED <<pc, step, attempts, reset, command, mode, uartTask, answering, data,
                   link, modemHistory>>

\* Data that does not end a line, in the middle of leaving PPP: the task reads on
\* until a line ends or its buffer is full, but as a command is being processed only.
UartSpins ==
    /\ uart = "run" /\ mode = "transition" /\ pc \in Leaving
    /\ state = "PROCESSING"
    /\ uart' = "spin"
    /\ UNCHANGED <<pc, step, attempts, reset, command, mode, call, loop, modem, link,
                   modemHistory>>

UartSpinFull ==
    /\ uart = "spin"
    /\ uart' = "run"
    /\ UNCHANGED <<pc, step, attempts, reset, command, mode, call, loop, modem, link,
                   modemHistory>>

\* There is a handler: it will be called.
UartLine ==
    /\ uart \in {"run", "spin"} /\ rx # <<>>
    /\ mode # "ppp" /\ handle_line # "NULL"
    /\ uart' = "call"
    /\ call' = <<handle_line, Head(rx)>>
    /\ rx' = Tail(rx)
    /\ UNCHANGED <<pc, step, attempts, reset, command, mode, loop, answering, data, link,
                   modemHistory>>

\* In between the other task may have changed the handler; whether it is read again
\* is up to the compiler.
UartCall ==
    /\ uart = "call"
    /\ \E c \in {call[1], handle_line} \ {"NULL"} :
          IF Final(c, call[2]) = "none" THEN UNCHANGED <<state, process_sem>>
          ELSE state' = Final(c, call[2]) /\ process_sem' = TRUE
    /\ uart' = "run" /\ call' = <<>>
    /\ UNCHANGED <<pc, step, attempts, reset, handle_line, mode, loop, modem, link,
                   modemHistory>>

UartCallsNull == uart = "call" /\ handle_line = "NULL" /\ ModemRestart

\* ESP_MODEM_EVENT_PPP_START: esp_netif_start_ppp.
UartStarts ==
    /\ uart = "run" /\ loop # <<>> /\ Head(loop) = "START"
    /\ loop' = Tail(loop)
    /\ ppp' = "connecting"
    /\ UNCHANGED <<pc, step, attempts, reset, command, mode, uart, call, modem, pppBits,
                   exit_sem, STOP_BIT, modemHistory>>

\* ESP_MODEM_EVENT_PPP_STOP: the firmware's handler comes first ...
UartStops ==
    /\ uart = "run" /\ loop # <<>> /\ Head(loop) = "STOP"
    /\ loop' = Tail(loop)
    /\ STOP_BIT' = TRUE
    /\ uart' = "closing"
    /\ UNCHANGED <<pc, step, attempts, reset, command, mode, call, modem, ppp, pppBits,
                   exit_sem, modemHistory>>

\* ... then esp_netif_stop_ppp; a link that is down already says so at once.
UartCloses ==
    /\ uart = "closing"
    /\ uart' = "run"
    /\ IF ppp = "dead" THEN exit_sem' = TRUE /\ UNCHANGED ppp
       ELSE ppp' = "terminating" /\ UNCHANGED exit_sem
    /\ UNCHANGED <<pc, step, attempts, reset, command, mode, call, loop, modem, pppBits,
                   STOP_BIT, modemHistory>>

-----------------------------------------------------------------------------
(* The PPP link, its events and their handlers.                             *)

PppUp ==
    /\ ppp = "connecting" /\ data
    /\ ppp' = "up" /\ pppBits' = TRUE
    /\ UNCHANGED <<pc, step, attempts, reset, command, mode, uartTask, modem, exit_sem,
                   STOP_BIT, modemHistory>>

\* A link that ends of itself: with the loss of the address, or with an error, which
\* the modem's handler takes for the end of stop_ppp.
PppEnds ==
    /\ ppp \in {"connecting", "up"}
    /\ ppp' = "dead" /\ pppBits' = TRUE
    /\ \/ UNCHANGED <<exit_sem, errors>>
       \/ exit_sem' = TRUE /\ errors' = TRUE
    /\ UNCHANGED <<pc, step, attempts, reset, command, mode, uartTask, modem, STOP_BIT,
                   lost, gaveUp, late>>

\* One that was told to.
PppClosed ==
    /\ ppp = "terminating"
    /\ ppp' = "dead" /\ pppBits' = TRUE
    /\ exit_sem' = TRUE
    /\ UNCHANGED <<pc, step, attempts, reset, command, mode, uartTask, modem, STOP_BIT,
                   modemHistory>>

(* The modem: it answers commands in their order, or does not.  What it has *)
(* when it enters data mode is data.                                        *)

Answers(c) ==
    CASE c \in Dialling -> {"CONNECT", "ERROR", "NO CARRIER"}
      [] c = "+++" -> IF data THEN {"OK"} ELSE {}
      [] OTHER -> {"OK", "ERROR"}

ModemAnswers ==
    /\ answering # <<>> /\ Len(rx) < MaxLines
    /\ LET c == Head(answering)
       IN  \/ \E l \in Answers(c) :
                 /\ rx' = Append(rx, l) /\ data' = (l = "CONNECT")
                 /\ answering' = IF data' THEN <<>> ELSE Tail(answering)
           \/ UNCHANGED <<rx, data>> /\ answering' = Tail(answering)
    /\ UNCHANGED <<pc, step, attempts, reset, command, mode, uartTask, link, modemHistory>>

ModemLoses ==
    /\ data /\ Len(rx) < MaxLines
    /\ data' = FALSE
    /\ rx' = Append(rx, "NO CARRIER")
    /\ lost' = TRUE
    /\ UNCHANGED <<pc, step, attempts, reset, command, mode, uartTask, answering, link,
                   errors, gaveUp, late>>

-----------------------------------------------------------------------------
Sending == (\E c \in Commands : Install(c)) \/ Send \/ Take \/ Timeout

SimInit ==
    \/ PowerUp
    \/ SyncOk
    \/ SyncAgain
    \/ SyncReset
    \/ Absent
    \/ OpeningOk
    \/ CheckingOk
    \/ CheckingFails
    \/ DialAgain
    \/ DialOk
    \/ DialFails
    \/ WaitOver

SimDenit == Resync \/ CommandMode \/ StopFails \/ HangUp \/ Exit \/ Stopped \/ Deinit

Uart ==
    \/ UartDrops
    \/ UartLine
    \/ UartCall
    \/ UartStarts
    \/ UartStops
    \/ UartCloses

ModemNext ==
    \/ Sending
    \/ SimInit
    \/ SimDenit
    \/ Stop
    \/ Uart
    \/ UartSpins
    \/ UartSpinFull
    \/ UartCallsNull
    \/ PppUp
    \/ PppEnds
    \/ PppClosed
    \/ ModemAnswers
    \/ ModemLoses

\* The tasks run, time goes by, the modem answers what it answers in time; a link
\* that is being set up or closed is up or down in the end.
ModemFairness ==
    /\ WF_modemVars(Sending) /\ WF_modemVars(SimInit) /\ WF_modemVars(SimDenit)
    /\ WF_modemVars(Uart) /\ WF_modemVars(ModemAnswers)
    /\ WF_modemVars(PppUp \/ PppEnds) /\ WF_modemVars(PppClosed)

ModemSpec == ModemInit /\ [][ModemNext]_modemVars /\ ModemFairness

-----------------------------------------------------------------------------
\* Whatever answers come late and whatever is left in the semaphore: PPP talks to a
\* modem in data mode (or one that has lost its carrier), and hanging up to one that
\* is in command mode.
ModeAgrees ==
    late = 0 => /\ mode = "ppp" => data \/ lost
                /\ pc = "ATH" => ~data

\* The interface is destroyed only after its link is closed, unless that took more
\* than 20 s or an error has already been taken for the end.
TeardownClean ==
    pc = "deinit" => (ppp = "dead" /\ uart # "closing") \/ gaveUp \/ errors

\* A call that is set up ends the wait of main_sim_init: with an address or without.
\* (One that could not be set up does not: nothing ends that wait.)
DialEnds == (pc = "wait" /\ mode = "ppp") ~> pc # "wait"

\* Once it has begun, sim_denit comes to its end, or restarts the gateway: also if
\* the UART task was reading on for a line that does not end.
DenitEnds == pc = "+++" ~> pc \in {"power", "off"}
=============================================================================
