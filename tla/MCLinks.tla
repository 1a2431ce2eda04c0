-------------------------------- MODULE MCLinks --------------------------------
(* What connects the gateway: the start with its tasks, Wi-Fi and BLE         *)
(* ("start"), and the SIM modem ("modem").  The variables of one rest while   *)
(* the other runs.                                                            *)
EXTENDS Startup, Modem

ASSUME LinksAssumption == MaxSync \in Nat \ {0} /\ MaxLate \in Nat /\ MaxLines \in Nat

VARIABLE part

allVars == <<part, vars, modemVars>>

StartRests == ~ssid /\ ~pairFile /\ ~get_active_start

LinksInit ==
    /\ Init /\ ModemInit
    /\ part = "start" \/ (part = "modem" /\ StartRests)

InStart(A) == part = "start" /\ A /\ UNCHANGED <<part, modemVars>>
InModem(A) == part = "modem" /\ A /\ UNCHANGED <<part, vars>>

LinksNext == InStart(Next) \/ InModem(ModemNext)

LinksFairness ==
    /\ WF_allVars(InStart(AppMain))
    /\ WF_allVars(InStart(EventTask))
    /\ WF_allVars(InStart(DriverAnswers))
    /\ WF_allVars(InStart(BleTask))
    /\ WF_allVars(InModem(Sending))
    /\ WF_allVars(InModem(SimInit))
    /\ WF_allVars(InModem(SimDenit))
    /\ WF_allVars(InModem(Uart))
    /\ WF_allVars(InModem(ModemAnswers))
    /\ WF_allVars(InModem(PppUp \/ PppEnds))
    /\ WF_allVars(InModem(PppClosed))

LinksSpec == LinksInit /\ [][LinksNext]_allVars /\ LinksFairness

-----------------------------------------------------------------------------
\* The states of both modules keep their types.
TypesOK == TypeOK /\ ModemTypeOK

\* Start: with credentials app_main comes to its end, and Wi-Fi that was lost is tried
\* again until its flag tells the truth.
StartSettles == StartCompletes /\ WifiRecovers

\* Modem: PPP and hanging up find the modem in the right mode, and the interface is
\* destroyed after its link is closed.
ModemSound == ModeAgrees /\ TeardownClean

\* Modem: the network task gets back from setting up a call, and from leaving PPP.
ModemReturns == DialEnds /\ DenitEnds
=============================================================================
