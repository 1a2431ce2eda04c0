---------------------------- MODULE MCNetworkSim ----------------------------
(* The network switch with a history: whether the SIM that is dialled or in  *)
(* use has been there for a check of MQTT.                                   *)
EXTENDS NetworkSwitch

VARIABLE given

HistoryInit == Init /\ given = FALSE
HistoryNext ==
    /\ Next
    /\ given' = IF modem' = "dialing" THEN FALSE
                ELSE given \/ pc = "count"
HistorySpec == HistoryInit /\ [][HistoryNext]_<<vars, given>>

\* "SIM has no internet, turn off SIM" after "2 minitue" (lines 264 and 272):
\* the SIM is not turned off before one check was made with it.
SimGivenTime == pc = "stopOff" => given
=============================================================================
