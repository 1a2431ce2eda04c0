------------------------------- MODULE MCUplink -------------------------------
(* Reports, connection losses and a restart on a few detectors, where nobody *)
(* asks for the reset of alarms.  What the wired input and that reset add is *)
(* MCReports's.                                                              *)
EXTENDS Uplink

RadioInit == Init /\ ~user_reset
RadioNext == Next /\ UNCHANGED user_reset

RadioSpec == RadioInit /\ [][RadioNext]_vars /\ Fairness
=============================================================================
