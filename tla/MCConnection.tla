----------------------------- MODULE MCConnection -----------------------------
(* What the connection to the server stands on: the credentials and the tasks *)
(* that fetch them ("plan"), and the transports of TCP and TLS ("tcp") and of *)
(* web sockets ("ws").  The variables of the others rest while one runs.      *)
EXTENDS MCProvisioning, Transport, WebSocket

VARIABLE part

\* Payloads with each of the three forms of a length, and none.
Payloads == {<<>>, <<1, 0>>, <<0, 1, 1>>, <<1, 1, 0, 1, 0>>}
allVars == <<part, vars, transportVars, wsVars>>

ConnectionInit ==
    /\ Init /\ TransportInit /\ WebSocketInit
    /\ part = "plan" \/ (part \in {"tcp", "ws"} /\ ~connected)

InPlan(A) == part = "plan" /\ A /\ UNCHANGED <<part, transportVars, wsVars>>
InSockets(A) == part = "tcp" /\ A /\ UNCHANGED <<part, vars, wsVars>>
InWeb(A) == part = "ws" /\ A /\ UNCHANGED <<part, vars, transportVars>>

ConnectionNext ==
    \/ InPlan(Next)
    \/ InSockets(TransportNext)
    \/ InWeb(WebSocketNext)

ConnectionFairness ==
    /\ WF_allVars(InPlan(Booted)) /\ WF_allVars(InPlan(BleTask)) /\ WF_allVars(InPlan(BleOff))
    /\ WF_allVars(InPlan(PlanTask))
    /\ SF_allVars(InPlan(Accepted)) /\ SF_allVars(InPlan(GetCert)) /\ SF_allVars(InPlan(GetKey))
    /\ WF_allVars(InPlan(UpdateFails)) /\ WF_allVars(InPlan(ForcedRestart))

ConnectionSpec == ConnectionInit /\ [][ConnectionNext]_allVars /\ ConnectionFairness

=============================================================================
