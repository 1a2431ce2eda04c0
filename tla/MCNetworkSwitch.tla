--------------------------- MODULE MCNetworkSwitch ---------------------------
(* The network switch with small thresholds ("switch"), and the interfaces it *)
(* takes up and down ("netif").  The variables of one rest while the other    *)
(* runs.                                                                      *)
EXTENDS NetworkSwitch, NetInterfaces

VARIABLE part

allVars == <<part, vars, netifVars>>

SwitchInit ==
    /\ Init /\ NetifInit
    /\ part = "switch" \/ (part = "netif" /\ accessPoint = "none" /\ ~simNet)

InSwitch(A) == part = "switch" /\ A /\ UNCHANGED <<part, netifVars>>
InNetif(A) == part = "netif" /\ A /\ UNCHANGED <<part, vars>>

SwitchNext == InSwitch(Next) \/ InNetif(NetifNext)

SwitchFairness ==
    /\ WF_allVars(InSwitch(NetworkTask))
    /\ WF_allVars(InSwitch(PppStatus \/ PppSwitch \/ PppSwitched \/ PppLostIp))
    /\ WF_allVars(InSwitch(WifiGotIp)) /\ WF_allVars(InSwitch(WifiDisconnected))
    /\ SF_allVars(InSwitch(ClientStart)) /\ SF_allVars(InSwitch(ClientConnected))
    /\ SF_allVars(InSwitch(ClientFails /\
                              ~Carried(IF client = "trying" THEN Route ELSE client)))
    /\ WF_allVars(InSwitch(ClientDestroyed))
    /\ SF_allVars(InSwitch(UpdateBegins)) /\ WF_allVars(InSwitch(UpdateFails))

SwitchSpec == SwitchInit /\ [][SwitchNext]_allVars /\ SwitchFairness

=============================================================================
