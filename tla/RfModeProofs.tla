---------------------------- MODULE RfModeProofs ----------------------------
(***************************************************************************)
(* The invariants of RfMode, for every set of sync codes and every bound.  *)
(*                                                                         *)
(* RadioMatchesMode is not inductive: it says nothing of a radio task that *)
(* is between the configuration of the radio and the store of the mode.    *)
(* IInv adds what the task knows at each of its points.  Its heart is that *)
(* only the radio task enters the two working modes, so that they cannot   *)
(* be current while it is anywhere but at its switch or in the handler.    *)
(***************************************************************************)
EXTENDS RfMode, TLAPS

Working == {"REGISTER_SUB", "LISTEN_SUB_EVENT"}
Probing == {"INIT_CMD", "FINDING_SUB"}

\* What the radio task knows of the radio and the mode at each point.
AtPoint ==
    /\ pc \notin {"switch", "handler", "paired"} => ss \notin Working
    /\ pc \in {"add_test", "set_register"} => radio = Default
    /\ pc = "set_event" => radio \in Codes \cup {Torn}
    /\ pc \in Probing \cup {"count_probe"} => radio = Boot /\ probes # ProbeLimit
    /\ pc \notin Probing \cup {"switch", "count_probe"} => ss \notin Probing

IInv == TypeOK /\ RadioMatchesMode /\ ProbesOnlyAtStart /\ AtPoint

\* The initial states satisfy the strengthened invariant.
LEMMA InitIInv == Init => IInv
<1> SUFFICES ASSUME Init PROVE IInv
    OBVIOUS
<1> USE RfModeAssumption DEF Init
<1>1. TypeOK
  <2>1. rf_config_mode \in BOOLEAN /\ elapsed \in BOOLEAN
        /\ is_start_add_device \in BOOLEAN
        BY Zenon
  <2>2. QED
        BY <2>1 DEF TypeOK, Modes, RfPoints, CmdPoints
<1>2. RadioMatchesMode /\ ProbesOnlyAtStart /\ AtPoint
      BY DEF RadioMatchesMode, ProbesOnlyAtStart, AtPoint, Working, Probing
<1>3. QED
      BY <1>1, <1>2 DEF IInv

\* The steps of the radio task preserve it.
LEMMA RfStepIInv == IInv /\ RfStep => IInv'
<1> SUFFICES ASSUME IInv, RfStep PROVE IInv'
    OBVIOUS
<1> USE RfModeAssumption
    DEF IInv, TypeOK, RadioMatchesMode, ProbesOnlyAtStart, AtPoint, Working,
        Probing, Modes, RfPoints, CmdPoints, rfVars, cmdVars, panelVars, Goto
<1>1. CASE Dispatch
      BY <1>1 DEF Dispatch
<1>2. CASE InitCmd
      BY <1>2 DEF InitCmd
<1>3. CASE FindingPoll
      BY <1>3 DEF FindingPoll
<1>4. CASE FindingProbe
      BY <1>4 DEF FindingProbe
<1>5. CASE CountProbe
      BY <1>5 DEF CountProbe
<1>6. CASE WaitTest
      BY <1>6 DEF WaitTest
<1>7. CASE SetStatus
      BY <1>7 DEF SetStatus
<1>8. CASE Store("set_add", "CONFIG_ADD_MODE")
      BY <1>8 DEF Store
<1>9. CASE Store("set_listen", "CONFIG_LISTEN_MODE")
      BY <1>9 DEF Store
<1>10. CASE ConfigAdd
      BY <1>10 DEF ConfigAdd
<1>11. CASE AddTest
      BY <1>11 DEF AddTest
<1>12. CASE Store("set_register", "REGISTER_SUB")
      BY <1>12 DEF Store
<1>13. CASE ConfigListen
      BY <1>13 DEF ConfigListen
<1>14. CASE SyncConfig
      BY <1>14 DEF SyncConfig
<1>15. CASE Store("set_event", "LISTEN_SUB_EVENT")
      BY <1>15 DEF Store
<1>16. CASE HandlerReturn
      BY <1>16 DEF HandlerReturn
<1>17. CASE HandlerPair
      BY <1>17 DEF HandlerPair
<1>18. CASE HandlerPaired
      BY <1>18 DEF HandlerPaired
<1>19. QED
      BY <1>1, <1>2, <1>3, <1>4, <1>5, <1>6, <1>7, <1>8, <1>9, <1>10, <1>11, <1>12,
         <1>13, <1>14, <1>15, <1>16, <1>17, <1>18 DEF RfStep

\* So do the steps of the other two tasks and the passing of time.
LEMMA OthersIInv == IInv /\ [Next]_vars /\ ~RfStep => IInv'
<1> SUFFICES ASSUME IInv, [Next]_vars, ~RfStep PROVE IInv'
    OBVIOUS
<1> USE RfModeAssumption
    DEF IInv, TypeOK, RadioMatchesMode, ProbesOnlyAtStart, AtPoint, Working,
        Probing, Modes, RfPoints, CmdPoints, rfVars, cmdVars, panelVars, CmdGoto
<1>1. CASE Tick
      BY <1>1 DEF Tick
<1>2. ASSUME NEW c \in Codes, AddBegin(c) PROVE IInv'
      BY <1>2 DEF AddBegin
<1>3. CASE StopBegin
      BY <1>3 DEF StopBegin
<1>4. CASE AddCode
      BY <1>4 DEF AddCode
<1>5. CASE AddMode
      BY <1>5 DEF AddMode
<1>6. CASE AddState
      BY <1>6 DEF AddState
<1>7. CASE StopStatus
      BY <1>7 DEF StopStatus
<1>8. CASE StopMode
  <2>1. rf_config_mode' \in BOOLEAN
        BY <1>8, Zenon DEF StopMode
  <2>2. QED
        BY <1>8, <2>1 DEF StopMode
<1>9. CASE StopState
      BY <1>9 DEF StopState
<1>10. CASE PanelPair
      BY <1>10 DEF PanelPair
<1>11. CASE PanelPaired
      BY <1>11 DEF PanelPaired
<1>12. CASE PanelRelease
  <2>1. is_start_add_device' \in BOOLEAN
        BY <1>12, Zenon DEF PanelRelease
  <2>2. QED
        BY <1>12, <2>1 DEF PanelRelease
<1>13. CASE UNCHANGED vars
      BY <1>13 DEF vars
<1>14. QED
      BY <1>1, <1>2, <1>3, <1>4, <1>5, <1>6, <1>7, <1>8, <1>9, <1>10, <1>11,
         <1>12, <1>13 DEF Next, CmdContinue

\* The strengthened invariant holds in every reachable state.
THEOREM Inductive == Spec => []IInv
<1>1. Init => IInv
      BY InitIInv
<1>2. IInv /\ [Next]_vars => IInv'
      BY RfStepIInv, OthersIInv
<1>3. QED
      BY <1>1, <1>2, PTL DEF Spec

\* Every variable keeps its type; in particular switch_listen_mode never
\* passes its limit although nothing resets it.
THEOREM TypeCorrect == Spec => []TypeOK
<1>1. IInv => TypeOK
      BY DEF IInv
<1>2. QED
      BY <1>1, Inductive, PTL

\* In pairing mode the radio is on its factory settings, in listening mode it
\* is not, for every interleaving of the three tasks that store the mode.
THEOREM RadioCorrect == Spec => []RadioMatchesMode
<1>1. IInv => RadioMatchesMode
      BY DEF IInv
<1>2. QED
      BY <1>1, Inductive, PTL

\* The start-up probing is never resumed.
THEOREM ProbingEnds == Spec => []ProbesOnlyAtStart
<1>1. IInv => ProbesOnlyAtStart
      BY DEF IInv
<1>2. QED
      BY <1>1, Inductive, PTL
=============================================================================
