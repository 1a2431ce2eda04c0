--------------------------- MODULE RegistryProofs ---------------------------
(***************************************************************************)
(* The invariants of Registry, for any number of slots and every bound.    *)
(*                                                                         *)
(* NoStranger is strengthened by a ledger: a pairing that is under way     *)
(* holds a credit (isRegisterSensor on the radio, a slot being taken at    *)
(* the panel), and no copy of the registry shows more slots than there     *)
(* were pairings.  RegisteredInReach is strengthened by the promise that   *)
(* keeps a report from an arbitrary address harmless: while a detector is  *)
(* expected to report, some slot up to maxDetector is free, and the lowest *)
(* free slot is the one taken.  The wired input may take that very slot;   *)
(* then nothing in curDetector or inputChannel is above maxDetector, as    *)
(* long as nobody reports from there.  A gateway with a wired input AND    *)
(* such reports is the one that no theorem below is about.                 *)
(***************************************************************************)
EXTENDS MCRegistry, FiniteSetTheorems, TLAPS

Credit == (IF isRegisterSensor THEN 1 ELSE 0) + (IF panel = "take" THEN 1 ELSE 0)

\* Every slot in use and every credit was paid for.
Ledger ==
    /\ Cardinality(activated) + Credit <= pairings
    /\ \A s \in Savers : Cardinality(image[s].activated) <= pairings
    /\ file \in Images => Cardinality(file.activated) <= pairings

InReach(i) == \A k \in i.activated : k <= i.maxDetector

\* A detector that is expected to report leaves a free slot in reach ...
Promised == IF rf = "offer" THEN offered \in Free ELSE \E k \in Free : k <= maxDetector

\* ... or no address it could report from is out of reach.
Near == curDetector <= maxDetector /\ (panel # "take" => inputChannel <= maxDetector)

Promise(wired, strange) ==
    /\ RegisteredInReach
    /\ \A s \in Savers : InReach(image[s])
    /\ panel # "idle" => wired
    /\ panel = "take" => inputChannel \in {0, taken}
    /\ isRegisterSensor => Promised \/ (Near /\ ~strange)

-----------------------------------------------------------------------------
(* The steps of a gateway with or without a wired input, where addresses     *)
(* above maxDetector are heard from or not: Next, whatever the constants.    *)

\* A report or a loss, from any address.
Heard(k) ==
    /\ curDetector' = k
    /\ rf' = rf \/ (rf = "idle" /\ rf' = "reported")
    /\ UNCHANGED <<activated, maxDetector, inputChannel, isRegisterSensor, offered,
                   feedbacks, panelVars, removeVars, saveVars, pairings, restarts>>

\* The wired input is given slot k.
Takes(k) ==
    /\ panel = "idle"
    /\ pairings < MaxPairings
    /\ IsLowest(k, Free)
    /\ pairings' = pairings + 1
    /\ taken' = k
    /\ inputChannel' = k
    /\ panel' = "take"
    /\ UNCHANGED <<activated, maxDetector, curDetector, radioVars, removeVars,
                   saveVars, restarts>>

RadioStep ==
    \/ \E k \in Slots : RfOffer(k) \/ RfRegister(k)
    \/ RfOffered
    \/ RfFeedback

WiredStep == PanelTaken \/ PanelPost \/ PanelReport

GatewayStep(wired, strange) ==
    \/ RadioStep
    \/ \E k \in Slots : (strange \/ k <= maxDetector) /\ Heard(k)
    \/ WiredStep
    \/ \E k \in Slots : wired /\ Takes(k)
    \/ RemoveStep
    \/ SaveStep
    \/ Restart
    \/ FactoryReset

AnyStep == GatewayStep(TRUE, TRUE)

\* What the constants say of the gateway.
LEMMA NextIsGateway == Next => GatewayStep(WiredInput, StrangeReports)
BY DEF Next, RfStep, PanelStep, GatewayStep, RadioStep, WiredStep, RfReport, HeartbeatLost,
       PanelTake, Heard, Takes, radioVars

\* Less can happen at a particular gateway than at any.
LEMMA GatewayIsAny ==
    ASSUME NEW wired \in BOOLEAN, NEW strange \in BOOLEAN, GatewayStep(wired, strange)
    PROVE  AnyStep
BY DEF GatewayStep, AnyStep

-----------------------------------------------------------------------------
\* A slot is a positive number and NoImage is an image.
LEMMA NoImageType == NoImage \in Images
BY RegistryAssumption DEF NoImage, Images, Slots

\* A restart restores an image or nothing.
LEMMA RestoredType == \A f \in Images \cup {None, Empty} : Restored(f) \in Images
BY NoImageType DEF Restored

\* The gateway starts with the types.
LEMMA InitType == Init => TypeOK
<1> SUFFICES ASSUME Init PROVE TypeOK
    OBVIOUS
<1> USE RegistryAssumption, NoImageType DEF Init
<1>1. isRegisterSensor \in BOOLEAN
      BY Zenon
<1>2. save \in [Savers -> {"idle", "copied", "open"}]
      OBVIOUS
<1>3. image \in [Savers -> Images]
      OBVIOUS
<1>4. QED
      BY <1>1, <1>2, <1>3 DEF TypeOK, Slots

\* The radio task keeps the types.
LEMMA RadioType == TypeOK /\ RadioStep => TypeOK'
<1> SUFFICES ASSUME TypeOK, RadioStep PROVE TypeOK'
    OBVIOUS
<1> USE RegistryAssumption
    DEF TypeOK, sensor_data, radioVars, panelVars, removeVars, saveVars
<1>1. ASSUME NEW k \in Slots, RfOffer(k) PROVE TypeOK'
      BY <1>1 DEF RfOffer
<1>2. ASSUME NEW k \in Slots, RfRegister(k) PROVE TypeOK'
  <2>1. isRegisterSensor' \in BOOLEAN
        BY <1>2, Zenon DEF RfRegister
  <2>2. QED
        BY <1>2, <2>1 DEF RfRegister, PostFeedback
<1>3. CASE RfOffered
      BY <1>3 DEF RfOffered, Slots
<1>4. CASE RfFeedback
      BY <1>4 DEF RfFeedback, PostFeedback
<1>5. QED
      BY <1>1, <1>2, <1>3, <1>4 DEF RadioStep

\* Reports and losses keep the types, whatever the address.
LEMMA HeardType ==
    ASSUME TypeOK, NEW k \in Slots, Heard(k)
    PROVE  TypeOK'
BY DEF Heard, TypeOK, Slots, panelVars, removeVars, saveVars

\* The panel task keeps the types.
LEMMA WiredType == TypeOK /\ (WiredStep \/ \E k \in Slots : Takes(k)) => TypeOK'
<1> SUFFICES ASSUME TypeOK, WiredStep \/ \E k \in Slots : Takes(k) PROVE TypeOK'
    OBVIOUS
<1> USE RegistryAssumption
    DEF TypeOK, sensor_data, radioVars, panelVars, removeVars, saveVars
<1>1. ASSUME NEW k \in Slots, Takes(k) PROVE TypeOK'
      BY <1>1 DEF Takes, Slots
<1>2. CASE PanelTaken
      BY <1>2 DEF PanelTaken, Slots
<1>3. CASE PanelPost
      BY <1>3 DEF PanelPost, PostFeedback
<1>4. CASE PanelReport
      BY <1>4 DEF PanelReport, PostFeedback
<1>5. QED
      BY <1>1, <1>2, <1>3, <1>4 DEF WiredStep

\* Removals and savers keep the types.
LEMMA RemoveSaveType == TypeOK /\ (RemoveStep \/ SaveStep) => TypeOK'
<1> SUFFICES ASSUME TypeOK, RemoveStep \/ SaveStep PROVE TypeOK'
    OBVIOUS
<1> USE RegistryAssumption
    DEF TypeOK, sensor_data, radioVars, panelVars, removeVars, saveVars
<1>1. ASSUME NEW k \in Slots, RemoveBegin(k) PROVE TypeOK'
      BY <1>1 DEF RemoveBegin
<1>2. CASE RemoveClear
  <2>1. curDetector' \in 0..MAX_DECTECTOR
        BY <1>2 DEF RemoveClear, find_curDetector, Slots
  <2>2. QED
        BY <1>2, <2>1 DEF RemoveClear
<1>3. ASSUME NEW s \in Savers, SaveCopy(s) PROVE TypeOK'
  <2>1. Snapshot \in Images
        BY DEF Snapshot, Images
  <2>2. QED
        BY <1>3, <2>1 DEF SaveCopy
<1>4. ASSUME NEW s \in Savers, SaveOpen(s) PROVE TypeOK'
      BY <1>4 DEF SaveOpen
<1>5. ASSUME NEW s \in Savers, SaveClose(s) PROVE TypeOK'
      BY <1>5, NoImageType DEF SaveClose
<1>6. QED
      BY <1>1, <1>2, <1>3, <1>4, <1>5 DEF RemoveStep, SaveStep

\* Restarts keep the types.
LEMMA RestartType ==
    ASSUME TypeOK, NEW f \in Images \cup {None, Empty}, RestartFrom(f)
    PROVE  TypeOK'
<1> USE RegistryAssumption
<1>1. Restored(f) \in Images
      BY RestoredType
<1>2. isRegisterSensor' \in BOOLEAN
      BY Zenon DEF RestartFrom
<1>3. /\ activated' \in SUBSET Slots
      /\ maxDetector' \in 0..MAX_DECTECTOR
      /\ inputChannel' \in 0..MAX_DECTECTOR
      /\ curDetector' \in 0..MAX_DECTECTOR
      BY <1>1 DEF RestartFrom, Images
<1>4. save' \in [Savers -> {"idle", "copied", "open"}] /\ image' \in [Savers -> Images]
      BY NoImageType DEF RestartFrom
<1>5. QED
      BY <1>2, <1>3, <1>4 DEF RestartFrom, TypeOK

\* Every step keeps the types.
LEMMA NextType == TypeOK /\ (AnyStep \/ UNCHANGED vars) => TypeOK'
<1> SUFFICES ASSUME TypeOK, AnyStep \/ UNCHANGED vars PROVE TypeOK'
    OBVIOUS
<1>1. CASE Restart \/ FactoryReset
      BY <1>1, RestartType DEF Restart, FactoryReset, TypeOK
<1>2. CASE UNCHANGED vars
      BY <1>2 DEF vars, TypeOK, sensor_data, radioVars, panelVars, removeVars, saveVars
<1>3. QED
      BY <1>1, <1>2, RadioType, HeardType, WiredType, RemoveSaveType
      DEF AnyStep, GatewayStep

\* At this gateway too.
LEMMA NextIsAny == [Next]_vars => AnyStep \/ UNCHANGED vars
BY NextIsGateway, GatewayIsAny, RegistryAssumption

\* The registry, its copies and the file keep their types in every reachable
\* state; in particular data_process never holds more than it can.
THEOREM TypeCorrect == Spec => []TypeOK
BY InitType, NextIsAny, NextType, PTL DEF Spec

-----------------------------------------------------------------------------
\* Sets of slots are finite and their sizes are numbers.
LEMMA SlotsFinite ==
    \A S \in SUBSET Slots : IsFiniteSet(S) /\ Cardinality(S) \in Nat
<1> SUFFICES ASSUME NEW S \in SUBSET Slots
             PROVE  IsFiniteSet(S) /\ Cardinality(S) \in Nat
    OBVIOUS
<1>1. IsFiniteSet(Slots)
      BY RegistryAssumption, FS_Interval DEF Slots
<1>2. IsFiniteSet(S)
      BY <1>1, FS_Subset
<1>3. QED
      BY <1>2, FS_CardinalityType

\* One more slot costs at most one, one less costs nothing.
LEMMA SlotsChange ==
    ASSUME NEW S \in SUBSET Slots, NEW k
    PROVE  /\ Cardinality(S \cup {k}) <= Cardinality(S) + 1
           /\ Cardinality(S \ {k}) <= Cardinality(S)
<1>1. IsFiniteSet(S) /\ Cardinality(S) \in Nat
      BY SlotsFinite
<1>2. Cardinality(S \cup {k}) <= Cardinality(S) + 1
      BY <1>1, FS_AddElement
<1>3. Cardinality(S \ {k}) <= Cardinality(S)
  <2>1. Cardinality(S \ {k}) = IF k \in S THEN Cardinality(S) - 1 ELSE Cardinality(S)
        BY <1>1, FS_RemoveElement
  <2>2. QED
        BY <1>1, <2>1
<1>4. QED
      BY <1>2, <1>3

\* The empty registry of a new gateway owes nothing.
LEMMA InitLedger == Init => Ledger
<1> SUFFICES ASSUME Init PROVE Ledger
    OBVIOUS
<1>1. Cardinality({}) = 0
      BY FS_EmptySet
<1>2. Credit = 0
      BY DEF Init, Credit
<1>3. Cardinality(activated) + Credit <= pairings
      BY <1>1, <1>2 DEF Init
<1>4. \A s \in Savers : Cardinality(image[s].activated) <= pairings
      BY <1>1 DEF Init, NoImage
<1>5. file \notin Images
      BY RegistryNotImages DEF Init
<1>6. QED
      BY <1>3, <1>4, <1>5 DEF Ledger

\* What a copy or an image shows is a set of slots.
LEMMA ImagesFinite == \A i \in Images : Cardinality(i.activated) \in Nat
BY SlotsFinite DEF Images

\* The ledger is kept by steps that leave the copies and the file alone.
LEMMA LedgerFrame ==
    ASSUME TypeOK, TypeOK', Ledger, UNCHANGED <<image, file>>, pairings' >= pairings,
           Cardinality(activated') + Credit' <= pairings'
    PROVE  Ledger'
BY ImagesFinite DEF Ledger, TypeOK

\* The radio task, the panel and removals keep the ledger.
LEMMA StepLedger ==
    ASSUME TypeOK, TypeOK', Ledger,
           \/ RadioStep \/ WiredStep \/ RemoveStep
           \/ \E k \in Slots : Heard(k) \/ Takes(k)
    PROVE  Ledger'
<1> SUFFICES Ledger'
    OBVIOUS
<1> USE DEF sensor_data, radioVars, panelVars, removeVars, saveVars
<1>0. /\ Cardinality(activated) \in Nat
      /\ Cardinality(activated) + Credit <= pairings
      /\ pairings \in Nat
      BY SlotsFinite DEF TypeOK, Ledger
<1> SUFFICES /\ UNCHANGED <<image, file>>
             /\ pairings' >= pairings
             /\ Cardinality(activated') + Credit' <= pairings'
    BY LedgerFrame
<1>1. ASSUME NEW k \in Slots, RfOffer(k)
      PROVE  /\ UNCHANGED <<image, file, activated, panel>>
             /\ pairings' = pairings + 1 /\ isRegisterSensor'
      BY <1>1 DEF RfOffer
<1>2. ASSUME NEW k \in Slots, Heard(k)
      PROVE  UNCHANGED <<image, file, activated, panel, isRegisterSensor, pairings>>
      BY <1>2 DEF Heard
<1>3. ASSUME NEW k \in Slots, RfRegister(k)
      PROVE  /\ UNCHANGED <<image, file, panel, pairings>>
             /\ isRegisterSensor /\ ~isRegisterSensor'
             /\ Cardinality(activated') <= Cardinality(activated) + 1
             /\ Cardinality(activated') \in Nat
  <2>1. activated' = activated \cup {k} /\ activated' \in SUBSET Slots
        BY <1>3 DEF RfRegister, TypeOK
  <2>2. Cardinality(activated') <= Cardinality(activated) + 1
        BY <2>1, SlotsChange DEF TypeOK
  <2>3. QED
        BY <1>3, <2>1, <2>2, SlotsFinite DEF RfRegister, RegistersAt
<1>4. CASE RfOffered \/ RfFeedback
      BY <1>4, <1>0 DEF RfOffered, RfFeedback, Credit
<1>5. ASSUME NEW k \in Slots, Takes(k)
      PROVE  /\ UNCHANGED <<image, file, activated, isRegisterSensor>>
             /\ pairings' = pairings + 1 /\ panel = "idle" /\ panel' = "take"
      BY <1>5 DEF Takes
<1>6. ASSUME PanelTaken
      PROVE  /\ UNCHANGED <<image, file, isRegisterSensor, pairings>>
             /\ panel = "take" /\ panel' = "post"
             /\ Cardinality(activated') <= Cardinality(activated) + 1
             /\ Cardinality(activated') \in Nat
  <2>1. activated' = activated \cup {taken} /\ activated' \in SUBSET Slots
        BY <1>6 DEF PanelTaken, TypeOK
  <2>2. Cardinality(activated') <= Cardinality(activated) + 1
        BY <2>1, SlotsChange DEF TypeOK
  <2>3. QED
        BY <1>6, <2>1, <2>2, SlotsFinite DEF PanelTaken
<1>7. CASE PanelPost \/ PanelReport
      BY <1>7, <1>0 DEF PanelPost, PanelReport, Credit
<1>8. ASSUME NEW k \in Slots, RemoveBegin(k)
      PROVE  UNCHANGED <<image, file, activated, panel, isRegisterSensor, pairings>>
      BY <1>8 DEF RemoveBegin
<1>9. ASSUME RemoveClear
      PROVE  /\ UNCHANGED <<image, file, panel, isRegisterSensor, pairings>>
             /\ Cardinality(activated') <= Cardinality(activated)
             /\ Cardinality(activated') \in Nat
  <2>1. activated' = activated \ {target} /\ activated' \in SUBSET Slots
        BY <1>9 DEF RemoveClear, TypeOK
  <2>2. QED
        BY <1>9, <2>1, SlotsChange, SlotsFinite DEF RemoveClear, TypeOK
<1>10. QED
       BY <1>0, <1>1, <1>2, <1>3, <1>4, <1>5, <1>6, <1>7, <1>8, <1>9
       DEF RadioStep, WiredStep, RemoveStep, Credit

\* Savers copy what the ledger covers, and write what they copied.
LEMMA SaveLedger == TypeOK /\ Ledger /\ SaveStep => Ledger'
<1> SUFFICES ASSUME TypeOK, Ledger, SaveStep PROVE Ledger'
    OBVIOUS
<1> USE DEF sensor_data, radioVars, panelVars, removeVars, saveVars
<1>0. /\ Cardinality(activated) \in Nat /\ pairings \in Nat
      /\ Cardinality(activated) + Credit <= pairings
      /\ Credit \in Nat
      BY SlotsFinite DEF TypeOK, Ledger, Credit
<1>1. Cardinality({}) = 0
      BY FS_EmptySet
<1>2. ASSUME NEW s \in Savers, SaveCopy(s) PROVE Ledger'
  <2>1. UNCHANGED <<activated, isRegisterSensor, panel, pairings, file>>
        BY <1>2 DEF SaveCopy
  <2>2. \A r \in Savers : Cardinality(image'[r].activated) <= pairings
        BY <1>2, <1>0 DEF SaveCopy, Snapshot, TypeOK, Ledger
  <2>3. QED
        BY <2>1, <2>2 DEF Ledger, Credit
<1>3. ASSUME NEW s \in Savers, SaveOpen(s) PROVE Ledger'
      BY <1>3, RegistryNotImages DEF SaveOpen, Ledger, Credit
<1>4. ASSUME NEW s \in Savers, SaveClose(s) PROVE Ledger'
  <2>1. UNCHANGED <<activated, isRegisterSensor, panel, pairings>>
        BY <1>4 DEF SaveClose
  <2>2. Cardinality(file'.activated) <= pairings
        BY <1>4 DEF SaveClose, Ledger
  <2>3. \A r \in Savers : Cardinality(image'[r].activated) <= pairings
        BY <1>4, <1>0, <1>1 DEF SaveClose, NoImage, TypeOK, Ledger
  <2>4. QED
        BY <2>1, <2>2, <2>3 DEF Ledger, Credit
<1>5. QED
      BY <1>2, <1>3, <1>4 DEF SaveStep

\* A restart brings back what was paid for, and forgets the credits.
LEMMA RestartLedger ==
    ASSUME TypeOK, Ledger, NEW f \in {file, None}, RestartFrom(f)
    PROVE  Ledger'
<1>1. Cardinality({}) = 0
      BY FS_EmptySet
<1>2. pairings \in Nat /\ pairings' = pairings
      BY DEF TypeOK, RestartFrom
<1>3. Cardinality(Restored(f).activated) <= pairings
      BY <1>1, <1>2, RegistryNotImages DEF Restored, NoImage, Ledger, TypeOK
<1>4. Credit' = 0
      BY DEF RestartFrom, Credit
<1>5. Restored(f) \in Images
      BY RestoredType DEF TypeOK
<1>6. Cardinality(Restored(f).activated) \in Nat
      BY <1>5, ImagesFinite
<1>7. Cardinality(activated') + Credit' <= pairings'
      BY <1>2, <1>3, <1>4, <1>6 DEF RestartFrom
<1>8. \A s \in Savers : Cardinality(image'[s].activated) <= pairings'
      BY <1>1, <1>2 DEF RestartFrom, NoImage
<1>9. file' \in Images => Cardinality(file'.activated) <= pairings'
      BY <1>2, RegistryNotImages DEF RestartFrom, Ledger
<1>10. QED
      BY <1>7, <1>8, <1>9 DEF Ledger

\* Every step keeps the ledger.
LEMMA NextLedger ==
    ASSUME TypeOK, TypeOK', Ledger, AnyStep \/ UNCHANGED vars
    PROVE  Ledger'
<1>1. ASSUME Restart \/ FactoryReset PROVE Ledger'
      BY <1>1, RestartLedger DEF Restart, FactoryReset
<1>2. ASSUME UNCHANGED vars PROVE Ledger'
  <2>1. UNCHANGED <<activated, isRegisterSensor, panel, image, file, pairings>>
        BY <1>2 DEF vars, sensor_data, radioVars, panelVars, saveVars
  <2>2. QED
        BY <2>1 DEF Ledger, Credit
<1>3. QED
      BY <1>1, <1>2, StepLedger, SaveLedger DEF AnyStep, GatewayStep

\* What is owed covers the slots in use.
LEMMA LedgerSound == TypeOK /\ Ledger => NoStranger
BY SlotsFinite DEF TypeOK, Ledger, NoStranger, Credit

\* No report registers a detector nobody paired, whatever the restarts, the
\* removals and the copies of the registry still under way.
THEOREM StrangersKeptOut == Spec => []NoStranger
<1>1. Init => TypeOK /\ Ledger
      BY InitType, InitLedger
<1>2. TypeOK /\ Ledger /\ [Next]_vars => (TypeOK /\ Ledger)'
      BY NextIsAny, NextType, NextLedger
<1>3. QED
      BY <1>1, <1>2, LedgerSound, PTL DEF Spec

-----------------------------------------------------------------------------
\* A new gateway has promised nothing.
LEMMA InitPromise == Init => \A wired, strange : Promise(wired, strange)
BY RegistryNotImages DEF Init, Promise, RegisteredInReach, InReach, NoImage

\* The radio task keeps the promise: it offers free slots only, raises
\* maxDetector before it looks at a report, and takes the lowest free slot.
LEMMA RadioPromise ==
    ASSUME NEW wired, NEW strange, TypeOK, Promise(wired, strange), RadioStep
    PROVE  Promise(wired, strange)'
<1> USE DEF Promise, RegisteredInReach, InReach, Promised, Near, Free,
            sensor_data, panelVars, removeVars, saveVars
<1>1. ASSUME NEW k \in Slots, RfOffer(k) PROVE Promise(wired, strange)'
      BY <1>1 DEF RfOffer, IsLowest
<1>2. ASSUME NEW k \in Slots, RfRegister(k) PROVE Promise(wired, strange)'
  <2>1. isRegisterSensor /\ IsLowest(k, Free) /\ k <= curDetector /\ rf # "offer"
        BY <1>2 DEF RfRegister, RegistersAt
  <2>2. k <= maxDetector
    <3>1. CASE Promised
          BY <2>1, <3>1 DEF IsLowest, TypeOK, Slots
    <3>2. CASE Near
          BY <2>1, <3>2 DEF TypeOK, Slots
    <3>3. QED
          BY <2>1, <3>1, <3>2
  <2>3. /\ activated' = activated \cup {k} /\ ~isRegisterSensor'
        /\ UNCHANGED <<maxDetector, inputChannel, image, file, panel, taken>>
        BY <1>2 DEF RfRegister
  <2>4. QED
        BY <2>2, <2>3
<1>3. CASE RfOffered
  <2>1. /\ maxDetector' = IF maxDetector < offered THEN offered ELSE maxDetector
        /\ rf = "offer" /\ rf' = "idle"
        /\ UNCHANGED <<activated, inputChannel, curDetector, isRegisterSensor, offered,
                       image, file, panel, taken>>
        BY <1>3 DEF RfOffered
  <2>2. /\ offered \in Nat /\ maxDetector \in Nat /\ activated \in SUBSET Nat
        /\ curDetector \in Nat /\ inputChannel \in Nat
        BY DEF TypeOK, Slots
  <2>3. maxDetector \in 0..maxDetector' /\ offered <= maxDetector'
        BY <2>1, <2>2
  <2>4. \A k \in activated' : k <= maxDetector'
        BY <2>1, <2>2, <2>3
  <2>5. Promised => Promised'
        BY <2>1, <2>3
  <2>6. Near => Near'
        BY <2>1, <2>2, <2>3
  <2>7. QED
        BY <2>1, <2>4, <2>5, <2>6
<1>4. CASE RfFeedback
      BY <1>4 DEF RfFeedback
<1>5. QED
      BY <1>1, <1>2, <1>3, <1>4 DEF RadioStep

\* A report or a loss keeps it, unless it comes from afar where only what is near may.
LEMMA HeardPromise ==
    ASSUME NEW wired, NEW strange, TypeOK, Promise(wired, strange),
           NEW k \in Slots, strange \/ k <= maxDetector, Heard(k)
    PROVE  Promise(wired, strange)'
<1>1. UNCHANGED <<activated, maxDetector, inputChannel, isRegisterSensor, offered, panel,
                  taken, image, file>>
      BY DEF Heard, panelVars, saveVars
<1>2. (rf' = "offer") <=> (rf = "offer")
      BY DEF Heard
<1>3. Promised' <=> Promised
      BY <1>1, <1>2 DEF Promised, Free
<1>4. Near /\ ~strange => Near'
      BY <1>1 DEF Near, Heard
<1>5. QED
      BY <1>1, <1>3, <1>4 DEF Promise, RegisteredInReach, InReach

\* The wired input may take the slot that was promised; by then nothing is far.
LEMMA WiredPromise ==
    ASSUME NEW wired, NEW strange, wired => ~strange, TypeOK, Promise(wired, strange),
           WiredStep \/ \E k \in Slots : wired /\ Takes(k)
    PROVE  Promise(wired, strange)'
<1> USE DEF Promise, RegisteredInReach, InReach, Promised, Near, Free,
            sensor_data, radioVars, removeVars, saveVars
<1>1. ASSUME NEW k \in Slots, wired, Takes(k) PROVE Promise(wired, strange)'
      BY <1>1 DEF Takes
<1>2. CASE PanelTaken
  <2>1. /\ panel = "take" /\ panel' = "post" /\ wired
        /\ maxDetector' = IF maxDetector < taken THEN taken ELSE maxDetector
        /\ activated' = activated \cup {taken} /\ curDetector' = taken
        /\ UNCHANGED <<inputChannel, isRegisterSensor, taken, image, file>>
        BY <1>2 DEF PanelTaken
  <2>2. taken \in Nat /\ maxDetector \in Nat /\ activated \in SUBSET Nat
        BY DEF TypeOK, Slots
  <2>3. maxDetector <= maxDetector' /\ taken <= maxDetector'
        BY <2>1, <2>2
  <2>4. \A k \in activated' : k <= maxDetector'
        BY <2>1, <2>2, <2>3
  <2>5. Near'
        BY <2>1, <2>2, <2>3
  <2>6. QED
        BY <2>1, <2>4, <2>5
<1>3. CASE PanelPost
      BY <1>3 DEF PanelPost
<1>4. CASE PanelReport
  <2>1. /\ panel = "idle" /\ curDetector' = inputChannel
        /\ UNCHANGED <<activated, maxDetector, inputChannel, isRegisterSensor, rf, offered,
                       panel, taken, image, file>>
        BY <1>4 DEF PanelReport, panelVars, saveVars
  <2>2. (Promised => Promised') /\ (Near => Near')
        BY <2>1
  <2>3. QED
        BY <2>1, <2>2
<1>5. QED
      BY <1>1, <1>2, <1>3, <1>4 DEF WiredStep

\* Removals only free slots, and name one in use or none.
LEMMA RemovePromise ==
    ASSUME NEW wired, NEW strange, TypeOK, Promise(wired, strange), RemoveStep
    PROVE  Promise(wired, strange)'
<1> USE DEF Promise, RegisteredInReach, InReach, Promised, Near, Free, radioVars,
            panelVars, saveVars
<1>1. ASSUME NEW k \in Slots, RemoveBegin(k) PROVE Promise(wired, strange)'
      BY <1>1 DEF RemoveBegin, TypeOK
<1>2. CASE RemoveClear
  <2>1. /\ activated' = activated \ {target}
        /\ UNCHANGED <<maxDetector, inputChannel, isRegisterSensor, rf, offered, panel,
                       taken, image, file>>
        BY <1>2 DEF RemoveClear
  <2>2. curDetector' \in activated' \cup {0}
        BY <1>2 DEF RemoveClear, find_curDetector, IsLowest
  <2>3. \A k \in activated' : k <= maxDetector'
        BY <2>1
  <2>4. curDetector' <= maxDetector'
        BY <2>1, <2>2, <2>3 DEF TypeOK
  <2>5. (Promised => Promised') /\ (Near => Near')
        BY <2>1, <2>4
  <2>6. QED
        BY <2>1, <2>3, <2>5
<1>3. QED
      BY <1>1, <1>2 DEF RemoveStep

\* A copy is in reach when it is made, hence when it is written.
LEMMA SavePromise ==
    ASSUME NEW wired, NEW strange, TypeOK, Promise(wired, strange), SaveStep
    PROVE  Promise(wired, strange)'
<1>1. UNCHANGED <<activated, maxDetector, inputChannel, curDetector, isRegisterSensor, rf,
                  offered, panel, taken>>
      BY DEF SaveStep, SaveCopy, SaveOpen, SaveClose, sensor_data, radioVars, panelVars
<1>2. (Promised => Promised') /\ (Near => Near')
      BY <1>1 DEF Promised, Near, Free
<1> SUFFICES /\ \A s \in Savers : InReach(image'[s])
             /\ file' \in Images => InReach(file')
    BY <1>1, <1>2 DEF Promise, RegisteredInReach, InReach
<1> USE DEF Promise, RegisteredInReach, InReach
<1>3. ASSUME NEW s \in Savers, SaveCopy(s)
      PROVE  (\A r \in Savers : InReach(image'[r])) /\ file' = file
      BY <1>3 DEF SaveCopy, Snapshot, TypeOK
<1>4. ASSUME NEW s \in Savers, SaveOpen(s) PROVE image' = image /\ file' \notin Images
      BY <1>4, RegistryNotImages DEF SaveOpen
<1>5. ASSUME NEW s \in Savers, SaveClose(s)
      PROVE  (\A r \in Savers : InReach(image'[r])) /\ InReach(file')
  <2>1. InReach(file') /\ file' = image[s]
        BY <1>5 DEF SaveClose
  <2>2. \A r \in Savers : InReach(image'[r])
        BY <1>5 DEF SaveClose, NoImage, TypeOK
  <2>3. QED
        BY <2>1, <2>2
<1>6. QED
      BY <1>3, <1>4, <1>5 DEF SaveStep

\* What a restart reads back is in reach, and nobody is expected to report.
LEMMA RestartPromise ==
    ASSUME NEW wired, NEW strange, TypeOK, Promise(wired, strange),
           NEW f \in {file, None}, RestartFrom(f)
    PROVE  Promise(wired, strange)'
<1>1. InReach(Restored(f))
      BY RegistryNotImages DEF Restored, NoImage, InReach, Promise, RegisteredInReach,
                               TypeOK
<1>2. \A k \in activated' : k <= maxDetector'
      BY <1>1 DEF RestartFrom, InReach
<1>3. file' \in Images => \A k \in file'.activated : k <= file'.maxDetector
      BY RegistryNotImages DEF RestartFrom, Promise, RegisteredInReach
<1>4. \A s \in Savers : InReach(image'[s])
      BY DEF RestartFrom, NoImage, InReach
<1>5. ~isRegisterSensor' /\ panel' = "idle"
      BY DEF RestartFrom
<1>6. QED
      BY <1>2, <1>3, <1>4, <1>5 DEF Promise, RegisteredInReach

\* Every step of a gateway without a wired input, or without reports from afar, keeps
\* its promise.
LEMMA NextPromise ==
    ASSUME NEW wired \in BOOLEAN, NEW strange \in BOOLEAN, wired => ~strange, TypeOK,
           Promise(wired, strange), GatewayStep(wired, strange) \/ UNCHANGED vars
    PROVE  Promise(wired, strange)'
<1>1. ASSUME Restart \/ FactoryReset PROVE Promise(wired, strange)'
      BY <1>1, RestartPromise DEF Restart, FactoryReset
<1>2. ASSUME UNCHANGED vars PROVE Promise(wired, strange)'
      BY <1>2 DEF vars, Promise, RegisteredInReach, InReach, Promised, Near, Free,
                  sensor_data, radioVars, panelVars, saveVars
<1>3. QED
      BY <1>1, <1>2, RadioPromise, HeardPromise, WiredPromise, RemovePromise, SavePromise
      DEF GatewayStep

\* Every registered slot can be removed again and is monitored after a restart, in RAM
\* and in the file: on a gateway without a wired input even when reports from addresses
\* it never gave out arrive, with one as long as none do.
THEOREM ReachCorrect ==
    ASSUME ~(WiredInput /\ StrangeReports)
    PROVE  Spec => []RegisteredInReach
<1>1. Init => TypeOK /\ Promise(WiredInput, StrangeReports)
      BY InitType, InitPromise
<1>2. TypeOK /\ Promise(WiredInput, StrangeReports) /\ [Next]_vars
          => (TypeOK /\ Promise(WiredInput, StrangeReports))'
  <2>1. TypeOK /\ [Next]_vars => TypeOK'
        BY NextIsAny, NextType
  <2>2. QED
        BY <2>1, NextIsGateway, NextPromise, RegistryAssumption
<1>3. Promise(WiredInput, StrangeReports) => RegisteredInReach
      BY DEF Promise
<1>4. QED
      BY <1>1, <1>2, <1>3, PTL DEF Spec

-----------------------------------------------------------------------------
(* The two kinds of site *)

\* What happens on a site without a wired input.
LEMMA RadioSiteStep == RadioSite!Next => GatewayStep(FALSE, TRUE)
<1> USE DEF GatewayStep
<1>1. RadioSite!RfStep => RadioStep \/ \E k \in Slots : Heard(k)
      BY DEF RadioSite!RfStep, RadioSite!Slots, RadioSite!RfOffer, RadioSite!RfReport,
             RadioSite!RfRegister, RadioSite!RfOffered, RadioSite!RfFeedback,
             RadioSite!RegistersAt, RadioSite!IsLowest, RadioSite!Free,
             RadioSite!PostFeedback, RadioSite!sensor_data, RadioSite!panelVars,
             RadioSite!removeVars, RadioSite!saveVars,
             RadioStep, Slots, RfOffer, Heard, RfRegister, RfOffered, RfFeedback,
             RegistersAt, IsLowest, Free, PostFeedback, sensor_data, panelVars,
             removeVars, saveVars
<1>2. RadioSite!PanelStep => WiredStep
      BY DEF RadioSite!PanelStep, RadioSite!PanelTake, RadioSite!PanelTaken,
             RadioSite!PanelPost, RadioSite!PanelReport, RadioSite!PostFeedback,
             RadioSite!sensor_data, RadioSite!radioVars, RadioSite!panelVars,
             RadioSite!removeVars, RadioSite!saveVars,
             WiredStep, PanelTaken, PanelPost, PanelReport, PostFeedback, sensor_data,
             radioVars, panelVars, removeVars, saveVars
<1>3. RadioSite!RemoveStep => RemoveStep
      BY DEF RadioSite!RemoveStep, RadioSite!Slots, RadioSite!RemoveBegin,
             RadioSite!RemoveClear, RadioSite!find_curDetector, RadioSite!IsLowest,
             RadioSite!radioVars, RadioSite!panelVars, RadioSite!saveVars,
             RemoveStep, Slots, RemoveBegin, RemoveClear, find_curDetector, IsLowest,
             radioVars, panelVars, saveVars
<1>4. RadioSite!SaveStep => SaveStep
      BY DEF RadioSite!SaveStep, RadioSite!Savers, RadioSite!SaveCopy, RadioSite!SaveOpen,
             RadioSite!SaveClose, RadioSite!Snapshot, RadioSite!NoImage,
             RadioSite!sensor_data, RadioSite!radioVars, RadioSite!panelVars,
             RadioSite!removeVars,
             SaveStep, Savers, SaveCopy, SaveOpen, SaveClose, Snapshot, NoImage,
             sensor_data, radioVars, panelVars, removeVars
<1>5. ASSUME NEW k, RadioSite!HeartbeatLost(k) PROVE Heard(k)
      BY <1>5 DEF RadioSite!HeartbeatLost, RadioSite!radioVars, RadioSite!panelVars,
             RadioSite!removeVars, RadioSite!saveVars, Heard, radioVars,
             panelVars, removeVars, saveVars
<1>6. RadioSite!Restart => Restart
      BY DEF RadioSite!Restart, RadioSite!RestartFrom, RadioSite!Restored,
             RadioSite!NoImage, RadioSite!Savers, Restart, RestartFrom, Restored, NoImage,
             Savers
<1>7. RadioSite!FactoryReset => FactoryReset
      BY DEF RadioSite!FactoryReset, RadioSite!RestartFrom, RadioSite!Restored,
             RadioSite!NoImage, RadioSite!Savers, FactoryReset, RestartFrom, Restored,
             NoImage, Savers
<1>8. QED
      BY <1>1, <1>2, <1>3, <1>4, <1>5, <1>6, <1>7
      DEF RadioSite!Next, RadioSite!Slots, Slots

\* What happens on a site with a wired input.
LEMMA WiredSiteStep == WiredSite!Next => GatewayStep(TRUE, FALSE)
<1> USE DEF GatewayStep
<1>1. WiredSite!RfStep => RadioStep \/ \E k \in Slots : k <= maxDetector /\ Heard(k)
      BY DEF WiredSite!RfStep, WiredSite!Slots, WiredSite!RfOffer, WiredSite!RfReport,
             WiredSite!RfRegister, WiredSite!RfOffered, WiredSite!RfFeedback,
             WiredSite!RegistersAt, WiredSite!IsLowest, WiredSite!Free,
             WiredSite!PostFeedback, WiredSite!sensor_data, WiredSite!panelVars,
             WiredSite!removeVars, WiredSite!saveVars,
             RadioStep, Slots, RfOffer, Heard, RfRegister, RfOffered, RfFeedback,
             RegistersAt, IsLowest, Free, PostFeedback, sensor_data, panelVars,
             removeVars, saveVars
<1>2. WiredSite!PanelStep => WiredStep \/ \E k \in Slots : Takes(k)
      BY DEF WiredSite!PanelStep, WiredSite!Slots, WiredSite!IsLowest, WiredSite!Free,
             WiredSite!PanelTake, WiredSite!PanelTaken,
             WiredSite!PanelPost, WiredSite!PanelReport, WiredSite!PostFeedback,
             WiredSite!sensor_data, WiredSite!radioVars, WiredSite!panelVars,
             WiredSite!removeVars, WiredSite!saveVars,
             Slots, IsLowest, Free, Takes, WiredStep, PanelTaken, PanelPost, PanelReport,
             PostFeedback, sensor_data, radioVars, panelVars, removeVars, saveVars
<1>3. WiredSite!RemoveStep => RemoveStep
      BY DEF WiredSite!RemoveStep, WiredSite!Slots, WiredSite!RemoveBegin,
             WiredSite!RemoveClear, WiredSite!find_curDetector, WiredSite!IsLowest,
             WiredSite!radioVars, WiredSite!panelVars, WiredSite!saveVars,
             RemoveStep, Slots, RemoveBegin, RemoveClear, find_curDetector, IsLowest,
             radioVars, panelVars, saveVars
<1>4. WiredSite!SaveStep => SaveStep
      BY DEF WiredSite!SaveStep, WiredSite!Savers, WiredSite!SaveCopy, WiredSite!SaveOpen,
             WiredSite!SaveClose, WiredSite!Snapshot, WiredSite!NoImage,
             WiredSite!sensor_data, WiredSite!radioVars, WiredSite!panelVars,
             WiredSite!removeVars,
             SaveStep, Savers, SaveCopy, SaveOpen, SaveClose, Snapshot, NoImage,
             sensor_data, radioVars, panelVars, removeVars
<1>5. ASSUME NEW k, WiredSite!HeartbeatLost(k) PROVE k <= maxDetector /\ Heard(k)
      BY <1>5 DEF WiredSite!HeartbeatLost, WiredSite!radioVars, WiredSite!panelVars,
             WiredSite!removeVars, WiredSite!saveVars, Heard, radioVars,
             panelVars, removeVars, saveVars
<1>6. WiredSite!Restart => Restart
      BY DEF WiredSite!Restart, WiredSite!RestartFrom, WiredSite!Restored,
             WiredSite!NoImage, WiredSite!Savers, Restart, RestartFrom, Restored, NoImage,
             Savers
<1>7. WiredSite!FactoryReset => FactoryReset
      BY DEF WiredSite!FactoryReset, WiredSite!RestartFrom, WiredSite!Restored,
             WiredSite!NoImage, WiredSite!Savers, FactoryReset, RestartFrom, Restored,
             NoImage, Savers
<1>8. QED
      BY <1>1, <1>2, <1>3, <1>4, <1>5, <1>6, <1>7
      DEF WiredSite!Next, WiredSite!Slots, Slots


\* The invariant of a site's registry, of the kind that the site is.
RegistryInv ==
    /\ TypeOK
    /\ Ledger
    /\ IF site = "wired" THEN Promise(TRUE, FALSE) ELSE Promise(FALSE, TRUE)

\* A site starts as a new gateway.
LEMMA RegistryStarts == SiteInit => RegistryInv
BY InitType, InitLedger, InitPromise DEF SiteInit, RegistryInv

\* Every step on a site keeps its invariant.
LEMMA RegistryKept == RegistryInv /\ [SiteNext]_<<vars, site>> => RegistryInv'
<1> SUFFICES ASSUME RegistryInv, [SiteNext]_<<vars, site>> PROVE RegistryInv'
    OBVIOUS
<1>1. /\ site' = site
      /\ \/ site = "radio" /\ GatewayStep(FALSE, TRUE)
         \/ site = "wired" /\ GatewayStep(TRUE, FALSE)
         \/ UNCHANGED vars
      BY RadioSiteStep, WiredSiteStep DEF SiteNext
<1>2. AnyStep \/ UNCHANGED vars
      BY <1>1, GatewayIsAny
<1>3. TypeOK' /\ Ledger'
      BY <1>2, NextType, NextLedger DEF RegistryInv
<1>4. QED
      BY <1>1, <1>3, NextPromise DEF RegistryInv

\* The registry of a site keeps its types, every slot in use within reach, and strangers out:
\* with detectors on the air only, whatever addresses are heard from, and with a wired input.
THEOREM SiteCorrect == SiteSpec => [](TypeOK /\ RegisteredInReach /\ NoStranger)
<1>1. RegistryInv => TypeOK /\ RegisteredInReach /\ NoStranger
      BY LedgerSound DEF RegistryInv, Promise
<1> QED BY <1>1, RegistryStarts, RegistryKept, PTL DEF SiteSpec
=============================================================================
