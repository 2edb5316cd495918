------------------------ MODULE ActionManagerProofs ------------------------
(***************************************************************************)
(* Proofs about the action manager (vdo/base/actionManager.c) for any      *)
(* number of zones and requests.                                           *)
(***************************************************************************)
EXTENDS ActionManager, TLAPS

-----------------------------------------------------------------------------
(***************************************************************************)
(* The codes of adminState.h which a manager and its zones meet.           *)
(***************************************************************************)
Resting == {NORMAL_OPERATION, SUSPENDED, SAVED}
Started == {OPERATING, SUSPENDING, SAVING, SUSPENDED_OPERATION, RESUMING}

\* The mask tests of adminState.h on these codes.
LEMMA CodeFacts ==
  /\ Resting \subseteq AdminStateCodes /\ Started \subseteq AdminStateCodes
  /\ \A code \in Resting : ~ isOperation(code)
  /\ \A code \in Started : isOperation(code)
  /\ ~ isQuiescentCode(NORMAL_OPERATION) /\ ~ isQuiescentCode(OPERATING)
  /\ ~ isQuiescentCode(SUSPENDING) /\ ~ isQuiescentCode(SAVING)
  /\ isQuiescentCode(SUSPENDED) /\ isQuiescentCode(SAVED)
  /\ isQuiescentCode(SUSPENDED_OPERATION) /\ isQuiescentCode(RESUMING)
  /\ isDrainOperation(SUSPENDING) /\ isDrainOperation(SAVING)
  BY DEF Resting, Started, AdminStateCodes, isOperation, isQuiescentCode,
         isDrainOperation, Code, NORMAL_OPERATION, OPERATING, FORMATTING, LOADING,
         LOADING_FOR_RECOVERY, LOADING_FOR_REBUILD, WAITING_FOR_RECOVERY, NEW_VDO,
         RECOVERING, REBUILDING, SAVING, SAVED, SCRUBBING, SAVE_FOR_SCRUBBING,
         SUSPENDING, SUSPENDED, SUSPENDED_OPERATION, RESUMING

\* The codes are different.
LEMMA CodesDiffer ==
  /\ NORMAL_OPERATION # SUSPENDED /\ NORMAL_OPERATION # SAVED
  /\ NORMAL_OPERATION # OPERATING /\ OPERATING # SUSPENDED /\ OPERATING # SAVED
  /\ SUSPENDED_OPERATION # SUSPENDING /\ SUSPENDED_OPERATION # SAVING
  /\ SUSPENDED_OPERATION # RESUMING /\ SUSPENDED_OPERATION # OPERATING
  /\ SUSPENDING # SAVING
  BY DEF Code, NORMAL_OPERATION, OPERATING, SAVING, SAVED, SUSPENDING, SUSPENDED,
         SUSPENDED_OPERATION, RESUMING

\* getNextState() for the operations of an action manager.
LEMMA NextStates ==
  ASSUME NEW previous
  PROVE  /\ getNextState(previous, OPERATING) = NORMAL_OPERATION
         /\ getNextState(previous, RESUMING) = NORMAL_OPERATION
         /\ getNextState(previous, SUSPENDED_OPERATION) = previous
         /\ getNextState(previous, SUSPENDING) = SUSPENDED
         /\ getNextState(previous, SAVING) = SAVED
  <1>1. /\ ~ isQuiescingCode(OPERATING) /\ ~ isQuiescingCode(RESUMING)
        /\ ~ isQuiescingCode(SUSPENDED_OPERATION)
        /\ isQuiescingCode(SUSPENDING) /\ isQuiescingCode(SAVING)
    BY DEF isQuiescingCode, Code, OPERATING, RESUMING, SUSPENDED_OPERATION, SUSPENDING,
           SAVING
  <1>2. /\ Code(SUSPENDING.type, {"quiescent"}) = SUSPENDED
        /\ Code(SAVING.type, {"quiescent"}) = SAVED
    BY DEF Code, SUSPENDING, SUSPENDED, SAVING, SAVED
  <1> QED
    BY <1>1, <1>2, CodesDiffer DEF getNextState

\* beginOperation() on a state at rest which nobody waits on.
LEMMA BeginFacts ==
  ASSUME NEW s, s.state \in Resting, s.waiter = NoWaiter, NEW operation \in Started
  PROVE  /\ beginResult(s, operation) \in {"VDO_SUCCESS", "VDO_INVALID_ADMIN_STATE"}
         /\ operation \in {OPERATING, SUSPENDING, SAVING} =>
              (beginResult(s, operation) = "VDO_SUCCESS" <=> s.state = NORMAL_OPERATION)
         /\ operation \in {SUSPENDED_OPERATION, RESUMING} =>
              (beginResult(s, operation) = "VDO_SUCCESS" <=> s.state # NORMAL_OPERATION)
         /\ startOperationResult(s, operation) = beginResult(s, operation)
  <1>1. ~ isOperation(s.state) /\ isOperation(operation)
    BY CodeFacts
  <1>2. isQuiescentCode(s.state) <=> s.state # NORMAL_OPERATION
    BY CodeFacts DEF Resting
  <1>3. /\ operation \in {OPERATING, SUSPENDING, SAVING} => ~ isQuiescentOperation(operation)
        /\ operation \in {SUSPENDED_OPERATION, RESUMING} => isQuiescentOperation(operation)
    BY <1>1, CodeFacts DEF isQuiescentOperation
  <1>4. isQuiescentCode(s.state) # isQuiescentOperation(operation)
          <=> ~ (isQuiescentCode(s.state) <=> isQuiescentOperation(operation))
    BY DEF isQuiescentCode, isQuiescentOperation, isOperation
  <1>5. /\ isQuiescentCode(s.state) # isQuiescentOperation(operation) =>
             beginResult(s, operation) = "VDO_INVALID_ADMIN_STATE"
        /\ ~ (isQuiescentCode(s.state) # isQuiescentOperation(operation)) =>
             beginResult(s, operation) = "VDO_SUCCESS"
    BY <1>1 DEF beginResult
  <1>6. startOperationResult(s, operation) = beginResult(s, operation)
    BY <1>1 DEF startOperationResult
  <1> QED
    BY <1>2, <1>3, <1>4, <1>5, <1>6

\* The records of the slots.
LEMMA ActionFacts ==
  /\ Unused.kind = "none" /\ Unused.inUse = FALSE
  /\ Request.kind = "request" /\ Request.inUse = TRUE /\ Request.operation = OPERATING
  /\ \A operation : /\ Action("drain", operation).kind = "drain"
                    /\ Action("drain", operation).inUse = TRUE
                    /\ Action("drain", operation).operation = operation
  /\ Action("grow", SUSPENDED_OPERATION).kind = "grow"
  /\ Action("grow", SUSPENDED_OPERATION).inUse = TRUE
  /\ Action("grow", SUSPENDED_OPERATION).operation = SUSPENDED_OPERATION
  /\ Action("resume", RESUMING).kind = "resume"
  /\ Action("resume", RESUMING).inUse = TRUE
  /\ Action("resume", RESUMING).operation = RESUMING
  BY DEF Unused, Request, Action

\* What the slots may hold.
LEMMA SlotFacts ==
  ASSUME ActionManagerConstants, TypeOK, SlotsInOrder, NEW i \in 0 .. 1
  PROVE  /\ actions[i].kind \in {"none", "request", "drain", "grow", "resume"}
         /\ actions[i] = Unused <=> ~ actions[i].inUse
         /\ actions[i] = Unused <=> actions[i].kind = "none"
         /\ actions[i] = Request <=> actions[i].kind = "request"
         /\ actions[i].kind = "request" => actions[i].operation = OPERATING
         /\ actions[i].kind = "drain" => /\ actions[i].operation \in {SUSPENDING, SAVING}
                                         /\ actions[i].operation \in DrainOperations
                                         /\ vdoState = "draining" /\ admin.waiting
         /\ actions[i].kind = "grow" => /\ actions[i].operation = SUSPENDED_OPERATION
                                        /\ vdoState = "growing" /\ admin.waiting
         /\ actions[i].kind = "resume" => /\ actions[i].operation = RESUMING
                                          /\ vdoState = "resuming" /\ admin.waiting
  <1>1. CASE actions[i] = Unused
    BY <1>1, ActionFacts
  <1>2. CASE actions[i] = Request
    BY <1>2, ActionFacts
  <1>3. CASE admin.waiting /\ Administrative(actions[i])
    BY <1>3, ActionFacts DEF Administrative, ActionManagerConstants
  <1> QED
    BY <1>1, <1>2, <1>3 DEF SlotsInOrder

\* A new manager is in order.
LEMMA ActionManagerInit ==
  ASSUME ActionManagerConstants, Init PROVE ActionManagerInv
  <1>1. /\ NORMAL_OPERATION \in AdminStateCodes
        /\ \A w : Normal \in AdminStates(w)
        /\ Normal.state = NORMAL_OPERATION /\ Normal.waiter = NoWaiter
    BY CodeFacts, Zenon DEF Normal, AdminStates, Resting
  <1>2. NoOperation \in [waiting : BOOLEAN, result : Results]
    BY DEF NoOperation, Results
  <1>3. Unused \in [inUse : BOOLEAN, kind : {"none", "request", "drain", "grow", "resume"},
                    operation : AdminStateCodes]
    BY <1>1 DEF Unused
  <1>4. readOnly \in BOOLEAN /\ staysReadOnly \in BOOLEAN
    BY Zenon DEF Init
  <1>5. TypeOK
    BY <1>1, <1>2, <1>3, <1>4 DEF Init, TypeOK, ActionManagerConstants
  <1>6. Current = Unused /\ Other = Unused /\ Unused # Request
    BY ActionFacts DEF Init, Current, Other
  <1>7. SlotsInOrder
    BY <1>6 DEF Init, SlotsInOrder
  <1>8. PointsInOrder
    BY <1>6 DEF Init, PointsInOrder
  <1>9. ManagerInOrder
    BY <1>1, <1>6 DEF Init, ManagerInOrder, Launched
  <1>10. AnswersInOrder
    BY <1>1, CodesDiffer DEF Init, AnswersInOrder, NoOperation
  <1>11. \A z \in Zones : ZoneFollows(z)
    BY <1>1 DEF Init, ZoneFollows, Launched
  <1> QED
    BY <1>5, <1>7, <1>8, <1>9, <1>10, <1>11 DEF ActionManagerInv

\* The invariant implies the properties.
LEMMA InvImpliesSound ==
  ASSUME ActionManagerConstants, ActionManagerInv PROVE ManagerIsSound
  <1> USE DEF ActionManagerInv
  <1>1. currentAction \in 0 .. 1 /\ 1 - currentAction \in 0 .. 1
    BY DEF TypeOK
  <1>2. RequestsReachZones
    <2>1. SUFFICES ASSUME phase = "idle" PROVE RequestsReachZones
      BY DEF RequestsReachZones
    <2>2. Current = Unused /\ Other = Unused /\ Unused # Request
      BY <2>1, ActionFacts DEF SlotsInOrder
    <2> QED
      BY <2>2 DEF PointsInOrder, RequestsReachZones
  <1>3. AgreesWithVDO
    <2>1. SUFFICES ASSUME admin.result = "VDO_SUCCESS" PROVE AgreesWithVDO
      BY DEF AgreesWithVDO
    <2>2. CASE vdoState = "suspended"
      <3>1. managerState.state \in {SUSPENDED, SAVED} /\ phase = "idle"
        BY <2>1, <2>2 DEF AnswersInOrder
      <3>2. \A z \in Zones : zoneState[z].state = managerState.state
        BY <3>1 DEF ZoneFollows, Launched
      <3> QED
        BY <2>2, <3>1, <3>2, CodeFacts DEF AgreesWithVDO
    <2>3. CASE vdoState = "normal"
      <3>1. ~ admin.waiting /\ managerState.state \notin {SUSPENDED, SAVED}
        BY <2>1, <2>3 DEF AnswersInOrder
      <3>2. Current = Unused \/ Current = Request
        BY <1>1, <3>1 DEF SlotsInOrder, Current
      <3>3. /\ managerState.state \in {NORMAL_OPERATION, OPERATING}
            /\ \A z \in Zones : zoneState[z].state = NORMAL_OPERATION
        <4>1. CASE Launched
          <5>1. Current = Request
            BY <3>2, <4>1 DEF SlotsInOrder, Launched
          <5> QED
            BY <4>1, <5>1, ActionFacts DEF ManagerInOrder, ZoneFollows
        <4>2. CASE ~ Launched
          BY <3>1, <4>2 DEF ManagerInOrder, ZoneFollows
        <4> QED
          BY <4>1, <4>2
      <3> QED
        BY <2>3, <3>3, CodeFacts DEF AgreesWithVDO
    <2>4. CASE vdoState \notin {"suspended", "normal"}
      BY <2>4 DEF AgreesWithVDO
    <2> QED
      BY <2>2, <2>3, <2>4
  <1>4. phase # "reentered"
    BY DEF SlotsInOrder
  <1> QED
    BY <1>2, <1>3, <1>4 DEF ManagerIsSound

-----------------------------------------------------------------------------
(***************************************************************************)
(* The manager's steps.                                                    *)
(***************************************************************************)

\* The manager's state and the indices have their types.
LEMMA ManagerFacts ==
  ASSUME ActionManagerConstants, ActionManagerInv
  PROVE  /\ ZoneCount \in Nat \ {0} /\ MaxRequest \in Nat
         /\ currentAction \in 0 .. 1 /\ 1 - currentAction \in 0 .. 1
         /\ 1 - (1 - currentAction) = currentAction /\ currentAction # 1 - currentAction
         /\ actingZone \in 0 .. ZoneCount
         /\ currentPoint \in 0 .. MaxRequest /\ pendingPoint \in 0 .. MaxRequest
         /\ managerState.waiter = NoWaiter
         /\ managerState.state \in AdminStateCodes
         /\ managerState.nextState \in AdminStateCodes
  BY DEF ActionManagerConstants, ActionManagerInv, TypeOK, AdminStates

\* launchCurrentAction() preserves the invariant.
LEMMA LaunchStep ==
  ASSUME ActionManagerConstants, ActionManagerInv, LaunchCurrentAction
  PROVE  ActionManagerInv'
  <1> USE DEF ActionManagerInv
  <1> DEFINE result == startOperationResult(managerState, Current.operation)
             next == getNextState(managerState.state, Current.operation)
  <1>1. /\ phase = "launch"
        /\ UNCHANGED <<actions, currentAction, zoneState, pendingPoint, zonePoint,
                       vdoState, readOnly, staysReadOnly>>
        /\ Current' = Current /\ Other' = Other
    BY DEF LaunchCurrentAction, Current, Other
  <1>2. /\ ~ Launched /\ managerState.state \in Resting
        /\ Current = Request => managerState.state = NORMAL_OPERATION
        /\ \A z \in Zones : /\ zoneState[z].state = managerState.state
                            /\ zoneState[z].waiter = NoWaiter
    BY <1>1 DEF Launched, ManagerInOrder, ZoneFollows, Resting
  <1>3. /\ Current.kind \in {"request", "drain", "grow", "resume"}
        /\ Current.kind = "request" <=> Current = Request
        /\ Current.kind = "request" => Current.operation = OPERATING
        /\ Current.kind = "drain" => Current.operation \in {SUSPENDING, SAVING}
        /\ Current.kind = "grow" => Current.operation = SUSPENDED_OPERATION
        /\ Current.kind = "resume" => Current.operation = RESUMING
        /\ Current # Unused
    <2>1. Current # Unused
      BY <1>1 DEF SlotsInOrder
    <2> QED
      BY <2>1, SlotFacts, ManagerFacts DEF Current
  <1>4. Current.operation \in Started
    BY <1>3 DEF Started
  <1>5. /\ result \in {"VDO_SUCCESS", "VDO_INVALID_ADMIN_STATE"}
        /\ Current.kind \in {"request", "drain"} =>
             (result = "VDO_SUCCESS" <=> managerState.state = NORMAL_OPERATION)
        /\ Current.kind \in {"grow", "resume"} =>
             (result = "VDO_SUCCESS" <=> managerState.state # NORMAL_OPERATION)
    BY <1>2, <1>3, <1>4, ManagerFacts, BeginFacts
  <1>6. CASE result = "VDO_SUCCESS"
    <2>1. /\ managerState' = [state |-> Current.operation, nextState |-> next,
                              waiter |-> NoWaiter]
          /\ currentPoint' = IF Current.kind = "request" THEN pendingPoint
                                                         ELSE currentPoint
          /\ actingZone' = IF Current.kind = "grow" THEN actingZone ELSE 0
          /\ phase' = IF Current.kind = "grow" THEN "finish" ELSE "zone"
          /\ admin' = admin
      BY <1>6 DEF LaunchCurrentAction, Current, beginOperation
    <2>2. /\ Current.kind \in {"request", "resume"} => next = NORMAL_OPERATION
          /\ Current.kind = "drain" =>
               next = IF Current.operation = SAVING THEN SAVED ELSE SUSPENDED
          /\ Current.kind = "grow" => next = managerState.state
          /\ next \in Resting
      BY <1>2, <1>3, NextStates, CodesDiffer DEF Resting
    <2>3. /\ managerState'.state = Current.operation /\ managerState'.nextState = next
          /\ managerState'.waiter = NoWaiter /\ Launched'
          /\ managerState' \in AdminStates({})
      BY <1>4, <2>1, <2>2, CodeFacts DEF Launched, AdminStates
    <2>4. TypeOK'
      BY <1>1, <2>1, <2>3, ManagerFacts DEF TypeOK
    <2>5. SlotsInOrder'
      <3>1. \A i \in 0 .. 1 : Administrative(actions[i])' <=> Administrative(actions[i])
        BY <1>1 DEF Administrative
      <3> QED
        BY <1>1, <1>3, <2>1, <3>1 DEF SlotsInOrder
    <2>6. PointsInOrder'
      BY <1>1, <1>2, <1>3, <2>1, <2>3, ManagerFacts, SMTT(30) DEF PointsInOrder, Zones
    <2>7. ManagerInOrder'
      BY <1>1, <1>2, <1>3, <1>5, <1>6, <2>2, <2>3 DEF ManagerInOrder, Resting
    <2>8. AnswersInOrder'
      <3>1. CASE admin.waiting
        BY <1>1, <2>1, <3>1 DEF AnswersInOrder
      <3>2. CASE ~ admin.waiting
        <4>1. Current = Request
          BY <1>3, <3>2, ManagerFacts DEF SlotsInOrder, Current
        <4>2. managerState'.state = OPERATING /\ managerState.state = NORMAL_OPERATION
          BY <1>2, <1>3, <2>3, <4>1
        <4> QED
          BY <1>1, <2>1, <3>2, <4>2, CodesDiffer DEF AnswersInOrder
      <3> QED
        BY <3>1, <3>2, ZenonT(30)
    <2>9. ASSUME NEW z \in Zones PROVE ZoneFollows(z)'
      <3>1. z \in Nat /\ ~ (z < 0)
        BY ManagerFacts, SMTT(30) DEF Zones
      <3>2. CASE Current.kind = "grow"
        BY <1>1, <1>2, <2>1, <2>2, <2>3, <3>2, SMTT(30) DEF ZoneFollows
      <3>3. CASE Current.kind \in {"request", "drain"}
        BY <1>1, <1>2, <1>5, <1>6, <2>1, <2>3, <3>1, <3>3, SMTT(30) DEF ZoneFollows
      <3>4. CASE Current.kind = "resume"
        BY <1>1, <1>2, <1>5, <1>6, <2>1, <2>3, <3>1, <3>4 DEF ZoneFollows, Resting
      <3> QED
        BY <1>3, <3>2, <3>3, <3>4
    <2> QED
      BY <2>4, <2>5, <2>6, <2>7, <2>8, <2>9
  <1>7. CASE result # "VDO_SUCCESS"
    <2>1. /\ phase' = "refused" /\ UNCHANGED <<managerState, currentPoint, actingZone>>
          /\ Current # Request /\ Current.kind # "request"
          /\ admin' = WithResult(admin, result)
      BY <1>2, <1>3, <1>5, <1>7 DEF LaunchCurrentAction, Current
    <2>2. /\ admin \in [waiting : BOOLEAN, result : Results]
          /\ admin' \in [waiting : BOOLEAN, result : Results]
          /\ admin'.result # "VDO_SUCCESS" /\ admin'.waiting = admin.waiting
      BY <1>5, <1>7, <2>1 DEF WithResult, TypeOK, Results
    <2>3. ~ Launched'
      BY <2>1 DEF Launched
    <2>4. TypeOK'
      BY <1>1, <2>1, <2>2 DEF TypeOK
    <2>5. SlotsInOrder'
      <3>1. \A i \in 0 .. 1 : Administrative(actions[i])' <=> Administrative(actions[i])
        BY <1>1 DEF Administrative
      <3> QED
        BY <1>1, <1>3, <2>1, <2>2, <3>1 DEF SlotsInOrder
    <2>6. PointsInOrder'
      BY <1>1, <1>2, <2>1, <2>3 DEF PointsInOrder
    <2>7. ManagerInOrder'
      BY <1>1, <1>2, <2>1, <2>3 DEF ManagerInOrder, Resting
    <2>8. AnswersInOrder'
      <3>1. admin.waiting
        BY <1>3, <2>1, ManagerFacts, SMTT(30) DEF SlotsInOrder, Current
      <3> QED
        BY <1>1, <1>5, <1>7, <2>1, <2>2, <3>1, SMTT(30) DEF AnswersInOrder
    <2>9. \A z \in Zones : ZoneFollows(z)'
      BY <1>1, <1>2, <2>1, <2>3, ZenonT(30) DEF ZoneFollows
    <2> QED
      BY <2>4, <2>5, <2>6, <2>7, <2>8, <2>9, ZenonT(30)
  <1> QED
    BY <1>6, <1>7

\* applyToZone() preserves the invariant: a zone has the state which the
\* action of the manager needs, so it never answers with an error.
LEMMA ApplyStep ==
  ASSUME ActionManagerConstants, ActionManagerInv, ApplyToZone
  PROVE  ActionManagerInv'
  <1> USE DEF ActionManagerInv
  <1> DEFINE zone == actingZone
             began == startDrainingResult(zoneState[zone], managerState.state)
  <1>1. /\ phase = "zone" /\ Launched
        /\ UNCHANGED <<managerState, actions, currentAction, pendingPoint,
                       currentPoint, vdoState, readOnly, staysReadOnly>>
        /\ Current' = Current /\ Other' = Other
    BY SMTT(30) DEF ApplyToZone, Current, Other, Launched
  <1>2. /\ zone \in Zones /\ zone \in Nat /\ ZoneCount \in Nat /\ zone < ZoneCount
        /\ actingZone' = zone + 1 /\ actingZone' \in 0 .. ZoneCount
        /\ \A z \in Zones : z \in Nat
    BY <1>1, ManagerFacts, SMTT(30) DEF TypeOK, Zones, ApplyToZone, NextZone
  <1>3. /\ Current.kind \in {"request", "drain", "resume"}
        /\ Current.kind = "request" <=> Current = Request
        /\ Current.kind = "drain" => Current.operation \in {SUSPENDING, SAVING}
        /\ Current # Unused
    <2>1. Current # Unused /\ Current.kind # "grow"
      BY <1>1 DEF SlotsInOrder
    <2> QED
      BY <2>1, SlotFacts, ManagerFacts DEF Current
  <1>4. Current.kind = "drain" => began = "VDO_SUCCESS"
    <2>1. SUFFICES ASSUME Current.kind = "drain" PROVE began = "VDO_SUCCESS"
      OBVIOUS
    <2>2. /\ zoneState[zone].state = NORMAL_OPERATION /\ zoneState[zone].waiter = NoWaiter
          /\ managerState.state \in {SUSPENDING, SAVING}
      BY <1>1, <1>2, <1>3, <2>1 DEF ZoneFollows, ManagerInOrder
    <2>3. beginResult(zoneState[zone], managerState.state) = "VDO_SUCCESS"
      BY <2>2, BeginFacts DEF Resting, Started
    <2> QED
      BY <2>2, <2>3, CodeFacts DEF startDrainingResult
  <1>5. admin' = admin
    <2>1. CASE Current.kind = "drain"
      <3>1. admin' = WithResult(admin, began)
        BY <2>1 DEF ApplyToZone, Current
      <3>2. admin \in [waiting : BOOLEAN, result : Results]
        BY DEF TypeOK
      <3> QED
        BY <1>4, <2>1, <3>1, <3>2, SMTT(30) DEF WithResult
    <2>2. CASE Current.kind = "resume"
      <3>1. isQuiescentCode(zoneState[zone].state)
        BY <1>1, <1>2, <2>2, CodeFacts, SMTT(30) DEF ZoneFollows
      <3> QED
        BY <2>2, <3>1, SMTT(30) DEF ApplyToZone, Current
    <2>3. CASE Current.kind = "request"
      BY <2>3 DEF ApplyToZone, Current
    <2> QED
      BY <1>3, <2>1, <2>2, <2>3
  <1>6. /\ phase' = IF Current.kind = "drain" THEN "acting" ELSE NextStop(zone + 1)
        /\ zonePoint' = IF Current.kind = "request"
                        THEN [zonePoint EXCEPT ![zone] = currentPoint] ELSE zonePoint
    BY <1>4 DEF ApplyToZone, Current, NextZone
  <1>7. phase' \in {"zone", "acting", "finish"} /\ Launched'
    BY <1>6, SMTT(30) DEF NextStop, Launched
  <1>8. /\ zoneState \in [Zones -> AdminStates({"manager"})]
        /\ zoneState' \in [Zones -> AdminStates({"manager"})]
        /\ \A z \in Zones \ {zone} : zoneState'[z] = zoneState[z]
        /\ Current.kind = "drain" =>
             /\ zoneState'[zone].state = managerState.state
             /\ zoneState'[zone].nextState = managerState.nextState
        /\ Current.kind = "resume" =>
             zoneState'[zone].state = NORMAL_OPERATION
        /\ Current.kind = "request" => zoneState'[zone] = zoneState[zone]
        /\ Current.kind # "drain" => zoneState'[zone].waiter = NoWaiter
    <2>1. zoneState \in [Zones -> AdminStates({"manager"})]
      BY DEF TypeOK
    <2>2. zoneState[zone].waiter = NoWaiter
      BY <1>1, <1>2 DEF ZoneFollows
    <2>3. CASE Current.kind = "drain"
      <3> DEFINE new == [state |-> managerState.state,
                         nextState |-> getNextState(zoneState[zone].state, managerState.state),
                         waiter |-> "manager"]
      <3>1. zoneState' = [zoneState EXCEPT ![zone] = new]
        BY <1>4, <2>3, ZenonT(30) DEF ApplyToZone, Current, beginOperation
      <3>2. /\ managerState.state \in {SUSPENDING, SAVING}
            /\ managerState.state = Current.operation
        BY <1>1, <1>3, <2>3, ZenonT(30) DEF ManagerInOrder
      <3>3. /\ getNextState(zoneState[zone].state, managerState.state) = managerState.nextState
            /\ managerState.nextState \in AdminStateCodes
        BY <1>1, <2>3, <3>2, NextStates, CodesDiffer, ManagerFacts, ZenonT(30) DEF ManagerInOrder
      <3>4. new \in AdminStates({"manager"})
        BY <3>3, ManagerFacts DEF AdminStates
      <3> QED
        BY <1>2, <2>1, <2>3, <3>1, <3>3, <3>4, SMTT(30)
    <2>4. CASE Current.kind = "resume"
      <3>1. zoneState' = [zoneState EXCEPT ![zone] = resumeIfQuiescent(zoneState[zone])]
        BY <2>4 DEF ApplyToZone, Current
      <3>2. isQuiescentCode(zoneState[zone].state)
        BY <1>1, <1>2, <2>4, CodeFacts DEF ZoneFollows
      <3>3. /\ resumeIfQuiescent(zoneState[zone]) \in AdminStates({"manager"})
            /\ resumeIfQuiescent(zoneState[zone]).state = NORMAL_OPERATION
            /\ resumeIfQuiescent(zoneState[zone]).waiter = zoneState[zone].waiter
        BY <1>2, <2>1, <3>2, CodeFacts DEF resumeIfQuiescent, AdminStates, Resting
      <3> QED
        BY <1>2, <2>1, <2>2, <2>4, <3>1, <3>3, SMTT(30)
    <2>5. CASE Current.kind = "request"
      <3>1. zoneState' = [zoneState EXCEPT ![zone] = zoneState[zone]]
        BY <2>5 DEF ApplyToZone, Current
      <3> QED
        BY <1>2, <2>1, <2>2, <2>5, <3>1
    <2> QED
      BY <1>3, <2>3, <2>4, <2>5
  <1>9. TypeOK'
    <2>1. zonePoint' \in [Zones -> 0 .. MaxRequest]
      BY <1>6, ManagerFacts, Zenon DEF TypeOK
    <2>2. phase' = "zone" => actingZone' < ZoneCount
      BY <1>2, <1>6, SMTT(30) DEF NextStop
    <2> QED
      BY <1>1, <1>2, <1>5, <1>7, <1>8, <2>1, <2>2 DEF TypeOK
  <1>10. SlotsInOrder'
    <2>1. \A i \in 0 .. 1 : Administrative(actions[i])' <=> Administrative(actions[i])
      BY <1>1 DEF Administrative
    <2>2. /\ Current = Request => phase' \in {"zone", "finish"}
          /\ phase' = "acting" => Current.kind = "drain" /\ actingZone' > 0
          /\ phase' = "finish" => actingZone' = ZoneCount
      BY <1>2, <1>3, <1>6 DEF NextStop
    <2> QED
      BY <1>1, <1>3, <1>5, <1>7, <2>1, <2>2 DEF SlotsInOrder
  <1>11. PointsInOrder'
    <2>1. \A z \in Zones : \/ zonePoint'[z] = currentPoint
                           \/ Current = Request /\ z >= actingZone'
      BY <1>2, <1>3, <1>6 DEF PointsInOrder, TypeOK
    <2> QED
      BY <1>1, <1>7, <2>1 DEF PointsInOrder
  <1>12. ManagerInOrder'
    BY <1>1, <1>7 DEF ManagerInOrder
  <1>13. AnswersInOrder'
    <2>1. ~ admin.waiting => vdoState \notin {"draining", "growing", "suspended"}
                             \/ admin.result # "VDO_SUCCESS"
      BY <1>1 DEF AnswersInOrder
    <2> QED
      BY <1>1, <1>5, <1>7, <2>1 DEF AnswersInOrder
  <1>14. ASSUME NEW z \in Zones PROVE ZoneFollows(z)'
    <2>1. z < actingZone' <=> z < zone \/ z = zone
      BY <1>2
    <2>2. z = actingZone' - 1 <=> z = zone
      BY <1>2
    <2>3. phase' = "acting" <=> Current.kind = "drain"
      BY <1>6, SMTT(30) DEF NextStop
    <2>4. CASE z = zone
      BY <1>1, <1>3, <1>7, <1>8, <2>1, <2>2, <2>3, <2>4, SMTT(30) DEF ZoneFollows
    <2>5. CASE z # zone
      BY <1>1, <1>3, <1>7, <1>8, <2>1, <2>2, <2>3, <2>5 DEF ZoneFollows
    <2> QED
      BY <2>4, <2>5
  <1> QED
    BY <1>9, <1>10, <1>11, <1>12, <1>13, <1>14

\* So does the end of a zone's drain, finishDraining().
LEMMA FinishDrainingStep ==
  ASSUME ActionManagerConstants, ActionManagerInv, FinishDraining
  PROVE  ActionManagerInv'
  <1> USE DEF ActionManagerInv
  <1> DEFINE zone == actingZone - 1
  <1>1. /\ phase = "acting" /\ Launched /\ Current.kind = "drain" /\ actingZone > 0
        /\ UNCHANGED <<managerState, actions, currentAction, actingZone, vdoState,
                       admin, readOnly, pendingPoint, currentPoint, zonePoint, staysReadOnly>>
        /\ Current' = Current /\ Other' = Other
    BY DEF FinishDraining, requestVars, Current, Other, Launched, SlotsInOrder
  <1>2. /\ zone \in Zones /\ zone \in Nat /\ ZoneCount \in Nat
        /\ actingZone = zone + 1 /\ actingZone \in 0 .. ZoneCount
        /\ \A z \in Zones : z \in Nat
        /\ phase' = NextStop(actingZone)
    BY <1>1, ManagerFacts DEF Zones, FinishDraining
  <1>3. phase' \in {"zone", "finish"} /\ Launched'
    BY <1>2 DEF NextStop, Launched
  <1>4. /\ zoneState \in [Zones -> AdminStates({"manager"})]
        /\ zoneState' \in [Zones -> AdminStates({"manager"})]
        /\ \A z \in Zones \ {zone} : zoneState'[z] = zoneState[z]
        /\ zoneState'[zone].state = managerState.nextState
        /\ zoneState'[zone].waiter = NoWaiter
    <2>1. /\ zoneState \in [Zones -> AdminStates({"manager"})]
          /\ zoneState' = [zoneState EXCEPT ![zone] = endOperation(zoneState[zone])]
      BY DEF TypeOK, FinishDraining
    <2>2. /\ zoneState[zone].state = managerState.state
          /\ zoneState[zone].nextState = managerState.nextState
      BY <1>1, <1>2 DEF ZoneFollows
    <2>3. isOperation(managerState.state)
      <3>1. managerState.state \in {SUSPENDING, SAVING}
        BY <1>1, SlotFacts, ManagerFacts DEF ManagerInOrder, Current
      <3> QED
        BY <3>1, CodeFacts, ZenonT(30) DEF Started
    <2>4. /\ endOperation(zoneState[zone]) \in AdminStates({"manager"})
          /\ endOperation(zoneState[zone]).state = managerState.nextState
          /\ endOperation(zoneState[zone]).waiter = NoWaiter
      BY <1>2, <2>1, <2>2, <2>3, ZenonT(30) DEF endOperation, AdminStates
    <2> QED
      BY <1>2, <2>1, <2>4
  <1>5. TypeOK'
    <2>1. phase' = "zone" => actingZone' < ZoneCount
      BY <1>1, <1>2, SMTT(30) DEF NextStop
    <2> QED
      BY <1>1, <1>3, <1>4, <2>1 DEF TypeOK
  <1>6. SlotsInOrder'
    <2>1. \A i \in 0 .. 1 : Administrative(actions[i])' <=> Administrative(actions[i])
      BY <1>1 DEF Administrative
    <2>2. phase' = "finish" => actingZone' = ZoneCount
      BY <1>1, <1>2 DEF NextStop
    <2>3. Current # Unused /\ Current # Request
      BY <1>1, ActionFacts
    <2> QED
      BY <1>1, <1>3, <2>1, <2>2, <2>3 DEF SlotsInOrder
  <1>7. PointsInOrder' /\ ManagerInOrder'
    BY <1>1, <1>3 DEF PointsInOrder, ManagerInOrder
  <1>8. AnswersInOrder'
    BY <1>1, <1>3 DEF AnswersInOrder
  <1>9. ASSUME NEW z \in Zones PROVE ZoneFollows(z)'
    <2>1. CASE z = zone
      BY <1>1, <1>2, <1>3, <1>4, <2>1, SMTT(30) DEF ZoneFollows
    <2>2. CASE z # zone
      BY <1>1, <1>2, <1>3, <1>4, <2>2 DEF ZoneFollows
    <2> QED
      BY <2>1, <2>2, ZenonT(30)
  <1> QED
    BY <1>5, <1>6, <1>7, <1>8, <1>9

\* finishActionCallback() preserves the invariant: the scheduler never has an
\* action of its own, because a point that is not current has its request.
LEMMA FinishActionStep ==
  ASSUME ActionManagerConstants, ActionManagerInv, FinishAction
  PROVE  ActionManagerInv'
  <1> USE DEF ActionManagerInv
  <1>1. /\ phase \in {"finish", "refused"}
        /\ UNCHANGED <<actingZone, zoneState, vdoState, readOnly, pendingPoint,
                       currentPoint, zonePoint, staysReadOnly>>
        /\ actions' = [actions EXCEPT ![currentAction] = Unused]
        /\ currentAction' = 1 - currentAction
        /\ managerState' = endOperation(managerState)
        /\ admin' = [admin EXCEPT !.waiting = @ /\ ~ (Current.kind # "request")]
    BY DEF FinishAction, requestVars, Current
  <1>2. /\ actions' \in [0 .. 1 ->
             [inUse : BOOLEAN, kind : {"none", "request", "drain", "grow", "resume"},
              operation : AdminStateCodes]]
        /\ Current' = Other /\ Other' = Unused
        /\ actions'[currentAction] = Unused
        /\ actions'[1 - currentAction] = actions[1 - currentAction]
    <2>1. Unused \in [inUse : BOOLEAN, kind : {"none", "request", "drain", "grow", "resume"},
                      operation : AdminStateCodes]
      BY CodeFacts DEF Unused, Resting
    <2>2. actions \in [0 .. 1 ->
             [inUse : BOOLEAN, kind : {"none", "request", "drain", "grow", "resume"},
              operation : AdminStateCodes]]
      BY SMTT(30) DEF TypeOK
    <2> QED
      BY <1>1, <2>1, <2>2, ManagerFacts DEF Current, Other
  <1>3. /\ Current.kind \in {"request", "drain", "grow", "resume"}
        /\ Current.kind = "request" <=> Current = Request
        /\ Current # Unused
        /\ Current.kind = "drain" => Current.operation \in {SUSPENDING, SAVING}
        /\ Current.kind = "drain" => vdoState = "draining"
        /\ Current.kind = "grow" => vdoState = "growing"
        /\ Current.kind = "resume" => vdoState = "resuming"
        /\ Current.kind # "request" => admin.waiting
        /\ Other = Unused <=> ~ Other.inUse
    <2>1. Current # Unused
      BY <1>1 DEF SlotsInOrder
    <2> QED
      BY <2>1, SlotFacts, ManagerFacts DEF Current, Other
  <1>4. currentPoint # pendingPoint => Other = Request
    BY <1>1 DEF PointsInOrder
  <1>5. phase' = IF Other = Unused THEN "idle" ELSE "launch"
    <2>1. Other.inUse \/ currentPoint = pendingPoint
      BY <1>4, ActionFacts
    <2>2. phase' = IF ~ Other.inUse /\ currentPoint # pendingPoint THEN "reentered"
                   ELSE IF Other.inUse THEN "launch" ELSE "idle"
      BY DEF FinishAction, Other
    <2> QED
      BY <1>3, <2>1, <2>2
  <1>6. /\ admin' \in [waiting : BOOLEAN, result : Results]
        /\ admin'.result = admin.result
        /\ admin'.waiting <=> admin.waiting /\ Current.kind = "request"
    BY <1>1, Zenon DEF TypeOK
  <1>7. ~ Launched'
    BY <1>5 DEF Launched
  <1>8. Other # Unused => Current = Request
    BY DEF SlotsInOrder
  <1>9. /\ managerState' \in AdminStates({})
        /\ managerState'.state \in Resting
        /\ phase = "refused" => managerState' = managerState
        /\ phase = "finish" => managerState'.state = managerState.nextState
        /\ phase = "finish" /\ Current.kind \in {"request", "resume"} =>
             managerState'.state = NORMAL_OPERATION
        /\ phase = "finish" /\ Current.kind \in {"drain", "grow"} =>
             managerState'.state \in {SUSPENDED, SAVED}
    <2>1. managerState \in AdminStates({})
      BY DEF TypeOK
    <2>2. CASE phase = "refused"
      <3>1. managerState.state \in Resting
        BY <2>2 DEF ManagerInOrder, Launched, Resting
      <3>2. managerState' = managerState
        BY <1>1, <3>1, CodeFacts DEF endOperation
      <3> QED
        BY <2>1, <2>2, <3>1, <3>2
    <2>3. CASE phase = "finish"
      <3>1. Launched /\ managerState.state = Current.operation
        BY <2>3, SMTT(30) DEF ManagerInOrder, Launched
      <3>2. managerState.state \in Started
        BY <1>3, <3>1, SlotFacts, ManagerFacts DEF Current, Started
      <3>3. isOperation(managerState.state)
        BY <3>2, CodeFacts
      <3>4. managerState' = [managerState EXCEPT !.state = managerState.nextState,
                                                 !.waiter = NoWaiter]
        BY <1>1, <3>3 DEF endOperation
      <3>5. managerState' \in AdminStates({}) /\ managerState'.state = managerState.nextState
        BY <2>1, <3>4, Zenon DEF AdminStates
      <3> QED
        BY <1>3, <2>3, <3>1, <3>5 DEF ManagerInOrder, Resting
    <2> QED
      BY <1>1, <2>2, <2>3
  <1>10. TypeOK'
    BY <1>1, <1>2, <1>5, <1>6, <1>9, ManagerFacts, ZenonT(30) DEF TypeOK
  <1>11. SlotsInOrder'
    <2>1. \/ Other = Unused \/ Other = Request
          \/ admin.waiting /\ Administrative(Other)
      <3>1. \A i \in 0 .. 1 : \/ actions[i] = Unused \/ actions[i] = Request
                              \/ admin.waiting /\ Administrative(actions[i])
        BY DEF SlotsInOrder
      <3> QED
        BY <3>1, ManagerFacts DEF Other, Administrative
    <2>2. admin.waiting /\ Other # Unused => admin'.waiting
      BY <1>3, <1>6, <1>8
    <2>3. \A i \in 0 .. 1 : actions'[i] = Unused \/ actions'[i] = Other
      <3>1. \A i \in 0 .. 1 : i = currentAction \/ i = 1 - currentAction
        BY ManagerFacts
      <3> QED
        BY <1>2, <3>1 DEF Other
    <2>4. \A i \in 0 .. 1 : \/ actions'[i] = Unused \/ actions'[i] = Request
                            \/ admin'.waiting /\ Administrative(actions[i])'
      BY <1>1, <2>1, <2>2, <2>3 DEF Administrative
    <2> QED
      BY <1>2, <1>5, <2>4, ActionFacts, ZenonT(30) DEF SlotsInOrder
  <1>12. PointsInOrder'
    <2>1. \A z \in Zones : zonePoint[z] = currentPoint
      <3>1. \A z \in Zones : z < ZoneCount /\ z \in Nat /\ ZoneCount \in Nat
        BY ManagerFacts DEF Zones
      <3>2. Current = Request /\ Launched => actingZone = ZoneCount
        BY <1>1, <1>3 DEF SlotsInOrder, Launched
      <3> QED
        BY <3>1, <3>2 DEF PointsInOrder
    <2>2. Other # Unused => phase' = "launch"
      BY <1>5
    <2> QED
      BY <1>1, <1>2, <1>4, <2>1, <2>2, ActionFacts DEF PointsInOrder
  <1>13. ManagerInOrder'
    <2>1. Other = Request => managerState'.state = NORMAL_OPERATION
      <3>1. Other = Request => Current = Request /\ phase = "finish"
        BY <1>1, <1>8, ActionFacts DEF SlotsInOrder
      <3> QED
        BY <1>3, <1>9, <3>1
    <2> QED
      BY <1>2, <1>7, <1>9, <2>1 DEF ManagerInOrder, Resting
  <1>14. AnswersInOrder'
    <2>1. vdoState \in {"normal", "suspended"} => ~ admin'.waiting
      BY <1>6 DEF AnswersInOrder
    <2>2. ASSUME ~ admin'.waiting, vdoState \in {"normal", "resuming"},
                 ~ readOnly \/ admin.result = "VDO_SUCCESS"
          PROVE  managerState'.state \notin {SUSPENDED, SAVED}
      <3>1. CASE Current.kind = "request"
        BY <1>1, <1>3, <1>9, <3>1, CodesDiffer DEF SlotsInOrder
      <3>2. CASE Current.kind = "resume"
        BY <1>1, <1>9, <3>2, CodesDiffer DEF AnswersInOrder
      <3> QED
        BY <1>3, <2>2, <3>1, <3>2
    <2>3. ASSUME ~ admin'.waiting, vdoState \in {"draining", "growing", "suspended"},
                 admin.result = "VDO_SUCCESS"
          PROVE  managerState'.state \in {SUSPENDED, SAVED} /\ phase' = "idle"
      <3>1. phase = "finish"
        BY <1>1, <2>3 DEF AnswersInOrder
      <3>2. CASE Current.kind = "request"
        <4>1. ~ admin.waiting
          BY <1>6, <2>3, <3>2
        <4> QED
          BY <2>3, <3>1, <4>1 DEF AnswersInOrder
      <3>3. CASE Current.kind \in {"drain", "grow"}
        BY <1>3, <1>5, <1>8, <1>9, <3>1, <3>3
      <3>4. Current.kind # "resume"
        BY <1>3, <2>3
      <3> QED
        BY <1>3, <3>2, <3>3, <3>4
    <2>4. phase' # "refused"
      BY <1>5
    <2> QED
      BY <1>1, <1>6, <2>1, <2>2, <2>3, <2>4 DEF AnswersInOrder
  <1>15. ASSUME NEW z \in Zones PROVE ZoneFollows(z)'
    <2>1. zoneState[z].state = managerState'.state /\ zoneState[z].waiter = NoWaiter
      <3>1. z < ZoneCount /\ z \in Nat /\ ZoneCount \in Nat
        BY ManagerFacts, SMTT(30) DEF Zones
      <3>2. CASE phase = "refused"
        BY <1>9, <3>2, SMTT(30) DEF ZoneFollows, Launched
      <3>3. CASE phase = "finish"
        <4>1. Launched /\ (Current.kind # "grow" => actingZone = ZoneCount)
          BY <3>3 DEF Launched, SlotsInOrder
        <4> QED
          BY <1>3, <1>9, <3>1, <3>3, <4>1 DEF ZoneFollows
      <3> QED
        BY <1>1, <3>2, <3>3
    <2>2. phase' # "acting"
      BY <1>5
    <2> QED
      BY <1>1, <1>7, <2>1, <2>2 DEF ZoneFollows
  <1> QED
    BY <1>10, <1>11, <1>12, <1>13, <1>14, <1>15

-----------------------------------------------------------------------------
(***************************************************************************)
(* The steps of the manager's clients.                                     *)
(***************************************************************************)

\* Where scheduleOperationWithContext() puts an action.
LEMMA Schedule ==
  ASSUME ActionManagerConstants, ActionManagerInv, NEW action, action # Unused,
         action \in [inUse : BOOLEAN, kind : {"none", "request", "drain", "grow", "resume"},
                     operation : AdminStateCodes],
         scheduleOperation(action), UNCHANGED currentAction
  PROVE  /\ actions' \in [0 .. 1 ->
              [inUse : BOOLEAN, kind : {"none", "request", "drain", "grow", "resume"},
               operation : AdminStateCodes]]
         /\ \A i \in 0 .. 1 : actions'[i] = actions[i] \/ actions'[i] = action
         /\ FreeSlots = {} <=> Other # Unused
         /\ \/ /\ phase = "idle" /\ Current = Unused /\ Other = Unused
               /\ Current' = action /\ Other' = Unused /\ phase' = "launch"
            \/ /\ phase # "idle" /\ Current # Unused /\ Other = Unused
               /\ Current' = Current /\ Other' = action /\ phase' = phase
            \/ /\ phase # "idle" /\ Current = Request /\ Other # Unused
               /\ Current' = Current /\ Other' = Other /\ phase' = phase
               /\ actions' = actions
  <1> USE DEF ActionManagerInv
  <1> DEFINE other == 1 - currentAction
             slot == CHOOSE i \in FreeSlots : TRUE
             Slots == [inUse : BOOLEAN, kind : {"none", "request", "drain", "grow", "resume"},
                       operation : AdminStateCodes]
  <1>1. /\ currentAction \in 0 .. 1 /\ other \in 0 .. 1 /\ other # currentAction
        /\ \A i \in 0 .. 1 : i = currentAction \/ i = other
        /\ actions \in [0 .. 1 -> Slots] /\ currentAction' = currentAction
    BY ManagerFacts, SMTT(30) DEF TypeOK
  <1>2. /\ Current = Unused <=> ~ actions[currentAction].inUse
        /\ Other = Unused <=> ~ actions[other].inUse
        /\ phase = "idle" <=> Current = Unused
        /\ Other # Unused => Current = Request
    BY <1>1, SlotFacts DEF Current, Other, SlotsInOrder
  <1>3. CASE Current = Unused
    <2>1. Other = Unused
      BY <1>2, <1>3, ActionFacts
    <2>2. FreeSlots = {currentAction}
      BY <1>1, <1>2, <1>3 DEF FreeSlots
    <2>3. slot = currentAction
      BY <2>2
    <2>4. actions' = [actions EXCEPT ![currentAction] = action] /\ phase' = "launch"
      BY <2>2, <2>3 DEF scheduleOperation
    <2> QED
      BY <1>1, <1>2, <1>3, <2>1, <2>2, <2>4 DEF Current, Other
  <1>4. CASE Current # Unused /\ Other = Unused
    <2>1. FreeSlots = {other}
      BY <1>1, <1>2, <1>4 DEF FreeSlots
    <2>2. slot = other
      BY <2>1
    <2>3. actions' = [actions EXCEPT ![other] = action] /\ phase' = phase
      BY <1>1, <2>1, <2>2 DEF scheduleOperation
    <2> QED
      BY <1>1, <1>2, <1>4, <2>1, <2>3 DEF Current, Other
  <1>5. CASE Current # Unused /\ Other # Unused
    <2>1. FreeSlots = {}
      BY <1>1, <1>2, <1>5 DEF FreeSlots
    <2>2. actions' = actions /\ phase' = phase
      BY <2>1, ZenonT(30) DEF scheduleOperation
    <2> QED
      BY <1>1, <1>2, <1>5, <2>1, <2>2 DEF Current, Other
  <1> QED
    BY <1>3, <1>4, <1>5, ZenonT(30)

\* A request of the journal preserves the invariant: when it finds no slot,
\* another request is waiting which will see the new point.
LEMMA AdvanceStep ==
  ASSUME ActionManagerConstants, ActionManagerInv, AdvanceEra
  PROVE  ActionManagerInv'
  <1> USE DEF ActionManagerInv
  <1>1. /\ phase \notin {"launch", "refused", "reentered"}
        /\ vdoState = "normal" /\ ~ readOnly /\ ~ admin.waiting
        /\ pendingPoint' = pendingPoint + 1 /\ pendingPoint' \in 0 .. MaxRequest
        /\ currentPoint <= pendingPoint
        /\ UNCHANGED <<managerState, currentAction, actingZone, zoneState,
                       currentPoint, zonePoint, vdoState, admin, readOnly, staysReadOnly>>
    <2>1. /\ phase \notin {"launch", "refused", "reentered"}
          /\ vdoState = "normal" /\ ~ readOnly
          /\ pendingPoint' = pendingPoint + 1 /\ pendingPoint < MaxRequest
          /\ UNCHANGED <<managerState, currentAction, actingZone, zoneState,
                         currentPoint, zonePoint, vdoState, admin, readOnly, staysReadOnly>>
      BY Zenon DEF AdvanceEra, InitiatorFree
    <2>2. ~ admin.waiting
      BY <2>1, Zenon DEF AnswersInOrder
    <2> QED
      BY <2>1, <2>2, ManagerFacts DEF PointsInOrder
  <1>2. currentPoint # pendingPoint' /\ currentPoint <= pendingPoint'
    BY <1>1, ManagerFacts
  <1>3. scheduleOperation(Request)
    BY <1>2 DEF AdvanceEra, Request
  <1>4. /\ Request # Unused
        /\ Request \in [inUse : BOOLEAN, kind : {"none", "request", "drain", "grow", "resume"},
                        operation : AdminStateCodes]
    BY ActionFacts, CodeFacts, SMTT(30) DEF Request, Action, Started
  <1>5. /\ actions' \in [0 .. 1 ->
             [inUse : BOOLEAN, kind : {"none", "request", "drain", "grow", "resume"},
              operation : AdminStateCodes]]
        /\ \A i \in 0 .. 1 : actions'[i] = actions[i] \/ actions'[i] = Request
        /\ \/ /\ phase = "idle" /\ Current = Unused /\ Other = Unused
              /\ Current' = Request /\ Other' = Unused /\ phase' = "launch"
           \/ /\ phase # "idle" /\ Current # Unused /\ Other = Unused
              /\ Current' = Current /\ Other' = Request /\ phase' = phase
           \/ /\ phase # "idle" /\ Current = Request /\ Other # Unused
              /\ Current' = Current /\ Other' = Other /\ phase' = phase
              /\ actions' = actions
    BY <1>1, <1>3, <1>4, Schedule, ZenonT(30)
  <1>6. /\ \A i \in 0 .. 1 : actions[i] = Unused \/ actions[i] = Request
        /\ Current = Unused \/ Current = Request
        /\ Other = Unused \/ Other = Request
    BY <1>1, ManagerFacts DEF SlotsInOrder, Current, Other
  <1>7. Launched' <=> Launched
    BY <1>5, SMTT(30) DEF Launched
  <1>8. TypeOK'
    BY <1>1, <1>5, ZenonT(30) DEF TypeOK
  <1>9. SlotsInOrder'
    <2>1. \A i \in 0 .. 1 : actions'[i] = Unused \/ actions'[i] = Request
      BY <1>5, <1>6
    <2> QED
      BY <1>1, <1>4, <1>5, <1>6, <2>1 DEF SlotsInOrder
  <1>10. PointsInOrder'
    <2>1. \/ Other' = Request
          \/ Current' = Request /\ phase' = "launch"
      BY <1>5, <1>6
    <2>2. \A z \in Zones : \/ zonePoint[z] = currentPoint
                           \/ Current' = Request /\ Launched' /\ z >= actingZone
      BY <1>5, <1>7 DEF PointsInOrder
    <2> QED
      BY <1>1, <1>2, <2>1, <2>2 DEF PointsInOrder
  <1>11. ManagerInOrder'
    <2>1. CASE phase = "idle"
      <3>1. ~ Launched
        BY <2>1, ZenonT(30) DEF Launched
      <3>2. managerState.state = NORMAL_OPERATION
        BY <1>1, <3>1, ZenonT(30) DEF AnswersInOrder, ManagerInOrder
      <3> QED
        BY <1>1, <1>7, <3>1, <3>2 DEF ManagerInOrder
    <2>2. CASE phase # "idle"
      BY <1>1, <1>5, <1>7, <2>2, SMTT(30) DEF ManagerInOrder
    <2> QED
      BY <2>1, <2>2, ZenonT(30)
  <1>12. AnswersInOrder'
    BY <1>1, <1>5, ZenonT(30) DEF AnswersInOrder
  <1>13. ASSUME NEW z \in Zones PROVE ZoneFollows(z)'
    <2>1. phase' = "acting" <=> phase = "acting"
      BY <1>5
    <2>2. Launched => Current' = Current
      BY <1>5 DEF Launched
    <2> QED
      BY <1>1, <1>7, <2>1, <2>2 DEF ZoneFollows
  <1> QED
    BY <1>8, <1>9, <1>10, <1>11, <1>12, <1>13

\* So does an operation of the administrator, whether it finds a slot or not.
LEMMA AdministerStep ==
  ASSUME ActionManagerConstants, ActionManagerInv, NEW from, NEW to, NEW action,
         StartAdministering(from, to, action),
         <<from, to>> \in {<<"normal", "draining">>, <<"suspended", "growing">>,
                           <<"suspended", "resuming">>},
         vdoState' = to => Administrative(action)'
  PROVE  ActionManagerInv'
  <1> USE DEF ActionManagerInv
  <1> DEFINE Slots == [inUse : BOOLEAN, kind : {"none", "request", "drain", "grow", "resume"},
                       operation : AdminStateCodes]
  <1>1. /\ phase \notin {"launch", "refused", "reentered"}
        /\ vdoState = from /\ vdoState' = to /\ ~ admin.waiting
        /\ from \in {"normal", "suspended"} /\ to \in {"draining", "growing", "resuming"}
        /\ UNCHANGED <<managerState, currentAction, actingZone, zoneState, readOnly,
                       pendingPoint, currentPoint, zonePoint, staysReadOnly>>
        /\ scheduleOperation(action)
        /\ admin' = IF FreeSlots = {}
                    THEN [waiting |-> FALSE, result |-> "VDO_COMPONENT_BUSY"]
                    ELSE [waiting |-> TRUE, result |-> "VDO_SUCCESS"]
    BY DEF StartAdministering, InitiatorFree, AnswersInOrder, requestVars
  <1>2. /\ Administrative(action)'
        /\ action # Unused /\ action # Request /\ action \in Slots
    <2>1. Administrative(action)'
      BY <1>1
    <2>2. /\ \A operation \in DrainOperations : operation \in {SUSPENDING, SAVING}
          /\ {SUSPENDING, SAVING, SUSPENDED_OPERATION, RESUMING} \subseteq AdminStateCodes
      BY CodeFacts DEF ActionManagerConstants, Started
    <2>3. action.kind \in {"drain", "grow", "resume"}
      BY <2>1, ActionFacts DEF Administrative
    <2>4. action \in Slots
      <3>1. \A kind \in {"drain", "grow", "resume"}, operation \in AdminStateCodes :
              Action(kind, operation) \in Slots
        BY Zenon DEF Action
      <3>2. \E kind \in {"drain", "grow", "resume"}, operation \in AdminStateCodes :
              action = Action(kind, operation)
        BY <2>1, <2>2, ZenonT(30) DEF Administrative
      <3> QED
        BY <3>1, <3>2
    <2> QED
      BY <2>1, <2>3, <2>4, ActionFacts
  <1>3. /\ actions' \in [0 .. 1 -> Slots]
        /\ \A i \in 0 .. 1 : actions'[i] = actions[i] \/ actions'[i] = action
        /\ FreeSlots = {} <=> Other # Unused
        /\ \/ /\ phase = "idle" /\ Current = Unused /\ Other = Unused
              /\ Current' = action /\ Other' = Unused /\ phase' = "launch"
           \/ /\ phase # "idle" /\ Current # Unused /\ Other = Unused
              /\ Current' = Current /\ Other' = action /\ phase' = phase
           \/ /\ phase # "idle" /\ Current = Request /\ Other # Unused
              /\ Current' = Current /\ Other' = Other /\ phase' = phase
              /\ actions' = actions
    BY <1>1, <1>2, Schedule, ZenonT(30)
  <1>4. /\ \A i \in 0 .. 1 : actions[i] = Unused \/ actions[i] = Request
        /\ Current = Unused \/ Current = Request
        /\ Other = Unused \/ Other = Request
    BY <1>1, ManagerFacts DEF SlotsInOrder, Current, Other
  <1>5. Launched' <=> Launched
    BY <1>3, ZenonT(30) DEF Launched
  <1>6. /\ admin' \in [waiting : BOOLEAN, result : Results]
        /\ Other = Unused => admin'.waiting
        /\ Other # Unused => ~ admin'.waiting /\ admin'.result = "VDO_COMPONENT_BUSY"
    BY <1>1, <1>3, ZenonT(30) DEF Results
  <1>7. TypeOK'
    BY <1>1, <1>3, <1>6 DEF TypeOK
  <1>8. SlotsInOrder'
    <2>1. ASSUME NEW i \in 0 .. 1
          PROVE  \/ actions'[i] = Unused \/ actions'[i] = Request
                 \/ admin'.waiting /\ Administrative(actions[i])'
      <3>1. CASE actions'[i] = actions[i]
        BY <1>4, <3>1, ZenonT(30)
      <3>2. CASE actions'[i] = action /\ Other = Unused
        BY <1>2, <1>6, <3>2 DEF Administrative
      <3>3. CASE Other # Unused
        BY <1>3, <1>4, <3>3, SMTT(30)
      <3> QED
        BY <1>3, <3>1, <3>2, <3>3
    <2> QED
      BY <1>1, <1>2, <1>3, <1>4, <2>1, ZenonT(30) DEF SlotsInOrder
  <1>9. PointsInOrder'
    <2>1. currentPoint # pendingPoint => Other = Request
      BY <1>1, ZenonT(30) DEF PointsInOrder
    <2>2. \A z \in Zones : \/ zonePoint[z] = currentPoint
                           \/ Current' = Request /\ Launched' /\ z >= actingZone
      BY <1>3, <1>5, ActionFacts, SMTT(30) DEF PointsInOrder
    <2>3. currentPoint # pendingPoint => Other' = Request
      BY <1>3, <2>1, ActionFacts
    <2> QED
      BY <1>1, <2>2, <2>3, SMTT(30) DEF PointsInOrder
  <1>10. ManagerInOrder'
    <2>1. CASE phase = "idle"
      BY <1>1, <1>2, <1>3, <1>5, <2>1 DEF ManagerInOrder, Launched
    <2>2. CASE phase # "idle"
      BY <1>1, <1>3, <1>5, <2>2, Zenon DEF ManagerInOrder
    <2> QED
      BY <2>1, <2>2, ZenonT(30)
  <1>11. AnswersInOrder'
    <2>1. CASE Other = Unused
      BY <1>1, <1>3, <1>6, <2>1, ZenonT(30) DEF AnswersInOrder
    <2>2. CASE Other # Unused
      <3>1. Current = Request /\ phase \in {"zone", "finish"} /\ phase' = phase
        BY <1>1, <1>3, <2>2, Zenon DEF SlotsInOrder
      <3>2. managerState.state = OPERATING
        BY <3>1, ActionFacts, ZenonT(30) DEF ManagerInOrder, Launched
      <3> QED
        BY <1>1, <1>6, <2>2, <3>1, <3>2, CodesDiffer, ZenonT(30) DEF AnswersInOrder
    <2> QED
      BY <2>1, <2>2, ZenonT(30)
  <1>12. ASSUME NEW z \in Zones PROVE ZoneFollows(z)'
    <2>1. phase' = "acting" <=> phase = "acting"
      BY <1>3
    <2>2. Launched => Current' = Current
      BY <1>3 DEF Launched
    <2> QED
      BY <1>1, <1>5, <2>1, <2>2, ZenonT(30) DEF ZoneFollows
  <1> QED
    BY <1>7, <1>8, <1>9, <1>10, <1>11, <1>12, ZenonT(30)

\* The steps which do not touch the manager.
LEMMA ContinueStep ==
  ASSUME ActionManagerConstants, ActionManagerInv,
         EnterReadOnlyMode \/ ResumeReadOnly \/ Continue
  PROVE  ActionManagerInv'
  <1> USE DEF ActionManagerInv
  <1>1. /\ UNCHANGED <<managerState, actions, currentAction, actingZone, phase,
                       zoneState, pendingPoint, currentPoint, zonePoint, staysReadOnly>>
        /\ Current' = Current /\ Other' = Other /\ (Launched' <=> Launched)
    BY ZenonT(30) DEF EnterReadOnlyMode, ResumeReadOnly, Continue, requestVars, Current,
       Other, Launched
  <1>2. \A z \in Zones : ZoneFollows(z)'
    BY <1>1, SMTT(30) DEF ZoneFollows
  <1>3. PointsInOrder' /\ ManagerInOrder'
    BY <1>1, ZenonT(30) DEF PointsInOrder, ManagerInOrder
  <1>4. readOnly' \in BOOLEAN
    BY Zenon DEF EnterReadOnlyMode, ResumeReadOnly, Continue, TypeOK
  <1>5. admin' \in [waiting : BOOLEAN, result : Results]
    <2>1. [waiting |-> FALSE, result |-> "VDO_READ_ONLY"]
            \in [waiting : BOOLEAN, result : Results]
      BY ZenonT(30) DEF Results
    <2> QED
      BY <2>1, Zenon DEF EnterReadOnlyMode, ResumeReadOnly, Continue, TypeOK
  <1>6. vdoState' \in {"normal", "draining", "suspended", "growing", "resuming"}
    BY SMTT(30) DEF EnterReadOnlyMode, ResumeReadOnly, Continue, TypeOK
  <1>7. TypeOK'
    BY <1>1, <1>4, <1>5, <1>6 DEF TypeOK
  <1>8. CASE EnterReadOnlyMode
    <2>1. readOnly' /\ UNCHANGED <<vdoState, admin>>
      BY <1>8, SMTT(30) DEF EnterReadOnlyMode
    <2>2. AnswersInOrder'
      BY <1>1, <2>1, ZenonT(30) DEF AnswersInOrder
    <2>3. SlotsInOrder'
      BY <1>1, <2>1 DEF SlotsInOrder, Administrative
    <2> QED
      BY <1>2, <1>3, <1>7, <2>2, <2>3
  <1>9. ASSUME ~ admin.waiting, ~ admin'.waiting PROVE SlotsInOrder'
    <2>1. \A i \in 0 .. 1 : actions[i] = Unused \/ actions[i] = Request
      BY <1>9 DEF SlotsInOrder
    <2> QED
      BY <1>1, <2>1, ZenonT(30) DEF SlotsInOrder
  <1>10. CASE ResumeReadOnly
    <2>1. /\ ~ admin.waiting /\ ~ admin'.waiting /\ admin'.result = "VDO_READ_ONLY"
          /\ vdoState' = "resuming" /\ readOnly /\ UNCHANGED readOnly
          /\ phase # "refused"
      BY <1>10, SMTT(30) DEF ResumeReadOnly, AnswersInOrder, InitiatorFree
    <2>2. AnswersInOrder'
      BY <1>1, <2>1 DEF AnswersInOrder
    <2> QED
      BY <1>2, <1>3, <1>7, <1>9, <2>1, <2>2, SMTT(30)
  <1>11. CASE Continue
    <2>1. /\ ~ admin.waiting /\ UNCHANGED <<admin, readOnly>>
          /\ vdoState' = IF vdoState = "resuming" THEN "normal" ELSE "suspended"
          /\ vdoState \in {"draining", "growing", "resuming"}
      BY <1>11, SMTT(30) DEF Continue
    <2>2. AnswersInOrder'
      BY <1>1, <2>1 DEF AnswersInOrder
    <2> QED
      BY <1>2, <1>3, <1>7, <1>9, <2>1, <2>2
  <1> QED
    BY <1>8, <1>10, <1>11, ZenonT(30)

-----------------------------------------------------------------------------
\* Every step preserves the invariant.
LEMMA ActionManagerStep ==
  ASSUME ActionManagerConstants, ActionManagerInv, [Next]_vars
  PROVE  ActionManagerInv'
  <1>1. CASE LaunchCurrentAction
    BY <1>1, LaunchStep
  <1>2. CASE ApplyToZone
    BY <1>2, ApplyStep
  <1>3. CASE FinishDraining
    BY <1>3, FinishDrainingStep
  <1>4. CASE FinishAction
    BY <1>4, FinishActionStep
  <1>5. CASE AdvanceEra
    BY <1>5, AdvanceStep
  <1>6. CASE EnterReadOnlyMode \/ ResumeReadOnly \/ Continue
    BY <1>6, ContinueStep
  <1>7. CASE Drain
    <2>1. PICK operation \in DrainOperations :
            StartAdministering("normal", "draining", Action("drain", operation))
      BY <1>7 DEF Drain
    <2>2. vdoState' = "draining" => Administrative(Action("drain", operation))'
      BY DEF Administrative
    <2> QED
      BY <2>1, <2>2, AdministerStep
  <1>8. CASE Grow
    <2>1. StartAdministering("suspended", "growing", Action("grow", SUSPENDED_OPERATION))
      BY <1>8 DEF Grow
    <2>2. vdoState' = "growing" => Administrative(Action("grow", SUSPENDED_OPERATION))'
      BY DEF Administrative
    <2> QED
      BY <2>1, <2>2, AdministerStep
  <1>9. CASE Resume
    <2>1. StartAdministering("suspended", "resuming", Action("resume", RESUMING))
      BY <1>9 DEF Resume
    <2>2. vdoState' = "resuming" => Administrative(Action("resume", RESUMING))'
      BY DEF Administrative
    <2> QED
      BY <2>1, <2>2, AdministerStep
  <1>10. CASE UNCHANGED vars
    <2>1. TypeOK'
      BY <1>10, ZenonT(30) DEF ActionManagerInv, vars, TypeOK
    <2>2. SlotsInOrder'
      BY <1>10, Zenon DEF ActionManagerInv, vars, SlotsInOrder, Current, Other, Administrative
    <2>3. PointsInOrder' /\ AnswersInOrder'
      BY <1>10, Zenon DEF ActionManagerInv, vars, PointsInOrder, AnswersInOrder, Current,
                          Other, Launched, Request
    <2>4. ManagerInOrder'
      BY <1>10, Zenon DEF ActionManagerInv, vars, ManagerInOrder, Current, Other, Launched
    <2>5. \A z \in Zones : ZoneFollows(z)'
      BY <1>10, Zenon DEF ActionManagerInv, vars, ZoneFollows, Current, Launched
    <2> QED
      BY <2>1, <2>2, <2>3, <2>4, <2>5 DEF ActionManagerInv
  <1> QED
    BY <1>1, <1>2, <1>3, <1>4, <1>5, <1>6, <1>7, <1>8, <1>9, <1>10 DEF Next

\* For any number of zones and of requests, and whenever read-only mode is
\* entered: a request that finds both slots of the manager taken is not lost
\* (RequestsReachZones), the manager and all of its zones have the state of the
\* VDO once an operation was answered with success (AgreesWithVDO), and the
\* finishing of an action never starts another from inside.
THEOREM ActionManagerSafe ==
  ASSUME ActionManagerConstants PROVE Spec => []ManagerIsSound
  <1>1. Init => ActionManagerInv
    BY ActionManagerInit
  <1>2. ActionManagerInv /\ [Next]_vars => ActionManagerInv'
    BY ActionManagerStep
  <1>3. ActionManagerInv => ManagerIsSound
    BY InvImpliesSound
  <1> QED
    BY <1>1, <1>2, <1>3, PTL DEF Spec
=============================================================================
