---------------------------- MODULE ActionManager ----------------------------
(***************************************************************************)
(* The action manager (vdo/base/actionManager.c) of a component which is   *)
(* divided into zones, with the clients the block map and the slab depot   *)
(* give it: the recovery journal's requests (era advances, tail block      *)
(* commits) and the drain, grow and resume of the VDO's administrator.     *)
(*                                                                         *)
(* The initiator is the journal's thread, which is also the admin thread.  *)
(* A launched action hops over the zones' threads, one after the other,    *)
(* and comes back to the initiator; requests and administrative operations *)
(* arrive there at any point in between.                                   *)
(***************************************************************************)
EXTENDS AdminState

CONSTANTS
  ZoneCount,        \* the number of zones
  DrainOperations,  \* the drains the administrator may ask for
  MaxRequest        \* bounds the journal's requests

ActionManagerConstants ==
  /\ ZoneCount \in Nat \ {0}
  /\ DrainOperations \subseteq {SUSPENDING, SAVING}
  /\ MaxRequest \in Nat

VARIABLES
  managerState,   \* manager->state
  actions,        \* the two action slots
  currentAction,  \* the slot of the current action
  actingZone,     \* the zone to act on next
  phase,          \* where the manager's completion is
  zoneState,      \* the admin state of each zone
  pendingPoint,   \* the journal's latest request (pendingEraPoint)
  currentPoint,   \* the request being acted on (currentEraPoint)
  zonePoint,      \* the request each zone has acted on last
  vdoState,       \* what the administrator has made of the VDO
  admin,          \* the administrator's operation on this component
  readOnly,       \* the VDO is read-only
  staysReadOnly   \* the component is the slab depot, which a read-only VDO
                  \* does not resume; the block map is resumed all the same

vars == <<managerState, actions, currentAction, actingZone, phase, zoneState,
          pendingPoint, currentPoint, zonePoint, vdoState, admin, readOnly,
          staysReadOnly>>

requestVars == <<pendingPoint, currentPoint, zonePoint>>

Zones == 0 .. ZoneCount - 1

Normal == [state |-> NORMAL_OPERATION, nextState |-> NORMAL_OPERATION,
           waiter |-> NoWaiter]

Action(kind, operation) == [inUse |-> TRUE, kind |-> kind,
                            operation |-> operation]

Unused == [inUse |-> FALSE, kind |-> "none", operation |-> NORMAL_OPERATION]

\* The administrator waits on one operation at a time.
NoOperation == [waiting |-> FALSE, result |-> "VDO_SUCCESS"]

Results == {"VDO_SUCCESS", "VDO_INVALID_ADMIN_STATE", "VDO_COMPONENT_BUSY",
            "VDO_READ_ONLY"}

TypeOK ==
  /\ managerState \in AdminStates({})
  /\ actions \in [0 .. 1 ->
       [inUse : BOOLEAN, kind : {"none", "request", "drain", "grow", "resume"},
        operation : AdminStateCodes]]
  /\ currentAction \in 0 .. 1
  /\ actingZone \in 0 .. ZoneCount
  /\ phase \in {"idle", "launch", "zone", "acting", "finish", "refused",
                "reentered"}
  /\ phase = "zone" => actingZone < ZoneCount
  /\ zoneState \in [Zones -> AdminStates({"manager"})]
  /\ pendingPoint \in 0 .. MaxRequest
  /\ currentPoint \in 0 .. MaxRequest
  /\ zonePoint \in [Zones -> 0 .. MaxRequest]
  /\ vdoState \in {"normal", "draining", "suspended", "growing", "resuming"}
  /\ admin \in [waiting : BOOLEAN, result : Results]
  /\ readOnly \in BOOLEAN
  /\ staysReadOnly \in BOOLEAN

Init ==
  /\ managerState = Normal
  /\ actions = [i \in 0 .. 1 |-> Unused]
  /\ currentAction = 0
  /\ actingZone = 0
  /\ phase = "idle"
  /\ zoneState = [z \in Zones |-> Normal]
  /\ pendingPoint = 0
  /\ currentPoint = 0
  /\ zonePoint = [z \in Zones |-> 0]
  /\ vdoState = "normal"
  /\ admin = NoOperation
  /\ readOnly = FALSE
  /\ staysReadOnly \in BOOLEAN

\* The initiator's thread is between callbacks.
InitiatorFree == phase \notin {"launch", "refused", "reentered"}

\* setCompletionResult(): the first error stays.
WithResult(parent, result) ==
  IF parent.result = "VDO_SUCCESS" THEN [parent EXCEPT !.result = result]
                                   ELSE parent

-----------------------------------------------------------------------------
(***************************************************************************)
(* scheduleOperationWithContext(): the current slot, which is launched in  *)
(* the same call, else the next slot, else the manager is busy.            *)
(***************************************************************************)
FreeSlots ==
  {i \in 0 .. 1 : ~ actions[i].inUse /\ (i = currentAction
                                         \/ actions[currentAction].inUse)}

scheduleOperation(action) ==
  LET slot == CHOOSE i \in FreeSlots : TRUE
  IN IF FreeSlots = {}
       THEN UNCHANGED <<actions, phase>>
       ELSE /\ actions' = [actions EXCEPT ![slot] = action]
            /\ phase' = IF slot = currentAction THEN "launch" ELSE phase

LaunchCurrentAction ==
  /\ phase = "launch"
  /\ LET action == actions[currentAction]
         result == startOperationResult(managerState, action.operation)
     IN IF result = "VDO_SUCCESS"
          THEN /\ managerState' =
                    beginOperation(managerState, action.operation, NoWaiter)
               /\ currentPoint' = IF action.kind = "request" THEN pendingPoint
                                                             ELSE currentPoint
               /\ actingZone' = IF action.kind = "grow" THEN actingZone ELSE 0
               /\ phase' = IF action.kind = "grow" THEN "finish" ELSE "zone"
               /\ UNCHANGED admin
          ELSE /\ phase' = "refused"
               /\ admin' = IF action.kind = "request" THEN admin
                           ELSE WithResult(admin, result)
               /\ UNCHANGED <<managerState, currentPoint, actingZone>>
  /\ UNCHANGED <<actions, currentAction, zoneState, pendingPoint, zonePoint,
                 vdoState, readOnly, staysReadOnly>>

\* Where the manager's completion goes once the zone before z has acted.
NextStop(z) == IF z = ZoneCount THEN "finish" ELSE "zone"

NextZone(z) == z + 1

ApplyToZone ==
  /\ phase = "zone"
  /\ LET z      == actingZone
         action == actions[currentAction]
         began  == startDrainingResult(zoneState[z], managerState.state)
     IN /\ actingZone' = NextZone(z)
        /\ phase' = IF action.kind = "drain" /\ began = "VDO_SUCCESS"
                      THEN "acting" ELSE NextStop(NextZone(z))
        /\ zonePoint' = IF action.kind = "request"
                          THEN [zonePoint EXCEPT ![z] = currentPoint]
                          ELSE zonePoint
        /\ zoneState' = [zoneState EXCEPT ![z] =
             IF action.kind = "drain" /\ began = "VDO_SUCCESS"
               THEN beginOperation(@, managerState.state, "manager")
             ELSE IF action.kind = "resume" THEN resumeIfQuiescent(@)
             ELSE @]
        /\ admin' = IF action.kind = "drain" THEN WithResult(admin, began)
                    ELSE IF action.kind = "resume"
                            /\ ~ isQuiescentCode(zoneState[z].state)
                      THEN WithResult(admin, "VDO_INVALID_ADMIN_STATE")
                    ELSE admin
  /\ UNCHANGED <<managerState, actions, currentAction, pendingPoint,
                 currentPoint, vdoState, readOnly, staysReadOnly>>

\* The last zone never checks whether it has drained.
FinishDraining_Unnoticed ==
  /\ phase = "acting"
  /\ IF actingZone = ZoneCount THEN UNCHANGED <<zoneState, phase>>
     ELSE /\ zoneState' = [zoneState EXCEPT ![actingZone - 1] = endOperation(@)]
          /\ phase' = NextStop(actingZone)
  /\ UNCHANGED <<managerState, actions, currentAction, actingZone, vdoState,
                 admin, readOnly, requestVars, staysReadOnly>>

\* The zone has written out what it must and finishes its drain.
FinishDraining ==
  /\ phase = "acting"
  /\ zoneState' = [zoneState EXCEPT ![actingZone - 1] = endOperation(@)]
  /\ phase' = NextStop(actingZone)
  /\ UNCHANGED <<managerState, actions, currentAction, actingZone, vdoState,
                 admin, readOnly, requestVars, staysReadOnly>>

(***************************************************************************)
(* finishActionCallback().  The scheduler is asked for an action while the *)
(* finished operation is still the manager's state.  If it had one, it     *)
(* would schedule it in the free current slot and so launch it from inside *)
(* this call, inside the operation being finished: the start is refused,   *)
(* which finishes the new action and asks the scheduler again, without     *)
(* end.  "reentered" stands for that.                                      *)
(***************************************************************************)
FinishAction ==
  /\ phase \in {"finish", "refused"}
  /\ LET next     == 1 - currentAction
         wanted   == ~ actions[next].inUse /\ currentPoint # pendingPoint
         answered == actions[currentAction].kind # "request"
     IN /\ actions' = [actions EXCEPT ![currentAction] = Unused]
        /\ currentAction' = next
        /\ managerState' = endOperation(managerState)
        /\ phase' = IF wanted THEN "reentered"
                    ELSE IF actions[next].inUse THEN "launch"
                    ELSE "idle"
        /\ admin' = [admin EXCEPT !.waiting = @ /\ ~ answered]
  /\ UNCHANGED <<actingZone, zoneState, vdoState, readOnly, requestVars,
                 staysReadOnly>>

-----------------------------------------------------------------------------
(***************************************************************************)
(* The journal's requests: advanceBlockMapEra() and                        *)
(* commitOldestSlabJournalTailBlocks().  They come from journal entries    *)
(* being made, hence neither once the VDO has drained its logical zones,   *)
(* which it does before it drains the block map and the depot, nor in      *)
(* read-only mode.                                                         *)
(***************************************************************************)
AdvanceEra ==
  /\ InitiatorFree
  /\ vdoState = "normal"
  /\ ~ readOnly
  /\ pendingPoint < MaxRequest
  /\ pendingPoint' = pendingPoint + 1
  /\ IF currentPoint = pendingPoint'
       THEN UNCHANGED <<actions, phase>>
       ELSE scheduleOperation(Action("request", OPERATING))
  /\ UNCHANGED <<managerState, currentAction, actingZone, zoneState,
                 currentPoint, zonePoint, vdoState, admin, readOnly,
                 staysReadOnly>>

EnterReadOnlyMode ==
  /\ ~ readOnly
  /\ readOnly' = TRUE
  /\ UNCHANGED <<managerState, actions, currentAction, actingZone, phase,
                 zoneState, vdoState, admin, requestVars, staysReadOnly>>

(***************************************************************************)
(* The administrator, which does one operation at a time.                  *)
(***************************************************************************)
StartAdministering(from, to, action) ==
  /\ InitiatorFree
  /\ vdoState = from
  /\ vdoState' = to
  /\ scheduleOperation(action)
  /\ admin' = IF FreeSlots = {}
                THEN [waiting |-> FALSE, result |-> "VDO_COMPONENT_BUSY"]
                ELSE [waiting |-> TRUE, result |-> "VDO_SUCCESS"]
  /\ UNCHANGED <<managerState, currentAction, actingZone, zoneState, readOnly,
                 requestVars, staysReadOnly>>

Drain ==
  \E operation \in DrainOperations :
    StartAdministering("normal", "draining", Action("drain", operation))

Grow ==
  /\ ~ readOnly
  /\ StartAdministering("suspended", "growing",
                        Action("grow", SUSPENDED_OPERATION))

Resume ==
  /\ ~ (readOnly /\ staysReadOnly)
  /\ StartAdministering("suspended", "resuming", Action("resume", RESUMING))

\* resumeSlabDepot() of a read-only VDO answers without scheduling anything.
ResumeReadOnly ==
  /\ readOnly /\ staysReadOnly
  /\ InitiatorFree
  /\ vdoState = "suspended"
  /\ vdoState' = "resuming"
  /\ admin' = [waiting |-> FALSE, result |-> "VDO_READ_ONLY"]
  /\ UNCHANGED <<managerState, actions, currentAction, actingZone, phase,
                 zoneState, readOnly, requestVars, staysReadOnly>>

\* The operation was answered; the VDO takes its next state either way.
Continue ==
  /\ vdoState \in {"draining", "growing", "resuming"}
  /\ ~ admin.waiting
  /\ InitiatorFree
  /\ vdoState' = IF vdoState = "resuming" THEN "normal" ELSE "suspended"
  /\ UNCHANGED <<managerState, actions, currentAction, actingZone, phase,
                 zoneState, admin, readOnly, requestVars, staysReadOnly>>

-----------------------------------------------------------------------------
Next ==
  \/ LaunchCurrentAction
  \/ ApplyToZone
  \/ FinishDraining
  \/ FinishAction
  \/ AdvanceEra
  \/ EnterReadOnlyMode
  \/ Drain
  \/ Grow
  \/ Resume
  \/ ResumeReadOnly
  \/ Continue

\* Threads run the callbacks enqueued for them and zones finish their drains.
Fairness ==
  /\ WF_vars(LaunchCurrentAction)
  /\ WF_vars(ApplyToZone)
  /\ WF_vars(FinishDraining)
  /\ WF_vars(FinishAction)

Spec == Init /\ [][Next]_vars /\ Fairness

-----------------------------------------------------------------------------
(***************************************************************************)
(* Properties.                                                             *)
(***************************************************************************)
\* A request for which scheduleAction() had no slot (its result is ignored in
\* advanceBlockMapEra()) is not lost: when the manager has nothing left to do,
\* every zone has acted on the latest request.
RequestsReachZones ==
  phase = "idle" => /\ currentPoint = pendingPoint
                    /\ \A z \in Zones : zonePoint[z] = pendingPoint

\* When a drain, growth or resume has been answered with success, the manager
\* and all of its zones have the administrative state the VDO has.
AgreesWithVDO ==
  admin.result = "VDO_SUCCESS" =>
    /\ vdoState = "suspended" =>
         /\ isQuiescentCode(managerState.state)
         /\ \A z \in Zones : isQuiescentCode(zoneState[z].state)
    /\ vdoState = "normal" =>
         /\ ~ isQuiescentCode(managerState.state)
         /\ \A z \in Zones : ~ isQuiescentCode(zoneState[z].state)

-----------------------------------------------------------------------------
(***************************************************************************)
(* The inductive invariant behind these properties.                        *)
(***************************************************************************)
Current == actions[currentAction]
Other == actions[1 - currentAction]
Request == Action("request", OPERATING)
Launched == phase \in {"zone", "acting", "finish"}

Administrative(action) ==
  \/ /\ vdoState = "draining"
     /\ \E operation \in DrainOperations : action = Action("drain", operation)
  \/ vdoState = "growing" /\ action = Action("grow", SUSPENDED_OPERATION)
  \/ vdoState = "resuming" /\ action = Action("resume", RESUMING)

\* Nothing is scheduled behind an administrative action: the administrator waits
\* for it, and no request comes while it does.
SlotsInOrder ==
  /\ \A i \in 0 .. 1 : \/ actions[i] = Unused \/ actions[i] = Request
                       \/ admin.waiting /\ Administrative(actions[i])
  /\ phase = "idle" <=> Current = Unused
  /\ Other # Unused => Current = Request
  /\ Current = Request => phase \in {"launch", "zone", "finish"}
  /\ phase = "acting" => Current.kind = "drain" /\ actingZone > 0
  /\ phase = "zone" => Current.kind # "grow"
  /\ phase = "finish" /\ Current.kind # "grow" => actingZone = ZoneCount
  /\ phase # "reentered"

\* A point which the zones do not know has a request that is yet to start.
PointsInOrder ==
  /\ currentPoint <= pendingPoint
  /\ currentPoint # pendingPoint => \/ Other = Request
                                    \/ Current = Request /\ phase = "launch"
  /\ \A z \in Zones : \/ zonePoint[z] = currentPoint
                      \/ Current = Request /\ Launched /\ z >= actingZone

\* The manager's state is the operation of a launched action, and what it was
\* left in by the last one otherwise.
ManagerInOrder ==
  /\ ~ Launched =>
       managerState.state \in {NORMAL_OPERATION, SUSPENDED, SAVED}
  /\ Launched =>
       /\ managerState.state = Current.operation
       /\ Current.kind = "drain" => managerState.nextState =
            IF Current.operation = SAVING THEN SAVED ELSE SUSPENDED
       /\ Current.kind = "grow" => managerState.nextState \in {SUSPENDED, SAVED}
       /\ Current.kind \in {"request", "resume"} =>
            managerState.nextState = NORMAL_OPERATION
  /\ ~ Launched /\ Current = Request => managerState.state = NORMAL_OPERATION

\* The state of a zone follows the manager's as the action passes over it.
ZoneFollows(z) ==
  LET passed == z < actingZone
      state  == zoneState[z].state
  IN /\ ~ Launched => state = managerState.state
     /\ Launched /\ Current.kind = "request" => state = NORMAL_OPERATION
     /\ Launched /\ Current.kind = "grow" => state = managerState.nextState
     /\ Launched /\ Current.kind = "resume" =>
          IF passed THEN state = NORMAL_OPERATION ELSE state \in {SUSPENDED, SAVED}
     /\ Launched /\ Current.kind = "drain" =>
          IF ~ passed THEN state = NORMAL_OPERATION
          ELSE IF phase = "acting" /\ z = actingZone - 1
            THEN /\ state = managerState.state
                 /\ zoneState[z].nextState = managerState.nextState
          ELSE state = managerState.nextState
     /\ ~ (phase = "acting" /\ z = actingZone - 1) => zoneState[z].waiter = NoWaiter

\* What the administrator may conclude from an answer.
AnswersInOrder ==
  /\ vdoState \in {"normal", "suspended"} => ~ admin.waiting
  /\ phase = "refused" => admin.result # "VDO_SUCCESS"
  /\ phase = "refused" /\ Current.kind = "resume" =>
       managerState.state = NORMAL_OPERATION
  /\ ~ admin.waiting =>
       /\ vdoState \in {"normal", "resuming"}
            /\ (~ readOnly \/ admin.result = "VDO_SUCCESS") =>
              managerState.state \notin {SUSPENDED, SAVED}
       /\ vdoState \in {"draining", "growing", "suspended"}
            /\ admin.result = "VDO_SUCCESS" =>
              managerState.state \in {SUSPENDED, SAVED} /\ phase = "idle"

ActionManagerInv ==
  /\ TypeOK /\ SlotsInOrder /\ PointsInOrder /\ ManagerInOrder /\ AnswersInOrder
  /\ \A z \in Zones : ZoneFollows(z)

\* An action manager loses no request, has the VDO's state when it answers, and
\* never starts an action from inside the finishing of another.
ManagerIsSound ==
  TypeOK /\ RequestsReachZones /\ AgreesWithVDO /\ phase # "reentered"
=============================================================================
