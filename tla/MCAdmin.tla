------------------------------- MODULE MCAdmin -------------------------------
(***************************************************************************)
(* The administration of a VDO for TLC, in three parts which share no      *)
(* state: the read-only notifier on its own (ReadOnlyNotifier), the action *)
(* manager of a component with zones (ActionManager), and the operations   *)
(* on the whole VDO (VDOAdmin).  A behaviour is one of one part: the       *)
(* notifier stays at rest in those of the others, and the variables of     *)
(* other parts are Unused.                                                 *)
(***************************************************************************)
EXTENDS ReadOnlyNotifier

CONSTANTS AdminScenarios, MaxSize

VARIABLES
  part,
  managerState, actions, currentAction, actingZone, phase, zoneState, pendingPoint,
  currentPoint, zonePoint, vdoState, staysReadOnly,
  admin, readOnly,
  sub, adminState, component, vdo, blockMap, layout, superBlock, disk, notifier, online,
  unsaved, unrecovered, copied, scenario

states == INSTANCE AdminState

manager == INSTANCE ActionManager WITH
  ZoneCount <- 3, MaxRequest <- 5, DrainOperations <- {states!SUSPENDING, states!SAVING}

device == INSTANCE VDOAdmin WITH Scenarios <- AdminScenarios

ASSUME manager!ActionManagerConstants /\ device!VDOAdminAssumption

\* As in a VDO: the super block and the journal on thread 0, nothing on the
\* packer's thread, an allocator on a physical zone's thread.
MCListenerCount == <<2, 0, 1>>
MCListeners == [t \in 0 .. 2 |-> MCListenerCount[t + 1]]

\* Suspending, saving and resuming with errors in the components and while
\* loading, and growing with errors of the super block and of the copying of
\* partitions; with power failures.
MCAdminScenarios ==
  {[operations |-> {"SUSPEND", "SAVE", "RESUME"}, failures |-> {"component", "load", "power"}],
   [operations |-> {"SUSPEND", "GROW_LOGICAL", "RESUME"}, failures |-> {"superBlock", "power"}],
   [operations |-> {"SUSPEND", "GROW_PHYSICAL", "RESUME"}, failures |-> {"copy", "power"}]}

-----------------------------------------------------------------------------
Unused == "unused"

Notifying == part = "notifier"
Managing == part = "action manager"
Administering == part = "vdo"

managerOnly == <<managerState, actions, currentAction, actingZone, phase, zoneState,
                 pendingPoint, currentPoint, zonePoint, vdoState, staysReadOnly>>
deviceOnly == <<sub, adminState, component, vdo, blockMap, layout, superBlock, disk,
                notifier, online, unsaved, unrecovered, copied, scenario>>
shared == <<admin, readOnly>>
allVars == <<part, vars, managerOnly, deviceOnly, shared>>

NoManager ==
  /\ managerState = Unused /\ actions = Unused /\ currentAction = Unused
  /\ actingZone = Unused /\ phase = Unused /\ zoneState = Unused /\ pendingPoint = Unused
  /\ currentPoint = Unused /\ zonePoint = Unused /\ vdoState = Unused
  /\ staysReadOnly = Unused

NoDevice ==
  /\ sub = Unused /\ adminState = Unused /\ component = Unused /\ vdo = Unused
  /\ blockMap = Unused /\ layout = Unused /\ superBlock = Unused /\ disk = Unused
  /\ notifier = Unused /\ online = Unused /\ unsaved = Unused /\ unrecovered = Unused
  /\ copied = Unused /\ scenario = Unused

AdminInit ==
  /\ Init
  /\ \/ part = "notifier" /\ NoManager /\ NoDevice /\ admin = Unused /\ readOnly = Unused
     \/ part = "action manager" /\ ~readOnlyError /\ manager!Init /\ NoDevice
     \/ part = "vdo" /\ ~readOnlyError /\ device!Init /\ NoManager

InManager(A) == Managing /\ A /\ UNCHANGED <<part, vars, deviceOnly>>
InDevice(A) == Administering /\ A /\ UNCHANGED <<part, vars, managerOnly>>

AdminNext ==
  \/ Notifying /\ Next /\ UNCHANGED <<part, managerOnly, deviceOnly, shared>>
  \/ InManager(manager!Next)
  \/ InDevice(device!Next)

\* The fairness of the three modules.
AdminFairness ==
  /\ Fairness
  /\ WF_allVars(InManager(manager!LaunchCurrentAction))
  /\ WF_allVars(InManager(manager!ApplyToZone))
  /\ WF_allVars(InManager(manager!FinishDraining))
  /\ WF_allVars(InManager(manager!FinishAction))
  /\ WF_allVars(InDevice(device!Progress))

AdminSpec == AdminInit /\ [][AdminNext]_allVars /\ AdminFairness

-----------------------------------------------------------------------------
\* An action manager loses no request, and has the VDO's state when it answers
\* (ActionManager's ManagerIsSound, and the inductive invariant of its proof).
ManagerIsSound ==
  Managing => manager!ActionManagerInv /\ manager!ManagerIsSound

\* A super block which says that the VDO is clean stands for saved metadata,
\* wherever an operation failed or power was lost, and once read-only mode has
\* been entered the super block says so unless a write of it failed (VDOAdmin's
\* CleanMeansSaved, ReadOnlySaved).
SuperBlockIsTrue ==
  Administering => device!TypeOK /\ device!CleanMeansSaved /\ device!ReadOnlySaved

\* A suspended VDO is quiet, and a layout is put in the super block only after
\* its partitions were copied (VDOAdmin's SuspendedIsQuiet, LayoutCopied).
SuspensionIsSound ==
  Administering => device!SuspendedIsQuiet /\ device!LayoutCopied

\* An operation that the administrator has to wait for.
OperationPending ==
  \/ client \in {"suspending", "resuming"}
  \/ Managing /\ admin.waiting
  \/ Administering /\ "superBlock" \notin scenario.failures /\ admin.type # "none"

\* Every suspend and resume gets past the notifier, every action of a manager
\* is answered, and every operation on the VDO returns.  Not said of a VDO
\* whose super block cannot be written: the growth of one that is read-only
\* does not return, because growLogicalCallback() fails before it has an
\* operation to finish.
OperationsFinish == []<>~OperationPending
=============================================================================
