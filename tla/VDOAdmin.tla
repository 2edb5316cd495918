------------------------------ MODULE VDOAdmin ------------------------------
(***************************************************************************)
(* The administrative operations of a whole VDO: load, suspend, save,      *)
(* resume, grow logical and grow physical (vdo/base/adminCompletion.c,     *)
(* vdoLoad.c, vdoSuspend.c, vdoResume.c, vdoResizeLogical.c, vdoResize.c), *)
(* with the super block they write (superBlock.c, vdo.c) and the entry     *)
(* into read-only mode they contend with.                                  *)
(*                                                                         *)
(* An operation is a chain of callbacks of one sub-task completion.  The   *)
(* sub-task waits on one thing at a time: a thread to run its next         *)
(* callback, the super block, the read-only notifier, a component.  Each   *)
(* callback, and each thing the sub-task waits on, is one action, so that  *)
(* client writes, errors on other threads and power failures fall between  *)
(* any two of them.                                                        *)
(*                                                                         *)
(* The components appear as their administrative states only: the action   *)
(* managers in front of three of them are module ActionManager, the        *)
(* journal is module RecoveryJournal, and the atomic accesses of the       *)
(* notifier are module ReadOnlyNotifier.                                   *)
(***************************************************************************)
EXTENDS AdminState, Sequences

CONSTANTS
  Scenarios,  \* what the administrator asks for and what may fail
  MaxSize     \* the largest logical and physical size, in growth units

VDOAdminAssumption ==
  /\ Scenarios \subseteq
       [operations : SUBSET {"SUSPEND", "SAVE", "RESUME", "GROW_LOGICAL", "GROW_PHYSICAL"},
        failures : SUBSET {"superBlock", "component", "load", "copy", "power"}]
  /\ MaxSize \in Nat \ {0}

VARIABLES
  admin,       \* the AdminCompletion: its type, phase and result
  sub,         \* its sub-task: callback, error handler, result, waiting on
  adminState,  \* vdo->adminState
  component,   \* the administrative state of each component
  vdo,         \* vdo->state, loadState, closeRequired and config sizes
  blockMap,    \* entryCount and nextEntryCount
  layout,      \* the prepared layout, and the one the journal is written in
  superBlock,  \* the save in flight, and whether the block is unwriteable
  disk,        \* the contents of the super block on storage
  notifier,    \* the read-only notifier: state, error, waiter, progress
  readOnly,    \* whether each thread knows of read-only mode
  online,      \* whether the client may write
  unsaved,     \* components whose metadata on storage is out of date
  unrecovered, \* whether storage holds slabs which must be scrubbed
  copied,      \* the partitions which are up to date in each layout
  scenario     \* the scenario, which never changes

vars == <<admin, sub, adminState, component, vdo, blockMap, layout,
          superBlock, disk, notifier, readOnly, online, unsaved, unrecovered,
          copied, scenario>>

\* The operations the administrator asks for after loading, and the storage
\* failures which may happen.
Operations == scenario.operations
Failures == scenario.failures

Threads == {"admin", "packer", "logical", "physical"}

Components == {"packer", "logicalZones", "blockMap", "journal", "depot"}

\* The thread on which a component learns of read-only mode as it drains.
ThreadOf == [packer |-> "packer", logicalZones |-> "logical",
             blockMap |-> "logical", journal |-> "admin", depot |-> "physical"]

Persistent == {"blockMap", "journal", "depot"}

Partitions == {"journal", "summary"}

VDOStates == {"DIRTY", "NEW", "CLEAN", "READ_ONLY_MODE", "FORCE_REBUILD",
              "RECOVERING", "REPLAYING", "REBUILD_FOR_UPGRADE"}

Results == {"VDO_SUCCESS", "VDO_READ_ONLY", "VDO_INVALID_ADMIN_STATE",
            "VDO_COMPONENT_BUSY", "UDS_BAD_STATE", "EIO"}

Sizes == 1..MaxSize

Idle == [state |-> NORMAL_OPERATION, nextState |-> NORMAL_OPERATION,
         waiter |-> NoWaiter]

NoSave == [parent |-> NoWaiter, unwriteable |-> FALSE,
           content |-> [state |-> "NEW", logical |-> 1, physical |-> 1]]

\* setCompletionResult(): the first error is kept.
setCompletionResult(old, new) == IF old = "VDO_SUCCESS" THEN new ELSE old

-----------------------------------------------------------------------------
\* The sub-task's next callback is run, with this result, by a thread.
Finished(s, result) == [s EXCEPT !.waitingOn = "thread",
                                 !.result = setCompletionResult(s.result, result)]

\* resetAdminSubTask() and handing the sub-task over to what it waits for.
Waiting(s, on) == [s EXCEPT !.waitingOn = on, !.result = "VDO_SUCCESS"]

prepareAdminSubTask(s, callback, errorHandler) ==
  [s EXCEPT !.callback = callback, !.errorHandler = errorHandler]

\* The handler which runCallback() chooses.
Runs(handler) ==
  /\ sub.waitingOn = "thread"
  /\ handler = (IF sub.result = "VDO_SUCCESS" THEN sub.callback
                                              ELSE sub.errorHandler)

\* The sub-task of a phased operation reaches a phase.  For a suspend and a
\* resume the error handler, preserveErrorAndContinue(), gives the error to
\* the AdminCompletion and carries on with the phase.
AtPhase(types, phase) ==
  /\ admin.type \in types /\ admin.phase = phase
  /\ sub.waitingOn = "thread"
  /\ sub.result = "VDO_SUCCESS" \/ sub.errorHandler = "preserveErrorAndContinue"

preserveErrorAndContinue(a) ==
  [a EXCEPT !.result = setCompletionResult(a.result, sub.result)]

NextPhase(a) == [preserveErrorAndContinue(a) EXCEPT !.phase = a.phase + 1]

\* The AdminCompletion completes and its callback wakes the administrator.
Completed(a, result) ==
  [a EXCEPT !.complete = TRUE, !.result = setCompletionResult(a.result, result)]

-----------------------------------------------------------------------------
\* encodeVDO()
Encoded(v) == [state |-> v.state, logical |-> v.logicalBlocks,
               physical |-> v.physicalBlocks]

\* What saveSuperBlockAsync() answers at once, if anything.
SaveRefused ==
  IF superBlock.unwriteable THEN "VDO_READ_ONLY"
  ELSE IF superBlock.parent # NoWaiter THEN "VDO_COMPONENT_BUSY"
  ELSE "VDO_SUCCESS"

\* saveVDOComponentsAsync() with the sub-task as its parent.
SaveForSubTask(v, s) ==
  IF SaveRefused = "VDO_SUCCESS"
    THEN /\ superBlock' = [superBlock EXCEPT !.parent = "subTask",
                                             !.content = Encoded(v)]
         /\ sub' = Waiting(s, "superBlock")
    ELSE /\ sub' = Finished(Waiting(s, "superBlock"), SaveRefused)
         /\ UNCHANGED superBlock

\* The super block has been written, or the write has failed and may or may
\* not have reached storage: handleSaveError(), finishSuperBlockParent().
FinishSuperBlockSave ==
  /\ superBlock.parent # NoWaiter
  /\ \E result \in {"VDO_SUCCESS"} \cup {f \in {"EIO"} : "superBlock" \in Failures} :
       /\ disk' \in {superBlock.content} \cup {d \in {disk} : result = "EIO"}
       /\ superBlock' = [NoSave EXCEPT !.unwriteable =
                                        superBlock.unwriteable \/ result = "EIO"]
       /\ IF superBlock.parent = "subTask"
            THEN sub' = Finished(sub, result) /\ UNCHANGED notifier
            ELSE notifier' = [notifier EXCEPT !.at = "packer"] /\ UNCHANGED sub
  /\ UNCHANGED <<admin, adminState, component, vdo, blockMap, layout, readOnly,
                 online, unsaved, unrecovered, copied, scenario>>

-----------------------------------------------------------------------------
\* enterReadOnlyMode() called on a thread: what it does to the notifier.
enterReadOnlyMode(n) ==
  IF n.error THEN n
  ELSE IF n.state = "MAY_NOTIFY"
    THEN [n EXCEPT !.error = TRUE, !.state = "NOTIFYING", !.at = "admin"]
    ELSE [n EXCEPT !.error = TRUE]

\* An error on a thread which has work to do puts the VDO in read-only mode.
EnterReadOnlyMode(t) ==
  /\ "component" \in Failures /\ ~readOnly[t]
  /\ \E c \in Components :
       /\ ThreadOf[c] = t
       /\ isOperation(component[c].state) \/ (online /\ component[c] = Idle)
  /\ readOnly' = [readOnly EXCEPT ![t] = TRUE]
  /\ notifier' = enterReadOnlyMode(notifier)
  /\ UNCHANGED <<admin, sub, adminState, component, vdo, blockMap, layout,
                 superBlock, disk, online, unsaved, unrecovered, copied, scenario>>

\* makeThreadReadOnly() on the admin thread, whose listener saves the super
\* block: notifyVDOOfReadOnlyMode().
MakeAdminThreadReadOnly(n) ==
  /\ readOnly' = [readOnly EXCEPT !["admin"] = TRUE]
  /\ vdo' = [vdo EXCEPT !.state = "READ_ONLY_MODE"]
  /\ IF SaveRefused = "VDO_SUCCESS"
       THEN /\ superBlock' = [superBlock EXCEPT !.parent = "notification",
                                                !.content = Encoded(vdo')]
            /\ notifier' = [n EXCEPT !.at = "superBlock"]
       ELSE /\ notifier' = [n EXCEPT !.at = "packer"]
            /\ UNCHANGED superBlock

NotifyAdminThread ==
  /\ notifier.at = "admin"
  /\ MakeAdminThreadReadOnly(notifier)
  /\ UNCHANGED <<admin, sub, adminState, component, blockMap, layout, disk,
                 online, unsaved, unrecovered, copied, scenario>>

\* makeThreadReadOnly() on another thread, and after the last one
\* finishEnteringReadOnlyMode(), which releases the waiter.
NotifyThread ==
  /\ notifier.at \in {"packer", "logical", "physical"}
  /\ readOnly' = [readOnly EXCEPT ![notifier.at] = TRUE]
  /\ LET last == notifier.at = "physical"
     IN /\ notifier' =
             [notifier EXCEPT
                !.at = IF @ = "packer" THEN "logical"
                       ELSE IF @ = "logical" THEN "physical" ELSE "none",
                !.state = IF last THEN "NOTIFIED" ELSE @,
                !.waiter = @ /\ ~last]
        /\ sub' = IF last /\ notifier.waiter THEN Finished(sub, "VDO_SUCCESS")
                                             ELSE sub
  /\ UNCHANGED <<admin, adminState, component, vdo, blockMap, layout,
                 superBlock, disk, online, unsaved, unrecovered, copied, scenario>>

\* waitUntilNotEnteringReadOnlyMode() with the sub-task as its parent.  The
\* sub-task keeps the result which it has.
WaitUntilNotEntering(n, s) ==
  IF n.state = "NOTIFYING"
    THEN /\ notifier' = [n EXCEPT !.waiter = TRUE]
         /\ sub' = [s EXCEPT !.waitingOn = "notifier"]
    ELSE /\ notifier' = [n EXCEPT !.state = IF @ = "MAY_NOTIFY"
                                              THEN "MAY_NOT_NOTIFY" ELSE @]
         /\ sub' = [s EXCEPT !.waitingOn = "thread"]

-----------------------------------------------------------------------------
SuspendTypes == {"SUSPEND", "SAVE"}

GrowTypes == {"GROW_LOGICAL", "GROW_PHYSICAL"}

\* performAdminOperation(): the AdminCompletion is claimed and its sub-task
\* queued.  While it is busy, any other operation is refused.  As the headers
\* require, a growth is prepared and the VDO suspended first.  The client is
\* held off while the VDO is suspended or saved.
PerformAdminOperation(type) ==
  /\ vdo.loaded /\ admin.type = "none"
  /\ type = "GROW_LOGICAL" => blockMap.nextEntryCount # 0
  /\ type = "GROW_PHYSICAL" => layout.next # 0
  /\ type \in GrowTypes => isQuiescentCode(adminState.state)
  /\ admin' = [type |-> type, phase |-> 0, result |-> "VDO_SUCCESS",
               complete |-> FALSE, began |-> adminState.state]
  /\ sub' = [callback |-> "phase",
             errorHandler |-> IF type \in GrowTypes THEN "handleGrowthError"
                                ELSE "preserveErrorAndContinue",
             result |-> "VDO_SUCCESS", waitingOn |-> "thread"]
  /\ online' = (online /\ type \notin {"SUSPEND", "SAVE"})
  /\ UNCHANGED <<adminState, component, vdo, blockMap, layout, superBlock,
                 disk, notifier, readOnly, unsaved, unrecovered, copied, scenario>>

NoOperation == [type |-> "none", phase |-> 0, result |-> "VDO_SUCCESS",
                complete |-> FALSE, began |-> NORMAL_OPERATION]

NoSubTask == [callback |-> "none", errorHandler |-> "none",
              result |-> "VDO_SUCCESS", waitingOn |-> "none"]

\* waitForAdminOperation() returns.  The client may write once a load or a
\* resume has succeeded; a VDO which could not be loaded is freed.
Return ==
  /\ admin.complete
  /\ admin' = NoOperation
  /\ online' = (online \/ (/\ admin.type \in {"LOAD", "RESUME"}
                           /\ admin.result = "VDO_SUCCESS"))
  /\ vdo' = [vdo EXCEPT !.loaded = \/ admin.type # "LOAD"
                                   \/ admin.result \in {"VDO_SUCCESS",
                                                        "VDO_READ_ONLY"}]
  /\ UNCHANGED <<sub, adminState, component, blockMap, layout, superBlock,
                 disk, notifier, readOnly, unsaved, unrecovered, copied, scenario>>

-----------------------------------------------------------------------------
\* Suspend and save (vdoSuspend.c).

DrainOperation == IF admin.type = "SAVE" THEN SAVING ELSE SUSPENDING

SuspendStart ==
  /\ AtPhase(SuspendTypes, 0)
  /\ LET result == startDrainingResult(adminState, DrainOperation)
         begun == beginOperation(adminState, DrainOperation, "admin")
     IN IF result # "VDO_SUCCESS"
          THEN /\ admin' = Completed(NextPhase(admin), result)
               /\ sub' = NoSubTask
               /\ UNCHANGED <<adminState, notifier>>
        ELSE IF ~vdo.closeRequired
          THEN /\ adminState' = endOperation(begun)
               /\ admin' = Completed(NextPhase(admin), "VDO_SUCCESS")
               /\ sub' = NoSubTask
               /\ UNCHANGED notifier
        ELSE /\ adminState' = begun
             /\ admin' = NextPhase(admin)
             /\ WaitUntilNotEntering(notifier, Waiting(sub, "notifier"))
  /\ UNCHANGED <<component, vdo, blockMap, layout, superBlock, disk, readOnly,
                 online, unsaved, unrecovered, copied, scenario>>

\* A component starts to drain, or answers at once that it can not.
StartDrain(c, operation) ==
  LET result == startDrainingResult(component[c], operation)
  IN IF result = "VDO_SUCCESS"
       THEN /\ component' = [component EXCEPT
                               ![c] = beginOperation(@, operation, "subTask")]
            /\ sub' = Waiting(sub, c)
       ELSE /\ sub' = Finished(Waiting(sub, c), result)
            /\ UNCHANGED component

SuspendOrder == <<"packer", "logicalZones", "blockMap", "journal", "depot">>

\* The phases PACKER, LOGICAL_ZONES, BLOCK_MAP, JOURNAL and DEPOT.  The packer
\* is suspended by a save too.
SuspendDrain ==
  \E i \in 1..Len(SuspendOrder) :
    /\ AtPhase(SuspendTypes, i)
    /\ LET c == SuspendOrder[i]
       IN /\ StartDrain(c, IF c = "packer" THEN SUSPENDING ELSE adminState.state)
          /\ admin' = IF c = "packer" /\ vdo.state = "READ_ONLY_MODE"
                        THEN [NextPhase(admin) EXCEPT
                                !.result = setCompletionResult(@, "VDO_READ_ONLY")]
                        ELSE NextPhase(admin)
    /\ UNCHANGED <<adminState, vdo, blockMap, layout, superBlock, disk,
                   notifier, readOnly, online, unsaved, unrecovered, copied, scenario>>

\* A component has drained: its I/O is done and, when it was saving and has
\* met no error, its metadata on storage is up to date.
FinishDrain(c) ==
  /\ sub.waitingOn = c /\ finishesDraining(component[c])
  /\ LET result == IF c \in Persistent /\ readOnly[ThreadOf[c]]
                     THEN "VDO_READ_ONLY" ELSE "VDO_SUCCESS"
     IN /\ sub' = Finished(sub, result)
        /\ unsaved' = IF component[c].state = SAVING /\ result = "VDO_SUCCESS"
                        THEN unsaved \ {c} ELSE unsaved
  /\ component' = [component EXCEPT ![c] = endOperation(@)]
  /\ UNCHANGED <<admin, adminState, vdo, blockMap, layout, superBlock, disk,
                 notifier, readOnly, online, unrecovered, copied, scenario>>
\* The phases END, and WRITE_SUPER_BLOCK when there is nothing to write.
FinishSuspend ==
  /\ adminState' = endOperation(adminState)
  /\ admin' = Completed(NextPhase(admin), "VDO_SUCCESS")
  /\ sub' = NoSubTask

\* The super block is written even if a component could not be saved.
SuspendWriteSuperBlock_DespiteError ==
  /\ AtPhase(SuspendTypes, 6)
  /\ IF adminState.state = SUSPENDING
       THEN FinishSuspend /\ UNCHANGED <<vdo, superBlock>>
       ELSE /\ admin' = NextPhase(admin)
            /\ vdo' = [vdo EXCEPT !.state = IF @ \in {"DIRTY", "NEW"}
                                              THEN "CLEAN" ELSE @]
            /\ SaveForSubTask(vdo', sub)
            /\ UNCHANGED adminState
  /\ UNCHANGED <<component, blockMap, layout, disk, notifier, readOnly, online,
                 unsaved, unrecovered, copied, scenario>>

SuspendWriteSuperBlock ==
  /\ AtPhase(SuspendTypes, 6)
  /\ IF adminState.state = SUSPENDING \/ NextPhase(admin).result # "VDO_SUCCESS"
       THEN FinishSuspend /\ UNCHANGED <<vdo, superBlock>>
       ELSE /\ admin' = NextPhase(admin)
            /\ vdo' = [vdo EXCEPT !.state = IF @ \in {"DIRTY", "NEW"}
                                              THEN "CLEAN" ELSE @]
            /\ IF vdo.state = "REPLAYING"
                 THEN /\ sub' = Finished(sub, "UDS_BAD_STATE")
                      /\ UNCHANGED superBlock
                 ELSE SaveForSubTask(vdo', sub)
            /\ UNCHANGED adminState
  /\ UNCHANGED <<component, blockMap, layout, disk, notifier, readOnly, online,
                 unsaved, unrecovered, copied, scenario>>

SuspendEnd ==
  /\ AtPhase(SuspendTypes, 7)
  /\ FinishSuspend
  /\ UNCHANGED <<component, vdo, blockMap, layout, superBlock, disk, notifier,
                 readOnly, online, unsaved, unrecovered, copied, scenario>>

-----------------------------------------------------------------------------
\* Resume (vdoResume.c).

ResumeStart ==
  /\ AtPhase({"RESUME"}, 0)
  /\ LET result == startResumingResult(adminState, RESUMING)
     IN IF result # "VDO_SUCCESS"
          THEN /\ admin' = Completed(NextPhase(admin), result)
               /\ sub' = NoSubTask
               /\ UNCHANGED <<adminState, vdo, superBlock>>
          ELSE /\ adminState' = beginOperation(adminState, RESUMING, "admin")
               /\ admin' = NextPhase(admin)
               /\ IF vdo.state \in {"CLEAN", "NEW"}
                    THEN /\ vdo' = [vdo EXCEPT !.state = "DIRTY"]
                         /\ SaveForSubTask(vdo', sub)
                    ELSE /\ sub' = Finished(sub, IF vdo.state = "REPLAYING"
                                                   THEN "UDS_BAD_STATE"
                                                   ELSE "VDO_SUCCESS")
                         /\ UNCHANGED <<vdo, superBlock>>
  /\ UNCHANGED <<component, blockMap, layout, disk, notifier, readOnly, online,
                 unsaved, unrecovered, copied, scenario>>

\* allowReadOnlyModeEntry(): an error recorded while entry was disallowed is
\* acted on now, and the resume waits for it.
ResumeAllowReadOnlyMode ==
  /\ AtPhase({"RESUME"}, 1)
  /\ admin' = NextPhase(admin)
  /\ IF notifier.state = "MAY_NOT_NOTIFY" /\ notifier.error
       THEN /\ MakeAdminThreadReadOnly([notifier EXCEPT !.state = "NOTIFYING",
                                                        !.waiter = TRUE])
            /\ sub' = Waiting(sub, "notifier")
       ELSE /\ notifier' = [notifier EXCEPT
                              !.state = IF @ = "MAY_NOT_NOTIFY"
                                          THEN "MAY_NOTIFY" ELSE @]
            /\ sub' = Finished(Waiting(sub, "notifier"), "VDO_SUCCESS")
            /\ UNCHANGED <<readOnly, vdo, superBlock>>
  /\ UNCHANGED <<adminState, component, blockMap, layout, disk, online,
                 unsaved, unrecovered, copied, scenario>>

ResumeOrder == <<"depot", "journal", "blockMap", "logicalZones", "packer">>

\* The phases DEPOT, JOURNAL, BLOCK_MAP, LOGICAL_ZONES and PACKER.  A depot is
\* not resumed once the admin thread knows of read-only mode.
ResumeComponent ==
  \E i \in 1..Len(ResumeOrder) :
    /\ AtPhase({"RESUME"}, i + 1)
    /\ admin' = NextPhase(admin)
    /\ LET c == ResumeOrder[i]
           result == IF c = "depot" /\ readOnly["admin"] THEN "VDO_READ_ONLY"
                     ELSE startResumingResult(component[c], RESUMING)
       IN IF result = "VDO_SUCCESS"
            THEN /\ component' = [component EXCEPT
                                    ![c] = beginOperation(@, RESUMING, "subTask")]
                 /\ sub' = Waiting(sub, c)
            ELSE /\ sub' = Finished(Waiting(sub, c), result)
                 /\ UNCHANGED component
    /\ UNCHANGED <<adminState, vdo, blockMap, layout, superBlock, disk,
                   notifier, readOnly, online, unsaved, unrecovered, copied, scenario>>

\* A component has resumed, or has finished growing (growForest(),
\* registerNewSlabsForAllocator()).
FinishResume(c) ==
  /\ sub.waitingOn = c
  /\ component[c].state \in {RESUMING, SUSPENDED_OPERATION}
  /\ sub' = Finished(sub, IF c = "journal" /\ readOnly["admin"]
                            THEN "VDO_READ_ONLY" ELSE "VDO_SUCCESS")
  /\ component' = [component EXCEPT ![c] = endOperation(@)]
  /\ blockMap' = IF c = "blockMap" /\ component[c].state = SUSPENDED_OPERATION
                   THEN [entryCount |-> blockMap.nextEntryCount,
                         nextEntryCount |-> 0]
                   ELSE blockMap
  /\ UNCHANGED <<admin, adminState, vdo, layout, superBlock, disk, notifier,
                 readOnly, online, unsaved, unrecovered, copied, scenario>>

ResumeEnd ==
  /\ AtPhase({"RESUME"}, 7)
  /\ FinishSuspend
  /\ UNCHANGED <<component, vdo, blockMap, layout, superBlock, disk, notifier,
                 readOnly, online, unsaved, unrecovered, copied, scenario>>

-----------------------------------------------------------------------------
\* Growing (vdoResizeLogical.c, vdoResize.c).

PrepareToGrowLogical(size) ==
  /\ vdo.loaded /\ admin.type = "none"
  /\ size > vdo.logicalBlocks /\ size # blockMap.nextEntryCount
  /\ blockMap' = [blockMap EXCEPT
                    !.nextEntryCount = IF size < blockMap.entryCount
                                         THEN blockMap.entryCount ELSE size]
  /\ UNCHANGED <<admin, sub, adminState, component, vdo, layout, superBlock,
                 disk, notifier, readOnly, online, unsaved, unrecovered, copied, scenario>>

\* prepareToGrowPhysical(): checkMayGrowPhysical() runs on the admin thread.
PrepareToGrowPhysical(size) ==
  /\ vdo.loaded /\ admin.type = "none"
  /\ size > vdo.physicalBlocks /\ size # layout.next
  /\ ~readOnly["admin"] /\ vdo.state # "RECOVERING"
  /\ layout' = [layout EXCEPT !.next = size]
  /\ UNCHANGED <<admin, sub, adminState, component, vdo, blockMap, superBlock,
                 disk, notifier, readOnly, online, unsaved, unrecovered, copied, scenario>>

\* finishOperationWithResult(): nobody is told when no operation was begun.
FinishGrowth(a, result) ==
  /\ adminState' = endOperation(adminState)
  /\ admin' = IF isOperation(adminState.state) THEN Completed(a, result) ELSE a
  /\ sub' = NoSubTask

\* The operation a component performs while it is suspended.
StartSuspendedOperation(c) ==
  LET result == startOperationResult(component[c], SUSPENDED_OPERATION)
  IN IF result = "VDO_SUCCESS"
       THEN /\ component' = [component EXCEPT
                               ![c] = beginOperation(@, SUSPENDED_OPERATION,
                                                     "subTask")]
            /\ sub' = Waiting(sub, c)
       ELSE /\ sub' = Finished(Waiting(sub, c), result)
            /\ UNCHANGED component
GrowLogicalStart ==
  /\ AtPhase({"GROW_LOGICAL"}, 0)
  /\ LET result == startOperationResult(adminState, SUSPENDED_OPERATION)
     IN IF readOnly["admin"]
          THEN /\ admin' = NextPhase(admin)
               /\ sub' = Finished(sub, "VDO_READ_ONLY")
               /\ UNCHANGED <<adminState, vdo, superBlock>>
        ELSE IF result # "VDO_SUCCESS"
          THEN /\ admin' = Completed(NextPhase(admin), result)
               /\ sub' = NoSubTask
               /\ UNCHANGED <<adminState, vdo, superBlock>>
        ELSE /\ adminState' = beginOperation(adminState, SUSPENDED_OPERATION,
                                             "admin")
             /\ admin' = NextPhase(admin)
             /\ vdo' = [vdo EXCEPT !.logicalBlocks = blockMap.nextEntryCount]
             /\ SaveForSubTask(vdo', sub)
  /\ UNCHANGED <<component, blockMap, layout, disk, notifier, readOnly, online,
                 unsaved, unrecovered, copied, scenario>>

GrowLogicalBlockMap ==
  /\ AtPhase({"GROW_LOGICAL"}, 1)
  /\ admin' = NextPhase(admin)
  /\ StartSuspendedOperation("blockMap")
  /\ UNCHANGED <<adminState, vdo, blockMap, layout, superBlock, disk, notifier,
                 readOnly, online, unsaved, unrecovered, copied, scenario>>

GrowLogicalEnd ==
  /\ AtPhase({"GROW_LOGICAL"}, 2)
  /\ FinishGrowth(admin, "VDO_SUCCESS")
  /\ UNCHANGED <<component, vdo, blockMap, layout, superBlock, disk, notifier,
                 readOnly, online, unsaved, unrecovered, copied, scenario>>

\* handleGrowthError() and the ERROR phase, for both kinds of growth.  A
\* logical growth which did not reach the super block is undone.
HandleGrowthError ==
  /\ Runs("handleGrowthError")
  /\ FinishGrowth(admin, sub.result)
  /\ readOnly' = [readOnly EXCEPT !["admin"] = TRUE]
  /\ notifier' = IF readOnly["admin"] THEN notifier ELSE enterReadOnlyMode(notifier)
  /\ LET undone == admin.type = "GROW_LOGICAL" /\ admin.phase = 1
     IN /\ vdo' = IF undone THEN [vdo EXCEPT !.logicalBlocks = blockMap.entryCount]
                            ELSE vdo
        /\ blockMap' = IF undone THEN [blockMap EXCEPT !.nextEntryCount = 0]
                                 ELSE blockMap
  /\ layout' = IF admin.type = "GROW_PHYSICAL" THEN [layout EXCEPT !.next = 0]
                                               ELSE layout
  /\ UNCHANGED <<component, superBlock, disk, online, unsaved, unrecovered,
                 copied, scenario>>

GrowPhysicalStart ==
  /\ AtPhase({"GROW_PHYSICAL"}, 0)
  /\ LET result == startOperationResult(adminState, SUSPENDED_OPERATION)
     IN IF readOnly["admin"]
          THEN /\ FinishGrowth(NextPhase(admin), "VDO_READ_ONLY")
               /\ layout' = [layout EXCEPT !.next = 0]
        ELSE IF result # "VDO_SUCCESS"
          THEN /\ admin' = Completed(NextPhase(admin), result)
               /\ sub' = NoSubTask
               /\ UNCHANGED <<adminState, layout>>
        ELSE /\ adminState' = beginOperation(adminState, SUSPENDED_OPERATION,
                                             "admin")
             /\ admin' = NextPhase(admin)
             /\ sub' = Waiting(sub, "copyJournal")
             /\ UNCHANGED layout
  /\ UNCHANGED <<component, vdo, blockMap, superBlock, disk, notifier,
                 readOnly, online, unsaved, unrecovered, copied, scenario>>

GrowPhysicalCopySummary ==
  /\ AtPhase({"GROW_PHYSICAL"}, 1)
  /\ admin' = NextPhase(admin)
  /\ sub' = Waiting(sub, "copySummary")
  /\ UNCHANGED <<adminState, component, vdo, blockMap, layout, superBlock,
                 disk, notifier, readOnly, online, unsaved, unrecovered, copied, scenario>>

\* copyPartition() has finished.
FinishCopy ==
  /\ sub.waitingOn \in {"copyJournal", "copySummary"}
  /\ \/ /\ copied' = [copied EXCEPT ![layout.next] =
                        @ \cup {IF sub.waitingOn = "copyJournal" THEN "journal"
                                                                 ELSE "summary"}]
        /\ sub' = Finished(sub, "VDO_SUCCESS")
     \/ /\ "copy" \in Failures
        /\ sub' = Finished(sub, "EIO")
        /\ UNCHANGED copied
  /\ UNCHANGED <<admin, adminState, component, vdo, blockMap, layout,
                 superBlock, disk, notifier, readOnly, online, unsaved,
                 unrecovered, scenario>>

GrowPhysicalUpdateComponents ==
  /\ AtPhase({"GROW_PHYSICAL"}, 2)
  /\ admin' = NextPhase(admin)
  /\ vdo' = [vdo EXCEPT !.physicalBlocks = layout.next]
  /\ layout' = [layout EXCEPT !.next = 0]
  /\ SaveForSubTask(vdo', sub)
  /\ UNCHANGED <<adminState, component, blockMap, disk, notifier, readOnly,
                 online, unsaved, unrecovered, copied, scenario>>

GrowPhysicalUseNewSlabs ==
  /\ AtPhase({"GROW_PHYSICAL"}, 3)
  /\ admin' = NextPhase(admin)
  /\ StartSuspendedOperation("depot")
  /\ UNCHANGED <<adminState, vdo, blockMap, layout, superBlock, disk, notifier,
                 readOnly, online, unsaved, unrecovered, copied, scenario>>

\* The journal goes on being written in the old layout.
GrowPhysicalEnd_OldPartition ==
  /\ AtPhase({"GROW_PHYSICAL"}, 4)
  /\ FinishGrowth(admin, "VDO_SUCCESS")
  /\ UNCHANGED <<component, vdo, blockMap, layout, superBlock, disk, notifier,
                 readOnly, online, unsaved, unrecovered, copied, scenario>>

\* setSlabSummaryOrigin() and setRecoveryJournalPartition().
GrowPhysicalEnd ==
  /\ AtPhase({"GROW_PHYSICAL"}, 4)
  /\ FinishGrowth(admin, "VDO_SUCCESS")
  /\ layout' = [layout EXCEPT !.inUse = vdo.physicalBlocks]
  /\ UNCHANGED <<component, vdo, blockMap, superBlock, disk, notifier, readOnly,
                 online, unsaved, unrecovered, copied, scenario>>

-----------------------------------------------------------------------------
\* Loading (vdoLoad.c, and the parts of vdoRecovery.c which write the super
\* block).

\* What a VDO is in memory once prepareToLoadVDO() has decoded the super block.
PerformVDOLoad ==
  /\ ~vdo.loaded /\ admin.type = "none"
  /\ admin' = [NoOperation EXCEPT !.type = "LOAD"]
  /\ sub' = [NoSubTask EXCEPT !.callback = "loadCallback", !.waitingOn = "thread"]
  /\ adminState' = Idle
  /\ component' = [c \in Components |-> Idle]
  /\ vdo' = [loaded |-> TRUE, state |-> disk.state, loadState |-> disk.state,
             closeRequired |-> FALSE, scrubbing |-> "none",
             logicalBlocks |-> disk.logical, physicalBlocks |-> disk.physical]
  /\ blockMap' = [entryCount |-> disk.logical, nextEntryCount |-> 0]
  /\ layout' = [next |-> 0, inUse |-> disk.physical]
  /\ superBlock' = NoSave
  /\ LET isReadOnly == disk.state = "READ_ONLY_MODE"
     IN /\ readOnly' = [t \in Threads |-> isReadOnly]
        /\ notifier' = [state |-> IF isReadOnly THEN "NOTIFIED" ELSE "MAY_NOTIFY",
                        error |-> isReadOnly, waiter |-> FALSE, at |-> "none"]
  /\ online' = FALSE
  /\ UNCHANGED <<disk, unsaved, unrecovered, copied, scenario>>

requiresReadOnlyRebuild ==
  vdo.loadState \in {"FORCE_REBUILD", "REBUILD_FOR_UPGRADE"}

requiresRebuild ==
  vdo.state \in {"DIRTY", "FORCE_REBUILD", "REPLAYING", "REBUILD_FOR_UPGRADE"}

requiresRecovery == vdo.loadState \in {"DIRTY", "REPLAYING", "RECOVERING"}

LoadCallback ==
  /\ Runs("loadCallback")
  /\ vdo' = [vdo EXCEPT !.closeRequired = TRUE]
  /\ IF readOnly["admin"]
       THEN admin' = Completed(admin, "VDO_READ_ONLY") /\ sub' = NoSubTask
       ELSE /\ sub' = Waiting(prepareAdminSubTask(sub, "makeDirty",
                                IF requiresReadOnlyRebuild
                                  THEN "abortLoad" ELSE "continueLoadReadOnly"),
                              IF requiresReadOnlyRebuild THEN "rebuild"
                              ELSE IF requiresRebuild THEN "recovery"
                              ELSE "loadSlabDepot")
            /\ UNCHANGED admin
  /\ UNCHANGED <<adminState, component, blockMap, layout, superBlock, disk,
                 notifier, readOnly, online, unsaved, unrecovered, copied, scenario>>
\* A part of loading which reads and repairs metadata has failed, on a thread
\* which may itself have called enterReadOnlyMode().
LoadStepFails ==
  /\ "load" \in Failures
  /\ sub.waitingOn \in {"rebuild", "recovery", "blockMapRecovery",
                        "loadSlabDepot", "prepareToAllocate"}
  /\ sub' = Finished(sub, "EIO")
  /\ \/ UNCHANGED <<readOnly, notifier>>
     \/ /\ ~readOnly["logical"]
        /\ readOnly' = [readOnly EXCEPT !["logical"] = TRUE]
        /\ notifier' = enterReadOnlyMode(notifier)
  /\ UNCHANGED <<admin, adminState, component, vdo, blockMap, layout,
                 superBlock, disk, online, unsaved, unrecovered, copied, scenario>>

\* The reference counts and slab journals have been rebuilt from the block map.
FinishRebuild ==
  /\ sub.waitingOn = "rebuild"
  /\ sub' = Finished(sub, "VDO_SUCCESS")
  /\ unsaved' = Persistent
  /\ unrecovered' = FALSE
  /\ UNCHANGED <<admin, adminState, component, vdo, blockMap, layout,
                 superBlock, disk, notifier, readOnly, online, copied, scenario>>

\* The journal has been replayed into the slab journals: startSuperBlockSave().
\* abortRecovery() hands an error of the save to continueLoadReadOnly().
StartSuperBlockSave ==
  /\ sub.waitingOn = "recovery"
  /\ vdo' = [vdo EXCEPT !.state = "REPLAYING"]
  /\ SaveForSubTask(vdo', prepareAdminSubTask(sub, "launchBlockMapRecovery",
                                              "continueLoadReadOnly"))
  /\ unsaved' = Persistent
  /\ unrecovered' = TRUE
  /\ UNCHANGED <<admin, adminState, component, blockMap, layout, disk,
                 notifier, readOnly, online, copied, scenario>>

LaunchBlockMapRecovery ==
  /\ Runs("launchBlockMapRecovery")
  /\ sub' = Waiting(prepareAdminSubTask(sub, "makeDirty", "continueLoadReadOnly"),
                    "blockMapRecovery")
  /\ UNCHANGED <<admin, adminState, component, vdo, blockMap, layout,
                 superBlock, disk, notifier, readOnly, online, unsaved,
                 unrecovered, copied, scenario>>

\* recoverBlockMap(), loadSlabDepot() or prepareToAllocate() has finished.
FinishLoadStep ==
  /\ sub.waitingOn \in {"blockMapRecovery", "loadSlabDepot", "prepareToAllocate"}
  /\ sub' = Finished(sub, "VDO_SUCCESS")
  /\ UNCHANGED <<admin, adminState, component, vdo, blockMap, layout,
                 superBlock, disk, notifier, readOnly, online, unsaved,
                 unrecovered, copied, scenario>>

MakeDirty ==
  /\ Runs("makeDirty")
  /\ IF readOnly["admin"]
       THEN /\ admin' = Completed(admin, "VDO_READ_ONLY")
            /\ sub' = NoSubTask
            /\ UNCHANGED <<vdo, superBlock>>
       ELSE /\ vdo' = [vdo EXCEPT !.state = "DIRTY"]
            /\ SaveForSubTask(vdo', prepareAdminSubTask(sub, "prepareToComeOnline",
                                                        "continueLoadReadOnly"))
            /\ UNCHANGED admin
  /\ UNCHANGED <<adminState, component, blockMap, layout, disk, notifier,
                 readOnly, online, unsaved, unrecovered, copied, scenario>>

PrepareToComeOnline ==
  /\ Runs("prepareToComeOnline")
  /\ sub' = Waiting(prepareAdminSubTask(sub, "scrubSlabs", "continueLoadReadOnly"),
                    "prepareToAllocate")
  /\ UNCHANGED <<admin, adminState, component, vdo, blockMap, layout,
                 superBlock, disk, notifier, readOnly, online, unsaved,
                 unrecovered, copied, scenario>>

\* scrubSlabs(): the load is finished once scrubbing has been launched.
ScrubSlabs ==
  /\ Runs("scrubSlabs")
  /\ admin' = Completed(admin, "VDO_SUCCESS")
  /\ sub' = NoSubTask
  /\ vdo' = IF ~unrecovered THEN vdo
            ELSE [vdo EXCEPT !.scrubbing = "running",
                             !.state = IF /\ requiresRecovery
                                          /\ @ # "READ_ONLY_MODE"
                                         THEN "RECOVERING" ELSE @]
  /\ UNCHANGED <<adminState, component, blockMap, layout, superBlock, disk,
                 notifier, readOnly, online, unsaved, unrecovered, copied, scenario>>

\* The last slab has been scrubbed, on a physical zone's thread.
ScrubLastSlab ==
  /\ vdo.scrubbing = "running"
  /\ ~isQuiescentCode(component["depot"].state) /\ ~readOnly["physical"]
  /\ vdo' = [vdo EXCEPT !.scrubbing = "finished"]
  /\ unrecovered' = FALSE
  /\ UNCHANGED <<admin, sub, adminState, component, blockMap, layout,
                 superBlock, disk, notifier, readOnly, online, unsaved, copied, scenario>>

\* finishScrubbingSlabs(), on the admin thread.
FinishScrubbingSlabs ==
  /\ vdo.scrubbing = "finished"
  /\ vdo' = [vdo EXCEPT !.scrubbing = "none",
                        !.state = IF @ = "RECOVERING" THEN "DIRTY" ELSE @]
  /\ UNCHANGED <<admin, sub, adminState, component, blockMap, layout,
                 superBlock, disk, notifier, readOnly, online, unsaved,
                 unrecovered, copied, scenario>>

\* continueLoadReadOnly() and handleScrubbingError(), then
\* waitForReadOnlyMode().
ContinueLoadReadOnly ==
  /\ Runs("continueLoadReadOnly")
  /\ readOnly' = [readOnly EXCEPT !["admin"] = TRUE]
  /\ WaitUntilNotEntering(IF readOnly["admin"] THEN notifier
                                               ELSE enterReadOnlyMode(notifier),
                          [prepareAdminSubTask(sub, "finishParent", "finishParent")
                             EXCEPT !.result = "VDO_READ_ONLY"])
  /\ UNCHANGED <<admin, adminState, component, vdo, blockMap, layout,
                 superBlock, disk, online, unsaved, unrecovered, copied, scenario>>

FinishParent ==
  /\ Runs("finishParent")
  /\ admin' = Completed(admin, sub.result)
  /\ sub' = NoSubTask
  /\ UNCHANGED <<adminState, component, vdo, blockMap, layout, superBlock,
                 disk, notifier, readOnly, online, unsaved, unrecovered, copied, scenario>>

AbortLoad ==
  /\ Runs("abortLoad")
  /\ admin' = preserveErrorAndContinue(admin)
  /\ WaitUntilNotEntering(notifier,
       [prepareAdminSubTask(sub, "closeRecoveryJournalForAbort",
                            "closeRecoveryJournalForAbort")
          EXCEPT !.result = "VDO_SUCCESS"])
  /\ UNCHANGED <<adminState, component, vdo, blockMap, layout, superBlock,
                 disk, readOnly, online, unsaved, unrecovered, copied, scenario>>
CloseRecoveryJournalForAbort ==
  /\ Runs("closeRecoveryJournalForAbort")
  /\ LET result == startDrainingResult(component["journal"], SAVING)
         aborting == prepareAdminSubTask(sub, "finishAborting", "finishAborting")
     IN IF result = "VDO_SUCCESS"
          THEN /\ component' = [component EXCEPT
                                  !["journal"] = beginOperation(@, SAVING, "subTask")]
               /\ sub' = Waiting(aborting, "journal")
          ELSE /\ sub' = Finished(Waiting(aborting, "journal"), result)
               /\ UNCHANGED component
  /\ UNCHANGED <<admin, adminState, vdo, blockMap, layout, superBlock, disk,
                 notifier, readOnly, online, unsaved, unrecovered, copied, scenario>>

FinishAborting ==
  /\ Runs("finishAborting")
  /\ vdo' = [vdo EXCEPT !.closeRequired = FALSE]
  /\ admin' = Completed(admin, sub.result)
  /\ sub' = NoSubTask
  /\ UNCHANGED <<adminState, component, blockMap, layout, superBlock, disk,
                 notifier, readOnly, online, unsaved, unrecovered, copied, scenario>>

-----------------------------------------------------------------------------
\* A client writes a block: the metadata in memory is now newer than that on
\* storage, and the journal and summary only in the layout being written.
ClientWrite ==
  /\ online /\ adminState = Idle /\ ~readOnly["admin"]
  /\ \A c \in Components : component[c] = Idle
  /\ unsaved' = Persistent
  /\ copied' = [s \in Sizes |-> IF s = layout.inUse THEN Partitions ELSE {}]
  /\ UNCHANGED <<admin, sub, adminState, component, vdo, blockMap, layout,
                 superBlock, disk, notifier, readOnly, online, unrecovered, scenario>>

NotLoaded == [loaded |-> FALSE, state |-> "NEW", loadState |-> "NEW",
              closeRequired |-> FALSE, scrubbing |-> "none",
              logicalBlocks |-> 1, physicalBlocks |-> 1]

\* Everything in memory is lost; a super block being written may or may not
\* have reached storage.
PowerFailure ==
  /\ "power" \in Failures /\ vdo.loaded
  /\ disk' \in {disk} \cup {d \in {superBlock.content} :
                              superBlock.parent # NoWaiter}
  /\ admin' = NoOperation
  /\ sub' = NoSubTask
  /\ adminState' = Idle
  /\ component' = [c \in Components |-> Idle]
  /\ vdo' = NotLoaded
  /\ blockMap' = [entryCount |-> 1, nextEntryCount |-> 0]
  /\ layout' = [next |-> 0, inUse |-> 1]
  /\ superBlock' = NoSave
  /\ notifier' = [state |-> "MAY_NOTIFY", error |-> FALSE, waiter |-> FALSE,
                  at |-> "none"]
  /\ readOnly' = [t \in Threads |-> FALSE]
  /\ online' = FALSE
  /\ UNCHANGED <<unsaved, unrecovered, copied, scenario>>

Init ==
  /\ admin = NoOperation
  /\ sub = NoSubTask
  /\ adminState = Idle
  /\ component = [c \in Components |-> Idle]
  /\ vdo = NotLoaded
  /\ blockMap = [entryCount |-> 1, nextEntryCount |-> 0]
  /\ layout = [next |-> 0, inUse |-> 1]
  /\ superBlock = NoSave
  /\ disk \in [state : {"NEW", "FORCE_REBUILD"}, logical : {1}, physical : {1}]
  /\ notifier = [state |-> "MAY_NOTIFY", error |-> FALSE, waiter |-> FALSE,
                 at |-> "none"]
  /\ readOnly = [t \in Threads |-> FALSE]
  /\ online = FALSE
  /\ unsaved = IF disk.state = "NEW" THEN {} ELSE Persistent
  /\ unrecovered = FALSE
  /\ copied = [s \in Sizes |-> IF s = 1 THEN Partitions ELSE {}]
  /\ scenario \in Scenarios

\* What the administrator, the client and the environment may do.
Request ==
  \/ \E type \in Operations : PerformAdminOperation(type)
  \/ \E size \in Sizes : PrepareToGrowLogical(size) /\ "GROW_LOGICAL" \in Operations
  \/ \E size \in Sizes : PrepareToGrowPhysical(size) /\ "GROW_PHYSICAL" \in Operations
  \/ PerformVDOLoad
  \/ ClientWrite
  \/ PowerFailure
  \/ \E t \in Threads : EnterReadOnlyMode(t)

\* What the threads of the VDO and its storage do.
Progress ==
  \/ FinishSuperBlockSave \/ NotifyAdminThread \/ NotifyThread \/ Return
  \/ SuspendStart \/ SuspendDrain \/ SuspendWriteSuperBlock \/ SuspendEnd
  \/ \E c \in Components : FinishDrain(c) \/ FinishResume(c)
  \/ ResumeStart \/ ResumeAllowReadOnlyMode \/ ResumeComponent \/ ResumeEnd
  \/ GrowLogicalStart \/ GrowLogicalBlockMap \/ GrowLogicalEnd
  \/ HandleGrowthError
  \/ GrowPhysicalStart \/ GrowPhysicalCopySummary \/ FinishCopy
  \/ GrowPhysicalUpdateComponents \/ GrowPhysicalUseNewSlabs \/ GrowPhysicalEnd
  \/ LoadCallback \/ LoadStepFails \/ FinishRebuild \/ StartSuperBlockSave
  \/ LaunchBlockMapRecovery \/ FinishLoadStep \/ MakeDirty \/ PrepareToComeOnline
  \/ ScrubSlabs \/ ScrubLastSlab \/ FinishScrubbingSlabs
  \/ ContinueLoadReadOnly \/ FinishParent
  \/ AbortLoad \/ CloseRecoveryJournalForAbort \/ FinishAborting

Next == Request \/ Progress

Spec == Init /\ [][Next]_vars

-----------------------------------------------------------------------------
Contents == [state : VDOStates, logical : Sizes, physical : Sizes]

\* Every variable keeps its shape: one operation at a time, with one sub-task
\* which waits on one thing.
TypeOK ==
  /\ admin.type \in {"none", "LOAD", "SUSPEND", "SAVE", "RESUME",
                     "GROW_LOGICAL", "GROW_PHYSICAL"}
  /\ admin.phase \in 0..8 /\ admin.result \in Results
  /\ sub.result \in Results
  /\ adminState \in AdminStates({"admin"})
  /\ component \in [Components -> AdminStates({"subTask"})]
  /\ vdo.state \in VDOStates /\ vdo.scrubbing \in {"none", "running", "finished"}
  /\ vdo.logicalBlocks \in Sizes /\ vdo.physicalBlocks \in Sizes
  /\ blockMap \in [entryCount : Sizes, nextEntryCount : 0..MaxSize]
  /\ layout \in [next : 0..MaxSize, inUse : Sizes]
  /\ disk \in Contents /\ superBlock.content \in Contents
  /\ superBlock.parent \in {NoWaiter, "subTask", "notification"}
  /\ readOnly \in [Threads -> BOOLEAN]
  /\ unsaved \subseteq Persistent
  /\ copied \in [Sizes -> SUBSET Partitions]

\* A super block which says that the VDO is clean, so that the next load will
\* neither replay the journal (requiresRebuild() in loadCallback()) nor scrub
\* slabs, is on storage only while all of the metadata there is up to date.
CleanMeansSaved ==
  disk.state \in {"CLEAN", "NEW"} => unsaved = {} /\ ~unrecovered

\* The same for a VDO which was saved while it was still scrubbing: the next
\* load will scrub, but will not replay the journal.  This does not hold (see
\* the README) and no run checks it.
RecoveringMeansSaved == disk.state = "RECOVERING" => unsaved = {}

\* Once the notifier has finished entering read-only mode the super block says
\* so, unless a write of it has failed: no other save was in its way.
ReadOnlySaved ==
  /\ vdo.loaded /\ notifier.state = "NOTIFIED" /\ ~superBlock.unwriteable
  => disk.state = "READ_ONLY_MODE"

\* A suspended VDO has no outstanding I/O and will issue none (vdoSuspend.h):
\* every component is quiescent, the super block is not being written, and the
\* notifier is not telling threads of read-only mode.
SuspendedIsQuiet ==
  vdo.closeRequired /\ adminState.state \in {SUSPENDED, SAVED}
  => /\ \A c \in Components : isQuiescentCode(component[c].state)
     /\ superBlock.parent = NoWaiter
     /\ notifier.at = "none"

\* The layout which the super block on storage describes holds an up to date
\* journal and slab summary, before, during and after a physical growth.
LayoutCopied == copied[disk.physical] = Partitions

=============================================================================
