----------------------------- MODULE AdminState -----------------------------
(***************************************************************************)
(* The administrative state which the VDO itself, every zone of every      *)
(* component and every action manager carries (vdo/base/adminState.[ch]).  *)
(*                                                                         *)
(* A state code is, in C, an enumerated type in the low byte or'ed with a  *)
(* set of flag bits.  Here it is a record of the type and the set of flags *)
(* so that the predicates of adminState.h are the same mask tests.  An     *)
(* AdminState is the record of its code, of the code it takes when the     *)
(* current operation finishes, and of the completion waiting on it.        *)
(***************************************************************************)
EXTENDS Naturals

NoWaiter == "none"

Code(type, flags) == [type |-> type, flags |-> flags]

NORMAL_OPERATION     == Code("normal", {})
OPERATING            == Code("normal", {"operating"})
FORMATTING           == Code("format", {"operating", "loading"})
LOADING              == Code("normal", {"operating", "loading"})
LOADING_FOR_RECOVERY == Code("recover", {"operating", "loading"})
LOADING_FOR_REBUILD  == Code("rebuild", {"operating", "loading"})
WAITING_FOR_RECOVERY == Code("recover", {"operating"})
NEW_VDO              == Code("normal", {"quiescent"})
RECOVERING           == Code("recover", {"operating", "draining"})
REBUILDING           == Code("rebuild", {"operating", "draining"})
SAVING               == Code("save", {"operating", "draining", "quiescing"})
SAVED                == Code("save", {"quiescent"})
SCRUBBING            == Code("scrub", {"operating", "draining", "loading"})
SAVE_FOR_SCRUBBING   == Code("scrub", {"operating", "draining"})
SUSPENDING           == Code("suspend", {"operating", "draining", "quiescing"})
SUSPENDED            == Code("suspend", {"quiescent"})
SUSPENDED_OPERATION  == Code("suspend", {"operating", "quiescent"})
RESUMING             == Code("resume", {"operating", "quiescent"})

AdminStateCodes ==
  {NORMAL_OPERATION, OPERATING, FORMATTING, LOADING, LOADING_FOR_RECOVERY,
   LOADING_FOR_REBUILD, WAITING_FOR_RECOVERY, NEW_VDO, RECOVERING, REBUILDING,
   SAVING, SAVED, SCRUBBING, SAVE_FOR_SCRUBBING, SUSPENDING, SUSPENDED,
   SUSPENDED_OPERATION, RESUMING}

isOperation(code) == "operating" \in code.flags

isDrainOperation(code) == "draining" \in code.flags

isLoadOperation(code) == "loading" \in code.flags

isResumeOperation(code) == code.type = "resume"

isQuiescingCode(code) == "quiescing" \in code.flags

isQuiescentCode(code) == "quiescent" \in code.flags

isQuiescentOperation(code) == isQuiescentCode(code) /\ isOperation(code)

\* A suspended operation leaves the component running.
getNextState_Running(previousState, operation) ==
  IF isQuiescingCode(operation) THEN Code(operation.type, {"quiescent"})
  ELSE NORMAL_OPERATION

\* The state an AdminState takes when the operation it is starting ends.
getNextState(previousState, operation) ==
  IF isQuiescingCode(operation) THEN Code(operation.type, {"quiescent"})
  ELSE IF operation = SUSPENDED_OPERATION THEN previousState
  ELSE NORMAL_OPERATION

-----------------------------------------------------------------------------
\* What beginOperation() answers.  A waiter left over from an operation which
\* has ended (the field is cleared whenever one ends) makes the state busy.
beginResult(s, operation) ==
  IF isOperation(s.state)
     \/ isQuiescentCode(s.state) # isQuiescentOperation(operation)
    THEN "VDO_INVALID_ADMIN_STATE"
  ELSE IF s.waiter # NoWaiter THEN "VDO_COMPONENT_BUSY"
  ELSE "VDO_SUCCESS"

\* The state after a successful beginOperation().
beginOperation(s, operation, waiter) ==
  [state |-> operation, nextState |-> getNextState(s.state, operation),
   waiter |-> waiter]

\* endOperation(); the caller notifies s.waiter when isOperation(s.state).
endOperation(s) ==
  IF isOperation(s.state) THEN [s EXCEPT !.state = s.nextState,
                                         !.waiter = NoWaiter]
                          ELSE s

startDrainingResult(s, operation) ==
  IF isDrainOperation(operation) THEN beginResult(s, operation)
                                 ELSE "VDO_INVALID_ADMIN_STATE"

finishesDraining(s) == isDrainOperation(s.state) /\ isOperation(s.state)

startResumingResult(s, operation) ==
  IF isResumeOperation(operation) THEN beginResult(s, operation)
                                  ELSE "VDO_INVALID_ADMIN_STATE"

startOperationResult(s, operation) ==
  IF isOperation(operation) THEN beginResult(s, operation)
                            ELSE "VDO_INVALID_ADMIN_STATE"

resumeIfQuiescent(s) ==
  IF isQuiescentCode(s.state) THEN [s EXCEPT !.state = NORMAL_OPERATION] ELSE s

AdminStates(waiters) ==
  [state : AdminStateCodes, nextState : AdminStateCodes,
   waiter : waiters \cup {NoWaiter}]
=============================================================================
