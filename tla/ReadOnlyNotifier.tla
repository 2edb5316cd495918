-------------------------- MODULE ReadOnlyNotifier --------------------------
(***************************************************************************)
(* Entering read-only mode (vdo/base/readOnlyNotifier.c).                  *)
(*                                                                         *)
(* Any base thread may call enterReadOnlyMode().  Two atomic words decide  *)
(* who starts the single notification that walks all threads: readOnlyError*)
(* and state.  Every atomic access is a step of its own here; everything   *)
(* else a thread does runs inside the step before it, since the base code's*)
(* threads run one callback at a time and the remaining fields are only    *)
(* touched from the thread which owns them.                                *)
(*                                                                         *)
(* Thread 0 is the admin thread.  Suspending the VDO calls                 *)
(* waitUntilNotEnteringReadOnlyMode() there, resuming it calls             *)
(* allowReadOnlyModeEntry(); client is where that administrator is.        *)
(***************************************************************************)
EXTENDS Integers, FiniteSets

CONSTANTS
  BaseThreadCount,  \* threadConfig->baseThreadCount
  ListenerCount     \* the number of listeners registered on each thread

ASSUME ReadOnlyNotifierConstants ==
  /\ BaseThreadCount \in Nat \ {0}
  /\ ListenerCount \in [0 .. BaseThreadCount - 1 -> Nat]

Threads == 0 .. BaseThreadCount - 1

AdminThread == 0

AllListeners == UNION {{t} \X (1 .. ListenerCount[t]) : t \in Threads}

VARIABLES
  readOnlyError,  \* whether an error has been recorded
  state,          \* the notifier's atomic state
  isReadOnly,     \* threadData[t].isReadOnly
  pc,             \* the next atomic access of the callback thread t is running
  completion,     \* where the notification is
  waiter,         \* the administrator's completion, if it waits
  client,         \* the administrator
  heard           \* the listeners which have acknowledged the notification

vars == <<readOnlyError, state, isReadOnly, pc, completion, waiter, client,
          heard>>

At(phase, thread, listener) ==
  [phase |-> phase, thread |-> thread, listener |-> listener]

Unlaunched == At("none", 0, 0)

TypeOK ==
  /\ readOnlyError \in BOOLEAN
  /\ state \in {"MAY_NOTIFY", "NOTIFYING", "MAY_NOT_NOTIFY", "NOTIFIED"}
  /\ isReadOnly \in [Threads -> BOOLEAN]
  /\ pc \in [Threads -> {"idle", "record", "notify", "disallow", "check",
                         "launch"}]
  /\ \A t \in Threads \ {AdminThread} : pc[t] \in {"idle", "record", "notify"}
  /\ completion \in [phase : {"none", "callback", "listener", "finish"},
                     thread : Threads, listener : Nat]
  /\ waiter \in {"none", "suspend", "resume"}
  /\ client \in {"running", "suspending", "suspended", "resuming"}
  /\ heard \subseteq AllListeners

\* A notifier made for a VDO which is already read-only has nothing to notify.
Init ==
  /\ readOnlyError \in BOOLEAN
  /\ state = IF readOnlyError THEN "NOTIFIED" ELSE "MAY_NOTIFY"
  /\ isReadOnly = [t \in Threads |-> readOnlyError]
  /\ pc = [t \in Threads |-> "idle"]
  /\ completion = Unlaunched
  /\ waiter = "none"
  /\ client = "running"
  /\ heard = IF readOnlyError THEN AllListeners ELSE {}

-----------------------------------------------------------------------------

\* The walk over the threads stops one short.
NextStop_OneShort(thread, listener) ==
  IF listener < ListenerCount[thread]
    THEN At("listener", thread, listener + 1)
  ELSE IF thread + 2 >= BaseThreadCount THEN At("finish", AdminThread, 0)
  ELSE At("callback", thread + 1, 0)

\* The part of makeThreadReadOnly() after a listener, or the thread itself,
\* has been dealt with: the next listener, the next thread or the end.
NextStop(thread, listener) ==
  IF listener < ListenerCount[thread]
    THEN At("listener", thread, listener + 1)
  ELSE IF thread + 1 >= BaseThreadCount THEN At("finish", AdminThread, 0)
  ELSE At("callback", thread + 1, 0)

MakeThreadReadOnly ==
  /\ completion.phase = "callback"
  /\ pc[completion.thread] = "idle"
  /\ isReadOnly' = IF completion.listener = 0
                     THEN [isReadOnly EXCEPT ![completion.thread] = TRUE]
                     ELSE isReadOnly
  /\ completion' = NextStop(completion.thread, completion.listener)
  /\ UNCHANGED <<readOnlyError, state, pc, waiter, client, heard>>

\* A listener, which may save the super block first, is done.
Acknowledge ==
  /\ completion.phase = "listener"
  /\ completion' = [completion EXCEPT !.phase = "callback"]
  /\ heard' = heard \cup {<<completion.thread, completion.listener>>}
  /\ UNCHANGED <<readOnlyError, state, isReadOnly, pc, waiter, client>>

\* The administrator goes on when the completion it waits on is finished.
Continued(who) == IF who = "suspend" THEN "suspended" ELSE "running"

FinishEnteringReadOnlyMode ==
  /\ completion.phase = "finish"
  /\ pc[AdminThread] = "idle"
  /\ state' = "NOTIFIED"
  /\ completion' = Unlaunched
  /\ waiter' = "none"
  /\ client' = IF waiter = "none" THEN client ELSE Continued(waiter)
  /\ UNCHANGED <<readOnlyError, isReadOnly, pc, heard>>

-----------------------------------------------------------------------------
(***************************************************************************)
(* enterReadOnlyMode(), on any thread.                                     *)
(***************************************************************************)
EnterReadOnlyMode(t) ==
  /\ pc[t] = "idle"
  /\ ~ isReadOnly[t]
  /\ isReadOnly' = [isReadOnly EXCEPT ![t] = TRUE]
  /\ pc' = [pc EXCEPT ![t] = "record"]
  /\ UNCHANGED <<readOnlyError, state, completion, waiter, client, heard>>

RecordError(t) ==
  /\ pc[t] = "record"
  /\ readOnlyError' = TRUE
  /\ pc' = [pc EXCEPT ![t] = IF readOnlyError THEN "idle" ELSE "notify"]
  /\ UNCHANGED <<state, isReadOnly, completion, waiter, client, heard>>

StartNotification(t) ==
  /\ pc[t] = "notify"
  /\ pc' = [pc EXCEPT ![t] = "idle"]
  /\ IF state = "MAY_NOTIFY"
       THEN /\ state' = "NOTIFYING"
            /\ completion' = At("callback", 0, 0)
       ELSE UNCHANGED <<state, completion>>
  /\ UNCHANGED <<readOnlyError, isReadOnly, waiter, client, heard>>

-----------------------------------------------------------------------------
(***************************************************************************)
(* waitUntilNotEnteringReadOnlyMode(), from the suspend of the VDO.        *)
(***************************************************************************)
WaitUntilNotEnteringReadOnlyMode ==
  /\ client = "running"
  /\ pc[AdminThread] = "idle"
  /\ IF waiter # "none" \/ state \in {"MAY_NOT_NOTIFY", "NOTIFIED"}
       THEN client' = "suspended" /\ UNCHANGED pc
       ELSE /\ client' = "suspending"
            /\ pc' = [pc EXCEPT ![AdminThread] = "disallow"]
  /\ UNCHANGED <<readOnlyError, state, isReadOnly, completion, waiter, heard>>

DisallowNotifications ==
  /\ pc[AdminThread] = "disallow"
  /\ pc' = [pc EXCEPT ![AdminThread] = "idle"]
  /\ IF state = "MAY_NOTIFY"
       THEN /\ state' = "MAY_NOT_NOTIFY"
            /\ client' = "suspended"
            /\ UNCHANGED waiter
       ELSE /\ waiter' = "suspend"
            /\ UNCHANGED <<state, client>>
  /\ UNCHANGED <<readOnlyError, isReadOnly, completion, heard>>

(***************************************************************************)
(* allowReadOnlyModeEntry(), from the resume of the VDO.                   *)
(***************************************************************************)
\* No check for an error recorded in the meantime.
AllowReadOnlyModeEntry_NoCheck ==
  /\ client = "suspended"
  /\ pc[AdminThread] = "idle"
  /\ client' = "running"
  /\ state' = IF state = "MAY_NOT_NOTIFY" THEN "MAY_NOTIFY" ELSE state
  /\ UNCHANGED <<readOnlyError, isReadOnly, pc, completion, waiter, heard>>

AllowReadOnlyModeEntry ==
  /\ client = "suspended"
  /\ pc[AdminThread] = "idle"
  /\ IF waiter # "none" \/ state # "MAY_NOT_NOTIFY"
       THEN client' = "running" /\ UNCHANGED <<pc, state>>
       ELSE /\ state' = "MAY_NOTIFY"
            /\ client' = "resuming"
            /\ pc' = [pc EXCEPT ![AdminThread] = "check"]
  /\ UNCHANGED <<readOnlyError, isReadOnly, completion, waiter, heard>>

CheckForPendingError ==
  /\ pc[AdminThread] = "check"
  /\ pc' = [pc EXCEPT ![AdminThread] = IF readOnlyError THEN "launch"
                                                        ELSE "idle"]
  /\ client' = IF readOnlyError THEN client ELSE "running"
  /\ UNCHANGED <<readOnlyError, state, isReadOnly, completion, waiter, heard>>

\* The notification starts in the same call, on thread 0.
DoPendingNotification ==
  /\ pc[AdminThread] = "launch"
  /\ pc' = [pc EXCEPT ![AdminThread] = "idle"]
  /\ IF state = "MAY_NOTIFY"
       THEN /\ state' = "NOTIFYING"
            /\ waiter' = "resume"
            /\ isReadOnly' = [isReadOnly EXCEPT ![0] = TRUE]
            /\ completion' = NextStop(0, 0)
            /\ UNCHANGED client
       ELSE /\ client' = "running"
            /\ UNCHANGED <<state, waiter, isReadOnly, completion>>
  /\ UNCHANGED <<readOnlyError, heard>>

-----------------------------------------------------------------------------
(***************************************************************************)
(* Each base thread runs a first-in first-out queue of callbacks to their  *)
(* end: a callback in the middle of enterReadOnlyMode() or of one of the   *)
(* administrator's calls goes on, and a callback which has been enqueued   *)
(* is not overtaken forever by later ones (hence strong fairness for those *)
(* which need their thread to be between callbacks).  A listener           *)
(* acknowledges its notification.  Nothing makes a thread enter read-only  *)
(* mode or the administrator suspend or resume.                            *)
(***************************************************************************)
Fairness ==
  /\ \A t \in Threads : WF_vars(RecordError(t) \/ StartNotification(t))
  /\ SF_vars(MakeThreadReadOnly)
  /\ WF_vars(Acknowledge)
  /\ SF_vars(FinishEnteringReadOnlyMode)
  /\ WF_vars(DisallowNotifications)
  /\ WF_vars(CheckForPendingError)
  /\ WF_vars(DoPendingNotification)

Next ==
  \/ \E t \in Threads : \/ EnterReadOnlyMode(t)
                       \/ RecordError(t)
                       \/ StartNotification(t)
  \/ MakeThreadReadOnly
  \/ Acknowledge
  \/ FinishEnteringReadOnlyMode
  \/ WaitUntilNotEnteringReadOnlyMode
  \/ DisallowNotifications
  \/ AllowReadOnlyModeEntry
  \/ CheckForPendingError
  \/ DoPendingNotification

Spec == Init /\ [][Next]_vars /\ Fairness

-----------------------------------------------------------------------------
(***************************************************************************)
(* Properties.                                                             *)
(***************************************************************************)
\* The administrator only ever waits on a notification which is in progress
\* and will therefore end.  waitUntilNotEnteringReadOnlyMode() loads the
\* state, tries to change it and only then decides to wait; the comment there
\* argues that "There is no race here".
WaitsOnANotification == waiter # "none" => state = "NOTIFYING"

\* An error recorded in readOnlyError is never dropped between the two
\* compare-and-swaps of enterReadOnlyMode() and the three atomic accesses of
\* allowReadOnlyModeEntry(): while notifications are allowed and none has
\* started, some thread is still about to start one.
NoLostEntry ==
  readOnlyError /\ state = "MAY_NOTIFY" =>
    \/ pc[AdminThread] \in {"check", "launch"}
    \/ \E t \in Threads : pc[t] = "notify"

\* From the moment a suspend has got past waitUntilNotEnteringReadOnlyMode()
\* until the VDO is resumed no notification runs, so that none of its
\* listeners saves the super block under the suspend or the resume.
QuietWhileSuspended == client = "suspended" => completion.phase = "none"

\* When the notifier says it has notified, every base thread knows that the
\* VDO is read-only and every listener on every thread has been told.
EveryoneNotified ==
  state = "NOTIFIED" => /\ \A t \in Threads : isReadOnly[t]
                        /\ heard = AllListeners

\* No listener is notified a second time, whatever number of threads tried to
\* enter read-only mode and whoever started the notification.
NotifiedOnce ==
  completion.phase = "listener" =>
    <<completion.thread, completion.listener>> \notin heard

\* Everything above follows from how the state, the admin thread's position,
\* its waiter and the notification depend on each other, and from how far the
\* walk over threads and listeners has got.
Walked(u, k) ==
  \/ completion.phase = "none" /\ state = "NOTIFIED"
  \/ completion.phase = "finish"
  \/ /\ completion.phase \in {"listener", "callback"}
     /\ \/ u < completion.thread
        \/ u = completion.thread /\ k < completion.listener
        \/ /\ u = completion.thread /\ k = completion.listener
           /\ completion.phase = "callback"

NotificationInv ==
  /\ completion.phase # "none" <=> state = "NOTIFYING"
  /\ completion.listener <= ListenerCount[completion.thread]
  /\ completion.phase = "listener" => completion.listener > 0
  /\ \A u \in Threads : Walked(u, 0) =>
       isReadOnly[u] \/ (/\ completion.phase = "callback"
                         /\ completion.thread = u
                         /\ completion.listener = 0)
  /\ \A u \in Threads : \A k \in 1 .. ListenerCount[u] :
       <<u, k>> \in heard <=> Walked(u, k)

AdministratorInv ==
  /\ state \in {"NOTIFYING", "NOTIFIED"} => readOnlyError
  /\ waiter # "none" => state = "NOTIFYING" /\ pc[AdminThread] \notin
                          {"disallow", "check", "launch"}
  /\ client = "suspending" <=> pc[AdminThread] = "disallow"
                               \/ waiter = "suspend"
  /\ client = "resuming" <=> pc[AdminThread] \in {"check", "launch"}
                             \/ waiter = "resume"
  /\ client = "suspended" => state \in {"MAY_NOT_NOTIFY", "NOTIFIED"}
  /\ client # "suspended" => state # "MAY_NOT_NOTIFY"
  /\ pc[AdminThread] \in {"disallow", "check", "launch"} =>
       state \in {"MAY_NOTIFY", "NOTIFYING"}
  /\ pc[AdminThread] = "launch" => readOnlyError
  /\ \A t \in Threads : pc[t] = "notify" => readOnlyError

NotifierInv == TypeOK /\ NoLostEntry /\ NotificationInv /\ AdministratorInv

(* No notification runs under a suspended VDO (waitUntilNotEntering-       *)
(* ReadOnlyMode), and none ends before every thread and every listener has *)
(* been told (makeThreadReadOnly).                                         *)
NotificationIsSound == NotifierInv /\ QuietWhileSuspended /\ EveryoneNotified

=============================================================================
