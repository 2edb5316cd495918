----------------------- MODULE ReadOnlyNotifierProofs -----------------------
(***************************************************************************)
(* The safety of entering read-only mode, for any number of threads and    *)
(* listeners.                                                              *)
(***************************************************************************)
EXTENDS ReadOnlyNotifier, TLAPS

\* A stop of the walk is a thread and one of its listeners.
LEMMA NextStopType ==
  ASSUME NEW t \in Threads, NEW l \in Nat, l <= ListenerCount[t]
  PROVE  /\ NextStop(t, l) \in
              [phase : {"callback", "listener", "finish"}, thread : Threads,
               listener : Nat]
         /\ NextStop(t, l).listener <= ListenerCount[NextStop(t, l).thread]
         /\ NextStop(t, l).phase = "listener" => NextStop(t, l).listener > 0
  BY ReadOnlyNotifierConstants
     DEF NextStop, At, Threads, AdminThread

\* The listeners are the pairs of a thread and a number up to its count.
LEMMA AllListenersPairs ==
  ASSUME NEW u \in Threads, NEW k \in 1 .. ListenerCount[u]
  PROVE  <<u, k>> \in AllListeners
  BY DEF AllListeners

\* The invariant holds of a new notifier.
LEMMA NotifierInit == Init => NotifierInv
  <1> SUFFICES ASSUME Init PROVE NotifierInv
    OBVIOUS
  <1>1. TypeOK
    <2>1. /\ 0 \in Threads
          /\ Unlaunched \in [phase : {"none", "callback", "listener", "finish"},
                             thread : Threads, listener : Nat]
      BY ReadOnlyNotifierConstants DEF Unlaunched, At, Threads
    <2>2. /\ isReadOnly \in [Threads -> BOOLEAN]
          /\ pc \in [Threads -> {"idle"}]
          /\ heard \subseteq AllListeners
      BY DEF Init
    <2> QED
      BY <2>1, <2>2 DEF Init, TypeOK
  <1>2. NoLostEntry
    BY DEF Init, NoLostEntry
  <1>3. NotificationInv
    <2>1. ~ readOnlyError => \A u, k : ~ Walked(u, k)
      BY DEF Init, Walked, Unlaunched, At
    <2>2. readOnlyError => \A u, k : Walked(u, k)
      BY DEF Init, Walked, Unlaunched, At
    <2>3. \A u \in Threads : \A k \in 1 .. ListenerCount[u] :
            <<u, k>> \in heard <=> Walked(u, k)
      BY <2>1, <2>2, AllListenersPairs DEF Init
    <2>4. /\ completion.phase = "none"
          /\ completion.listener <= ListenerCount[completion.thread]
      BY ReadOnlyNotifierConstants DEF Init, Unlaunched, At
    <2> QED
      BY <2>1, <2>2, <2>3, <2>4 DEF Init, NotificationInv
  <1>4. AdministratorInv
    BY ReadOnlyNotifierConstants
       DEF Init, AdministratorInv, AdminThread, Threads
  <1> QED
    BY <1>1, <1>2, <1>3, <1>4 DEF NotifierInv

\* A step of the walk preserves the invariant.
LEMMA WalkStep ==
  ASSUME NotifierInv, MakeThreadReadOnly \/ Acknowledge
  PROVE  NotifierInv'
  <1> USE ReadOnlyNotifierConstants DEF NotifierInv
  <1>1. CASE MakeThreadReadOnly
    <2>1. TypeOK'
      BY <1>1, NextStopType DEF TypeOK, NotificationInv, MakeThreadReadOnly
    <2>2. NoLostEntry'
      BY <1>1 DEF NoLostEntry, MakeThreadReadOnly
    <2>3. NotificationInv'
      <3> DEFINE t == completion.thread
                 l == completion.listener
      <3> USE <1>1 DEF MakeThreadReadOnly
      <3>1. t \in Threads /\ l \in Nat /\ l <= ListenerCount[t]
            /\ ListenerCount \in [Threads -> Nat]
        BY DEF TypeOK, NotificationInv, Threads
      <3>2. /\ completion'.phase # "none"
            /\ state' = "NOTIFYING"
            /\ completion'.listener <= ListenerCount[completion'.thread]
            /\ completion'.phase = "listener" => completion'.listener > 0
        BY <3>1, NextStopType, Zenon DEF NotificationInv
      <3>3. ASSUME NEW u \in Threads, NEW k \in 1 .. ListenerCount[u]
            PROVE  Walked(u, k)' <=> Walked(u, k)
        BY <3>1, SMTT(40) DEF Walked, NextStop, At, Threads
      <3>4. ASSUME NEW u \in Threads, Walked(u, 0)'
            PROVE  isReadOnly'[u] \/ (/\ completion'.phase = "callback"
                                      /\ completion'.thread = u
                                      /\ completion'.listener = 0)
        BY <3>1, <3>4
           DEF TypeOK, NotificationInv, Walked, NextStop, At, Threads
      <3> QED
        BY <3>2, <3>3, <3>4 DEF NotificationInv
    <2>4. AdministratorInv'
      BY <1>1 DEF AdministratorInv, MakeThreadReadOnly
    <2> QED
      BY <2>1, <2>2, <2>3, <2>4
  <1>2. CASE Acknowledge
    <2>1. TypeOK'
      BY <1>2, AllListenersPairs DEF TypeOK, NotificationInv, Acknowledge
    <2>2. NoLostEntry'
      BY <1>2 DEF NoLostEntry, Acknowledge
    <2>3. NotificationInv'
      BY <1>2 DEF TypeOK, NotificationInv, Acknowledge, Walked, Threads
    <2>4. AdministratorInv'
      BY <1>2 DEF AdministratorInv, Acknowledge
    <2> QED
      BY <2>1, <2>2, <2>3, <2>4
  <1> QED
    BY <1>1, <1>2

\* So does its end.
LEMMA FinishStep ==
  ASSUME NotifierInv, FinishEnteringReadOnlyMode
  PROVE  NotifierInv'
  <1> USE ReadOnlyNotifierConstants
      DEF NotifierInv, FinishEnteringReadOnlyMode, AdminThread, Threads,
          Unlaunched, At
  <1>1. TypeOK'
    <2>1. /\ completion' \in [phase : {"none", "callback", "listener", "finish"},
                              thread : Threads, listener : Nat]
          /\ client' \in {"running", "suspending", "suspended", "resuming"}
      BY DEF TypeOK, Continued
    <2> QED
      BY <2>1 DEF TypeOK
  <1>2. NoLostEntry'
    BY DEF NoLostEntry
  <1>3. NotificationInv'
    <2>1. \A u, k : Walked(u, k) /\ Walked(u, k)'
      BY DEF Walked
    <2>2. \A u \in Threads : isReadOnly[u]
      BY <2>1 DEF NotificationInv
    <2>3. completion'.listener <= ListenerCount[completion'.thread]
      OBVIOUS
    <2> QED
      BY <2>1, <2>2, <2>3 DEF NotificationInv
  <1>4. AdministratorInv'
    BY DEF TypeOK, AdministratorInv, NotificationInv, Continued
  <1> QED
    BY <1>1, <1>2, <1>3, <1>4

\* The steps of enterReadOnlyMode() preserve the invariant on every thread.
LEMMA EnterStep ==
  ASSUME NotifierInv, NEW t \in Threads,
         EnterReadOnlyMode(t) \/ RecordError(t) \/ StartNotification(t)
  PROVE  NotifierInv'
  <1> USE ReadOnlyNotifierConstants DEF NotifierInv, AdminThread, Threads
  <1>1. CASE EnterReadOnlyMode(t)
    <2> USE <1>1 DEF EnterReadOnlyMode
    <2>1. TypeOK'
      BY DEF TypeOK
    <2>2. NoLostEntry'
      BY DEF TypeOK, NoLostEntry
    <2>3. NotificationInv'
      BY DEF TypeOK, NotificationInv, Walked
    <2>4. AdministratorInv'
      BY DEF TypeOK, AdministratorInv
    <2> QED
      BY <2>1, <2>2, <2>3, <2>4
  <1>2. CASE RecordError(t)
    <2> USE <1>2 DEF RecordError
    <2>1. TypeOK'
      BY DEF TypeOK
    <2>2. NoLostEntry'
      BY DEF TypeOK, NoLostEntry
    <2>3. NotificationInv'
      BY DEF TypeOK, NotificationInv, Walked
    <2>4. AdministratorInv'
      BY DEF TypeOK, AdministratorInv
    <2> QED
      BY <2>1, <2>2, <2>3, <2>4
  <1>3. CASE StartNotification(t)
    <2> USE <1>3 DEF StartNotification, At
    <2>1. TypeOK'
      BY DEF TypeOK
    <2>2. NoLostEntry'
      BY DEF TypeOK, NoLostEntry
    <2>3. NotificationInv'
      <3>1. CASE state = "MAY_NOTIFY"
        <4>1. \A u, k : ~ Walked(u, k)
          BY <3>1 DEF NotificationInv, Walked
        <4>2. \A u \in Threads : \A k \in 1 .. ListenerCount[u] :
                ~ Walked(u, k)'
          BY <3>1 DEF Walked
        <4>3. \A u \in Threads : Walked(u, 0)' => u = 0
          BY <3>1 DEF Walked
        <4> QED
          BY <3>1, <4>1, <4>2, <4>3 DEF NotificationInv
      <3>2. CASE state # "MAY_NOTIFY"
        BY <3>2 DEF NotificationInv, Walked
      <3> QED
        BY <3>1, <3>2
    <2>4. AdministratorInv'
      BY DEF TypeOK, AdministratorInv, NotificationInv, NoLostEntry
    <2> QED
      BY <2>1, <2>2, <2>3, <2>4
  <1> QED
    BY <1>1, <1>2, <1>3

\* waitUntilNotEnteringReadOnlyMode() preserves it.
LEMMA SuspendStep ==
  ASSUME NotifierInv, WaitUntilNotEnteringReadOnlyMode \/ DisallowNotifications
  PROVE  NotifierInv'
  <1> USE ReadOnlyNotifierConstants
      DEF NotifierInv, WaitUntilNotEnteringReadOnlyMode,
          DisallowNotifications, AdminThread, Threads
  <1>1. TypeOK'
    BY SMTT(30) DEF TypeOK
  <1>2. NoLostEntry'
    BY Zenon DEF TypeOK, NoLostEntry
  <1>3. NotificationInv'
    BY SMTT(30) DEF NotificationInv, Walked, AdministratorInv
  <1>4. AdministratorInv'
    BY DEF TypeOK, AdministratorInv, NotificationInv
  <1> QED
    BY <1>1, <1>2, <1>3, <1>4

\* allowReadOnlyModeEntry() up to its check of the error.
LEMMA ResumeStep ==
  ASSUME NotifierInv, AllowReadOnlyModeEntry \/ CheckForPendingError
  PROVE  NotifierInv'
  <1> USE ReadOnlyNotifierConstants
      DEF NotifierInv, AllowReadOnlyModeEntry, CheckForPendingError,
          AdminThread, Threads
  <1>1. TypeOK'
    BY SMTT(30) DEF TypeOK
  <1>2. NoLostEntry'
    <2>1. CASE AllowReadOnlyModeEntry
      BY <2>1 DEF TypeOK, NoLostEntry
    <2>2. CASE CheckForPendingError
      BY <2>2 DEF TypeOK, NoLostEntry
    <2> QED
      BY <2>1, <2>2
  <1>3. NotificationInv'
    BY SMTT(30) DEF NotificationInv, Walked, AdministratorInv
  <1>4. AdministratorInv'
    BY DEF TypeOK, AdministratorInv, NotificationInv
  <1> QED
    BY <1>1, <1>2, <1>3, <1>4

\* allowReadOnlyModeEntry() starting a pending notification.
LEMMA PendingStep ==
  ASSUME NotifierInv, DoPendingNotification
  PROVE  NotifierInv'
  <1> USE ReadOnlyNotifierConstants
      DEF NotifierInv, DoPendingNotification, AdminThread
  <1>0. /\ 0 \in Threads
        /\ ListenerCount \in [Threads -> Nat]
        /\ 0 <= ListenerCount[0]
    BY DEF Threads
  <1>1. CASE state = "MAY_NOTIFY"
    <2>0. /\ NextStop(0, 0) \in
               [phase : {"callback", "listener", "finish"}, thread : Threads,
                listener : Nat]
          /\ NextStop(0, 0).listener <= ListenerCount[NextStop(0, 0).thread]
          /\ NextStop(0, 0).phase = "listener" => NextStop(0, 0).listener > 0
      BY <1>0, NextStopType
    <2>1. TypeOK'
      BY <1>0, <1>1, <2>0, Zenon DEF TypeOK
    <2>2. NoLostEntry'
      BY <1>1 DEF NoLostEntry
    <2>3. NotificationInv'
      <3>1. \A u, k : ~ Walked(u, k)
        BY <1>1 DEF NotificationInv, Walked
      <3>2. \A u \in Threads : \A k \in 1 .. ListenerCount[u] :
              ~ Walked(u, k)'
        BY <1>0, <1>1 DEF Walked, NextStop, At, Threads
      <3>3. ASSUME NEW u \in Threads, Walked(u, 0)'
            PROVE  isReadOnly'[u] \/ (/\ completion'.phase = "callback"
                                      /\ completion'.thread = u
                                      /\ completion'.listener = 0)
        BY <1>0, <1>1, <3>3 DEF TypeOK, Walked, NextStop, At, Threads
      <3>4. /\ completion'.phase # "none"
            /\ state' = "NOTIFYING"
            /\ completion'.listener <= ListenerCount[completion'.thread]
            /\ completion'.phase = "listener" => completion'.listener > 0
        BY <1>1, <2>0
      <3> QED
        BY <1>1, <3>1, <3>2, <3>3, <3>4 DEF NotificationInv
    <2>4. AdministratorInv'
      BY <1>0, <1>1 DEF TypeOK, AdministratorInv, NotificationInv
    <2> QED
      BY <2>1, <2>2, <2>3, <2>4
  <1>2. CASE state # "MAY_NOTIFY"
    <2>1. TypeOK'
      BY <1>0, <1>2 DEF TypeOK
    <2>2. NoLostEntry'
      BY <1>2 DEF NoLostEntry
    <2>3. NotificationInv'
      BY <1>2 DEF NotificationInv, Walked
    <2>4. AdministratorInv'
      BY <1>0, <1>2 DEF TypeOK, AdministratorInv, NotificationInv
    <2> QED
      BY <2>1, <2>2, <2>3, <2>4
  <1> QED
    BY <1>1, <1>2

\* The invariant is inductive.
LEMMA NotifierStep == NotifierInv /\ [Next]_vars => NotifierInv'
  <1> SUFFICES ASSUME NotifierInv, [Next]_vars PROVE NotifierInv'
    OBVIOUS
  <1>1. CASE UNCHANGED vars
    BY <1>1 DEF vars, NotifierInv, TypeOK, NoLostEntry, NotificationInv,
                AdministratorInv, Walked
  <1> QED
    BY <1>1, WalkStep, FinishStep, EnterStep, SuspendStep, ResumeStep,
       PendingStep DEF Next

\* It implies the safety properties.
LEMMA NotifierInvImplies ==
  NotifierInv => /\ TypeOK
                 /\ WaitsOnANotification
                 /\ NoLostEntry
                 /\ QuietWhileSuspended
                 /\ EveryoneNotified
                 /\ NotifiedOnce
  <1> SUFFICES ASSUME NotifierInv
               PROVE  /\ WaitsOnANotification
                      /\ QuietWhileSuspended
                      /\ EveryoneNotified
                      /\ NotifiedOnce
    BY DEF NotifierInv
  <1>1. WaitsOnANotification
    BY DEF NotifierInv, AdministratorInv, WaitsOnANotification
  <1>2. QuietWhileSuspended
    BY DEF NotifierInv, AdministratorInv, NotificationInv, QuietWhileSuspended
  <1>3. EveryoneNotified
    <2> SUFFICES ASSUME state = "NOTIFIED"
                 PROVE  /\ \A t \in Threads : isReadOnly[t]
                        /\ AllListeners \subseteq heard
      BY Zenon DEF EveryoneNotified, NotifierInv, TypeOK
    <2>1. completion.phase = "none" /\ \A u, k : Walked(u, k)
      BY DEF NotifierInv, NotificationInv, Walked
    <2>2. \A t \in Threads : isReadOnly[t]
      BY <2>1 DEF NotifierInv, NotificationInv
    <2>3. AllListeners \subseteq heard
      BY <2>1 DEF NotifierInv, NotificationInv, AllListeners
    <2> QED
      BY <2>2, <2>3
  <1>4. NotifiedOnce
    BY DEF NotifierInv, NotificationInv, TypeOK, Walked, NotifiedOnce, Threads
  <1> QED
    BY <1>1, <1>2, <1>3, <1>4

\* However many threads there are and however their calls of
\* enterReadOnlyMode() interleave with each other and with the suspends and
\* resumes of the VDO: no entry into read-only mode is lost, none runs under a
\* suspend, every thread and listener is notified, no listener twice, and the
\* administrator waits only for a notification which is in progress.
THEOREM ReadOnlyNotifierSafe ==
  Spec => [](/\ TypeOK
             /\ WaitsOnANotification
             /\ NoLostEntry
             /\ QuietWhileSuspended
             /\ EveryoneNotified
             /\ NotifiedOnce)
  BY NotifierInit, NotifierStep, NotifierInvImplies, PTL DEF Spec

\* For any number of threads and listeners: the notification started by
\* enterReadOnlyMode() never runs under a suspended VDO, and ends only when
\* every thread and every listener has been told.
THEOREM NotificationsAreSound == Spec => []NotificationIsSound
  <1>1. NotifierInv => NotificationIsSound
    BY NotifierInvImplies DEF NotificationIsSound
  <1> QED
    BY <1>1, NotifierInit, NotifierStep, PTL DEF Spec
=============================================================================
