------------------------- MODULE SmallDriversProofs -------------------------
(***************************************************************************)
(* Proofs about three of the drivers of MCSmallDrivers.                    *)
(*                                                                         *)
(* MouHook, for any mice, callers and bounds: what the hook uses is there  *)
(* while an input is in it, and the monitor and the hook manager agree on  *)
(* the registration handle.  The invariant has layers, each proved with the*)
(* ones before it: who holds which lock, that the unload is alone, who     *)
(* knows the registration entry, and what must be there as long as what.   *)
(*                                                                         *)
(* The read cycle of mohid, and the interrupt of SpbTestTool for any number*)
(* of requests that wait for it.  MCSmallDrivers puts its drivers side by  *)
(* side, so each of its steps is a step of the driver in question or leaves*)
(* it alone.                                                               *)
(***************************************************************************)
EXTENDS MCSmallDrivers, TLAPS

-----------------------------------------------------------------------------
(* MouHidInputHook. *)

InMonitor == {"register", "create", "install", "store", "enabled", "fail", "unregister",
              "unhook", "free entry", "free context"}
InManager == {"create", "install", "store", "unhook", "free entry"}

StepsOf(t) ==
    IF t = "pnp" THEN {"idle", "unhook", "free entry", "callback", "lost"}
    ELSE IF t = "unload" THEN {"idle", "disable", "unregister", "unhook", "free entry",
                               "free context", "delete", "wait", "unloaded"}
    ELSE InMonitor \cup {"idle"}

HoldsMonitor(t) == t # "pnp" /\ at[t] \in InMonitor
HoldsManager(t) == at[t] \in InManager

Places == \A t \in Thread : at[t] \in StepsOf(t)

(* A lock is held by the thread whose step is in its section.              *)
Locks ==
    \A t \in Thread : /\ HoldsMonitor(t) <=> monitor.lock = t
                      /\ HoldsManager(t) <=> manager.lock = t

Control == TypeOK /\ Places /\ Locks

-----------------------------------------------------------------------------
LEMMA Threads ==
    /\ Nobody \notin Thread /\ "pnp" \in Thread /\ "unload" \in Thread
    /\ Caller \subseteq Thread /\ "pnp" \notin Caller /\ "unload" \notin Caller
BY CallersAreOthers DEF Thread, Nobody

(* No two threads hold one lock.                                           *)
LEMMA Exclusion ==
    ASSUME Control, NEW t \in Thread, NEW u \in Thread
    PROVE  /\ HoldsMonitor(t) /\ HoldsMonitor(u) => t = u
           /\ HoldsManager(t) /\ HoldsManager(u) => t = u
           /\ monitor.lock = Nobody => ~HoldsMonitor(t)
           /\ manager.lock = Nobody => ~HoldsManager(t)
BY Threads DEF Control, Locks

(* A thread takes a step and leaves a lock that another one holds alone.   *)
LEMMA ThreadGoes ==
    ASSUME Control, TypeOK', NEW t \in Thread, NEW next \in StepsOf(t),
           at' = [at EXCEPT ![t] = next],
           monitor.lock' = monitor.lock \/ {monitor.lock, monitor.lock'} \subseteq {t, Nobody},
           manager.lock' = manager.lock \/ {manager.lock, manager.lock'} \subseteq {t, Nobody},
           t # "pnp" /\ next \in InMonitor <=> monitor.lock' = t,
           next \in InManager <=> manager.lock' = t
    PROVE  Control'
<1>1. /\ at'[t] = next
      /\ \A u \in Thread \ {t} : at'[u] = at[u]
  BY DEF Control, TypeOK
<1>2. Places'
  BY <1>1 DEF Control, Places, StepsOf
<1>3. \A u \in Thread \ {t} : /\ monitor.lock' = u <=> monitor.lock = u
                              /\ manager.lock' = u <=> manager.lock = u
  BY Threads
<1>4. \A u \in Thread \ {t} : /\ HoldsMonitor(u)' <=> monitor.lock' = u
                              /\ HoldsManager(u)' <=> manager.lock' = u
  BY <1>1, <1>3 DEF Control, Locks, HoldsMonitor, HoldsManager
<1>5. /\ HoldsMonitor(t)' <=> monitor.lock' = t
      /\ HoldsManager(t)' <=> manager.lock' = t
  BY <1>1 DEF HoldsMonitor, HoldsManager
<1>6. Locks'
  BY <1>4, <1>5 DEF Locks
<1> QED BY <1>2, <1>6 DEF Control

-----------------------------------------------------------------------------
(* The steps of a thread, those of the input and the opening of a handle.  *)
ThreadStep(t) ==
    \/ t \in Caller /\ (EnableMonitor(t) \/ EnableStep(t))
    \/ UnregisterStep(t)
    \/ t # "pnp" /\ (DisableMonitor(t) \/ NotEnabled(t) \/ DisableStep(t))
    \/ t = "pnp" /\ (Notify \/ NotificationCallback \/ AcquireDeleted)
    \/ t = "unload" /\ (Unload \/ DeleteResource \/ StopNotifications)

LEMMA NextIsStep ==
    ASSUME [Next]_vars
    PROVE  \/ \E t \in Thread : ThreadStep(t)
           \/ \E t \in Caller : Open(t)
           \/ \E m \in Mice : EnterHook(m) \/ LeaveHook(m)
           \/ UNCHANGED vars
BY Threads DEF Next, ThreadStep, CallerStep, PnpStep, UnloadStep, DisableStep

LEMMA NoneIsNumber == None \in 0 .. MaxEnables
BY BoundsAreNumbers DEF None

MonitorType == [lock : Thread \cup {Nobody}, handle : 0 .. MaxEnables, resource : BOOLEAN]
ManagerType == [lock : Thread \cup {Nobody}, entry : 0 .. MaxEnables, active : BOOLEAN,
                context : BOOLEAN]

LEMMA TypeInductive ==
    ASSUME TypeOK, [Next]_vars
    PROVE  TypeOK'
<1>1. ASSUME NEW t \in Caller, EnableMonitor(t) PROVE TypeOK'
  <2>1. at' \in [Thread -> Steps]
    BY <1>1, Threads DEF TypeOK, EnableMonitor, Goes, Steps
  <2>2. monitor' \in MonitorType
    BY <1>1, NoneIsNumber, Threads DEF TypeOK, EnableMonitor, MonitorType
  <2>3. contexts' \in SUBSET (1 .. MaxEnables)
    BY <1>1, BoundsAreNumbers DEF TypeOK, EnableMonitor
  <2>4. enables' \in 0 .. MaxEnables
    BY <1>1, BoundsAreNumbers DEF TypeOK, EnableMonitor
  <2> QED BY <1>1, <2>1, <2>2, <2>3, <2>4
          DEF TypeOK, MonitorType, ManagerType, EnableMonitor, hooks, bounds
<1>2. ASSUME NEW t \in Caller, Register(t) PROVE TypeOK'
  <2>1. at' \in [Thread -> Steps]
    BY <1>2, Threads DEF TypeOK, Register, Goes, Steps
  <2>2. manager' \in ManagerType
    BY <1>2, NoneIsNumber, Threads DEF TypeOK, Register, ManagerType
  <2> QED BY <1>2, <2>1, <2>2 DEF TypeOK, MonitorType, ManagerType, Register, hooks, bounds
<1>3. ASSUME NEW t \in Caller, CreateHookContext(t) PROVE TypeOK'
  <2>1. at' \in [Thread -> Steps]
    BY <1>3, Threads DEF TypeOK, CreateHookContext, Goes, Steps
  <2>2. manager' \in ManagerType
    BY <1>3, NoneIsNumber, Threads DEF TypeOK, CreateHookContext, ManagerType
  <2>3. original' \in [Mice -> BOOLEAN]
    BY <1>3 DEF TypeOK, CreateHookContext
  <2> QED BY <1>3, <2>1, <2>2, <2>3
          DEF TypeOK, MonitorType, ManagerType, CreateHookContext, hooks, bounds
<1>4. ASSUME NEW t \in Caller, CreateFails(t) PROVE TypeOK'
  <2>1. at' \in [Thread -> Steps]
    BY <1>4, Threads DEF TypeOK, CreateFails, Goes, Steps
  <2>2. manager' \in ManagerType
    BY <1>4, NoneIsNumber, Threads DEF TypeOK, CreateFails, ManagerType
  <2> QED BY <1>4, <2>1, <2>2
          DEF TypeOK, MonitorType, ManagerType, CreateFails, hooks, bounds
<1>5. ASSUME NEW t \in Caller, NEW m \in Mice, Exchange(t, m) PROVE TypeOK'
  <2>1. at' \in [Thread -> Steps]
    BY <1>5, Threads DEF TypeOK, Exchange, Goes, Steps
  <2>2. service' \in [Mice -> {"class", "hook"}]
    BY <1>5 DEF TypeOK, Exchange
  <2> QED BY <1>5, <2>1, <2>2 DEF TypeOK, MonitorType, ManagerType, Exchange, hooks, bounds
<1>6. ASSUME NEW t \in Caller, StoreOriginal(t) PROVE TypeOK'
  <2>1. at' \in [Thread -> Steps]
    BY <1>6, Threads DEF TypeOK, StoreOriginal, Goes, Steps
  <2>2. original' \in [Mice -> BOOLEAN]
    BY <1>6 DEF TypeOK, StoreOriginal
  <2> QED BY <1>6, <2>1, <2>2
          DEF TypeOK, MonitorType, ManagerType, StoreOriginal, hooks, bounds
<1>7. ASSUME NEW t \in Caller, Activate(t) PROVE TypeOK'
  <2>1. at' \in [Thread -> Steps]
    BY <1>7, Threads DEF TypeOK, Activate, Goes, Steps
  <2>2. manager' \in ManagerType
    BY <1>7, NoneIsNumber, Threads DEF TypeOK, Activate, ManagerType
  <2> QED BY <1>7, <2>1, <2>2 DEF TypeOK, MonitorType, ManagerType, Activate, hooks, bounds
<1>8. ASSUME NEW t \in Caller, Enabled(t) PROVE TypeOK'
  <2>1. at' \in [Thread -> Steps]
    BY <1>8, Threads DEF TypeOK, Enabled, Goes, Steps
  <2>2. monitor' \in MonitorType
    BY <1>8, NoneIsNumber, Threads DEF TypeOK, Enabled, MonitorType
  <2> QED BY <1>8, <2>1, <2>2 DEF TypeOK, MonitorType, ManagerType, Enabled, hooks, bounds
<1>9. ASSUME NEW t \in Caller, EnableFails(t) PROVE TypeOK'
  <2>1. at' \in [Thread -> Steps]
    BY <1>9, Threads DEF TypeOK, EnableFails, Goes, Steps
  <2>2. monitor' \in MonitorType
    BY <1>9, NoneIsNumber, Threads DEF TypeOK, EnableFails, MonitorType
  <2>3. contexts' \in SUBSET (1 .. MaxEnables)
    BY <1>9, BoundsAreNumbers DEF TypeOK, EnableFails
  <2> QED BY <1>9, <2>1, <2>2, <2>3
          DEF TypeOK, MonitorType, ManagerType, EnableFails, hooks, bounds
<1>10. ASSUME NEW t \in Thread, NEW m \in Mice, Uninstall(t, m) PROVE TypeOK'
  <2>1. at' \in [Thread -> Steps]
    BY <1>10, Threads DEF TypeOK, Uninstall, Goes, Steps
  <2>2. service' \in [Mice -> {"class", "hook"}]
    BY <1>10 DEF TypeOK, Uninstall
  <2> QED BY <1>10, <2>1, <2>2
          DEF TypeOK, MonitorType, ManagerType, Uninstall, hooks, bounds
<1>11. ASSUME NEW t \in Thread, Delay(t) PROVE TypeOK'
  <2>1. at' \in [Thread -> Steps]
    BY <1>11, Threads DEF TypeOK, Delay, Goes, Steps
  <2>2. manager' \in ManagerType
    BY <1>11, NoneIsNumber, Threads DEF TypeOK, Delay, ManagerType
  <2> QED BY <1>11, <2>1, <2>2 DEF TypeOK, MonitorType, ManagerType, Delay, hooks, bounds
<1>12. ASSUME NEW t \in Thread, FreeEntry(t) PROVE TypeOK'
  <2>1. at' \in [Thread -> Steps]
    BY <1>12, Threads DEF TypeOK, FreeEntry, Goes, Steps
  <2>2. manager' \in ManagerType
    BY <1>12, NoneIsNumber, Threads DEF TypeOK, FreeEntry, ManagerType
  <2> QED BY <1>12, <2>1, <2>2
          DEF TypeOK, MonitorType, ManagerType, FreeEntry, hooks, bounds
<1>13. ASSUME NEW t \in Thread, DisableMonitor(t) PROVE TypeOK'
  <2>1. at' \in [Thread -> Steps]
    BY <1>13, Threads DEF TypeOK, DisableMonitor, Goes, Steps
  <2>2. monitor' \in MonitorType
    BY <1>13, NoneIsNumber, Threads DEF TypeOK, DisableMonitor, MonitorType
  <2>3. opened' \in SUBSET Caller
    BY <1>13 DEF TypeOK, DisableMonitor
  <2> QED BY <1>13, <2>1, <2>2, <2>3
          DEF TypeOK, MonitorType, ManagerType, DisableMonitor, hooks, bounds
<1>14. ASSUME NEW t \in Thread, NotEnabled(t) PROVE TypeOK'
  <2>1. at' \in [Thread -> Steps]
    BY <1>14, Threads DEF TypeOK, NotEnabled, Goes, Steps, Back
  <2>2. opened' \in SUBSET Caller
    BY <1>14 DEF TypeOK, NotEnabled
  <2> QED BY <1>14, <2>1, <2>2
          DEF TypeOK, MonitorType, ManagerType, NotEnabled, hooks, bounds
<1>15. ASSUME NEW t \in Thread, InvalidHandle(t) PROVE TypeOK'
  <2>1. at' \in [Thread -> Steps]
    BY <1>15, Threads DEF TypeOK, InvalidHandle, Goes, Steps, Back
  <2>2. monitor' \in MonitorType
    BY <1>15, NoneIsNumber, Threads DEF TypeOK, InvalidHandle, MonitorType
  <2> QED BY <1>15, <2>1, <2>2
          DEF TypeOK, MonitorType, ManagerType, InvalidHandle, hooks, bounds
<1>16. ASSUME NEW t \in Thread, Unregister(t) PROVE TypeOK'
  <2>1. at' \in [Thread -> Steps]
    BY <1>16, Threads DEF TypeOK, Unregister, Goes, Steps
  <2>2. manager' \in ManagerType
    BY <1>16, NoneIsNumber, Threads DEF TypeOK, Unregister, ManagerType
  <2> QED BY <1>16, <2>1, <2>2
          DEF TypeOK, MonitorType, ManagerType, Unregister, hooks, bounds
<1>17. ASSUME NEW t \in Thread, Disabled(t) PROVE TypeOK'
  <2>1. at' \in [Thread -> Steps]
    BY <1>17, Threads DEF TypeOK, Disabled, Goes, Steps, Back
  <2>2. monitor' \in MonitorType
    BY <1>17, NoneIsNumber, Threads DEF TypeOK, Disabled, MonitorType
  <2>3. contexts' \in SUBSET (1 .. MaxEnables)
    BY <1>17, BoundsAreNumbers DEF TypeOK, Disabled
  <2> QED BY <1>17, <2>1, <2>2, <2>3
          DEF TypeOK, MonitorType, ManagerType, Disabled, hooks, bounds
<1>18. ASSUME Notify PROVE TypeOK'
  <2>1. at' \in [Thread -> Steps]
    BY <1>18, Threads DEF TypeOK, Notify, Goes, Steps
  <2>2. manager' \in ManagerType
    BY <1>18, NoneIsNumber, Threads DEF TypeOK, Notify, ManagerType
  <2>3. told' \in 0 .. MaxEnables
    BY <1>18, NoneIsNumber DEF TypeOK, Notify
  <2>4. events' \in 0 .. MaxEvents
    <3>1. events' = events + 1 /\ events < MaxEvents
      BY <1>18 DEF Notify
    <3> QED BY <3>1, BoundsAreNumbers DEF TypeOK
  <2> QED BY <1>18, <2>1, <2>2, <2>3, <2>4
          DEF TypeOK, MonitorType, ManagerType, Notify, hooks, bounds
<1>19. ASSUME NotificationCallback PROVE TypeOK'
  <2>1. at' \in [Thread -> Steps]
    BY <1>19, Threads DEF TypeOK, NotificationCallback, Goes, Steps
  <2>2. monitor' \in MonitorType
    BY <1>19, NoneIsNumber, Threads DEF TypeOK, NotificationCallback, MonitorType
  <2>3. contexts' \in SUBSET (1 .. MaxEnables)
    BY <1>19, BoundsAreNumbers DEF TypeOK, NotificationCallback
  <2>4. told' \in 0 .. MaxEnables
    BY <1>19, NoneIsNumber DEF TypeOK, NotificationCallback
  <2> QED BY <1>19, <2>1, <2>2, <2>3, <2>4
          DEF TypeOK, MonitorType, ManagerType, NotificationCallback, hooks, bounds
<1>20. ASSUME AcquireDeleted PROVE TypeOK'
  <2>1. at' \in [Thread -> Steps]
    BY <1>20, Threads DEF TypeOK, AcquireDeleted, Goes, Steps
  <2> QED BY <1>20, <2>1 DEF TypeOK, MonitorType, ManagerType, AcquireDeleted, hooks, bounds
<1>21. ASSUME Unload PROVE TypeOK'
  <2>1. at' \in [Thread -> Steps]
    BY <1>21, Threads DEF TypeOK, Unload, Goes, Steps
  <2> QED BY <1>21, <2>1 DEF TypeOK, MonitorType, ManagerType, Unload, hooks, bounds
<1>22. ASSUME DeleteResource PROVE TypeOK'
  <2>1. at' \in [Thread -> Steps]
    BY <1>22, Threads DEF TypeOK, DeleteResource, Goes, Steps
  <2>2. monitor' \in MonitorType
    BY <1>22, NoneIsNumber, Threads DEF TypeOK, DeleteResource, MonitorType
  <2> QED BY <1>22, <2>1, <2>2
          DEF TypeOK, MonitorType, ManagerType, DeleteResource, hooks, bounds
<1>23. ASSUME StopNotifications PROVE TypeOK'
  <2>1. at' \in [Thread -> Steps]
    BY <1>23, Threads DEF TypeOK, StopNotifications, Goes, Steps
  <2> QED BY <1>23, <2>1
          DEF TypeOK, MonitorType, ManagerType, StopNotifications, hooks, bounds
<1>24. ASSUME NEW m \in Mice, EnterHook(m) PROVE TypeOK'
  <2>1. input' \in [Mice -> {"outside", "mapping", "callback"}]
    BY <1>24 DEF TypeOK, EnterHook
  <2> QED BY <1>24, <2>1
          DEF TypeOK, MonitorType, ManagerType, EnterHook, hooks, bounds, InputStays
<1>25. ASSUME NEW m \in Mice, MapOriginal(m) PROVE TypeOK'
  <2>1. input' \in [Mice -> {"outside", "mapping", "callback"}]
    BY <1>25 DEF TypeOK, MapOriginal
  <2> QED BY <1>25, <2>1
          DEF TypeOK, MonitorType, ManagerType, MapOriginal, hooks, bounds, InputStays
<1>26. ASSUME NEW m \in Mice, HookCallback(m) PROVE TypeOK'
  <2>1. input' \in [Mice -> {"outside", "mapping", "callback"}]
    BY <1>26 DEF TypeOK, HookCallback
  <2> QED BY <1>26, <2>1
          DEF TypeOK, MonitorType, ManagerType, HookCallback, hooks, bounds, InputStays
<1>27. ASSUME NEW t \in Caller, Open(t) PROVE TypeOK'
  BY <1>27 DEF TypeOK, Open, hooks, bounds
<1>28. ASSUME UNCHANGED vars PROVE TypeOK'
  BY <1>28 DEF TypeOK, vars
<1> QED
  BY <1>1, <1>2, <1>3, <1>4, <1>5, <1>6, <1>7, <1>8, <1>9, <1>10, <1>11, <1>12, <1>13,
     <1>14, <1>15, <1>16, <1>17, <1>18, <1>19, <1>20, <1>21, <1>22, <1>23, <1>24, <1>25,
     <1>26, <1>27, <1>28, NextIsStep
  DEF ThreadStep, EnableStep, UnregisterStep, DisableStep, LeaveHook

LEMMA ControlInductive ==
    ASSUME Control, [Next]_vars
    PROVE  Control'
<1> TypeOK /\ TypeOK'
  BY TypeInductive DEF Control
<1>1. ASSUME NEW t \in Caller, EnableMonitor(t) PROVE Control'
  <2> DEFINE next == "register"
  <2>1. t \in Thread /\ at[t] = "idle" /\ at' = [at EXCEPT ![t] = next]
    BY <1>1, Threads DEF EnableMonitor, Goes
  <2>2. next \in StepsOf(t)
    BY <2>1, Threads DEF StepsOf, InMonitor
  <2>3. monitor.lock = Nobody /\ monitor.lock' = t
    BY <1>1 DEF EnableMonitor, TypeOK
  <2>4. manager.lock' = manager.lock
    BY <1>1 DEF EnableMonitor, TypeOK
  <2>5. /\ monitor.lock' = monitor.lock \/ {monitor.lock, monitor.lock'} \subseteq {t, Nobody}
        /\ t # "pnp" /\ next \in InMonitor <=> monitor.lock' = t
    BY <2>1, <2>3, Threads DEF Control, Locks, HoldsMonitor, InMonitor
  <2>6. /\ manager.lock' = manager.lock \/ {manager.lock, manager.lock'} \subseteq {t, Nobody}
        /\ next \in InManager <=> manager.lock' = t
    BY <2>1, <2>4, Threads DEF Control, Locks, HoldsManager, InManager
  <2> QED BY <2>1, <2>2, <2>5, <2>6, ThreadGoes
<1>2. ASSUME NEW t \in Caller, Register(t) PROVE Control'
  <2> DEFINE next == IF manager.entry = None THEN "create" ELSE "fail"
  <2>1. t \in Thread /\ at[t] = "register" /\ at' = [at EXCEPT ![t] = next]
    BY <1>2, Threads DEF Register, Goes
  <2>2. next \in StepsOf(t)
    BY <2>1, Threads DEF StepsOf, InMonitor
  <2>3. monitor.lock' = monitor.lock
    BY <1>2 DEF Register, TypeOK
  <2>4. manager.lock = Nobody /\ manager.lock' = IF manager.entry = None THEN t ELSE Nobody
    BY <1>2 DEF Register, TypeOK
  <2>5. /\ monitor.lock' = monitor.lock \/ {monitor.lock, monitor.lock'} \subseteq {t, Nobody}
        /\ t # "pnp" /\ next \in InMonitor <=> monitor.lock' = t
    BY <2>1, <2>3, Threads DEF Control, Locks, HoldsMonitor, InMonitor
  <2>6. /\ manager.lock' = manager.lock \/ {manager.lock, manager.lock'} \subseteq {t, Nobody}
        /\ next \in InManager <=> manager.lock' = t
    BY <2>1, <2>4, Threads DEF Control, Locks, HoldsManager, InManager
  <2> QED BY <2>1, <2>2, <2>5, <2>6, ThreadGoes
<1>3. ASSUME NEW t \in Caller, CreateHookContext(t) PROVE Control'
  <2> DEFINE next == "install"
  <2>1. t \in Thread /\ at[t] = "create" /\ at' = [at EXCEPT ![t] = next]
    BY <1>3, Threads DEF CreateHookContext, Goes
  <2>2. next \in StepsOf(t)
    BY <2>1, Threads DEF StepsOf, InMonitor
  <2>3. monitor.lock' = monitor.lock
    BY <1>3 DEF CreateHookContext, TypeOK
  <2>4. manager.lock' = manager.lock
    BY <1>3 DEF CreateHookContext, TypeOK
  <2>5. /\ monitor.lock' = monitor.lock \/ {monitor.lock, monitor.lock'} \subseteq {t, Nobody}
        /\ t # "pnp" /\ next \in InMonitor <=> monitor.lock' = t
    BY <2>1, <2>3, Threads DEF Control, Locks, HoldsMonitor, InMonitor
  <2>6. /\ manager.lock' = manager.lock \/ {manager.lock, manager.lock'} \subseteq {t, Nobody}
        /\ next \in InManager <=> manager.lock' = t
    BY <2>1, <2>4, Threads DEF Control, Locks, HoldsManager, InManager
  <2> QED BY <2>1, <2>2, <2>5, <2>6, ThreadGoes
<1>4. ASSUME NEW t \in Caller, CreateFails(t) PROVE Control'
  <2> DEFINE next == "fail"
  <2>1. t \in Thread /\ at[t] = "create" /\ at' = [at EXCEPT ![t] = next]
    BY <1>4, Threads DEF CreateFails, Goes
  <2>2. next \in StepsOf(t)
    BY <2>1, Threads DEF StepsOf, InMonitor
  <2>3. monitor.lock' = monitor.lock
    BY <1>4 DEF CreateFails, TypeOK
  <2>4. manager.lock' = Nobody
    BY <1>4 DEF CreateFails, TypeOK
  <2>5. /\ monitor.lock' = monitor.lock \/ {monitor.lock, monitor.lock'} \subseteq {t, Nobody}
        /\ t # "pnp" /\ next \in InMonitor <=> monitor.lock' = t
    BY <2>1, <2>3, Threads DEF Control, Locks, HoldsMonitor, InMonitor
  <2>6. /\ manager.lock' = manager.lock \/ {manager.lock, manager.lock'} \subseteq {t, Nobody}
        /\ next \in InManager <=> manager.lock' = t
    BY <2>1, <2>4, Threads DEF Control, Locks, HoldsManager, InManager
  <2> QED BY <2>1, <2>2, <2>5, <2>6, ThreadGoes
<1>5. ASSUME NEW t \in Caller, NEW m \in Mice, Exchange(t, m) PROVE Control'
  <2> DEFINE next == "store"
  <2>1. t \in Thread /\ at[t] = "install" /\ at' = [at EXCEPT ![t] = next]
    BY <1>5, Threads DEF Exchange, Goes
  <2>2. next \in StepsOf(t)
    BY <2>1, Threads DEF StepsOf, InMonitor
  <2>3. monitor.lock' = monitor.lock
    BY <1>5 DEF Exchange, TypeOK
  <2>4. manager.lock' = manager.lock
    BY <1>5 DEF Exchange, TypeOK
  <2>5. /\ monitor.lock' = monitor.lock \/ {monitor.lock, monitor.lock'} \subseteq {t, Nobody}
        /\ t # "pnp" /\ next \in InMonitor <=> monitor.lock' = t
    BY <2>1, <2>3, Threads DEF Control, Locks, HoldsMonitor, InMonitor
  <2>6. /\ manager.lock' = manager.lock \/ {manager.lock, manager.lock'} \subseteq {t, Nobody}
        /\ next \in InManager <=> manager.lock' = t
    BY <2>1, <2>4, Threads DEF Control, Locks, HoldsManager, InManager
  <2> QED BY <2>1, <2>2, <2>5, <2>6, ThreadGoes
<1>6. ASSUME NEW t \in Caller, StoreOriginal(t) PROVE Control'
  <2> DEFINE next == "install"
  <2>1. t \in Thread /\ at[t] = "store" /\ at' = [at EXCEPT ![t] = next]
    BY <1>6, Threads DEF StoreOriginal, Goes
  <2>2. next \in StepsOf(t)
    BY <2>1, Threads DEF StepsOf, InMonitor
  <2>3. monitor.lock' = monitor.lock
    BY <1>6 DEF StoreOriginal, TypeOK
  <2>4. manager.lock' = manager.lock
    BY <1>6 DEF StoreOriginal, TypeOK
  <2>5. /\ monitor.lock' = monitor.lock \/ {monitor.lock, monitor.lock'} \subseteq {t, Nobody}
        /\ t # "pnp" /\ next \in InMonitor <=> monitor.lock' = t
    BY <2>1, <2>3, Threads DEF Control, Locks, HoldsMonitor, InMonitor
  <2>6. /\ manager.lock' = manager.lock \/ {manager.lock, manager.lock'} \subseteq {t, Nobody}
        /\ next \in InManager <=> manager.lock' = t
    BY <2>1, <2>4, Threads DEF Control, Locks, HoldsManager, InManager
  <2> QED BY <2>1, <2>2, <2>5, <2>6, ThreadGoes
<1>7. ASSUME NEW t \in Caller, Activate(t) PROVE Control'
  <2> DEFINE next == "enabled"
  <2>1. t \in Thread /\ at[t] = "install" /\ at' = [at EXCEPT ![t] = next]
    BY <1>7, Threads DEF Activate, Goes
  <2>2. next \in StepsOf(t)
    BY <2>1, Threads DEF StepsOf, InMonitor
  <2>3. monitor.lock' = monitor.lock
    BY <1>7 DEF Activate, TypeOK
  <2>4. manager.lock' = Nobody
    BY <1>7 DEF Activate, TypeOK
  <2>5. /\ monitor.lock' = monitor.lock \/ {monitor.lock, monitor.lock'} \subseteq {t, Nobody}
        /\ t # "pnp" /\ next \in InMonitor <=> monitor.lock' = t
    BY <2>1, <2>3, Threads DEF Control, Locks, HoldsMonitor, InMonitor
  <2>6. /\ manager.lock' = manager.lock \/ {manager.lock, manager.lock'} \subseteq {t, Nobody}
        /\ next \in InManager <=> manager.lock' = t
    BY <2>1, <2>4, Threads DEF Control, Locks, HoldsManager, InManager
  <2> QED BY <2>1, <2>2, <2>5, <2>6, ThreadGoes
<1>8. ASSUME NEW t \in Caller, Enabled(t) PROVE Control'
  <2> DEFINE next == "idle"
  <2>1. t \in Thread /\ at[t] = "enabled" /\ at' = [at EXCEPT ![t] = next]
    BY <1>8, Threads DEF Enabled, Goes
  <2>2. next \in StepsOf(t)
    BY <2>1, Threads DEF StepsOf, InMonitor
  <2>3. monitor.lock' = Nobody
    BY <1>8 DEF Enabled, TypeOK
  <2>4. manager.lock' = manager.lock
    BY <1>8 DEF Enabled, TypeOK
  <2>5. /\ monitor.lock' = monitor.lock \/ {monitor.lock, monitor.lock'} \subseteq {t, Nobody}
        /\ t # "pnp" /\ next \in InMonitor <=> monitor.lock' = t
    BY <2>1, <2>3, Threads DEF Control, Locks, HoldsMonitor, InMonitor
  <2>6. /\ manager.lock' = manager.lock \/ {manager.lock, manager.lock'} \subseteq {t, Nobody}
        /\ next \in InManager <=> manager.lock' = t
    BY <2>1, <2>4, Threads DEF Control, Locks, HoldsManager, InManager
  <2> QED BY <2>1, <2>2, <2>5, <2>6, ThreadGoes
<1>9. ASSUME NEW t \in Caller, EnableFails(t) PROVE Control'
  <2> DEFINE next == "idle"
  <2>1. t \in Thread /\ at[t] = "fail" /\ at' = [at EXCEPT ![t] = next]
    BY <1>9, Threads DEF EnableFails, Goes
  <2>2. next \in StepsOf(t)
    BY <2>1, Threads DEF StepsOf, InMonitor
  <2>3. monitor.lock' = Nobody
    BY <1>9 DEF EnableFails, TypeOK
  <2>4. manager.lock' = manager.lock
    BY <1>9 DEF EnableFails, TypeOK
  <2>5. /\ monitor.lock' = monitor.lock \/ {monitor.lock, monitor.lock'} \subseteq {t, Nobody}
        /\ t # "pnp" /\ next \in InMonitor <=> monitor.lock' = t
    BY <2>1, <2>3, Threads DEF Control, Locks, HoldsMonitor, InMonitor
  <2>6. /\ manager.lock' = manager.lock \/ {manager.lock, manager.lock'} \subseteq {t, Nobody}
        /\ next \in InManager <=> manager.lock' = t
    BY <2>1, <2>4, Threads DEF Control, Locks, HoldsManager, InManager
  <2> QED BY <2>1, <2>2, <2>5, <2>6, ThreadGoes
<1>10. ASSUME NEW t \in Thread, NEW m \in Mice, Uninstall(t, m) PROVE Control'
  <2> DEFINE next == "unhook"
  <2>1. t \in Thread /\ at[t] = "unhook" /\ at' = [at EXCEPT ![t] = next]
    BY <1>10, Threads DEF Uninstall, Goes
  <2>2. next \in StepsOf(t)
    BY <2>1, Threads DEF StepsOf, InMonitor
  <2>3. monitor.lock' = monitor.lock
    BY <1>10 DEF Uninstall, TypeOK
  <2>4. manager.lock' = manager.lock
    BY <1>10 DEF Uninstall, TypeOK
  <2>5. /\ monitor.lock' = monitor.lock \/ {monitor.lock, monitor.lock'} \subseteq {t, Nobody}
        /\ t # "pnp" /\ next \in InMonitor <=> monitor.lock' = t
    BY <2>1, <2>3, Threads DEF Control, Locks, HoldsMonitor, InMonitor
  <2>6. /\ manager.lock' = manager.lock \/ {manager.lock, manager.lock'} \subseteq {t, Nobody}
        /\ next \in InManager <=> manager.lock' = t
    BY <2>1, <2>4, Threads DEF Control, Locks, HoldsManager, InManager
  <2> QED BY <2>1, <2>2, <2>5, <2>6, ThreadGoes
<1>11. ASSUME NEW t \in Thread, Delay(t) PROVE Control'
  <2> DEFINE next == "free entry"
  <2>1. t \in Thread /\ at[t] = "unhook" /\ at' = [at EXCEPT ![t] = next]
    BY <1>11, Threads DEF Delay, Goes
  <2>2. next \in StepsOf(t)
    BY <2>1, Threads DEF StepsOf, InMonitor
  <2>3. monitor.lock' = monitor.lock
    BY <1>11 DEF Delay, TypeOK
  <2>4. manager.lock' = manager.lock
    BY <1>11 DEF Delay, TypeOK
  <2>5. /\ monitor.lock' = monitor.lock \/ {monitor.lock, monitor.lock'} \subseteq {t, Nobody}
        /\ t # "pnp" /\ next \in InMonitor <=> monitor.lock' = t
    BY <2>1, <2>3, Threads DEF Control, Locks, HoldsMonitor, InMonitor
  <2>6. /\ manager.lock' = manager.lock \/ {manager.lock, manager.lock'} \subseteq {t, Nobody}
        /\ next \in InManager <=> manager.lock' = t
    BY <2>1, <2>4, Threads DEF Control, Locks, HoldsManager, InManager
  <2> QED BY <2>1, <2>2, <2>5, <2>6, ThreadGoes
<1>12. ASSUME NEW t \in Thread, FreeEntry(t) PROVE Control'
  <2> DEFINE next == IF t = "pnp" THEN "callback" ELSE "free context"
  <2>1. t \in Thread /\ at[t] = "free entry" /\ at' = [at EXCEPT ![t] = next]
    BY <1>12, Threads DEF FreeEntry, Goes
  <2>2. next \in StepsOf(t)
    BY <2>1, Threads DEF StepsOf, InMonitor
  <2>3. monitor.lock' = monitor.lock
    BY <1>12 DEF FreeEntry, TypeOK
  <2>4. manager.lock' = Nobody
    BY <1>12 DEF FreeEntry, TypeOK
  <2>5. /\ monitor.lock' = monitor.lock \/ {monitor.lock, monitor.lock'} \subseteq {t, Nobody}
        /\ t # "pnp" /\ next \in InMonitor <=> monitor.lock' = t
    BY <2>1, <2>3, Threads DEF Control, Locks, HoldsMonitor, InMonitor
  <2>6. /\ manager.lock' = manager.lock \/ {manager.lock, manager.lock'} \subseteq {t, Nobody}
        /\ next \in InManager <=> manager.lock' = t
    BY <2>1, <2>4, Threads DEF Control, Locks, HoldsManager, InManager
  <2> QED BY <2>1, <2>2, <2>5, <2>6, ThreadGoes
<1>13. ASSUME NEW t \in Thread \ {"pnp"}, DisableMonitor(t) PROVE Control'
  <2> DEFINE next == "unregister"
  <2>1. /\ t \in Thread /\ at[t] = (IF t = "unload" THEN "disable" ELSE "idle")
        /\ at' = [at EXCEPT ![t] = next]
    BY <1>13, Threads DEF DisableMonitor, Goes
  <2>2. next \in StepsOf(t)
    BY <2>1, Threads DEF StepsOf, InMonitor
  <2>3. monitor.lock = Nobody /\ monitor.lock' = t
    BY <1>13 DEF DisableMonitor, TypeOK
  <2>4. manager.lock' = manager.lock
    BY <1>13 DEF DisableMonitor, TypeOK
  <2>5. /\ monitor.lock' = monitor.lock \/ {monitor.lock, monitor.lock'} \subseteq {t, Nobody}
        /\ t # "pnp" /\ next \in InMonitor <=> monitor.lock' = t
    BY <2>1, <2>3, Threads DEF Control, Locks, HoldsMonitor, InMonitor
  <2>6. /\ manager.lock' = manager.lock \/ {manager.lock, manager.lock'} \subseteq {t, Nobody}
        /\ next \in InManager <=> manager.lock' = t
    BY <2>1, <2>4, Threads DEF Control, Locks, HoldsManager, InManager
  <2> QED BY <2>1, <2>2, <2>5, <2>6, ThreadGoes
<1>14. ASSUME NEW t \in Thread \ {"pnp"}, NotEnabled(t) PROVE Control'
  <2> DEFINE next == Back(t)
  <2>1. /\ t \in Thread /\ at[t] = (IF t = "unload" THEN "disable" ELSE "idle")
        /\ at' = [at EXCEPT ![t] = next]
    BY <1>14, Threads DEF NotEnabled, Goes
  <2>2. next \in StepsOf(t)
    BY <2>1, Threads DEF StepsOf, InMonitor, Back
  <2>3. monitor.lock' = monitor.lock
    BY <1>14 DEF NotEnabled, TypeOK
  <2>4. manager.lock' = manager.lock
    BY <1>14 DEF NotEnabled, TypeOK
  <2>5. /\ monitor.lock' = monitor.lock \/ {monitor.lock, monitor.lock'} \subseteq {t, Nobody}
        /\ t # "pnp" /\ next \in InMonitor <=> monitor.lock' = t
    BY <2>1, <2>3, Threads DEF Control, Locks, HoldsMonitor, InMonitor, Back
  <2>6. /\ manager.lock' = manager.lock \/ {manager.lock, manager.lock'} \subseteq {t, Nobody}
        /\ next \in InManager <=> manager.lock' = t
    BY <2>1, <2>4, Threads DEF Control, Locks, HoldsManager, InManager, Back
  <2> QED BY <2>1, <2>2, <2>5, <2>6, ThreadGoes
<1>15. ASSUME NEW t \in Thread \ {"pnp"}, InvalidHandle(t) PROVE Control'
  <2> DEFINE next == Back(t)
  <2>1. t \in Thread /\ at[t] = "unregister" /\ at' = [at EXCEPT ![t] = next]
    BY <1>15, Threads DEF InvalidHandle, Goes
  <2>2. next \in StepsOf(t)
    BY <2>1, Threads DEF StepsOf, InMonitor, Back
  <2>3. monitor.lock' = Nobody
    BY <1>15 DEF InvalidHandle, TypeOK
  <2>4. manager.lock' = manager.lock
    BY <1>15 DEF InvalidHandle, TypeOK
  <2>5. /\ monitor.lock' = monitor.lock \/ {monitor.lock, monitor.lock'} \subseteq {t, Nobody}
        /\ t # "pnp" /\ next \in InMonitor <=> monitor.lock' = t
    BY <2>1, <2>3, Threads DEF Control, Locks, HoldsMonitor, InMonitor, Back
  <2>6. /\ manager.lock' = manager.lock \/ {manager.lock, manager.lock'} \subseteq {t, Nobody}
        /\ next \in InManager <=> manager.lock' = t
    BY <2>1, <2>4, Threads DEF Control, Locks, HoldsManager, InManager, Back
  <2> QED BY <2>1, <2>2, <2>5, <2>6, ThreadGoes
<1>16. ASSUME NEW t \in Thread \ {"pnp"}, Unregister(t) PROVE Control'
  <2> DEFINE next == IF manager.active THEN "unhook" ELSE "free entry"
  <2>1. t \in Thread /\ at[t] = "unregister" /\ at' = [at EXCEPT ![t] = next]
    BY <1>16, Threads DEF Unregister, Goes
  <2>2. next \in StepsOf(t)
    BY <2>1, Threads DEF StepsOf, InMonitor
  <2>3. monitor.lock' = monitor.lock
    BY <1>16 DEF Unregister, TypeOK
  <2>4. manager.lock = Nobody /\ manager.lock' = t
    BY <1>16 DEF Unregister, TypeOK
  <2>5. /\ monitor.lock' = monitor.lock \/ {monitor.lock, monitor.lock'} \subseteq {t, Nobody}
        /\ t # "pnp" /\ next \in InMonitor <=> monitor.lock' = t
    BY <2>1, <2>3, Threads DEF Control, Locks, HoldsMonitor, InMonitor
  <2>6. /\ manager.lock' = manager.lock \/ {manager.lock, manager.lock'} \subseteq {t, Nobody}
        /\ next \in InManager <=> manager.lock' = t
    BY <2>1, <2>4, Threads DEF Control, Locks, HoldsManager, InManager
  <2> QED BY <2>1, <2>2, <2>5, <2>6, ThreadGoes
<1>17. ASSUME NEW t \in Thread \ {"pnp"}, Disabled(t) PROVE Control'
  <2> DEFINE next == Back(t)
  <2>1. t \in Thread /\ at[t] = "free context" /\ at' = [at EXCEPT ![t] = next]
    BY <1>17, Threads DEF Disabled, Goes
  <2>2. next \in StepsOf(t)
    BY <2>1, Threads DEF StepsOf, InMonitor, Back
  <2>3. monitor.lock' = Nobody
    BY <1>17 DEF Disabled, TypeOK
  <2>4. manager.lock' = manager.lock
    BY <1>17 DEF Disabled, TypeOK
  <2>5. /\ monitor.lock' = monitor.lock \/ {monitor.lock, monitor.lock'} \subseteq {t, Nobody}
        /\ t # "pnp" /\ next \in InMonitor <=> monitor.lock' = t
    BY <2>1, <2>3, Threads DEF Control, Locks, HoldsMonitor, InMonitor, Back
  <2>6. /\ manager.lock' = manager.lock \/ {manager.lock, manager.lock'} \subseteq {t, Nobody}
        /\ next \in InManager <=> manager.lock' = t
    BY <2>1, <2>4, Threads DEF Control, Locks, HoldsManager, InManager, Back
  <2> QED BY <2>1, <2>2, <2>5, <2>6, ThreadGoes
<1>18. ASSUME Notify PROVE Control'
  <2> DEFINE next == IF manager.active THEN "unhook" ELSE "free entry"
  <2>1. "pnp" \in Thread /\ at["pnp"] = "idle" /\ at' = [at EXCEPT !["pnp"] = next]
    BY <1>18, Threads DEF Notify, Goes
  <2>2. next \in StepsOf("pnp")
    BY <2>1, Threads DEF StepsOf, InMonitor
  <2>3. monitor.lock' = monitor.lock
    BY <1>18 DEF Notify, TypeOK
  <2>4. manager.lock = Nobody /\ manager.lock' = "pnp"
    BY <1>18 DEF Notify, TypeOK
  <2>5. /\ monitor.lock' = monitor.lock \/ {monitor.lock, monitor.lock'} \subseteq {"pnp", Nobody}
        /\ "pnp" # "pnp" /\ next \in InMonitor <=> monitor.lock' = "pnp"
    BY <2>1, <2>3, Threads DEF Control, Locks, HoldsMonitor, InMonitor
  <2>6. /\ manager.lock' = manager.lock \/ {manager.lock, manager.lock'} \subseteq {"pnp", Nobody}
        /\ next \in InManager <=> manager.lock' = "pnp"
    BY <2>1, <2>4, Threads DEF Control, Locks, HoldsManager, InManager
  <2> QED BY <2>1, <2>2, <2>5, <2>6, ThreadGoes
<1>19. ASSUME NotificationCallback PROVE Control'
  <2> DEFINE next == "idle"
  <2>1. "pnp" \in Thread /\ at["pnp"] = "callback" /\ at' = [at EXCEPT !["pnp"] = next]
    BY <1>19, Threads DEF NotificationCallback, Goes
  <2>2. next \in StepsOf("pnp")
    BY <2>1, Threads DEF StepsOf, InMonitor
  <2>3. monitor.lock' = monitor.lock
    BY <1>19 DEF NotificationCallback, TypeOK
  <2>4. manager.lock' = manager.lock
    BY <1>19 DEF NotificationCallback, TypeOK
  <2>5. /\ monitor.lock' = monitor.lock \/ {monitor.lock, monitor.lock'} \subseteq {"pnp", Nobody}
        /\ "pnp" # "pnp" /\ next \in InMonitor <=> monitor.lock' = "pnp"
    BY <2>1, <2>3, Threads DEF Control, Locks, HoldsMonitor, InMonitor
  <2>6. /\ manager.lock' = manager.lock \/ {manager.lock, manager.lock'} \subseteq {"pnp", Nobody}
        /\ next \in InManager <=> manager.lock' = "pnp"
    BY <2>1, <2>4, Threads DEF Control, Locks, HoldsManager, InManager
  <2> QED BY <2>1, <2>2, <2>5, <2>6, ThreadGoes
<1>20. ASSUME AcquireDeleted PROVE Control'
  <2> DEFINE next == "lost"
  <2>1. "pnp" \in Thread /\ at["pnp"] = "callback" /\ at' = [at EXCEPT !["pnp"] = next]
    BY <1>20, Threads DEF AcquireDeleted, Goes
  <2>2. next \in StepsOf("pnp")
    BY <2>1, Threads DEF StepsOf, InMonitor
  <2>3. monitor.lock' = monitor.lock
    BY <1>20 DEF AcquireDeleted, TypeOK
  <2>4. manager.lock' = manager.lock
    BY <1>20 DEF AcquireDeleted, TypeOK
  <2>5. /\ monitor.lock' = monitor.lock \/ {monitor.lock, monitor.lock'} \subseteq {"pnp", Nobody}
        /\ "pnp" # "pnp" /\ next \in InMonitor <=> monitor.lock' = "pnp"
    BY <2>1, <2>3, Threads DEF Control, Locks, HoldsMonitor, InMonitor
  <2>6. /\ manager.lock' = manager.lock \/ {manager.lock, manager.lock'} \subseteq {"pnp", Nobody}
        /\ next \in InManager <=> manager.lock' = "pnp"
    BY <2>1, <2>4, Threads DEF Control, Locks, HoldsManager, InManager
  <2> QED BY <2>1, <2>2, <2>5, <2>6, ThreadGoes
<1>21. ASSUME Unload PROVE Control'
  <2> DEFINE next == "disable"
  <2>1. "unload" \in Thread /\ at["unload"] = "idle" /\ at' = [at EXCEPT !["unload"] = next]
    BY <1>21, Threads DEF Unload, Goes
  <2>2. next \in StepsOf("unload")
    BY <2>1, Threads DEF StepsOf, InMonitor
  <2>3. monitor.lock' = monitor.lock
    BY <1>21 DEF Unload, TypeOK
  <2>4. manager.lock' = manager.lock
    BY <1>21 DEF Unload, TypeOK
  <2>5. /\ monitor.lock' = monitor.lock \/ {monitor.lock, monitor.lock'} \subseteq {"unload", Nobody}
        /\ "unload" # "pnp" /\ next \in InMonitor <=> monitor.lock' = "unload"
    BY <2>1, <2>3, Threads DEF Control, Locks, HoldsMonitor, InMonitor
  <2>6. /\ manager.lock' = manager.lock \/ {manager.lock, manager.lock'} \subseteq {"unload", Nobody}
        /\ next \in InManager <=> manager.lock' = "unload"
    BY <2>1, <2>4, Threads DEF Control, Locks, HoldsManager, InManager
  <2> QED BY <2>1, <2>2, <2>5, <2>6, ThreadGoes
<1>22. ASSUME DeleteResource PROVE Control'
  <2> DEFINE next == "wait"
  <2>1. "unload" \in Thread /\ at["unload"] = "delete" /\ at' = [at EXCEPT !["unload"] = next]
    BY <1>22, Threads DEF DeleteResource, Goes
  <2>2. next \in StepsOf("unload")
    BY <2>1, Threads DEF StepsOf, InMonitor
  <2>3. monitor.lock' = monitor.lock
    BY <1>22 DEF DeleteResource, TypeOK
  <2>4. manager.lock' = manager.lock
    BY <1>22 DEF DeleteResource, TypeOK
  <2>5. /\ monitor.lock' = monitor.lock \/ {monitor.lock, monitor.lock'} \subseteq {"unload", Nobody}
        /\ "unload" # "pnp" /\ next \in InMonitor <=> monitor.lock' = "unload"
    BY <2>1, <2>3, Threads DEF Control, Locks, HoldsMonitor, InMonitor
  <2>6. /\ manager.lock' = manager.lock \/ {manager.lock, manager.lock'} \subseteq {"unload", Nobody}
        /\ next \in InManager <=> manager.lock' = "unload"
    BY <2>1, <2>4, Threads DEF Control, Locks, HoldsManager, InManager
  <2> QED BY <2>1, <2>2, <2>5, <2>6, ThreadGoes
<1>23. ASSUME StopNotifications PROVE Control'
  <2> DEFINE next == "unloaded"
  <2>1. "unload" \in Thread /\ at["unload"] = "wait" /\ at' = [at EXCEPT !["unload"] = next]
    BY <1>23, Threads DEF StopNotifications, Goes
  <2>2. next \in StepsOf("unload")
    BY <2>1, Threads DEF StepsOf, InMonitor
  <2>3. monitor.lock' = monitor.lock
    BY <1>23 DEF StopNotifications, TypeOK
  <2>4. manager.lock' = manager.lock
    BY <1>23 DEF StopNotifications, TypeOK
  <2>5. /\ monitor.lock' = monitor.lock \/ {monitor.lock, monitor.lock'} \subseteq {"unload", Nobody}
        /\ "unload" # "pnp" /\ next \in InMonitor <=> monitor.lock' = "unload"
    BY <2>1, <2>3, Threads DEF Control, Locks, HoldsMonitor, InMonitor
  <2>6. /\ manager.lock' = manager.lock \/ {manager.lock, manager.lock'} \subseteq {"unload", Nobody}
        /\ next \in InManager <=> manager.lock' = "unload"
    BY <2>1, <2>4, Threads DEF Control, Locks, HoldsManager, InManager
  <2> QED BY <2>1, <2>2, <2>5, <2>6, ThreadGoes
<1>24. ASSUME UNCHANGED <<at, monitor, manager>> PROVE Control'
  BY <1>24 DEF Control, Places, Locks, HoldsMonitor, HoldsManager
<1> QED
  BY <1>1, <1>2, <1>3, <1>4, <1>5, <1>6, <1>7, <1>8, <1>9, <1>10, <1>11, <1>12, <1>13,
     <1>14, <1>15, <1>16, <1>17, <1>18, <1>19, <1>20, <1>21, <1>22, <1>23, <1>24,
     NextIsStep
  DEF ThreadStep, EnableStep, UnregisterStep, DisableStep, Open, EnterHook, LeaveHook,
      MapOriginal, HookCallback, InputStays, vars

-----------------------------------------------------------------------------
(* The unload begins when nobody else can do anything.                     *)
UnloadIsAlone ==
    /\ at["unload"] # "idle" => opened = {} /\ \A t \in Caller : at[t] = "idle"
    /\ ~monitor.resource => at["unload"] # "idle"

(* Who knows which entry.  The caller that registers it ...                *)
Registering == {"register", "create", "install", "store", "enabled", "fail"}

Registers(t) ==
    /\ at[t] \in {"register", "fail"} => manager.entry = None
    /\ at[t] \in Registering => monitor.handle = None /\ enables # None /\ enables \in contexts
    /\ at[t] \in {"create", "install", "store"} => manager.entry = enables
    /\ at[t] = "enabled" =>
          \/ manager.entry = enables
          \/ manager.entry = None /\ at["pnp"] = "callback" /\ told = enables

(* ... the thread that disables the monitor ...                            *)
Unregisters(t) ==
    /\ at[t] \in {"unregister", "unhook", "free entry", "free context"} => monitor.handle # None
    /\ at[t] \in {"unhook", "free entry"} => manager.entry = monitor.handle
    /\ at[t] = "free context" => manager.entry = None /\ at["pnp"] # "callback"

(* ... the notification that frees it and then tells the monitor ...       *)
Notifies ==
    /\ at["pnp"] \in {"unhook", "free entry"} => manager.entry = told /\ told # None
    /\ at["pnp"] = "callback" =>
          /\ manager.entry = None /\ told # None
          /\ monitor.handle = told \/ \E t \in Caller : at[t] = "enabled" /\ enables = told

(* ... and otherwise the monitor.                                          *)
EntryIsKnown ==
    manager.entry # None =>
        /\ manager.entry \in contexts
        /\ \/ monitor.handle = manager.entry
           \/ \E t \in Caller : at[t] \in {"create", "install", "store", "enabled"}

UnloadLeavesNone == at["unload"] \in {"delete", "wait", "unloaded"} => manager.entry = None

Handles ==
    /\ UnloadIsAlone /\ UnloadLeavesNone
    /\ \A t \in Caller : Registers(t)
    /\ \A t \in Caller \cup {"unload"} : Unregisters(t)
    /\ Notifies
    /\ EntryIsKnown

LEMMA OthersAtRest ==
    ASSUME Control, NEW t \in Thread
    PROVE  /\ HoldsMonitor(t) \/ monitor.lock = Nobody =>
                \A u \in Thread \ {t, "pnp"} : at[u] \notin InMonitor
           /\ HoldsManager(t) \/ manager.lock = Nobody =>
                \A u \in Thread \ {t} : at[u] \notin InManager
BY Exclusion DEF HoldsMonitor, HoldsManager

LEMMA HandlesKept ==
    ASSUME Handles, NEW t \in Thread, NEW next,
           at'[t] = next, \A u \in Thread \ {t} : at'[u] = at[u],
           manager.entry' = manager.entry, monitor.handle' = monitor.handle,
           contexts' = contexts, told' = told, enables' = enables, opened' = opened,
           monitor.resource' = monitor.resource \/ t = "unload",
           \/ {at[t], next} \subseteq {"create", "install", "store"}
           \/ {at[t], next} \subseteq {"unhook", "free entry"}
           \/ t = "pnp" /\ at[t] = "callback" /\ next = "lost" /\ at["unload"] # "idle"
           \/ t = "unload" /\ at[t] \in {"delete", "wait"} /\ next \in {"wait", "unloaded"}
    PROVE  Handles'
<1>1. UnloadIsAlone' /\ UnloadLeavesNone'
  BY Threads DEF Handles, UnloadIsAlone, UnloadLeavesNone
<1>2. ASSUME NEW u \in Caller PROVE Registers(u)'
  <2>1. Registers(u)
    BY DEF Handles
  <2>2. ASSUME at[u] = "enabled", at["pnp"] = "callback" PROVE at'["pnp"] = "callback"
    <3>1. at["unload"] = "idle"
      BY <2>2 DEF Handles, UnloadIsAlone
    <3>2. t # "pnp"
      BY <2>2, <3>1
    <3> QED BY <2>2, <3>2, Threads
  <2>3. \/ at'[u] = at[u]
        \/ {at[u], at'[u]} \subseteq {"create", "install", "store"}
        \/ {at[u], at'[u]} \subseteq {"unhook", "free entry"}
    BY Threads
  <2> QED BY <2>1, <2>2, <2>3 DEF Registers, Registering
<1>3. ASSUME NEW u \in Caller \cup {"unload"} PROVE Unregisters(u)'
  BY Threads DEF Handles, Unregisters
<1>4. Notifies'
  BY Threads DEF Handles, Notifies
<1>5. EntryIsKnown'
  BY Threads DEF Handles, EntryIsKnown
<1> QED BY <1>1, <1>2, <1>3, <1>4, <1>5 DEF Handles

LEMMA EnableMonitorHandles ==
    ASSUME Control, Handles, NEW t \in Caller, EnableMonitor(t)
    PROVE  Handles'
<1>1. /\ t \in Thread
      /\ at[t] = "idle"
      /\ t \in opened
      /\ monitor.handle = None
      /\ enables \in Nat
  BY BoundsAreNumbers, Threads DEF EnableMonitor, Goes, Control, TypeOK
<1>2. \A u \in Thread \ {t, "pnp"} : at[u] \notin InMonitor
  BY <1>1, OthersAtRest, Threads
  DEF EnableMonitor, HoldsMonitor, HoldsManager, InMonitor, InManager
<1>3. manager.entry = None
  BY <1>1, <1>2, Threads DEF Handles, EntryIsKnown, InMonitor
<1>4. /\ at'[t] = "register"
      /\ \A u \in Thread \ {t} : at'[u] = at[u]
  BY <1>1, Threads DEF EnableMonitor, Goes, Control, TypeOK
<1>5. /\ manager.entry' = manager.entry
      /\ monitor.handle' = monitor.handle
      /\ contexts' = contexts \cup {enables'}
      /\ told' = told
      /\ enables' = enables + 1
      /\ opened' = opened
      /\ monitor.resource' = monitor.resource
  BY <1>1, <1>2, <1>3, <1>4 DEF EnableMonitor, Control, TypeOK, bounds
<1>6. UnloadIsAlone' /\ UnloadLeavesNone'
  BY <1>1, <1>2, <1>3, <1>4, <1>5, Threads DEF Handles, UnloadIsAlone, UnloadLeavesNone
<1>7. ASSUME NEW u \in Caller PROVE Registers(u)'
  <2>1. CASE u = t
    BY <1>1, <1>2, <1>3, <1>4, <1>5, <2>1 DEF Registers, Registering, None
  <2>2. CASE u # t
    <3>1. at'[u] \notin Registering
      BY <1>1, <1>2, <1>3, <1>4, <1>5, <2>2, Threads DEF InMonitor, Registering
    <3> QED BY <3>1 DEF Registers, Registering
  <2> QED BY <2>1, <2>2
<1>8. ASSUME NEW u \in Caller \cup {"unload"} PROVE Unregisters(u)'
  BY <1>1, <1>2, <1>3, <1>4, <1>5, Threads DEF Handles, Unregisters
<1>9. Notifies'
  BY <1>1, <1>2, <1>3, <1>4, <1>5, Threads DEF Handles, Notifies, InMonitor
<1>10. EntryIsKnown'
  BY <1>1, <1>2, <1>3, <1>4, <1>5, Threads DEF EntryIsKnown
<1> QED BY <1>6, <1>7, <1>8, <1>9, <1>10 DEF Handles

LEMMA RegisterHandles ==
    ASSUME Control, Handles, NEW t \in Caller, Register(t)
    PROVE  Handles'
<1>1. /\ t \in Thread
      /\ at[t] = "register"
  BY BoundsAreNumbers, Threads DEF Register, Goes, Control, TypeOK
<1>2. /\ \A u \in Thread \ {t, "pnp"} : at[u] \notin InMonitor
      /\ \A u \in Thread \ {t} : at[u] \notin InManager
  BY <1>1, OthersAtRest, Threads
  DEF Register, HoldsMonitor, HoldsManager, InMonitor, InManager
<1>3. /\ manager.entry = None
      /\ monitor.handle = None
      /\ enables # None
      /\ enables \in contexts
  BY <1>1, <1>2, Threads DEF Handles, Registers, Registering
<1>4. /\ at'[t] = "create"
      /\ \A u \in Thread \ {t} : at'[u] = at[u]
  BY <1>1, <1>2, <1>3, Threads DEF Register, Goes, Control, TypeOK
<1>5. /\ manager.entry' = enables
      /\ monitor.handle' = monitor.handle
      /\ contexts' = contexts
      /\ told' = told
      /\ enables' = enables
      /\ opened' = opened
      /\ monitor.resource' = monitor.resource
  BY <1>1, <1>2, <1>3, <1>4 DEF Register, Control, TypeOK, bounds
<1>6. UnloadIsAlone' /\ UnloadLeavesNone'
  BY <1>1, <1>2, <1>3, <1>4, <1>5, Threads DEF Handles, UnloadIsAlone, UnloadLeavesNone
<1>7. ASSUME NEW u \in Caller PROVE Registers(u)'
  BY <1>1, <1>2, <1>3, <1>4, <1>5, Threads DEF Registers, Registering, InMonitor
<1>8. ASSUME NEW u \in Caller \cup {"unload"} PROVE Unregisters(u)'
  BY <1>1, <1>2, <1>3, <1>4, <1>5, Threads DEF Handles, Unregisters
<1>9. Notifies'
  BY <1>1, <1>2, <1>3, <1>4, <1>5, Threads DEF Handles, Notifies, InMonitor
<1>10. EntryIsKnown'
  BY <1>1, <1>2, <1>3, <1>4, <1>5, Threads DEF EntryIsKnown
<1> QED BY <1>6, <1>7, <1>8, <1>9, <1>10 DEF Handles

LEMMA CreateFailsHandles ==
    ASSUME Control, Handles, NEW t \in Caller, CreateFails(t)
    PROVE  Handles'
<1>1. /\ t \in Thread
      /\ at[t] = "create"
  BY BoundsAreNumbers, Threads DEF CreateFails, Goes, Control, TypeOK
<1>2. /\ \A u \in Thread \ {t, "pnp"} : at[u] \notin InMonitor
      /\ \A u \in Thread \ {t} : at[u] \notin InManager
  BY <1>1, OthersAtRest, Threads
  DEF CreateFails, HoldsMonitor, HoldsManager, InMonitor, InManager
<1>3. /\ at'[t] = "fail"
      /\ \A u \in Thread \ {t} : at'[u] = at[u]
  BY <1>1, Threads DEF CreateFails, Goes, Control, TypeOK
<1>4. /\ manager.entry' = None
      /\ monitor.handle' = monitor.handle
      /\ contexts' = contexts
      /\ told' = told
      /\ enables' = enables
      /\ opened' = opened
      /\ monitor.resource' = monitor.resource
  BY <1>1, <1>2, <1>3 DEF CreateFails, Control, TypeOK, bounds
<1>5. UnloadIsAlone' /\ UnloadLeavesNone'
  BY <1>1, <1>2, <1>3, <1>4, Threads DEF Handles, UnloadIsAlone, UnloadLeavesNone
<1>6. ASSUME NEW u \in Caller PROVE Registers(u)'
  BY <1>1, <1>2, <1>3, <1>4, Threads DEF Handles, Registers, Registering, InMonitor
<1>7. ASSUME NEW u \in Caller \cup {"unload"} PROVE Unregisters(u)'
  BY <1>1, <1>2, <1>3, <1>4, Threads DEF Unregisters, InMonitor
<1>8. Notifies'
  BY <1>1, <1>2, <1>3, <1>4, Threads DEF Handles, Notifies, InManager
<1>9. EntryIsKnown'
  BY <1>1, <1>2, <1>3, <1>4, Threads DEF EntryIsKnown
<1> QED BY <1>5, <1>6, <1>7, <1>8, <1>9 DEF Handles

LEMMA ActivateHandles ==
    ASSUME Control, Handles, NEW t \in Caller, Activate(t)
    PROVE  Handles'
<1>1. /\ t \in Thread
      /\ at[t] = "install"
  BY BoundsAreNumbers, Threads DEF Activate, Goes, Control, TypeOK
<1>2. /\ \A u \in Thread \ {t, "pnp"} : at[u] \notin InMonitor
      /\ \A u \in Thread \ {t} : at[u] \notin InManager
  BY <1>1, OthersAtRest, Threads
  DEF Activate, HoldsMonitor, HoldsManager, InMonitor, InManager
<1>3. /\ at'[t] = "enabled"
      /\ \A u \in Thread \ {t} : at'[u] = at[u]
  BY <1>1, Threads DEF Activate, Goes, Control, TypeOK
<1>4. /\ manager.entry' = manager.entry
      /\ monitor.handle' = monitor.handle
      /\ contexts' = contexts
      /\ told' = told
      /\ enables' = enables
      /\ opened' = opened
      /\ monitor.resource' = monitor.resource
  BY <1>1, <1>2, <1>3 DEF Activate, Control, TypeOK, bounds
<1>5. UnloadIsAlone' /\ UnloadLeavesNone'
  BY <1>1, <1>2, <1>3, <1>4, Threads DEF Handles, UnloadIsAlone, UnloadLeavesNone
<1>6. ASSUME NEW u \in Caller PROVE Registers(u)'
  BY <1>1, <1>2, <1>3, <1>4, Threads DEF Handles, Registers, Registering
<1>7. ASSUME NEW u \in Caller \cup {"unload"} PROVE Unregisters(u)'
  BY <1>1, <1>2, <1>3, <1>4, Threads DEF Handles, Unregisters
<1>8. Notifies'
  BY <1>1, <1>2, <1>3, <1>4, Threads DEF Handles, Notifies
<1>9. EntryIsKnown'
  BY <1>1, <1>2, <1>3, <1>4, Threads DEF Handles, EntryIsKnown
<1> QED BY <1>5, <1>6, <1>7, <1>8, <1>9 DEF Handles

LEMMA EnabledHandles ==
    ASSUME Control, Handles, NEW t \in Caller, Enabled(t)
    PROVE  Handles'
<1>1. /\ t \in Thread
      /\ at[t] = "enabled"
  BY BoundsAreNumbers, Threads DEF Enabled, Goes, Control, TypeOK
<1>2. \A u \in Thread \ {t, "pnp"} : at[u] \notin InMonitor
  BY <1>1, OthersAtRest, Threads
  DEF Enabled, HoldsMonitor, HoldsManager, InMonitor, InManager
<1>3. /\ at'[t] = "idle"
      /\ \A u \in Thread \ {t} : at'[u] = at[u]
  BY <1>1, Threads DEF Enabled, Goes, Control, TypeOK
<1>4. /\ manager.entry' = manager.entry
      /\ monitor.handle' = enables
      /\ contexts' = contexts
      /\ told' = told
      /\ enables' = enables
      /\ opened' = opened
      /\ monitor.resource' = monitor.resource
  BY <1>1, <1>2, <1>3 DEF Enabled, Control, TypeOK, bounds
<1>5. UnloadIsAlone' /\ UnloadLeavesNone'
  BY <1>1, <1>2, <1>3, <1>4, Threads DEF Handles, UnloadIsAlone, UnloadLeavesNone
<1>6. ASSUME NEW u \in Caller PROVE Registers(u)'
  <2>1. at'[u] \notin Registering
    BY <1>1, <1>2, <1>3, <1>4, Threads DEF InMonitor, Registering
  <2> QED BY <2>1 DEF Registers, Registering
<1>7. ASSUME NEW u \in Caller \cup {"unload"} PROVE Unregisters(u)'
  BY <1>1, <1>2, <1>3, <1>4, Threads DEF Unregisters, InMonitor
<1>8. Notifies'
  BY <1>1, <1>2, <1>3, <1>4, Threads
  DEF Handles, Notifies, InMonitor, InManager, Registers, Registering, EntryIsKnown
<1>9. EntryIsKnown'
  BY <1>1, <1>2, <1>3, <1>4, Threads DEF Handles, EntryIsKnown, Registers, Registering
<1> QED BY <1>5, <1>6, <1>7, <1>8, <1>9 DEF Handles

LEMMA EnableFailsHandles ==
    ASSUME Control, Handles, NEW t \in Caller, EnableFails(t)
    PROVE  Handles'
<1>1. /\ t \in Thread
      /\ at[t] = "fail"
  BY BoundsAreNumbers, Threads DEF EnableFails, Goes, Control, TypeOK
<1>2. \A u \in Thread \ {t, "pnp"} : at[u] \notin InMonitor
  BY <1>1, OthersAtRest, Threads
  DEF EnableFails, HoldsMonitor, HoldsManager, InMonitor, InManager
<1>3. /\ at'[t] = "idle"
      /\ \A u \in Thread \ {t} : at'[u] = at[u]
  BY <1>1, Threads DEF EnableFails, Goes, Control, TypeOK
<1>4. /\ manager.entry' = manager.entry
      /\ monitor.handle' = monitor.handle
      /\ contexts' = contexts \ {enables}
      /\ told' = told
      /\ enables' = enables
      /\ opened' = opened
      /\ monitor.resource' = monitor.resource
  BY <1>1, <1>2, <1>3 DEF EnableFails, Control, TypeOK, bounds
<1>5. UnloadIsAlone' /\ UnloadLeavesNone'
  BY <1>1, <1>2, <1>3, <1>4, Threads DEF Handles, UnloadIsAlone, UnloadLeavesNone
<1>6. ASSUME NEW u \in Caller PROVE Registers(u)'
  BY <1>1, <1>2, <1>3, <1>4, Threads DEF Registers, Registering, InMonitor
<1>7. ASSUME NEW u \in Caller \cup {"unload"} PROVE Unregisters(u)'
  BY <1>1, <1>2, <1>3, <1>4, Threads DEF Handles, Unregisters
<1>8. Notifies'
  BY <1>1, <1>2, <1>3, <1>4, Threads DEF Handles, Notifies
<1>9. EntryIsKnown'
  BY <1>1, <1>2, <1>3, <1>4, Threads DEF Handles, EntryIsKnown, Registers, Registering
<1> QED BY <1>5, <1>6, <1>7, <1>8, <1>9 DEF Handles

LEMMA FreeEntryHandles ==
    ASSUME Control, Handles, NEW t \in Thread \ {"pnp"}, FreeEntry(t)
    PROVE  Handles'
<1>1. /\ t \in Thread
      /\ at[t] = "free entry"
  BY BoundsAreNumbers, Threads DEF FreeEntry, Goes, Control, TypeOK
<1>2. /\ \A u \in Thread \ {t, "pnp"} : at[u] \notin InMonitor
      /\ \A u \in Thread \ {t} : at[u] \notin InManager
  BY <1>1, OthersAtRest, Threads
  DEF FreeEntry, HoldsMonitor, HoldsManager, InMonitor, InManager
<1>3. /\ at["pnp"] # "callback"
      /\ monitor.handle # None
  BY <1>1, <1>2, Threads DEF Handles, Unregisters, Notifies, Thread
<1>4. /\ at'[t] = "free context"
      /\ \A u \in Thread \ {t} : at'[u] = at[u]
  BY <1>1, Threads DEF FreeEntry, Goes, Control, TypeOK
<1>5. /\ manager.entry' = None
      /\ monitor.handle' = monitor.handle
      /\ contexts' = contexts
      /\ told' = told
      /\ enables' = enables
      /\ opened' = opened
      /\ monitor.resource' = monitor.resource
  BY <1>1, <1>2, <1>3, <1>4 DEF FreeEntry, Control, TypeOK, bounds
<1>6. UnloadIsAlone' /\ UnloadLeavesNone'
  BY <1>1, <1>2, <1>3, <1>4, <1>5, Threads DEF Handles, UnloadIsAlone, UnloadLeavesNone
<1>7. ASSUME NEW u \in Caller PROVE Registers(u)'
  BY <1>1, <1>2, <1>3, <1>4, <1>5, Threads DEF Handles, Registers, Registering
<1>8. ASSUME NEW u \in Caller \cup {"unload"} PROVE Unregisters(u)'
  <2>1. CASE u = t
    BY <1>1, <1>2, <1>3, <1>4, <1>5, <2>1, Threads DEF Unregisters
  <2>2. CASE u # t
    <3>1. at'[u] \notin InMonitor
      BY <1>1, <1>2, <1>3, <1>4, <1>5, <2>2, Threads
    <3> QED BY <3>1 DEF Unregisters, InMonitor
  <2> QED BY <2>1, <2>2
<1>9. Notifies'
  BY <1>1, <1>2, <1>3, <1>4, <1>5, Threads DEF Handles, Notifies, InManager
<1>10. EntryIsKnown'
  BY <1>1, <1>2, <1>3, <1>4, <1>5, Threads DEF EntryIsKnown
<1> QED BY <1>6, <1>7, <1>8, <1>9, <1>10 DEF Handles

LEMMA FreeEntryNotifyingHandles ==
    ASSUME Control, Handles, FreeEntry("pnp")
    PROVE  Handles'
<1>1. /\ "pnp" \in Thread
      /\ at["pnp"] = "free entry"
  BY BoundsAreNumbers, Threads DEF FreeEntry, Goes, Control, TypeOK
<1>2. \A u \in Thread \ {"pnp"} : at[u] \notin InManager
  BY <1>1, OthersAtRest, Threads
  DEF FreeEntry, HoldsMonitor, HoldsManager, InMonitor, InManager
<1>3. /\ at'["pnp"] = "callback"
      /\ \A u \in Thread \ {"pnp"} : at'[u] = at[u]
  BY <1>1, Threads DEF FreeEntry, Goes, Control, TypeOK
<1>4. /\ manager.entry' = None
      /\ monitor.handle' = monitor.handle
      /\ contexts' = contexts
      /\ told' = told
      /\ enables' = enables
      /\ opened' = opened
      /\ monitor.resource' = monitor.resource
  BY <1>1, <1>2, <1>3 DEF FreeEntry, Control, TypeOK, bounds
<1>5. UnloadIsAlone' /\ UnloadLeavesNone'
  BY <1>1, <1>2, <1>3, <1>4, Threads DEF Handles, UnloadIsAlone, UnloadLeavesNone
<1>6. ASSUME NEW u \in Caller PROVE Registers(u)'
  BY <1>1, <1>2, <1>3, <1>4, Threads
  DEF Handles, Registers, Registering, InMonitor, InManager, Notifies, Unregisters
<1>7. ASSUME NEW u \in Caller \cup {"unload"} PROVE Unregisters(u)'
  BY <1>1, <1>2, <1>3, <1>4, Threads
  DEF Handles, Unregisters, InMonitor, InManager, Registers, Registering, EntryIsKnown,
      Notifies
<1>8. Notifies'
  BY <1>1, <1>2, <1>3, <1>4, Threads
  DEF Handles, Notifies, EntryIsKnown, Registers, InManager
<1>9. EntryIsKnown'
  BY <1>1, <1>2, <1>3, <1>4, Threads DEF EntryIsKnown
<1> QED BY <1>5, <1>6, <1>7, <1>8, <1>9 DEF Handles

LEMMA DisableMonitorHandles ==
    ASSUME Control, Handles, NEW t \in Thread \ {"pnp"}, DisableMonitor(t)
    PROVE  Handles'
<1>1. /\ t \in Thread
      /\ at[t] = (IF t = "unload" THEN "disable" ELSE "idle")
      /\ (t = "unload" \/ t \in opened)
      /\ monitor.handle # None
  BY BoundsAreNumbers, Threads DEF DisableMonitor, Goes, Control, TypeOK
<1>2. \A u \in Thread \ {t, "pnp"} : at[u] \notin InMonitor
  BY <1>1, OthersAtRest, Threads
  DEF DisableMonitor, HoldsMonitor, HoldsManager, InMonitor, InManager
<1>3. /\ at'[t] = "unregister"
      /\ \A u \in Thread \ {t} : at'[u] = at[u]
  BY <1>1, Threads DEF DisableMonitor, Goes, Control, TypeOK
<1>4. /\ manager.entry' = manager.entry
      /\ monitor.handle' = monitor.handle
      /\ contexts' = contexts
      /\ told' = told
      /\ enables' = enables
      /\ opened' \in {opened, opened \ {t}}
      /\ monitor.resource' = monitor.resource
  BY <1>1, <1>2, <1>3 DEF DisableMonitor, Control, TypeOK, bounds
<1>5. UnloadIsAlone' /\ UnloadLeavesNone'
  BY <1>1, <1>2, <1>3, <1>4, Threads DEF Handles, UnloadIsAlone, UnloadLeavesNone
<1>6. ASSUME NEW u \in Caller PROVE Registers(u)'
  BY <1>1, <1>2, <1>3, <1>4, Threads DEF Handles, Registers, Registering
<1>7. ASSUME NEW u \in Caller \cup {"unload"} PROVE Unregisters(u)'
  BY <1>1, <1>2, <1>3, <1>4, Threads DEF Handles, Unregisters
<1>8. Notifies'
  BY <1>1, <1>2, <1>3, <1>4, Threads DEF Handles, Notifies
<1>9. EntryIsKnown'
  BY <1>1, <1>2, <1>3, <1>4, Threads DEF Handles, EntryIsKnown
<1> QED BY <1>5, <1>6, <1>7, <1>8, <1>9 DEF Handles

LEMMA NotEnabledHandles ==
    ASSUME Control, Handles, NEW t \in Thread \ {"pnp"}, NotEnabled(t)
    PROVE  Handles'
<1>1. /\ t \in Thread
      /\ at[t] = (IF t = "unload" THEN "disable" ELSE "idle")
      /\ (t = "unload" \/ t \in opened)
      /\ monitor.handle = None
  BY BoundsAreNumbers, Threads DEF NotEnabled, Goes, Control, TypeOK
<1>2. \A u \in Thread \ {t, "pnp"} : at[u] \notin InMonitor
  BY <1>1, OthersAtRest, Threads
  DEF NotEnabled, HoldsMonitor, HoldsManager, InMonitor, InManager
<1>3. /\ at'[t] = Back(t)
      /\ \A u \in Thread \ {t} : at'[u] = at[u]
  BY <1>1, Threads DEF NotEnabled, Goes, Control, TypeOK
<1>4. /\ manager.entry' = manager.entry
      /\ monitor.handle' = monitor.handle
      /\ contexts' = contexts
      /\ told' = told
      /\ enables' = enables
      /\ opened' = opened \ {t}
      /\ monitor.resource' = monitor.resource
  BY <1>1, <1>2, <1>3 DEF NotEnabled, Control, TypeOK, bounds
<1>5. UnloadIsAlone' /\ UnloadLeavesNone'
  BY <1>1, <1>2, <1>3, <1>4, Threads
  DEF Handles, UnloadIsAlone, UnloadLeavesNone, EntryIsKnown, Back
<1>6. ASSUME NEW u \in Caller PROVE Registers(u)'
  BY <1>1, <1>2, <1>3, <1>4, Threads DEF Handles, Registers, Registering, Back
<1>7. ASSUME NEW u \in Caller \cup {"unload"} PROVE Unregisters(u)'
  BY <1>1, <1>2, <1>3, <1>4, Threads DEF Handles, Unregisters, Back
<1>8. Notifies'
  BY <1>1, <1>2, <1>3, <1>4, Threads DEF Handles, Notifies, Back
<1>9. EntryIsKnown'
  BY <1>1, <1>2, <1>3, <1>4, Threads DEF Handles, EntryIsKnown, Back
<1> QED BY <1>5, <1>6, <1>7, <1>8, <1>9 DEF Handles

LEMMA InvalidHandleHandles ==
    ASSUME Control, Handles, NEW t \in Thread \ {"pnp"}, InvalidHandle(t)
    PROVE  Handles'
<1>1. /\ t \in Thread
      /\ at[t] = "unregister"
      /\ manager.entry # monitor.handle
  BY BoundsAreNumbers, Threads DEF InvalidHandle, Goes, Control, TypeOK
<1>2. /\ \A u \in Thread \ {t, "pnp"} : at[u] \notin InMonitor
      /\ \A u \in Thread \ {t} : at[u] \notin InManager
  BY <1>1, OthersAtRest, Threads
  DEF InvalidHandle, HoldsMonitor, HoldsManager, InMonitor, InManager
<1>3. /\ at'[t] = Back(t)
      /\ \A u \in Thread \ {t} : at'[u] = at[u]
  BY <1>1, Threads DEF InvalidHandle, Goes, Control, TypeOK
<1>4. /\ manager.entry' = manager.entry
      /\ monitor.handle' = monitor.handle
      /\ contexts' = contexts
      /\ told' = told
      /\ enables' = enables
      /\ opened' = opened
      /\ monitor.resource' = monitor.resource
  BY <1>1, <1>2, <1>3 DEF InvalidHandle, Control, TypeOK, bounds
<1>5. UnloadIsAlone' /\ UnloadLeavesNone'
  BY <1>1, <1>2, <1>3, <1>4, Threads
  DEF Handles, UnloadIsAlone, UnloadLeavesNone, EntryIsKnown, Back
<1>6. ASSUME NEW u \in Caller PROVE Registers(u)'
  BY <1>1, <1>2, <1>3, <1>4, Threads DEF Handles, Registers, Registering, Back
<1>7. ASSUME NEW u \in Caller \cup {"unload"} PROVE Unregisters(u)'
  BY <1>1, <1>2, <1>3, <1>4, Threads DEF Handles, Unregisters, Back
<1>8. Notifies'
  BY <1>1, <1>2, <1>3, <1>4, Threads DEF Handles, Notifies, Back
<1>9. EntryIsKnown'
  BY <1>1, <1>2, <1>3, <1>4, Threads DEF Handles, EntryIsKnown, Back
<1> QED BY <1>5, <1>6, <1>7, <1>8, <1>9 DEF Handles

LEMMA UnregisterHandles ==
    ASSUME Control, Handles, NEW t \in Thread \ {"pnp"}, Unregister(t)
    PROVE  Handles'
<1>1. /\ t \in Thread
      /\ at[t] = "unregister"
      /\ manager.entry = monitor.handle
  BY BoundsAreNumbers, Threads DEF Unregister, Goes, Control, TypeOK
<1>2. /\ \A u \in Thread \ {t, "pnp"} : at[u] \notin InMonitor
      /\ \A u \in Thread \ {t} : at[u] \notin InManager
  BY <1>1, OthersAtRest, Threads
  DEF Unregister, HoldsMonitor, HoldsManager, InMonitor, InManager
<1>3. /\ at'[t] = (IF manager.active THEN "unhook" ELSE "free entry")
      /\ \A u \in Thread \ {t} : at'[u] = at[u]
  BY <1>1, Threads DEF Unregister, Goes, Control, TypeOK
<1>4. /\ manager.entry' = manager.entry
      /\ monitor.handle' = monitor.handle
      /\ contexts' = contexts
      /\ told' = told
      /\ enables' = enables
      /\ opened' = opened
      /\ monitor.resource' = monitor.resource
  BY <1>1, <1>2, <1>3 DEF Unregister, Control, TypeOK, bounds
<1>5. UnloadIsAlone' /\ UnloadLeavesNone'
  BY <1>1, <1>2, <1>3, <1>4, Threads DEF Handles, UnloadIsAlone, UnloadLeavesNone
<1>6. ASSUME NEW u \in Caller PROVE Registers(u)'
  BY <1>1, <1>2, <1>3, <1>4, Threads DEF Handles, Registers, Registering
<1>7. ASSUME NEW u \in Caller \cup {"unload"} PROVE Unregisters(u)'
  BY <1>1, <1>2, <1>3, <1>4, Threads DEF Handles, Unregisters
<1>8. Notifies'
  BY <1>1, <1>2, <1>3, <1>4, Threads DEF Handles, Notifies
<1>9. EntryIsKnown'
  BY <1>1, <1>2, <1>3, <1>4, Threads DEF Handles, EntryIsKnown
<1> QED BY <1>5, <1>6, <1>7, <1>8, <1>9 DEF Handles

LEMMA DisabledHandles ==
    ASSUME Control, Handles, NEW t \in Thread \ {"pnp"}, Disabled(t)
    PROVE  Handles'
<1>1. /\ t \in Thread
      /\ at[t] = "free context"
  BY BoundsAreNumbers, Threads DEF Disabled, Goes, Control, TypeOK
<1>2. \A u \in Thread \ {t, "pnp"} : at[u] \notin InMonitor
  BY <1>1, OthersAtRest, Threads
  DEF Disabled, HoldsMonitor, HoldsManager, InMonitor, InManager
<1>3. /\ manager.entry = None
      /\ at["pnp"] \notin {"callback", "unhook", "free entry"}
  BY <1>1, <1>2, Threads DEF Handles, Unregisters, Notifies, Thread
<1>4. /\ at'[t] = Back(t)
      /\ \A u \in Thread \ {t} : at'[u] = at[u]
  BY <1>1, Threads DEF Disabled, Goes, Control, TypeOK
<1>5. /\ manager.entry' = manager.entry
      /\ monitor.handle' = None
      /\ contexts' = contexts \ {monitor.handle}
      /\ told' = told
      /\ enables' = enables
      /\ opened' = opened
      /\ monitor.resource' = monitor.resource
  BY <1>1, <1>2, <1>3, <1>4 DEF Disabled, Control, TypeOK, bounds
<1>6. UnloadIsAlone' /\ UnloadLeavesNone'
  BY <1>1, <1>2, <1>3, <1>4, <1>5, Threads
  DEF Handles, UnloadIsAlone, UnloadLeavesNone, Back
<1>7. ASSUME NEW u \in Caller PROVE Registers(u)'
  BY <1>1, <1>2, <1>3, <1>4, <1>5, Threads DEF Handles, Registers, Registering, Back
<1>8. ASSUME NEW u \in Caller \cup {"unload"} PROVE Unregisters(u)'
  BY <1>1, <1>2, <1>3, <1>4, <1>5, Threads DEF Unregisters, InMonitor, Back
<1>9. Notifies'
  BY <1>1, <1>2, <1>3, <1>4, <1>5, Threads DEF Notifies, Back
<1>10. EntryIsKnown'
  BY <1>1, <1>2, <1>3, <1>4, <1>5, Threads DEF EntryIsKnown, Back
<1> QED BY <1>6, <1>7, <1>8, <1>9, <1>10 DEF Handles

LEMMA NotifyHandles ==
    ASSUME Control, Handles, Notify
    PROVE  Handles'
<1>1. /\ "pnp" \in Thread
      /\ at["pnp"] = "idle"
      /\ manager.entry # None
  BY BoundsAreNumbers, Threads DEF Notify, Goes, Control, TypeOK
<1>2. \A u \in Thread \ {"pnp"} : at[u] \notin InManager
  BY <1>1, OthersAtRest, Threads
  DEF Notify, HoldsMonitor, HoldsManager, InMonitor, InManager
<1>3. /\ at'["pnp"] = (IF manager.active THEN "unhook" ELSE "free entry")
      /\ \A u \in Thread \ {"pnp"} : at'[u] = at[u]
  BY <1>1, Threads DEF Notify, Goes, Control, TypeOK
<1>4. /\ manager.entry' = manager.entry
      /\ monitor.handle' = monitor.handle
      /\ contexts' = contexts
      /\ told' = manager.entry
      /\ enables' = enables
      /\ opened' = opened
      /\ monitor.resource' = monitor.resource
  BY <1>1, <1>2, <1>3 DEF Notify, Control, TypeOK, bounds
<1>5. UnloadIsAlone' /\ UnloadLeavesNone'
  BY <1>1, <1>2, <1>3, <1>4, Threads DEF Handles, UnloadIsAlone, UnloadLeavesNone
<1>6. ASSUME NEW u \in Caller PROVE Registers(u)'
  BY <1>1, <1>2, <1>3, <1>4, Threads DEF Handles, Registers, Registering
<1>7. ASSUME NEW u \in Caller \cup {"unload"} PROVE Unregisters(u)'
  BY <1>1, <1>2, <1>3, <1>4, Threads DEF Handles, Unregisters
<1>8. Notifies'
  BY <1>1, <1>2, <1>3, <1>4, Threads DEF Notifies
<1>9. EntryIsKnown'
  BY <1>1, <1>2, <1>3, <1>4, Threads DEF Handles, EntryIsKnown
<1> QED BY <1>5, <1>6, <1>7, <1>8, <1>9 DEF Handles

LEMMA NotificationCallbackHandles ==
    ASSUME Control, Handles, NotificationCallback
    PROVE  Handles'
<1>1. /\ "pnp" \in Thread
      /\ at["pnp"] = "callback"
  BY BoundsAreNumbers, Threads DEF NotificationCallback, Goes, Control, TypeOK
<1>2. \A u \in Thread \ {"pnp"} : at[u] \notin InMonitor
  BY <1>1, OthersAtRest, Threads
  DEF NotificationCallback, HoldsMonitor, HoldsManager, InMonitor, InManager
<1>3. /\ manager.entry = None
      /\ monitor.handle = told
  BY <1>1, <1>2, Threads DEF Handles, Notifies, InMonitor
<1>4. /\ at'["pnp"] = "idle"
      /\ \A u \in Thread \ {"pnp"} : at'[u] = at[u]
  BY <1>1, Threads DEF NotificationCallback, Goes, Control, TypeOK
<1>5. /\ manager.entry' = manager.entry
      /\ monitor.handle' = None
      /\ contexts' = contexts \ {told}
      /\ told' = None
      /\ enables' = enables
      /\ opened' = opened
      /\ monitor.resource' = monitor.resource
  BY <1>1, <1>2, <1>3, <1>4 DEF NotificationCallback, Control, TypeOK, bounds
<1>6. UnloadIsAlone' /\ UnloadLeavesNone'
  BY <1>1, <1>2, <1>3, <1>4, <1>5, Threads DEF Handles, UnloadIsAlone, UnloadLeavesNone
<1>7. ASSUME NEW u \in Caller PROVE Registers(u)'
  BY <1>1, <1>2, <1>3, <1>4, <1>5, Threads DEF Handles, Registers, Registering
<1>8. ASSUME NEW u \in Caller \cup {"unload"} PROVE Unregisters(u)'
  BY <1>1, <1>2, <1>3, <1>4, <1>5, Threads DEF Unregisters, InMonitor
<1>9. Notifies'
  BY <1>1, <1>2, <1>3, <1>4, <1>5, Threads DEF Notifies
<1>10. EntryIsKnown'
  BY <1>1, <1>2, <1>3, <1>4, <1>5, Threads DEF EntryIsKnown
<1> QED BY <1>6, <1>7, <1>8, <1>9, <1>10 DEF Handles

LEMMA UnloadHandles ==
    ASSUME Control, Handles, Unload
    PROVE  Handles'
<1>1. /\ "unload" \in Thread
      /\ at["unload"] = "idle"
      /\ opened = {}
      /\ \A u \in Caller : at[u] = "idle"
  BY BoundsAreNumbers, Threads DEF Unload, Goes, Control, TypeOK
<1>2. /\ at'["unload"] = "disable"
      /\ \A u \in Thread \ {"unload"} : at'[u] = at[u]
  BY <1>1, Threads DEF Unload, Goes, Control, TypeOK
<1>3. /\ manager.entry' = manager.entry
      /\ monitor.handle' = monitor.handle
      /\ contexts' = contexts
      /\ told' = told
      /\ enables' = enables
      /\ opened' = opened
      /\ monitor.resource' = monitor.resource
  BY <1>1, <1>2 DEF Unload, Control, TypeOK, bounds
<1>4. UnloadIsAlone' /\ UnloadLeavesNone'
  BY <1>1, <1>2, <1>3, Threads DEF Handles, UnloadIsAlone, UnloadLeavesNone
<1>5. ASSUME NEW u \in Caller PROVE Registers(u)'
  BY <1>1, <1>2, <1>3, Threads DEF Registers, Registering
<1>6. ASSUME NEW u \in Caller \cup {"unload"} PROVE Unregisters(u)'
  BY <1>1, <1>2, <1>3, Threads DEF Unregisters
<1>7. Notifies'
  BY <1>1, <1>2, <1>3, Threads DEF Handles, Notifies
<1>8. EntryIsKnown'
  BY <1>1, <1>2, <1>3, Threads DEF Handles, EntryIsKnown
<1> QED BY <1>4, <1>5, <1>6, <1>7, <1>8 DEF Handles

LEMMA HandlesInductive ==
    ASSUME Control, Handles, [Next]_vars
    PROVE  Handles'
<1>1. ASSUME NEW t \in Caller, CreateHookContext(t) PROVE Handles'
  <2>1. /\ t \in Thread /\ at'[t] = "install"
        /\ \A u \in Thread \ {t} : at'[u] = at[u]
    BY <1>1, Threads DEF CreateHookContext, Goes, Control, TypeOK
  <2>2. /\ manager.entry' = manager.entry /\ monitor.handle' = monitor.handle
        /\ UNCHANGED <<contexts, told, enables, opened>>
        /\ monitor.resource' = monitor.resource \/ t = "unload"
    BY <1>1 DEF CreateHookContext, Control, TypeOK, bounds
  <2> QED BY <1>1, <2>1, <2>2, HandlesKept DEF CreateHookContext, Goes
<1>2. ASSUME NEW t \in Caller, NEW m \in Mice, Exchange(t, m) PROVE Handles'
  <2>1. /\ t \in Thread /\ at'[t] = "store"
        /\ \A u \in Thread \ {t} : at'[u] = at[u]
    BY <1>2, Threads DEF Exchange, Goes, Control, TypeOK
  <2>2. /\ manager.entry' = manager.entry /\ monitor.handle' = monitor.handle
        /\ UNCHANGED <<contexts, told, enables, opened>>
        /\ monitor.resource' = monitor.resource \/ t = "unload"
    BY <1>2 DEF Exchange, Control, TypeOK, bounds
  <2> QED BY <1>2, <2>1, <2>2, HandlesKept DEF Exchange, Goes
<1>3. ASSUME NEW t \in Caller, StoreOriginal(t) PROVE Handles'
  <2>1. /\ t \in Thread /\ at'[t] = "install"
        /\ \A u \in Thread \ {t} : at'[u] = at[u]
    BY <1>3, Threads DEF StoreOriginal, Goes, Control, TypeOK
  <2>2. /\ manager.entry' = manager.entry /\ monitor.handle' = monitor.handle
        /\ UNCHANGED <<contexts, told, enables, opened>>
        /\ monitor.resource' = monitor.resource \/ t = "unload"
    BY <1>3 DEF StoreOriginal, Control, TypeOK, bounds
  <2> QED BY <1>3, <2>1, <2>2, HandlesKept DEF StoreOriginal, Goes
<1>4. ASSUME NEW t \in Thread, NEW m \in Mice, Uninstall(t, m) PROVE Handles'
  <2>1. /\ t \in Thread /\ at'[t] = "unhook"
        /\ \A u \in Thread \ {t} : at'[u] = at[u]
    BY <1>4, Threads DEF Uninstall, Goes, Control, TypeOK
  <2>2. /\ manager.entry' = manager.entry /\ monitor.handle' = monitor.handle
        /\ UNCHANGED <<contexts, told, enables, opened>>
        /\ monitor.resource' = monitor.resource \/ t = "unload"
    BY <1>4 DEF Uninstall, Control, TypeOK, bounds
  <2> QED BY <1>4, <2>1, <2>2, HandlesKept DEF Uninstall, Goes
<1>5. ASSUME NEW t \in Thread, Delay(t) PROVE Handles'
  <2>1. /\ t \in Thread /\ at'[t] = "free entry"
        /\ \A u \in Thread \ {t} : at'[u] = at[u]
    BY <1>5, Threads DEF Delay, Goes, Control, TypeOK
  <2>2. /\ manager.entry' = manager.entry /\ monitor.handle' = monitor.handle
        /\ UNCHANGED <<contexts, told, enables, opened>>
        /\ monitor.resource' = monitor.resource \/ t = "unload"
    BY <1>5 DEF Delay, Control, TypeOK, bounds
  <2> QED BY <1>5, <2>1, <2>2, HandlesKept DEF Delay, Goes
<1>6. ASSUME AcquireDeleted PROVE Handles'
  <2>1. /\ "pnp" \in Thread /\ at'["pnp"] = "lost"
        /\ \A u \in Thread \ {"pnp"} : at'[u] = at[u]
    BY <1>6, Threads DEF AcquireDeleted, Goes, Control, TypeOK
  <2>2. /\ manager.entry' = manager.entry /\ monitor.handle' = monitor.handle
        /\ UNCHANGED <<contexts, told, enables, opened>>
        /\ monitor.resource' = monitor.resource \/ "pnp" = "unload"
    BY <1>6 DEF AcquireDeleted, Control, TypeOK, bounds
  <2> QED BY <1>6, <2>1, <2>2, HandlesKept DEF AcquireDeleted, Goes, Handles, UnloadIsAlone
<1>7. ASSUME DeleteResource PROVE Handles'
  <2>1. /\ "unload" \in Thread /\ at'["unload"] = "wait"
        /\ \A u \in Thread \ {"unload"} : at'[u] = at[u]
    BY <1>7, Threads DEF DeleteResource, Goes, Control, TypeOK
  <2>2. /\ manager.entry' = manager.entry /\ monitor.handle' = monitor.handle
        /\ UNCHANGED <<contexts, told, enables, opened>>
        /\ monitor.resource' = monitor.resource \/ "unload" = "unload"
    BY <1>7 DEF DeleteResource, Control, TypeOK, bounds
  <2> QED BY <1>7, <2>1, <2>2, HandlesKept DEF DeleteResource, Goes
<1>8. ASSUME StopNotifications PROVE Handles'
  <2>1. /\ "unload" \in Thread /\ at'["unload"] = "unloaded"
        /\ \A u \in Thread \ {"unload"} : at'[u] = at[u]
    BY <1>8, Threads DEF StopNotifications, Goes, Control, TypeOK
  <2>2. /\ manager.entry' = manager.entry /\ monitor.handle' = monitor.handle
        /\ UNCHANGED <<contexts, told, enables, opened>>
        /\ monitor.resource' = monitor.resource \/ "unload" = "unload"
    BY <1>8 DEF StopNotifications, Control, TypeOK, bounds
  <2> QED BY <1>8, <2>1, <2>2, HandlesKept DEF StopNotifications, Goes
<1>9. ASSUME NEW t \in Caller, Open(t) PROVE Handles'
  BY <1>9
  DEF Open, Loaded, bounds, Handles, UnloadIsAlone, UnloadLeavesNone, Registers,
      Unregisters,
                Notifies, EntryIsKnown
<1>10. ASSUME UNCHANGED <<at, monitor, manager, contexts, told, enables, opened>>
       PROVE  Handles'
  BY <1>10
  DEF Handles, UnloadIsAlone, UnloadLeavesNone, Registers, Unregisters, Notifies,
      EntryIsKnown
<1>11. ASSUME NEW t \in Thread, FreeEntry(t) PROVE Handles'
  BY <1>11, FreeEntryHandles, FreeEntryNotifyingHandles
<1>12. ASSUME NEW t \in Caller, EnableMonitor(t) \/ EnableStep(t) PROVE Handles'
  BY <1>1, <1>2, <1>3, <1>12, EnableMonitorHandles, RegisterHandles, CreateFailsHandles,
     ActivateHandles, EnabledHandles, EnableFailsHandles DEF EnableStep
<1>13. ASSUME NEW t \in Thread, UnregisterStep(t) PROVE Handles'
  BY <1>4, <1>5, <1>11, <1>13 DEF UnregisterStep
<1>14. ASSUME NEW t \in Thread \ {"pnp"}, DisableMonitor(t) \/ NotEnabled(t) \/ DisableStep(t)
       PROVE  Handles'
  BY <1>13, <1>14, DisableMonitorHandles, NotEnabledHandles, InvalidHandleHandles,
     UnregisterHandles, DisabledHandles DEF DisableStep
<1>15. ASSUME NEW m \in Mice, EnterHook(m) \/ LeaveHook(m) PROVE Handles'
  BY <1>10, <1>15 DEF EnterHook, LeaveHook, MapOriginal, HookCallback, InputStays, bounds
<1>16. ASSUME UNCHANGED vars PROVE Handles'
  BY <1>10, <1>16 DEF vars
<1> QED
  BY <1>6, <1>7, <1>8, <1>9, <1>12, <1>13, <1>14, <1>15, <1>16, NextIsStep,
     NotifyHandles, NotificationCallbackHandles, UnloadHandles
  DEF ThreadStep

-----------------------------------------------------------------------------
(* What the hook uses comes before the hook and goes after it.             *)
Nesting ==
    /\ manager.context => manager.entry # None
    /\ manager.active => manager.context
    /\ \A m \in Mice : service[m] = "hook" \/ input[m] # "outside" => manager.context
    /\ manager.lock = Nobody /\ manager.entry # None => manager.active
    /\ \A t \in Thread : /\ at[t] \in {"create", "free entry"} => ~manager.context
                         /\ at[t] \in {"install", "store"} => manager.context

(* A thread outside its section leaves the manager's resources alone.      *)
LEMMA NestingKept ==
    ASSUME Nesting, Control, NEW t \in Thread, NEW next,
           at' = [at EXCEPT ![t] = next],
           next \in {"create", "free entry"} => ~manager.context,
           next \in {"install", "store"} => manager.context,
           manager.entry' = manager.entry, manager.context' = manager.context,
           manager.active' = manager.active,
           manager.lock' # Nobody \/ manager.lock = Nobody,
           service' = service, input' = input
    PROVE  Nesting'
<1>1. at'[t] = next /\ \A u \in Thread \ {t} : at'[u] = at[u]
  BY DEF Control, TypeOK
<1>2. \A u \in Thread : /\ at'[u] \in {"create", "free entry"} => ~manager.context'
                        /\ at'[u] \in {"install", "store"} => manager.context'
  BY <1>1 DEF Nesting
<1> QED BY <1>2 DEF Nesting

LEMMA NestingInductive ==
    ASSUME Control, Handles, Nesting, [Next]_vars
    PROVE  Nesting'
<1>1. ASSUME NEW t \in Caller, EnableMonitor(t) PROVE Nesting'
  <2>1. t \in Thread /\ at' = [at EXCEPT ![t] = "register"]
    BY <1>1, Threads DEF EnableMonitor, Goes
  <2>2. /\ manager.entry' = manager.entry /\ manager.context' = manager.context
        /\ manager.active' = manager.active /\ (manager.lock' # Nobody \/ manager.lock = Nobody)
        /\ service' = service /\ input' = input
    BY <1>1, Threads DEF EnableMonitor, Control, TypeOK, hooks
  <2> QED BY <2>1, <2>2, NestingKept
<1>2. ASSUME NEW t \in Caller, StoreOriginal(t) PROVE Nesting'
  <2>1. t \in Thread /\ at' = [at EXCEPT ![t] = "install"]
    BY <1>2, Threads DEF StoreOriginal, Goes
  <2>2. /\ manager.entry' = manager.entry /\ manager.context' = manager.context
        /\ manager.active' = manager.active /\ (manager.lock' # Nobody \/ manager.lock = Nobody)
        /\ service' = service /\ input' = input
    BY <1>2, Threads DEF StoreOriginal, Control, TypeOK, hooks
  <2>3. at[t] = "store"
    BY <1>2 DEF StoreOriginal, Goes
  <2>4. manager.context
    BY <2>1, <2>3 DEF Nesting
  <2> QED BY <2>1, <2>2, <2>4, NestingKept
<1>3. ASSUME NEW t \in Caller, Enabled(t) PROVE Nesting'
  <2>1. t \in Thread /\ at' = [at EXCEPT ![t] = "idle"]
    BY <1>3, Threads DEF Enabled, Goes
  <2>2. /\ manager.entry' = manager.entry /\ manager.context' = manager.context
        /\ manager.active' = manager.active /\ (manager.lock' # Nobody \/ manager.lock = Nobody)
        /\ service' = service /\ input' = input
    BY <1>3, Threads DEF Enabled, Control, TypeOK, hooks
  <2> QED BY <2>1, <2>2, NestingKept
<1>4. ASSUME NEW t \in Caller, EnableFails(t) PROVE Nesting'
  <2>1. t \in Thread /\ at' = [at EXCEPT ![t] = "idle"]
    BY <1>4, Threads DEF EnableFails, Goes
  <2>2. /\ manager.entry' = manager.entry /\ manager.context' = manager.context
        /\ manager.active' = manager.active /\ (manager.lock' # Nobody \/ manager.lock = Nobody)
        /\ service' = service /\ input' = input
    BY <1>4, Threads DEF EnableFails, Control, TypeOK, hooks
  <2> QED BY <2>1, <2>2, NestingKept
<1>5. ASSUME NEW t \in Thread \ {"pnp"}, DisableMonitor(t) PROVE Nesting'
  <2>1. t \in Thread /\ at' = [at EXCEPT ![t] = "unregister"]
    BY <1>5, Threads DEF DisableMonitor, Goes
  <2>2. /\ manager.entry' = manager.entry /\ manager.context' = manager.context
        /\ manager.active' = manager.active /\ (manager.lock' # Nobody \/ manager.lock = Nobody)
        /\ service' = service /\ input' = input
    BY <1>5, Threads DEF DisableMonitor, Control, TypeOK, hooks
  <2> QED BY <2>1, <2>2, NestingKept
<1>6. ASSUME NEW t \in Thread \ {"pnp"}, NotEnabled(t) PROVE Nesting'
  <2>1. t \in Thread /\ at' = [at EXCEPT ![t] = Back(t)]
    BY <1>6, Threads DEF NotEnabled, Goes
  <2>2. /\ manager.entry' = manager.entry /\ manager.context' = manager.context
        /\ manager.active' = manager.active /\ (manager.lock' # Nobody \/ manager.lock = Nobody)
        /\ service' = service /\ input' = input
    BY <1>6, Threads DEF NotEnabled, Control, TypeOK, hooks
  <2>3. Back(t) \notin {"create", "free entry", "install", "store"}
    BY DEF Back
  <2> QED BY <2>1, <2>2, <2>3, NestingKept
<1>7. ASSUME NEW t \in Thread \ {"pnp"}, InvalidHandle(t) PROVE Nesting'
  <2>1. t \in Thread /\ at' = [at EXCEPT ![t] = Back(t)]
    BY <1>7, Threads DEF InvalidHandle, Goes
  <2>2. /\ manager.entry' = manager.entry /\ manager.context' = manager.context
        /\ manager.active' = manager.active /\ (manager.lock' # Nobody \/ manager.lock = Nobody)
        /\ service' = service /\ input' = input
    BY <1>7, Threads DEF InvalidHandle, Control, TypeOK, hooks
  <2>3. Back(t) \notin {"create", "free entry", "install", "store"}
    BY DEF Back
  <2> QED BY <2>1, <2>2, <2>3, NestingKept
<1>8. ASSUME NEW t \in Thread \ {"pnp"}, Unregister(t) PROVE Nesting'
  <2>3. manager.active
    BY <1>8, Threads DEF Unregister, Goes, Handles, Unregisters, Nesting, Thread
  <2>1. t \in Thread /\ at' = [at EXCEPT ![t] = "unhook"]
    BY <1>8, <2>3, Threads DEF Unregister, Goes
  <2>2. /\ manager.entry' = manager.entry /\ manager.context' = manager.context
        /\ manager.active' = manager.active /\ (manager.lock' # Nobody \/ manager.lock = Nobody)
        /\ service' = service /\ input' = input
    BY <1>8, Threads DEF Unregister, Control, TypeOK, hooks
  <2> QED BY <2>1, <2>2, <2>3, NestingKept
<1>9. ASSUME NEW t \in Thread \ {"pnp"}, Disabled(t) PROVE Nesting'
  <2>1. t \in Thread /\ at' = [at EXCEPT ![t] = Back(t)]
    BY <1>9, Threads DEF Disabled, Goes
  <2>2. /\ manager.entry' = manager.entry /\ manager.context' = manager.context
        /\ manager.active' = manager.active /\ (manager.lock' # Nobody \/ manager.lock = Nobody)
        /\ service' = service /\ input' = input
    BY <1>9, Threads DEF Disabled, Control, TypeOK, hooks
  <2>3. Back(t) \notin {"create", "free entry", "install", "store"}
    BY DEF Back
  <2> QED BY <2>1, <2>2, <2>3, NestingKept
<1>10. ASSUME Notify PROVE Nesting'
  <2>3. manager.active
    BY <1>10, Threads DEF Notify, Goes, Handles, Unregisters, Nesting, Thread
  <2>1. "pnp" \in Thread /\ at' = [at EXCEPT !["pnp"] = "unhook"]
    BY <1>10, <2>3, Threads DEF Notify, Goes
  <2>2. /\ manager.entry' = manager.entry /\ manager.context' = manager.context
        /\ manager.active' = manager.active /\ (manager.lock' # Nobody \/ manager.lock = Nobody)
        /\ service' = service /\ input' = input
    BY <1>10, Threads DEF Notify, Control, TypeOK, hooks
  <2> QED BY <2>1, <2>2, <2>3, NestingKept
<1>11. ASSUME NotificationCallback PROVE Nesting'
  <2>1. "pnp" \in Thread /\ at' = [at EXCEPT !["pnp"] = "idle"]
    BY <1>11, Threads DEF NotificationCallback, Goes
  <2>2. /\ manager.entry' = manager.entry /\ manager.context' = manager.context
        /\ manager.active' = manager.active /\ (manager.lock' # Nobody \/ manager.lock = Nobody)
        /\ service' = service /\ input' = input
    BY <1>11, Threads DEF NotificationCallback, Control, TypeOK, hooks
  <2> QED BY <2>1, <2>2, NestingKept
<1>12. ASSUME AcquireDeleted PROVE Nesting'
  <2>1. "pnp" \in Thread /\ at' = [at EXCEPT !["pnp"] = "lost"]
    BY <1>12, Threads DEF AcquireDeleted, Goes
  <2>2. /\ manager.entry' = manager.entry /\ manager.context' = manager.context
        /\ manager.active' = manager.active /\ (manager.lock' # Nobody \/ manager.lock = Nobody)
        /\ service' = service /\ input' = input
    BY <1>12, Threads DEF AcquireDeleted, Control, TypeOK, hooks
  <2> QED BY <2>1, <2>2, NestingKept
<1>13. ASSUME Unload PROVE Nesting'
  <2>1. "unload" \in Thread /\ at' = [at EXCEPT !["unload"] = "disable"]
    BY <1>13, Threads DEF Unload, Goes
  <2>2. /\ manager.entry' = manager.entry /\ manager.context' = manager.context
        /\ manager.active' = manager.active /\ (manager.lock' # Nobody \/ manager.lock = Nobody)
        /\ service' = service /\ input' = input
    BY <1>13, Threads DEF Unload, Control, TypeOK, hooks
  <2> QED BY <2>1, <2>2, NestingKept
<1>14. ASSUME DeleteResource PROVE Nesting'
  <2>1. "unload" \in Thread /\ at' = [at EXCEPT !["unload"] = "wait"]
    BY <1>14, Threads DEF DeleteResource, Goes
  <2>2. /\ manager.entry' = manager.entry /\ manager.context' = manager.context
        /\ manager.active' = manager.active /\ (manager.lock' # Nobody \/ manager.lock = Nobody)
        /\ service' = service /\ input' = input
    BY <1>14, Threads DEF DeleteResource, Control, TypeOK, hooks
  <2> QED BY <2>1, <2>2, NestingKept
<1>15. ASSUME StopNotifications PROVE Nesting'
  <2>1. "unload" \in Thread /\ at' = [at EXCEPT !["unload"] = "unloaded"]
    BY <1>15, Threads DEF StopNotifications, Goes
  <2>2. /\ manager.entry' = manager.entry /\ manager.context' = manager.context
        /\ manager.active' = manager.active /\ (manager.lock' # Nobody \/ manager.lock = Nobody)
        /\ service' = service /\ input' = input
    BY <1>15, Threads DEF StopNotifications, Control, TypeOK, hooks
  <2> QED BY <2>1, <2>2, NestingKept
<1>16. ASSUME NEW t \in Caller, Register(t) PROVE Nesting'
  <2>1. /\ t \in Thread /\ at[t] = "register" /\ at'[t] = "create"
        /\ \A u \in Thread \ {t} : at'[u] = at[u] /\ at[u] \notin InManager
    BY <1>16, Threads, OthersAtRest
    DEF Register, Goes, Control, TypeOK, HoldsManager, InManager, Handles, Registers,
        Registering
  <2>2. manager.entry = None /\ ~manager.context /\ enables # None
    BY <2>1 DEF Nesting, Handles, Registers, Registering
  <2>3. /\ manager.entry' # None /\ manager.context' = manager.context
        /\ manager.active' = manager.active /\ manager.lock' = t
        /\ service' = service /\ input' = input
    BY <1>16, <2>2, Threads DEF Register, Control, TypeOK, hooks
  <2> QED BY <2>1, <2>2, <2>3, Threads DEF Nesting, InManager
<1>17. ASSUME NEW t \in Caller, CreateHookContext(t) PROVE Nesting'
  <2>1. /\ t \in Thread /\ at[t] = "create" /\ at'[t] = "install"
        /\ \A u \in Thread \ {t} : at'[u] = at[u] /\ at[u] \notin InManager
    BY <1>17, Threads, OthersAtRest
    DEF CreateHookContext, Goes, Control, TypeOK, HoldsManager, InManager
  <2>2. manager.entry # None
    BY <2>1 DEF Nesting, Handles, Registers, Registering
  <2>3. /\ manager.entry' = manager.entry /\ manager.context'
        /\ manager.active' = manager.active /\ manager.lock' = manager.lock
        /\ service' = service /\ input' = input
    BY <1>17, <2>2, Threads DEF CreateHookContext, Control, TypeOK, hooks
  <2> QED BY <2>1, <2>2, <2>3, Threads DEF Nesting, InManager
<1>18. ASSUME NEW t \in Caller, CreateFails(t) PROVE Nesting'
  <2>1. /\ t \in Thread /\ at[t] = "create" /\ at'[t] = "fail"
        /\ \A u \in Thread \ {t} : at'[u] = at[u] /\ at[u] \notin InManager
    BY <1>18, Threads, OthersAtRest
    DEF CreateFails, Goes, Control, TypeOK, HoldsManager, InManager
  <2>2. ~manager.context
    BY <2>1 DEF Nesting, Handles
  <2>3. /\ manager.entry' = None /\ manager.context' = manager.context
        /\ manager.active' = manager.active /\ service' = service /\ input' = input
    BY <1>18, <2>2, Threads DEF CreateFails, Control, TypeOK, hooks
  <2> QED BY <2>1, <2>2, <2>3, Threads DEF Nesting, InManager
<1>19. ASSUME NEW t \in Caller, NEW m \in Mice, Exchange(t, m) PROVE Nesting'
  <2>1. /\ t \in Thread /\ at[t] = "install" /\ at'[t] = "store"
        /\ \A u \in Thread \ {t} : at'[u] = at[u] /\ at[u] \notin InManager
    BY <1>19, Threads, OthersAtRest
    DEF Exchange, Goes, Control, TypeOK, HoldsManager, InManager
  <2>2. manager.context
    BY <2>1 DEF Nesting, Handles
  <2>3. /\ UNCHANGED <<manager, input>>
    BY <1>19, <2>2, Threads DEF Exchange, Control, TypeOK, hooks
  <2> QED BY <2>1, <2>2, <2>3, Threads DEF Nesting, InManager
<1>20. ASSUME NEW t \in Caller, Activate(t) PROVE Nesting'
  <2>1. /\ t \in Thread /\ at[t] = "install" /\ at'[t] = "enabled"
        /\ \A u \in Thread \ {t} : at'[u] = at[u] /\ at[u] \notin InManager
    BY <1>20, Threads, OthersAtRest
    DEF Activate, Goes, Control, TypeOK, HoldsManager, InManager
  <2>2. manager.context
    BY <2>1 DEF Nesting, Handles
  <2>3. /\ manager.entry' = manager.entry /\ manager.context' = manager.context
        /\ manager.active' /\ service' = service /\ input' = input
    BY <1>20, <2>2, Threads DEF Activate, Control, TypeOK, hooks
  <2> QED BY <2>1, <2>2, <2>3, Threads DEF Nesting, InManager
<1>21. ASSUME NEW t \in Thread, NEW m \in Mice, Uninstall(t, m) PROVE Nesting'
  <2>1. /\ t \in Thread /\ at[t] = "unhook" /\ at'[t] = "unhook"
        /\ \A u \in Thread \ {t} : at'[u] = at[u] /\ at[u] \notin InManager
    BY <1>21, Threads, OthersAtRest
    DEF Uninstall, Goes, Control, TypeOK, HoldsManager, InManager
  <2>2. TRUE
    BY <2>1 DEF Nesting, Handles
  <2>3. /\ UNCHANGED <<manager, input>>
        /\ \A k \in Mice : service'[k] = "hook" => service[k] = "hook"
    BY <1>21, <2>2, Threads DEF Uninstall, Control, TypeOK, hooks
  <2> QED BY <2>1, <2>2, <2>3, Threads DEF Nesting, InManager
<1>22. ASSUME NEW t \in Thread, Delay(t) PROVE Nesting'
  <2>1. /\ t \in Thread /\ at[t] = "unhook" /\ at'[t] = "free entry"
        /\ \A u \in Thread \ {t} : at'[u] = at[u] /\ at[u] \notin InManager
    BY <1>22, Threads, OthersAtRest
    DEF Delay, Goes, Control, TypeOK, HoldsManager, InManager
  <2>2. /\ manager.lock # Nobody
        /\ \A m \in Mice : service[m] # "hook" /\ input[m] = "outside"
    <3>1. manager.lock # Nobody
      BY <2>1, Threads DEF Control, Locks, HoldsManager, InManager
    <3> QED BY <1>22, <3>1 DEF Delay
  <2>3. /\ manager.entry' = manager.entry /\ ~manager.context'
        /\ ~manager.active' /\ manager.lock' = manager.lock
        /\ service' = service /\ input' = input
    BY <1>22, <2>2, Threads DEF Delay, Control, TypeOK, hooks
  <2> QED BY <2>1, <2>2, <2>3, Threads DEF Nesting, InManager
<1>23. ASSUME NEW t \in Thread, FreeEntry(t) PROVE Nesting'
  <2>1. /\ t \in Thread /\ at[t] = "free entry"
        /\ at'[t] = (IF t = "pnp" THEN "callback" ELSE "free context")
        /\ \A u \in Thread \ {t} : at'[u] = at[u] /\ at[u] \notin InManager
    BY <1>23, Threads, OthersAtRest
    DEF FreeEntry, Goes, Control, TypeOK, HoldsManager, InManager
  <2>2. ~manager.context
    BY <2>1 DEF Nesting, Handles
  <2>3. /\ manager.entry' = None /\ manager.context' = manager.context
        /\ manager.active' = manager.active /\ service' = service /\ input' = input
    BY <1>23, <2>2, Threads DEF FreeEntry, Control, TypeOK, hooks
  <2> QED BY <2>1, <2>2, <2>3, Threads DEF Nesting, InManager
<1>24. ASSUME UNCHANGED <<at, manager, service, input>> PROVE Nesting'
  BY <1>24 DEF Nesting
<1>25. ASSUME NEW m \in Mice, EnterHook(m) \/ LeaveHook(m) PROVE Nesting'
  <2>1. \A k \in Mice : input'[k] # "outside" => input[k] # "outside" \/ service[k] = "hook"
    BY <1>25 DEF EnterHook, LeaveHook, MapOriginal, HookCallback, Control, TypeOK
  <2>2. UNCHANGED <<at, manager, service>>
    BY <1>25 DEF EnterHook, LeaveHook, MapOriginal, HookCallback, InputStays, hooks
  <2> QED BY <2>1, <2>2 DEF Nesting
<1> QED
  BY <1>1, <1>2, <1>3, <1>4, <1>5, <1>6, <1>7, <1>8, <1>9, <1>10, <1>11, <1>12, <1>13,
     <1>14, <1>15, <1>16, <1>17, <1>18, <1>19, <1>20, <1>21, <1>22, <1>23, <1>24, <1>25,
     NextIsStep
  DEF ThreadStep, EnableStep, UnregisterStep, DisableStep, Open, vars, hooks

-----------------------------------------------------------------------------
IInv == Control /\ Handles /\ Nesting

LEMMA Invariant == Spec => []IInv
<1>1. Init => IInv
  <2> SUFFICES ASSUME Init PROVE IInv
    OBVIOUS
  <2>1. TypeOK
    BY NoneIsNumber, BoundsAreNumbers, Threads DEF Init, TypeOK, Steps
  <2>2. Places /\ Locks
    BY Threads
    DEF Init, Places, StepsOf, Locks, HoldsMonitor, HoldsManager, InMonitor, InManager
  <2>3. Handles
    BY Threads DEF Init, Handles, UnloadIsAlone, UnloadLeavesNone, Registers, Registering,
                   Unregisters, Notifies, EntryIsKnown
  <2>4. Nesting
    BY DEF Init, Nesting
  <2> QED BY <2>1, <2>2, <2>3, <2>4 DEF IInv, Control
<1>2. IInv /\ [Next]_vars => IInv'
  BY ControlInductive, HandlesInductive, NestingInductive DEF IInv
<1> QED BY <1>1, <1>2, PTL DEF Spec

(* For any mice, callers and bounds, the variables keep their types.       *)
THEOREM TypeCorrect == Spec => []TypeOK
<1>1. IInv => TypeOK
  BY DEF IInv, Control
<1> QED BY <1>1, Invariant, PTL

(* The hook finds what it uses, whoever takes it away and whenever.        *)
THEOREM HookFindsLiveObjects == Spec => []HookUsesLiveObjects
<1>1. IInv => HookUsesLiveObjects
  BY DEF IInv, Nesting, Handles, EntryIsKnown, HookUsesLiveObjects
<1> QED BY <1>1, Invariant, PTL

(* The assertions of the monitor and the hook manager hold, although they  *)
(* agree on the handle in two steps under two locks.                       *)
THEOREM PartiesAgree == Spec => []HandlesAgree
<1>1. ASSUME IInv PROVE HandlesAgree
  <2>1. ASSUME at["pnp"] = "callback", monitor.lock = Nobody PROVE monitor.handle = told
    <3>1. \A t \in Caller : at[t] # "enabled"
      BY <1>1, <2>1, OthersAtRest, Threads DEF IInv, InMonitor
    <3> QED BY <1>1, <2>1, <3>1 DEF IInv, Handles, Notifies
  <2>2. ASSUME NEW t \in Caller, at[t] = "register" PROVE manager.entry = None
    BY <1>1, <2>2 DEF IInv, Handles, Registers
  <2>3. ASSUME at["unload"] \in {"wait", "unloaded"}
        PROVE  manager.entry = None /\ ~manager.active /\ ~manager.context
    BY <1>1, <2>3 DEF IInv, Handles, UnloadLeavesNone, Nesting
  <2> QED BY <2>1, <2>2, <2>3 DEF HandlesAgree
<1> QED BY <1>1, Invariant, PTL

-----------------------------------------------------------------------------
(* mohid. *)

(* The read IRP is with the completion routine while that runs, and the    *)
(* event is signalled only when the IRP is not under way.                  *)
IrpFollowsCode ==
    /\ irp = "back" <=> completion # "none"
    /\ event => irp = "free"

FileFollowsCode ==
    /\ client \in {"new", "opening", "cancel"} => irp = "free"
    /\ client = "cancel" \/ remover = "freed" => event
    /\ remover # "none" => client = "closed"

(* Until the device is pulled out no read fails, so only the close that sets*)
(* StopReadReport ends the cycle, and it waits for the end.                *)
CycleWhilePlugged == ~gone =>
    /\ client \in {"clear", "closed"} => irp = "free"
    /\ client \in {"open", "stop"} =>
           /\ flags.active /\ irp \in {"down", "back"}
           /\ completion \in {"none", "look", "dispatch"}
    /\ irp = "cancelled" => client = "closed"
    /\ flags.stop /\ remover = "none" =>
           client = "wait" /\ irp # "free" /\ completion # "signal"
    /\ client = "wait" /\ irp = "free" => event

MouseInv == Mouse!TypeOK /\ IrpFollowsCode /\ FileFollowsCode /\ CycleWhilePlugged

LEMMA MouseInit == Mouse!Init => MouseInv
<1> SUFFICES ASSUME Mouse!Init PROVE MouseInv
  OBVIOUS
<1> USE DEF Mouse!Init
<1>1. Mouse!TypeOK
  BY DEF Mouse!TypeOK
<1>2. IrpFollowsCode /\ FileFollowsCode
  BY DEF IrpFollowsCode, FileFollowsCode
<1>3. CycleWhilePlugged
  BY DEF CycleWhilePlugged
<1> QED BY <1>1, <1>2, <1>3 DEF MouseInv

LEMMA MouseTypes == Mouse!TypeOK /\ Mouse!Next => Mouse!TypeOK'
<1> SUFFICES ASSUME Mouse!TypeOK, Mouse!Next PROVE Mouse!TypeOK'
  OBVIOUS
<1> USE DEF Mouse!TypeOK
<1>1. CASE Mouse!Open \/ Mouse!StartReading \/ Mouse!Close
  BY <1>1 DEF Mouse!Open, Mouse!StartReading, Mouse!InitiateRead, Mouse!Close, Mouse!ClientAt
<1>2. CASE Mouse!CloseStep
  BY <1>2 DEF Mouse!CloseStep, Mouse!SetStop, Mouse!AwaitRead, Mouse!CancelRead, Mouse!Cancel,
              Mouse!ClearFile, Mouse!ClientAt
<1>3. CASE Mouse!ReadReturns
  BY <1>3 DEF Mouse!ReadReturns
<1>4. CASE Mouse!Look \/ Mouse!Dispatch
  BY <1>4 DEF Mouse!Look, Mouse!Dispatch, Mouse!InitiateRead, Mouse!At
<1>5. CASE Mouse!SetInactive \/ Mouse!ResetStop \/ Mouse!Signal
  BY <1>5 DEF Mouse!SetInactive, Mouse!ResetStop, Mouse!Signal, Mouse!At
<1>6. CASE \/ Mouse!StopDevice \/ Mouse!StartDevice \/ Mouse!Unplug
           \/ Mouse!SurpriseRemoval \/ Mouse!Remove
  BY <1>6 DEF Mouse!StopDevice, Mouse!StartDevice, Mouse!Unplug, Mouse!SurpriseRemoval,
              Mouse!Remove, Mouse!RemoverAt
<1>7. CASE Mouse!RemoveStep
  BY <1>7 DEF Mouse!RemoveStep, Mouse!RemoveCancels, Mouse!RemoveFreesIrp, Mouse!Cancel,
              Mouse!RemoverAt
<1> QED BY <1>1, <1>2, <1>3, <1>4, <1>5, <1>6, <1>7 DEF Mouse!Next, Mouse!CompletionStep

LEMMA MouseStep == MouseInv /\ [Mouse!Next]_mouse => MouseInv'
<1> SUFFICES ASSUME MouseInv, [Mouse!Next]_mouse PROVE MouseInv'
  OBVIOUS
<1> USE DEF MouseInv, Mouse!TypeOK, IrpFollowsCode, FileFollowsCode, CycleWhilePlugged
<1>1. CASE UNCHANGED mouse
  BY <1>1 DEF mouse
<1>2. CASE Mouse!Open \/ Mouse!StartReading
  BY <1>2, MouseTypes DEF Mouse!Next, Mouse!Open, Mouse!StartReading, Mouse!InitiateRead
<1>3. CASE Mouse!Close
  BY <1>3, MouseTypes DEF Mouse!Next, Mouse!Close, Mouse!ClientAt
<1>4. CASE Mouse!CloseStep
  BY <1>4, MouseTypes DEF Mouse!Next, Mouse!CloseStep, Mouse!SetStop, Mouse!AwaitRead,
     Mouse!CancelRead, Mouse!Cancel, Mouse!ClearFile, Mouse!ClientAt
<1>5. CASE Mouse!ReadReturns
  BY <1>5, MouseTypes DEF Mouse!Next, Mouse!ReadReturns
<1>6. CASE Mouse!CompletionStep
  BY <1>6, MouseTypes DEF Mouse!Next, Mouse!CompletionStep, Mouse!Look, Mouse!Dispatch,
     Mouse!InitiateRead, Mouse!SetInactive, Mouse!ResetStop, Mouse!Signal, Mouse!At
<1>7. CASE \/ Mouse!StopDevice \/ Mouse!StartDevice
           \/ Mouse!Unplug \/ Mouse!SurpriseRemoval
  BY <1>7, MouseTypes DEF Mouse!Next, Mouse!StopDevice, Mouse!StartDevice, Mouse!Unplug,
     Mouse!SurpriseRemoval
<1>8. CASE Mouse!Remove \/ Mouse!RemoveStep
  BY <1>8, MouseTypes DEF Mouse!Next, Mouse!Remove, Mouse!RemoveStep,
     Mouse!RemoveCancels, Mouse!RemoveFreesIrp, Mouse!Cancel, Mouse!RemoverAt
<1> QED BY <1>1, <1>2, <1>3, <1>4, <1>5, <1>6, <1>7, <1>8 DEF Mouse!Next

(* However the close, the removal, stops and starts of the device, the     *)
(* unplugging and the completion routine of mohid interleave, none of which*)
(* takes a lock: when the close has waited for ReadCompletionEvent, and so *)
(* when the removal frees the IRP, the IRP has come back for good.         *)
THEOREM MouseReadEnds == AllSpec => []ReadEndsFirst
<1>1. AllInit => MouseInv
  BY MouseInit DEF AllInit
<1>2. [AllNext]_allVars => [Mouse!Next]_mouse
  BY DEF AllNext, allVars, IsHook, IsMouse, IsInterrupt, IsSwitches, IsBoard
<1>3. MouseInv => ReadEndsFirst
  BY DEF MouseInv, Mouse!TypeOK, IrpFollowsCode, FileFollowsCode, ReadEndsFirst,
         Mouse!ReadEndsFirst
<1> QED BY <1>1, <1>2, <1>3, MouseStep, PTL DEF AllSpec

-----------------------------------------------------------------------------
(* The interrupt of SpbTestTool. *)

(* The slot and the ISR hold one request at most, and of those whose       *)
(* handler has returned.                                                   *)
SlotHolds ==
    /\ \A v, w \in slot : v = w
    /\ \A v, w \in taken : v = w
    /\ \A w \in slot \cup taken : w \in Wait /\ wait[w].at = "returned"

(* A request that can still be completed, by its cancel callback or by the *)
(* ISR that has unmarked it, has not been completed.                       *)
MayBeCompleted(w) ==
    /\ wait[w].at \in {"new", "mark"} =>
           ~wait[w].marked /\ ~wait[w].callback /\ wait[w].completed = 0
    /\ wait[w].marked => ~wait[w].cancelled /\ ~wait[w].callback /\ wait[w].completed = 0
    /\ wait[w].callback => wait[w].completed = 0
    /\ isr = "complete" /\ w \in taken =>
           ~wait[w].marked /\ ~wait[w].callback /\ wait[w].completed = 0
    /\ wait[w].completed <= 1

IsrHolds ==
    /\ isr = "complete" => taken # {}
    /\ isr \in {"clear", "stall"} => \E w \in taken : wait[w].completed = 1

InterruptInv ==
    /\ wait \in [Wait -> Interrupt!State]
    /\ SlotHolds /\ IsrHolds
    /\ \A w \in Wait : MayBeCompleted(w)

LEMMA InterruptInit == Interrupt!Init => InterruptInv
BY DEF Interrupt!Init, InterruptInv, Interrupt!State, SlotHolds, IsrHolds, MayBeCompleted

(* A step of a request's handler or cancel callback.                       *)
LEMMA WaitStep ==
    ASSUME InterruptInv, NEW v \in Wait,
           \/ Interrupt!Refuse(v) \/ Interrupt!Admit(v) \/ Interrupt!Mark(v)
           \/ Interrupt!Store(v) \/ Interrupt!Cancel(v) \/ Interrupt!OnCancel(v)
    PROVE  InterruptInv'
<1> USE DEF InterruptInv, Interrupt!State
<1>1. CASE Interrupt!Refuse(v) \/ Interrupt!Admit(v)
  BY <1>1 DEF Interrupt!Refuse, Interrupt!Admit, SlotHolds, IsrHolds, MayBeCompleted
<1>2. CASE Interrupt!Mark(v)
  BY <1>2 DEF Interrupt!Mark, SlotHolds, IsrHolds, MayBeCompleted
<1>3. CASE Interrupt!Store(v)
  BY <1>3 DEF Interrupt!Store, SlotHolds, IsrHolds, MayBeCompleted
<1>4. CASE Interrupt!Cancel(v)
  <2> DEFINE o == [wait[v] EXCEPT !.cancelled = TRUE, !.marked = FALSE,
                                  !.callback = wait[v].marked]
  <2>1. o \in Interrupt!State
    OBVIOUS
  <2>2. wait' = [wait EXCEPT ![v] = o]
    BY <1>4 DEF Interrupt!Cancel
  <2>3. /\ o.at = wait[v].at /\ o.completed = 0 /\ wait[v].completed = 0 /\ ~o.marked
        /\ o.callback => wait[v].marked
    BY <1>4 DEF Interrupt!Cancel
  <2> HIDE DEF o
  <2>4. /\ wait' \in [Wait -> Interrupt!State] /\ wait'[v] = o
        /\ \A w \in Wait \ {v} : wait'[w] = wait[w]
    BY <2>1, <2>2
  <2>5. SlotHolds' /\ IsrHolds'
    BY <1>4, <2>3, <2>4 DEF Interrupt!Cancel, SlotHolds, IsrHolds
  <2>6. \A w \in Wait : MayBeCompleted(w)'
    BY <1>4, <2>3, <2>4 DEF Interrupt!Cancel, MayBeCompleted
  <2> QED BY <2>4, <2>5, <2>6
<1>5. CASE Interrupt!OnCancel(v)
  BY <1>5 DEF Interrupt!OnCancel, SlotHolds, IsrHolds, MayBeCompleted
<1> QED BY <1>1, <1>2, <1>3, <1>4, <1>5

LEMMA InterruptStep == InterruptInv /\ [Interrupt!Next]_interrupt => InterruptInv'
<1> SUFFICES ASSUME InterruptInv, [Interrupt!Next]_interrupt PROVE InterruptInv'
  OBVIOUS
<1> USE DEF InterruptInv, Interrupt!IsrAt, SlotHolds, IsrHolds, MayBeCompleted
<1>1. CASE \/ Interrupt!Interrupt \/ Interrupt!Look \/ Interrupt!ClearSignal
           \/ Interrupt!Continue \/ Interrupt!Signal \/ UNCHANGED interrupt
  BY <1>1 DEF Interrupt!Interrupt, Interrupt!Look, Interrupt!ClearSignal,
     Interrupt!Continue, Interrupt!Signal, interrupt
<1>2. CASE Interrupt!Take
  BY <1>2 DEF Interrupt!Take
<1>3. CASE Interrupt!Unmark
  <2>1. \A w \in Wait : wait'[w] = [wait[w] EXCEPT !.marked = @ /\ w \notin taken]
    BY <1>3 DEF Interrupt!Unmark
  <2>2. wait' \in [Wait -> Interrupt!State]
    BY <1>3 DEF Interrupt!Unmark, Interrupt!State
  <2> QED BY <1>3, <2>1, <2>2 DEF Interrupt!Unmark, Interrupt!State
<1>4. CASE Interrupt!Complete
  <2>1. \A w \in Wait : wait'[w] = IF w \in taken THEN [wait[w] EXCEPT !.completed = @ + 1]
                                                  ELSE wait[w]
    BY <1>4 DEF Interrupt!Complete
  <2>2. wait' \in [Wait -> Interrupt!State]
    BY <1>4 DEF Interrupt!Complete, Interrupt!State
  <2> QED BY <1>4, <2>1, <2>2 DEF Interrupt!Complete, Interrupt!State
<1> QED BY <1>1, <1>2, <1>3, <1>4, WaitStep DEF Interrupt!Next

(* Whatever the ISR, which completes a request outside any lock, its       *)
(* cancellation and further requests do meanwhile, none is completed       *)
(* twice, and the ISR stalls only for a request that it completed.         *)
THEOREM WaitIsCompletedOnce == AllSpec => []WaitCompletedOnce
<1>1. AllInit => InterruptInv
  BY InterruptInit DEF AllInit
<1>2. [AllNext]_allVars => [Interrupt!Next]_interrupt
  BY DEF AllNext, allVars, IsHook, IsMouse, IsInterrupt, IsSwitches, IsBoard
<1>3. InterruptInv => WaitCompletedOnce
  BY DEF InterruptInv, IsrHolds, MayBeCompleted, WaitCompletedOnce,
         Interrupt!WaitCompletedOnce
<1> QED BY <1>1, <1>2, <1>3, InterruptStep, PTL DEF AllSpec

=============================================================================
