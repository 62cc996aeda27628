------------------------------ MODULE MouHook ------------------------------
(***************************************************************************)
(* MouHidInputHook: clients enable and disable a monitor (mouhid_monitor)  *)
(* whose callback the hook manager (mouhid_hook_manager) puts in front of  *)
(* the class service of every mouse.  When a mouse comes or goes the hook  *)
(* manager takes the hook away by itself and then tells the monitor.  Each *)
(* of the two has a resource (lock) of its own; the mice's input runs      *)
(* through the hook without any.                                           *)
(*                                                                         *)
(* The mice are those that MouHid has when the hook is installed.  PnP     *)
(* notifications come one at a time, and the driver is unloaded when all   *)
(* handles are closed, as the kernel has it.  A monitor that is enabled    *)
(* twice or disabled when it is off answers at once and changes nothing.   *)
(***************************************************************************)
EXTENDS Integers

CONSTANTS
    Mice,
    Caller,      \* who opens the device and enables and disables the monitor
    MaxEnables,  \* enables (bound)
    MaxEvents    \* PnP notifications (bound)

Nobody == "nobody"

ASSUME BoundsAreNumbers == MaxEnables \in Nat /\ MaxEvents \in Nat
ASSUME CallersAreOthers == Caller \cap {"pnp", "unload", Nobody} = {}

Thread == Caller \cup {"pnp", "unload"}
None == 0

VARIABLES
    monitor,     \* g_MhmContext: lock, RegistrationHandle, the resource is not deleted
    manager,     \* g_MhkManager: lock, RegistrationEntry, HookActive, HookContext
    contexts,    \* the callback contexts that are allocated
    service,     \* ClassService of each mouse: the "class" driver's or the "hook"
    original,    \* ServiceCallbackOriginal of each mouse is set
    input,       \* the step of each mouse's input, "outside" the hook or in it
    at,          \* the step of each thread
    told,        \* the handle that the PnP notification has unregistered
    opened,      \* the callers that have a handle
    enables,     \* how often the monitor was enabled: an entry and its context
                 \* are named by this number
    events       \* how often a mouse came or went

vars == <<monitor, manager, contexts, service, original, input, at, told, opened,
          enables, events>>

hooks == <<service, original>>
bounds == <<enables, events>>

Init ==
    /\ monitor = [lock |-> Nobody, handle |-> None, resource |-> TRUE]
    /\ manager = [lock |-> Nobody, entry |-> None, active |-> FALSE, context |-> FALSE]
    /\ contexts = {}
    /\ service = [m \in Mice |-> "class"]
    /\ original = [m \in Mice |-> FALSE]
    /\ input = [m \in Mice |-> "outside"]
    /\ at = [t \in Thread |-> "idle"]
    /\ told = None
    /\ opened = {}
    /\ enables = 0 /\ events = 0

Goes(t, step, next) == at[t] = step /\ at' = [at EXCEPT ![t] = next]

(* Where a call of MhmDisableMouHidMonitor returns to.                     *)
Back(t) == IF t = "unload" THEN "delete" ELSE "idle"

Loaded == at["unload"] = "idle"

Open(t) ==
    /\ t \notin opened /\ Loaded
    /\ opened' = opened \cup {t}
    /\ UNCHANGED <<monitor, manager, contexts, hooks, input, at, told, bounds>>

-----------------------------------------------------------------------------
(* MhmEnableMouHidMonitor, with MhkRegisterCallbacks.                      *)

EnableMonitor(t) ==
    /\ t \in opened /\ Goes(t, "idle", "register")
    /\ monitor.lock = Nobody /\ monitor.handle = None
    /\ enables < MaxEnables
    /\ enables' = enables + 1
    /\ monitor' = [monitor EXCEPT !.lock = t]
    /\ contexts' = contexts \cup {enables'}
    /\ UNCHANGED <<manager, hooks, input, told, opened, events>>

(* When an entry is there ("Registration limit reached"), the way out      *)
(* clears it.                                                              *)
Register(t) ==
    /\ Goes(t, "register", IF manager.entry = None THEN "create" ELSE "fail")
    /\ manager.lock = Nobody
    /\ manager' = IF manager.entry = None
                  THEN [manager EXCEPT !.lock = t, !.entry = enables]
                  ELSE [manager EXCEPT !.entry = None]
    /\ UNCHANGED <<monitor, contexts, hooks, input, told, opened, bounds>>

CreateHookContext(t) ==
    /\ Goes(t, "create", "install")
    /\ manager' = [manager EXCEPT !.context = TRUE]
    /\ original' = [m \in Mice |-> FALSE]
    /\ UNCHANGED <<monitor, contexts, service, input, told, opened, bounds>>

CreateFails(t) ==
    /\ Goes(t, "create", "fail")
    /\ manager' = [manager EXCEPT !.lock = Nobody, !.entry = None]
    /\ UNCHANGED <<monitor, contexts, hooks, input, told, opened, bounds>>

(* MhkpInstallConnectDataHooks: the exchange, and the store of its result. *)
Exchange(t, m) ==
    /\ Goes(t, "install", "store")
    /\ service[m] = "class"
    /\ service' = [service EXCEPT ![m] = "hook"]
    /\ UNCHANGED <<monitor, manager, contexts, original, input, told, opened, bounds>>

StoreOriginal(t) ==
    /\ Goes(t, "store", "install")
    /\ original' = [m \in Mice |-> service[m] = "hook"]
    /\ UNCHANGED <<monitor, manager, contexts, service, input, told, opened, bounds>>

Activate(t) ==
    /\ Goes(t, "install", "enabled")
    /\ \A m \in Mice : service[m] = "hook"
    /\ manager' = [manager EXCEPT !.active = TRUE, !.lock = Nobody]
    /\ UNCHANGED <<monitor, contexts, hooks, input, told, opened, bounds>>

Enabled(t) ==
    /\ Goes(t, "enabled", "idle")
    /\ monitor' = [monitor EXCEPT !.handle = enables, !.lock = Nobody]
    /\ UNCHANGED <<manager, contexts, hooks, input, told, opened, bounds>>

EnableFails(t) ==
    /\ Goes(t, "fail", "idle")
    /\ contexts' = contexts \ {enables}
    /\ monitor' = [monitor EXCEPT !.lock = Nobody]
    /\ UNCHANGED <<manager, hooks, input, told, opened, bounds>>

EnableStep(t) ==
    \/ Register(t)
    \/ CreateHookContext(t)
    \/ CreateFails(t)
    \/ \E m \in Mice : Exchange(t, m)
    \/ StoreOriginal(t)
    \/ Activate(t)
    \/ Enabled(t)
    \/ EnableFails(t)

-----------------------------------------------------------------------------
(* MhkpUnregisterCallbacks, under the manager's lock, called by disable and*)
(* by the PnP notification.                                                *)

Uninstall(t, m) ==
    /\ Goes(t, "unhook", "unhook")
    /\ service[m] = "hook" /\ original[m]
    /\ service' = [service EXCEPT ![m] = "class"]
    /\ UNCHANGED <<monitor, manager, contexts, original, input, told, opened, bounds>>

(* The delay of 250 ms is taken to last until all input has left the hook. *)
Delay(t) ==
    /\ Goes(t, "unhook", "free entry")
    /\ \A m \in Mice : service[m] = "class" /\ input[m] = "outside"
    /\ manager' = [manager EXCEPT !.active = FALSE, !.context = FALSE]
    /\ UNCHANGED <<monitor, contexts, hooks, input, told, opened, bounds>>

(* Faulty variant: the notification keeps the lock during its callback.    *)
FreeEntryLocked(t) ==
    /\ Goes(t, "free entry", IF t = "pnp" THEN "callback" ELSE "free context")
    /\ manager' = [manager EXCEPT !.entry = None,
                                  !.lock = IF t = "pnp" THEN t ELSE Nobody]
    /\ UNCHANGED <<monitor, contexts, hooks, input, told, opened, bounds>>

FreeEntry(t) ==
    /\ Goes(t, "free entry", IF t = "pnp" THEN "callback" ELSE "free context")
    /\ manager' = [manager EXCEPT !.entry = None, !.lock = Nobody]
    /\ UNCHANGED <<monitor, contexts, hooks, input, told, opened, bounds>>

UnregisterStep(t) ==
    \/ \E m \in Mice : Uninstall(t, m)
    \/ Delay(t)
    \/ FreeEntry(t)

-----------------------------------------------------------------------------
(* MhmDisableMouHidMonitor, called by a client's IOCTL or close and by the *)
(* driver's unload.                                                        *)

DisableMonitor(t) ==
    /\ Goes(t, IF t = "unload" THEN "disable" ELSE "idle", "unregister")
    /\ t = "unload" \/ t \in opened
    /\ monitor.lock = Nobody /\ monitor.handle # None
    /\ monitor' = [monitor EXCEPT !.lock = t]
    /\ opened' \in {opened, opened \ {t}}
    /\ UNCHANGED <<manager, contexts, hooks, input, told, bounds>>

(* A close (or the unload) that finds the monitor off.                     *)
NotEnabled(t) ==
    /\ Goes(t, IF t = "unload" THEN "disable" ELSE "idle", Back(t))
    /\ t = "unload" \/ t \in opened
    /\ monitor.lock = Nobody /\ monitor.handle = None
    /\ opened' = opened \ {t}
    /\ UNCHANGED <<monitor, manager, contexts, hooks, input, told, bounds>>

(* MhkUnregisterCallbacks.                                                 *)

(* Faulty variant: disable goes on when the unregistration fails.          *)
ForgetsInvalidHandle(t) ==
    /\ Goes(t, "unregister", Back(t))
    /\ manager.lock = Nobody /\ manager.entry # monitor.handle
    /\ contexts' = contexts \ {monitor.handle}
    /\ monitor' = [monitor EXCEPT !.handle = None, !.lock = Nobody]
    /\ UNCHANGED <<manager, hooks, input, told, opened, bounds>>

InvalidHandle(t) ==
    /\ Goes(t, "unregister", Back(t))
    /\ manager.lock = Nobody /\ manager.entry # monitor.handle
    /\ monitor' = [monitor EXCEPT !.lock = Nobody]
    /\ UNCHANGED <<manager, contexts, hooks, input, told, opened, bounds>>

(* Faulty variant: the entry is freed before the hooks are taken away.     *)
UnregisterEntryFirst(t) ==
    /\ Goes(t, "unregister", "unhook")
    /\ manager.lock = Nobody /\ manager.entry = monitor.handle
    /\ manager' = [manager EXCEPT !.lock = t, !.entry = None]
    /\ UNCHANGED <<monitor, contexts, hooks, input, told, opened, bounds>>

Unregister(t) ==
    /\ Goes(t, "unregister", IF manager.active THEN "unhook" ELSE "free entry")
    /\ manager.lock = Nobody /\ manager.entry = monitor.handle
    /\ manager' = [manager EXCEPT !.lock = t]
    /\ UNCHANGED <<monitor, contexts, hooks, input, told, opened, bounds>>

Disabled(t) ==
    /\ Goes(t, "free context", Back(t))
    /\ contexts' = contexts \ {monitor.handle}
    /\ monitor' = [monitor EXCEPT !.handle = None, !.lock = Nobody]
    /\ UNCHANGED <<manager, hooks, input, told, opened, bounds>>

DisableStep(t) == InvalidHandle(t) \/ Unregister(t) \/ UnregisterStep(t) \/ Disabled(t)

-----------------------------------------------------------------------------
(* MclpPnpNotificationCallbackRoutine and what it calls: the manager's     *)
(* MhkpMousePnpNotificationCallbackRoutine, and from there, without the    *)
(* manager's lock, the monitor's MhmpNotificationCallback.                 *)

Notify ==
    /\ Goes("pnp", "idle", IF manager.active THEN "unhook" ELSE "free entry")
    /\ at["unload"] # "unloaded" /\ events < MaxEvents
    /\ events' = events + 1
    /\ manager.lock = Nobody /\ manager.entry # None
    /\ manager' = [manager EXCEPT !.lock = "pnp"]
    /\ told' = manager.entry
    /\ UNCHANGED <<monitor, contexts, hooks, input, opened, enables>>

NotificationCallback ==
    /\ Goes("pnp", "callback", "idle")
    /\ monitor.resource /\ monitor.lock = Nobody
    /\ IF monitor.handle = told
       THEN /\ contexts' = contexts \ {told}
            /\ monitor' = [monitor EXCEPT !.handle = None]
       ELSE UNCHANGED <<contexts, monitor>>
    /\ told' = None
    /\ UNCHANGED <<manager, hooks, input, opened, bounds>>

(* The unload has deleted the resource that the callback acquires: what    *)
(* happens then is undefined, and the behaviour ends for this thread.      *)
AcquireDeleted ==
    /\ Goes("pnp", "callback", "lost")
    /\ ~monitor.resource
    /\ UNCHANGED <<monitor, manager, contexts, hooks, input, told, opened, bounds>>

PnpStep == UnregisterStep("pnp") \/ NotificationCallback \/ AcquireDeleted

-----------------------------------------------------------------------------
(* DriverUnload: MhmDriverUnload, and MhkDriverUnload, which waits for the *)
(* notification under way (MclUnregisterMousePnpNotificationCallback).     *)

Unload ==
    /\ opened = {} /\ \A t \in Caller : at[t] = "idle"
    /\ Goes("unload", "idle", "disable")
    /\ UNCHANGED <<monitor, manager, contexts, hooks, input, told, opened, bounds>>

DeleteResource ==
    /\ Goes("unload", "delete", "wait")
    /\ monitor' = [monitor EXCEPT !.resource = FALSE]
    /\ UNCHANGED <<manager, contexts, hooks, input, told, opened, bounds>>

StopNotifications ==
    /\ Goes("unload", "wait", "unloaded")
    /\ at["pnp"] = "idle"
    /\ UNCHANGED <<monitor, manager, contexts, hooks, input, told, opened, bounds>>

UnloadStep ==
    \/ DisableMonitor("unload") \/ NotEnabled("unload") \/ DisableStep("unload")
    \/ DeleteResource \/ StopNotifications

-----------------------------------------------------------------------------
(* A mouse's input: MouHid fetches ClassService and calls it; it is in     *)
(* MhkpServiceCallbackHook and then in MhmpHookCallback, which passes it on*)
(* to the class.                                                           *)

InputStays ==
    UNCHANGED <<monitor, manager, contexts, hooks, at, told, opened, bounds>>

EnterHook(m) ==
    /\ input[m] = "outside" /\ service[m] = "hook"
    /\ input' = [input EXCEPT ![m] = "mapping"]
    /\ InputStays

(* "Unhandled class device object": an input that finds no original is     *)
(* dropped.                                                                *)
MapOriginal(m) ==
    /\ input[m] = "mapping"
    /\ input' = [input EXCEPT ![m] = IF original[m] THEN "callback" ELSE "outside"]
    /\ InputStays

HookCallback(m) ==
    /\ input[m] = "callback"
    /\ input' = [input EXCEPT ![m] = "outside"]
    /\ InputStays

LeaveHook(m) == MapOriginal(m) \/ HookCallback(m)

-----------------------------------------------------------------------------
CallerStep(t) == EnableStep(t) \/ DisableStep(t)

Next ==
    \/ \E t \in Caller : Open(t) \/ EnableMonitor(t) \/ DisableMonitor(t) \/ NotEnabled(t)
    \/ \E t \in Caller : CallerStep(t)
    \/ Notify \/ PnpStep
    \/ Unload \/ UnloadStep
    \/ \E m \in Mice : EnterHook(m) \/ LeaveHook(m)

Spec == Init /\ [][Next]_vars

(* Strong fairness where a thread waits for a resource: it is handed to its *)
(* waiters in order, so calls of others cannot keep it from one for ever.  *)
Fairness ==
    /\ \A t \in Caller : SF_vars(CallerStep(t))
    /\ SF_vars(PnpStep) /\ WF_vars(UnloadStep)
    /\ \A m \in Mice : WF_vars(LeaveHook(m))

FairSpec == Spec /\ Fairness

-----------------------------------------------------------------------------
Steps == {"idle", "register", "create", "install", "store", "enabled", "fail", "unregister",
          "unhook", "free entry", "free context", "callback", "lost", "disable", "delete",
          "wait", "unloaded"}

TypeOK ==
    /\ monitor \in [lock : Thread \cup {Nobody}, handle : 0 .. MaxEnables, resource : BOOLEAN]
    /\ manager \in [lock : Thread \cup {Nobody}, entry : 0 .. MaxEnables, active : BOOLEAN,
                    context : BOOLEAN]
    /\ contexts \in SUBSET (1 .. MaxEnables)
    /\ service \in [Mice -> {"class", "hook"}] /\ original \in [Mice -> BOOLEAN]
    /\ input \in [Mice -> {"outside", "mapping", "callback"}]
    /\ at \in [Thread -> Steps]
    /\ told \in 0 .. MaxEnables /\ opened \in SUBSET Caller
    /\ enables \in 0 .. MaxEnables /\ events \in 0 .. MaxEvents

(* The hook runs without a lock; whatever it uses is there while an input  *)
(* is in it: the hook context, the registration entry, and the callback    *)
(* context that the entry names.                                           *)
HookUsesLiveObjects ==
    \A m \in Mice : input[m] # "outside" =>
        manager.context /\ manager.entry # None /\ manager.entry \in contexts

(* What the code asserts of the two parties, however enables, disables and *)
(* notifications interleave.  The monitor has the handle it is told of     *)
(* ("Unexpected registration handle", mouhid_monitor.cpp:369); no entry is *)
(* there when it registers one ("Registration limit reached"); and when it *)
(* has been disabled for the unload, whether or not that call failed, no   *)
(* hook is left (the assertions of MhkDriverUnload).                       *)
HandlesAgree ==
    /\ at["pnp"] = "callback" /\ monitor.lock = Nobody => monitor.handle = told
    /\ \A t \in Caller : at[t] = "register" => manager.entry = None
    /\ at["unload"] \in {"wait", "unloaded"} =>
          manager.entry = None /\ ~manager.active /\ ~manager.context

(* Every IOCTL and close returns, and so does a notification unless the    *)
(* unload has deleted its resource: the two locks are never waited for in  *)
(* opposite orders.                                                        *)
CallsReturn ==
    \A t \in Caller \cup {"pnp"} : at[t] # "idle" ~> at[t] \in {"idle", "lost"}

(* An input that MouHid delivers is passed on to the class.  Not so when it*)
(* comes between the exchange and the store.                               *)
NoInputDropped ==
    [][\A m \in Mice : input[m] = "mapping" => input'[m] # "outside"]_vars
=============================================================================
