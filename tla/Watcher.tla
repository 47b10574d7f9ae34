------------------------------- MODULE Watcher -------------------------------
(***************************************************************************)
(* The watcher package: the sessions, as main and NamespaceReconciler use  *)
(* them, and beside them an event dispatcher, as its own methods and tests *)
(* use it; main does not construct one.                                    *)
(***************************************************************************)
EXTENDS EventDispatcher, WatchSessions

watcherVars == <<dispatcherVars, sessionVars>>

(* The goroutines run, Stop is scheduled once the WaitGroup lets it go on,   *)
(* and there is always another namespace event.                            *)
WatcherFairness ==
    /\ \A l \in Loop : WF_watcherVars(~panicked /\ ProcessEvents(l) /\ UNCHANGED sessionVars)
    /\ WF_watcherVars(~panicked /\ StopReturns /\ UNCHANGED sessionVars)
    /\ \A c \in Caller :
          WF_watcherVars((ReconcileCheck(c) \/ ReconcileRenew(c)) /\ UNCHANGED dispatcherVars)

WatcherInit == DispatcherInit /\ SessionsInit

WatcherNext ==
    \/ DispatcherNext /\ UNCHANGED sessionVars
    \/ SessionsNext /\ UNCHANGED dispatcherVars

WatcherSpec ==
    /\ WatcherInit
    /\ [][WatcherNext]_watcherVars
    /\ WatcherFairness

(* All variables keep their types.                                          *)
WatcherTypeOK == DispatcherTypeOK /\ SessionsTypeOK
==============================================================================
