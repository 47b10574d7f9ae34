---------------------------- MODULE WatchSessions ----------------------------
(***************************************************************************)
(* WatchSession and SessionManager of the watcher package, as main and the *)
(* workers of NamespaceReconciler use them. Every method of the manager    *)
(* holds its lock, so each is one step; a worker that finds the session    *)
(* invalid and starts another takes two.                                   *)
(***************************************************************************)
EXTENDS Naturals

CONSTANTS
    Caller,     \* the workers of NamespaceReconciler
    MaxSession  \* sessions expire as long as there are fewer

ASSUME SessionsAssumption == MaxSession \in Nat

VARIABLES
    session,    \* the number of the session of the manager, 0 for nil
    running,    \* the sessions that are running
    expired,    \* those whose timeout has passed
    closed,     \* those whose stopCh is closed
    doubled,    \* a stopCh was closed twice, which panics
    call,       \* call[c]: "idle", or "invalid": c is about to start a session
    main        \* "starting", "serving", "ended" or "exited"

sessionVars == <<session, running, expired, closed, doubled, call, main>>

SessionsTypeOK ==
    /\ session \in Nat
    /\ running \subseteq 1..session /\ expired \subseteq 1..session /\ closed \subseteq 1..session
    /\ doubled \in BOOLEAN
    /\ call \in [Caller -> {"idle", "invalid"}]
    /\ main \in {"starting", "serving", "ended", "exited"}

SessionsInit ==
    /\ session = 0 /\ running = {} /\ expired = {} /\ closed = {} /\ doubled = FALSE
    /\ call = [c \in Caller |-> "idle"]
    /\ main = "starting"

-----------------------------------------------------------------------------
(* WatchSession.                                                             *)

SessionStop(s) ==
    /\ closed' = IF s \in running THEN closed \cup {s} ELSE closed
    /\ doubled' = (doubled \/ (s \in running /\ s \in closed))

(* The timeout passes. With a timeout of zero a session never expires.        *)
Expire ==
    /\ session < MaxSession
    /\ session \in running \ expired
    /\ expired' = expired \cup {session}
    /\ UNCHANGED <<session, running, closed, doubled, call, main>>

-----------------------------------------------------------------------------
(* SessionManager.                                                           *)

(* Mutant: the session before is left running.                               *)
StartSessionBeside ==
    /\ session' = session + 1
    /\ running' = running \cup {session + 1}
    /\ UNCHANGED <<expired, closed, doubled>>

StartSession ==
    /\ SessionStop(session)
    /\ session' = session + 1
    /\ running' = (running \ {session}) \cup {session + 1}
    /\ UNCHANGED expired

(* The handlers of OnSessionEnd clear the caches.                            *)
EndSession ==
    /\ SessionStop(session)
    /\ running' = running \ {session}
    /\ UNCHANGED <<session, expired>>

(* Mutant: the timeout is not asked for.                                     *)
IsSessionRunning == session \in running

IsSessionValid == session \in running \ expired

-----------------------------------------------------------------------------
(* main and NamespaceReconciler.Reconcile. The manager of the controllers     *)
(* runs from the start of the session to the end of the process.           *)

MainStart ==
    /\ main = "starting"
    /\ StartSession
    /\ main' = "serving"
    /\ UNCHANGED call

ReconcileCheck(c) ==
    /\ main \in {"serving", "ended"} /\ call[c] = "idle"
    /\ ~IsSessionValid
    /\ call' = [call EXCEPT ![c] = "invalid"]
    /\ UNCHANGED <<session, running, expired, closed, doubled, main>>

ReconcileRenew(c) ==
    /\ main \in {"serving", "ended"} /\ call[c] = "invalid"
    /\ StartSession
    /\ call' = [call EXCEPT ![c] = "idle"]
    /\ UNCHANGED main

MainEnd ==
    /\ main = "serving"
    /\ EndSession
    /\ main' = "ended"
    /\ UNCHANGED call

MainExit ==
    /\ main = "ended"
    /\ main' = "exited"
    /\ UNCHANGED <<session, running, expired, closed, doubled, call>>

SessionsNext ==
    \/ MainStart \/ MainEnd \/ MainExit \/ Expire
    \/ \E c \in Caller : ReconcileCheck(c) \/ ReconcileRenew(c)

SessionsSpec == SessionsInit /\ [][SessionsNext]_sessionVars

-----------------------------------------------------------------------------
(* Properties.                                                               *)

(* At most the session of the manager runs, whoever raced to start one, and   *)
(* no stopCh is closed twice: one that is closed belongs to a session that *)
(* does not run.                                                           *)
OneSession ==
    /\ running \subseteq {session}
    /\ running \cap closed = {}
    /\ ~doubled

(* An expired session is replaced while the process serves, if the namespaces *)
(* have events.                                                            *)
SessionRenewed ==
    main = "serving" /\ session \in expired ~> session \in running \ expired \/ main # "serving"
==============================================================================
