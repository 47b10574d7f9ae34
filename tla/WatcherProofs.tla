---------------------------- MODULE WatcherProofs ----------------------------
(***************************************************************************)
(* The event dispatcher loses nothing and implements EventDelivery, and    *)
(* there is at most one session: for any number of goroutines, handlers,   *)
(* callers, events and sessions, and any size of the channel.              *)
(***************************************************************************)
EXTENDS Watcher, TLAPS

-----------------------------------------------------------------------------
(* The dispatcher.                                                           *)

LoopState == [at: {"none", "select", "handle", "returned"}, event: Nat, next: 1..(H + 1)]

LEMMA DispatcherParts ==
    ASSUME DeliveryInv
    PROVE  /\ accepted \in Nat /\ taken \in Nat /\ taken <= accepted /\ H \in Nat
           /\ loop \in [Loop -> LoopState] /\ got \in [1..H -> SUBSET Nat]
           /\ \A l \in Loop : loop[l] \in LoopState
           /\ HandsSound /\ GotSound /\ StopSound
BY DispatcherAssumption DEF DeliveryInv, DispatcherTypeOK, LoopState

LEMMA DispatcherInitSound == DispatcherInit => DeliveryInv
<1> SUFFICES ASSUME DispatcherInit PROVE DeliveryInv
  OBVIOUS
<1>1. NoLoop \in LoopState /\ NoLoop.at = "none"
  BY DispatcherAssumption DEF NoLoop, LoopState
<1>2. DispatcherTypeOK
  <2>1. done \in BOOLEAN /\ cancelled \in BOOLEAN /\ panicked \in BOOLEAN
    BY Zenon DEF DispatcherInit
  <2>2. /\ accepted \in Nat /\ taken \in 0..accepted /\ stop \in {"no", "waiting", "returned"}
        /\ loop \in [Loop -> LoopState] /\ got \in [1..H -> SUBSET Nat]
    BY <1>1 DEF DispatcherInit
  <2>3. QED  BY <2>1, <2>2 DEF DispatcherTypeOK, LoopState
<1>3. \A l \in Loop : loop[l].at = "none"
  BY <1>1 DEF DispatcherInit
<1>4. HandsSound /\ StopSound
  BY <1>3 DEF HandsSound, StopSound
<1>5. GotSound
  BY DEF DispatcherInit, GotSound
<1>6. QED  BY <1>2, <1>4, <1>5 DEF DeliveryInv

(* Steps that move no goroutine and give nothing to a handler.               *)
LEMMA ChannelStep ==
    ASSUME DeliveryInv, UNCHANGED <<taken, loop, got>>,
           accepted' \in {accepted, accepted + 1}, done' \in BOOLEAN, cancelled' \in BOOLEAN,
           panicked' \in BOOLEAN, stop' \in {"no", "waiting", "returned"}, StopSound'
    PROVE  DeliveryInv'
<1>1. DispatcherTypeOK'
  BY DEF DeliveryInv, DispatcherTypeOK
<1>2. HandsSound' /\ GotSound'
  BY DispatcherParts DEF HandsSound, GotSound, Holds
<1>3. QED  BY <1>1, <1>2 DEF DeliveryInv

(* A goroutine that starts or leaves has no event in hand.                   *)
LEMMA EmptyHands ==
    ASSUME DeliveryInv, NEW l \in Loop, loop[l].at # "handle",
           NEW where \in {"select", "returned"}, loop' = [loop EXCEPT ![l].at = where],
           stop = "returned" => where = "returned",
           UNCHANGED <<accepted, taken, done, stop, cancelled, panicked, got>>
    PROVE  DeliveryInv'
<1>1. /\ loop' \in [Loop -> LoopState] /\ loop'[l].at = where
      /\ \A m \in Loop : m # l => loop'[m] = loop[m]
  BY DispatcherParts DEF LoopState
<1>2. DispatcherTypeOK'
  BY <1>1 DEF DeliveryInv, DispatcherTypeOK, LoopState
<1>3. HandsSound'
  BY <1>1, DispatcherParts DEF HandsSound
<1>4. \A e, h : \A m \in Loop : Holds(m, e, h)' <=> Holds(m, e, h)
  BY <1>1 DEF Holds
<1>5. GotSound'
  BY <1>4, DispatcherParts DEF GotSound
<1>6. StopSound'
  BY <1>1, DispatcherParts DEF StopSound
<1>7. QED  BY <1>2, <1>3, <1>5, <1>6 DEF DeliveryInv

LEMMA ReceiveSound ==
    ASSUME DeliveryInv, NEW l \in Loop, Receive(l)
    PROVE  DeliveryInv'
<1> DEFINE s == [at |-> "handle", event |-> taken + 1, next |-> 1]
<1>1. /\ loop[l].at = "select" /\ taken' = taken + 1 /\ loop' = [loop EXCEPT ![l] = s]
      /\ taken + 1 <= accepted
      /\ UNCHANGED <<accepted, done, stop, cancelled, panicked, got>>
  BY DispatcherParts DEF Receive, Pending
<1>2. s \in LoopState
  BY DispatcherParts DEF LoopState
<1>3. /\ loop' \in [Loop -> LoopState] /\ loop'[l] = s
      /\ \A m \in Loop : m # l => loop'[m] = loop[m]
  BY <1>1, <1>2, DispatcherParts
<1>4. s.at = "handle" /\ s.event = taken + 1 /\ s.next = 1
  OBVIOUS
<1> HIDE DEF s
<1>5. DispatcherTypeOK'
  BY <1>1, <1>3, DispatcherParts DEF DeliveryInv, DispatcherTypeOK, LoopState
<1>6. HandsSound'
  <2>1. \A m \in Loop : loop[m].at = "handle" => loop[m].event \in 1..taken
    BY DispatcherParts DEF HandsSound
  <2>2. ASSUME NEW k \in Loop, loop'[k].at = "handle"
        PROVE  loop'[k].event \in 1..(taken + 1)
    BY <1>3, <1>4, <2>1, <2>2, DispatcherParts
  <2>3. ASSUME NEW k \in Loop, loop'[k].at = "handle", NEW m \in Loop \ {k},
               loop'[m].at = "handle"
        PROVE  loop'[m].event # loop'[k].event
    <3>1. CASE k = l
      BY <1>3, <1>4, <2>1, <2>3, <3>1, DispatcherParts
    <3>2. CASE m = l
      BY <1>3, <1>4, <2>1, <2>3, <3>2, DispatcherParts
    <3>3. CASE k # l /\ m # l
      BY <1>3, <2>3, <3>3, DispatcherParts DEF HandsSound
    <3>4. QED  BY <3>1, <3>2, <3>3
  <2>4. QED  BY <1>1, <2>2, <2>3 DEF HandsSound
<1>7. GotSound'
  <2>1. \A h \in 1..H : got'[h] \subseteq 1..(taken + 1)
    BY <1>1, DispatcherParts DEF GotSound
  <2>2. ASSUME NEW e \in 1..(taken + 1), NEW h \in 1..H
        PROVE  e \notin got'[h] <=> \E m \in Loop : Holds(m, e, h)'
    <3>1. CASE e = taken + 1
      <4>1. e \notin got'[h]
        BY <1>1, <3>1, DispatcherParts DEF GotSound
      <4>2. Holds(l, e, h)'
        BY <1>3, <1>4, <3>1 DEF Holds
      <4>3. QED  BY <4>1, <4>2
    <3>2. CASE e # taken + 1
      <4>1. e \in 1..taken
        BY <3>2, DispatcherParts
      <4>2. e \notin got[h] <=> \E m \in Loop : Holds(m, e, h)
        BY <4>1, DispatcherParts DEF GotSound
      <4>3. \A m \in Loop : Holds(m, e, h)' <=> Holds(m, e, h)
        BY <1>1, <1>3, <1>4, <3>2 DEF Holds
      <4>4. QED  BY <1>1, <4>2, <4>3
    <3>3. QED  BY <3>1, <3>2
  <2>3. QED  BY <1>1, <2>1, <2>2 DEF GotSound
<1>8. StopSound'
  BY <1>1, DispatcherParts DEF StopSound
<1>9. QED  BY <1>5, <1>6, <1>7, <1>8 DEF DeliveryInv

LEMMA DispatchEventSound ==
    ASSUME DeliveryInv, NEW l \in Loop, DispatchEvent(l)
    PROVE  DeliveryInv'
<1> DEFINE e == loop[l].event
           n == loop[l].next
           s == [loop[l] EXCEPT !.next = n + 1]
<1>1. /\ loop[l].at = "handle" /\ n <= H /\ got' = [got EXCEPT ![n] = @ \cup {e}]
      /\ loop' = [loop EXCEPT ![l] = s]
      /\ UNCHANGED <<accepted, taken, done, stop, cancelled, panicked>>
  BY DEF DispatchEvent, channelVars
<1>2. n \in 1..H /\ n + 1 \in 1..(H + 1) /\ e \in 1..taken /\ e \in Nat /\ loop[l] \in LoopState
  BY <1>1, DispatcherParts DEF LoopState, HandsSound
<1>3. s \in LoopState /\ s.at = "handle" /\ s.event = e /\ s.next = n + 1
  BY <1>1, <1>2 DEF LoopState
<1> HIDE DEF s, e, n
<1>4. /\ loop' \in [Loop -> LoopState] /\ loop'[l] = s
      /\ \A m \in Loop : m # l => loop'[m] = loop[m]
  BY <1>1, <1>3, DispatcherParts
<1>5. /\ got' \in [1..H -> SUBSET Nat] /\ got'[n] = got[n] \cup {e}
      /\ \A h \in 1..H : h # n => got'[h] = got[h]
  BY <1>1, <1>2, DispatcherParts
<1>6. DispatcherTypeOK'
  BY <1>1, <1>4, <1>5 DEF DeliveryInv, DispatcherTypeOK, LoopState
<1>7. HandsSound'
  BY <1>1, <1>3, <1>4, DispatcherParts DEF HandsSound, e
<1>8. GotSound'
  <2>1. \A h \in 1..H : got'[h] \subseteq 1..taken
    BY <1>2, <1>5, DispatcherParts DEF GotSound
  <2>2. ASSUME NEW f \in 1..taken, NEW h \in 1..H
        PROVE  f \notin got'[h] <=> \E m \in Loop : Holds(m, f, h)'
    <3>1. f \notin got[h] <=> \E m \in Loop : Holds(m, f, h)
      BY DispatcherParts DEF GotSound
    <3>2. \A m \in Loop : m # l => (Holds(m, f, h)' <=> Holds(m, f, h))
      BY <1>4 DEF Holds
    <3>3. Holds(l, f, h) <=> f = e /\ n <= h
      BY <1>1 DEF Holds, e, n
    <3>4. Holds(l, f, h)' <=> f = e /\ n + 1 <= h
      BY <1>3, <1>4 DEF Holds
    <3>5. CASE f = e /\ h = n
      <4>1. f \in got'[h]
        BY <1>5, <3>5
      <4>2. \A m \in Loop : m # l => ~Holds(m, f, h)
        BY <1>1, <3>5, DispatcherParts DEF HandsSound, Holds, e
      <4>3. ~Holds(l, f, h)'
        BY <1>2, <3>4, <3>5
      <4>4. QED  BY <3>2, <4>1, <4>2, <4>3
    <3>6. CASE ~(f = e /\ h = n)
      <4>1. f \in got'[h] <=> f \in got[h]
        BY <1>5, <3>6
      <4>2. Holds(l, f, h)' <=> Holds(l, f, h)
        BY <1>2, <3>3, <3>4, <3>6
      <4>3. QED  BY <3>1, <3>2, <4>1, <4>2
    <3>7. QED  BY <3>5, <3>6
  <2>3. QED  BY <1>1, <2>1, <2>2 DEF GotSound
<1>9. StopSound'
  BY <1>1, DispatcherParts DEF StopSound
<1>10. QED  BY <1>6, <1>7, <1>8, <1>9 DEF DeliveryInv

LEMMA DispatchedSound ==
    ASSUME DeliveryInv, NEW l \in Loop, Dispatched(l)
    PROVE  DeliveryInv'
<1> DEFINE s == [loop[l] EXCEPT !.at = "select", !.event = 0]
<1>1. /\ loop[l].at = "handle" /\ loop[l].next = H + 1 /\ loop' = [loop EXCEPT ![l] = s]
      /\ UNCHANGED <<accepted, taken, done, stop, cancelled, panicked, got>>
  BY DEF Dispatched, channelVars
<1>2. s \in LoopState /\ s.at = "select"
  BY DispatcherParts DEF LoopState
<1> HIDE DEF s
<1>3. /\ loop' \in [Loop -> LoopState] /\ loop'[l] = s
      /\ \A m \in Loop : m # l => loop'[m] = loop[m]
  BY <1>1, <1>2, DispatcherParts
<1>4. DispatcherTypeOK'
  BY <1>1, <1>3 DEF DeliveryInv, DispatcherTypeOK, LoopState
<1>5. HandsSound'
  BY <1>1, <1>2, <1>3, DispatcherParts DEF HandsSound
<1>6. \A e, h : h \in 1..H => ~Holds(l, e, h) /\ ~Holds(l, e, h)'
  BY <1>1, <1>2, <1>3, DispatcherParts DEF Holds
<1>7. \A e, h : \A m \in Loop : m # l => (Holds(m, e, h)' <=> Holds(m, e, h))
  BY <1>3 DEF Holds
<1>8. GotSound'
  BY <1>1, <1>6, <1>7, DispatcherParts DEF GotSound
<1>9. StopSound'
  BY <1>1, DispatcherParts DEF StopSound
<1>10. QED  BY <1>4, <1>5, <1>8, <1>9 DEF DeliveryInv

LEMMA DispatcherNextSound == DeliveryInv /\ [DispatcherNext]_dispatcherVars => DeliveryInv'
<1> SUFFICES ASSUME DeliveryInv, [DispatcherNext]_dispatcherVars PROVE DeliveryInv'
  OBVIOUS
<1> USE DEF channelVars
<1>1. /\ accepted \in Nat /\ done \in BOOLEAN /\ cancelled \in BOOLEAN /\ panicked \in BOOLEAN
      /\ stop \in {"no", "waiting", "returned"} /\ StopSound
  BY DEF DeliveryInv, DispatcherTypeOK
<1>2. CASE Send \/ Close \/ Cancel
  BY <1>1, <1>2, ChannelStep DEF Send, Close, Cancel, StopSound
<1>3. CASE Stop \/ StopReturns
  BY <1>1, <1>3, ChannelStep DEF Stop, StopReturns, StopSound
<1>4. CASE \E l \in Loop : Start(l) \/ Leave(l)
  BY <1>4, EmptyHands DEF Start, Leave
<1>5. CASE \E l \in Loop : Receive(l) \/ DispatchEvent(l) \/ Dispatched(l)
  BY <1>5, ReceiveSound, DispatchEventSound, DispatchedSound
<1>6. CASE UNCHANGED dispatcherVars
  BY <1>1, <1>6, ChannelStep DEF dispatcherVars, StopSound
<1>7. QED
  BY <1>2, <1>3, <1>4, <1>5, <1>6 DEF DispatcherNext, ProcessEvents

LEMMA InvariantMeansNothingLost == DeliveryInv => NothingLost
<1> SUFFICES ASSUME DeliveryInv, NEW e \in 1..taken, NEW h \in 1..H
             PROVE  \/ e \in got[h] /\ \A l \in Loop : ~Holds(l, e, h)
                    \/ e \notin got[h] /\ \E l \in Loop : Holds(l, e, h)
                                             /\ \A m \in Loop \ {l} : ~Holds(m, e, h)
  BY DEF NothingLost
<1>1. e \notin got[h] <=> \E l \in Loop : Holds(l, e, h)
  BY DispatcherParts DEF GotSound
<1>2. \A l \in Loop : Holds(l, e, h) => \A m \in Loop \ {l} : ~Holds(m, e, h)
  BY DispatcherParts DEF HandsSound, Holds
<1>3. QED  BY <1>1, <1>2

-----------------------------------------------------------------------------
(* The dispatcher implements EventDelivery.                                  *)

(* A handler is given an event that it lacks and the earlier ones have.      *)
LEMMA DispatchIsGive ==
    ASSUME DeliveryInv, NEW l \in Loop, DispatchEvent(l)
    PROVE  Delivery!Next
<1> DEFINE e == loop[l].event
           n == loop[l].next
<1>1. /\ loop[l].at = "handle" /\ n <= H /\ got' = [got EXCEPT ![n] = @ \cup {e}]
      /\ UNCHANGED <<accepted, stop>>
  BY DEF DispatchEvent, channelVars
<1>2. n \in 1..H /\ e \in 1..taken /\ e \in 1..accepted
  BY <1>1, DispatcherParts DEF LoopState, HandsSound
<1>3. stop # "returned"
  BY <1>1, DispatcherParts DEF StopSound
<1>4. e \notin got[n]
  BY <1>1, <1>2, DispatcherParts DEF GotSound, Holds
<1>5. ASSUME NEW g \in 1..(n - 1) PROVE e \in got[g]
  <2>1. g \in 1..H /\ ~(n <= g)
    BY <1>2, DispatcherParts
  <2>2. \A m \in Loop : ~Holds(m, e, g)
    BY <1>1, <2>1, DispatcherParts DEF HandsSound, Holds
  <2>3. QED  BY <1>2, <2>1, <2>2, DispatcherParts DEF GotSound
<1> HIDE DEF e, n
<1>6. Delivery!Give(n, e)
  BY <1>1, <1>2, <1>3, <1>4, <1>5 DEF Delivery!Give
<1>7. QED  BY <1>2, <1>6 DEF Delivery!Next

LEMMA DispatcherImplements ==
    DeliveryInv /\ [DispatcherNext]_dispatcherVars
        => [Delivery!Next]_<<accepted, got, stop = "returned">>
<1> SUFFICES ASSUME DeliveryInv, [DispatcherNext]_dispatcherVars
             PROVE  Delivery!Next \/ UNCHANGED <<accepted, got, stop = "returned">>
  OBVIOUS
<1> USE DEF channelVars
<1>1. CASE Send
  BY <1>1 DEF Send, Delivery!Next, Delivery!Accept
<1>2. CASE StopReturns
  BY <1>2 DEF StopReturns, Delivery!Next, Delivery!Stop
<1>3. CASE Stop
  BY <1>3, DispatcherParts DEF Stop
<1>4. CASE Close \/ Cancel
  BY <1>4 DEF Close, Cancel
<1>5. CASE \E l \in Loop : DispatchEvent(l)
  BY <1>5, DispatchIsGive
<1>6. CASE \E l \in Loop : Start(l) \/ Leave(l) \/ Receive(l) \/ Dispatched(l)
  BY <1>6 DEF Start, Leave, Receive, Dispatched
<1>7. CASE UNCHANGED dispatcherVars
  BY <1>7 DEF dispatcherVars
<1>8. QED
  BY <1>1, <1>2, <1>3, <1>4, <1>5, <1>6, <1>7 DEF DispatcherNext, ProcessEvents

-----------------------------------------------------------------------------
(* The sessions.                                                             *)

SessionsInv == SessionsTypeOK /\ OneSession

LEMMA SessionsInitSound == SessionsInit => SessionsInv
<1> SUFFICES ASSUME SessionsInit PROVE SessionsInv
  OBVIOUS
<1>1. doubled \in BOOLEAN /\ ~doubled
  BY Zenon DEF SessionsInit
<1>2. /\ session \in Nat /\ running = {} /\ expired = {} /\ closed = {}
      /\ call \in [Caller -> {"idle", "invalid"}] /\ main = "starting"
  BY DEF SessionsInit
<1>3. QED  BY <1>1, <1>2 DEF SessionsInv, SessionsTypeOK, OneSession

(* Stopping the session of the manager closes its channel at most once.      *)
LEMMA SessionStopSound ==
    ASSUME SessionsInv, SessionStop(session)
    PROVE  /\ closed' \subseteq 1..session /\ doubled' = FALSE
           /\ closed' \subseteq closed \cup {session}
  BY DEF SessionsInv, SessionsTypeOK, OneSession, SessionStop

LEMMA StartSessionSound ==
    ASSUME SessionsInv, StartSession
    PROVE  /\ session' \in Nat /\ running' \subseteq {session'} /\ running' \subseteq 1..session'
           /\ expired' \subseteq 1..session' /\ closed' \subseteq 1..session'
           /\ running' \cap closed' = {} /\ doubled' = FALSE
<1>1. /\ session \in Nat /\ running \subseteq {session} /\ expired \subseteq 1..session
  BY DEF SessionsInv, SessionsTypeOK, OneSession
<1>2. closed' \subseteq 1..session /\ doubled' = FALSE
  BY SessionStopSound DEF StartSession
<1>3. session' = session + 1 /\ running' = {session + 1} /\ expired' = expired
  BY <1>1 DEF StartSession
<1>4. QED  BY <1>1, <1>2, <1>3

LEMMA EndSessionSound ==
    ASSUME SessionsInv, EndSession
    PROVE  /\ session' = session /\ running' = {} /\ expired' = expired
           /\ closed' \subseteq 1..session /\ doubled' = FALSE
  BY SessionStopSound DEF SessionsInv, OneSession, EndSession

LEMMA SessionsNextSound == SessionsInv /\ [SessionsNext]_sessionVars => SessionsInv'
<1> SUFFICES ASSUME SessionsInv, [SessionsNext]_sessionVars PROVE SessionsInv'
  OBVIOUS
<1>1. CASE StartSession /\ call' \in [Caller -> {"idle", "invalid"}] /\ main' \in {main, "serving"}
  BY <1>1, StartSessionSound DEF SessionsInv, SessionsTypeOK, OneSession
<1>2. CASE MainStart
  BY <1>1, <1>2 DEF MainStart, SessionsInv, SessionsTypeOK
<1>3. CASE \E c \in Caller : ReconcileRenew(c)
  BY <1>1, <1>3 DEF ReconcileRenew, SessionsInv, SessionsTypeOK
<1>4. CASE MainEnd
  BY <1>4, EndSessionSound DEF MainEnd, SessionsInv, SessionsTypeOK, OneSession
<1>5. CASE Expire \/ MainExit \/ \E c \in Caller : ReconcileCheck(c)
  <2>1. /\ UNCHANGED <<session, running, closed, doubled>>
        /\ expired' \subseteq expired \cup running
    BY <1>5 DEF Expire, MainExit, ReconcileCheck
  <2>2. call' \in [Caller -> {"idle", "invalid"}]
    BY <1>5 DEF Expire, MainExit, ReconcileCheck, SessionsInv, SessionsTypeOK
  <2>3. main' \in {main, "exited"}
    BY <1>5 DEF Expire, MainExit, ReconcileCheck
  <2>4. QED  BY <2>1, <2>2, <2>3 DEF SessionsInv, SessionsTypeOK, OneSession
<1>6. CASE UNCHANGED sessionVars
  BY <1>6 DEF sessionVars, SessionsInv, SessionsTypeOK, OneSession
<1>7. QED  BY <1>2, <1>3, <1>4, <1>5, <1>6 DEF SessionsNext

-----------------------------------------------------------------------------
(* Theorems.                                                                 *)

LEMMA WatcherInvariant == WatcherSpec => [](DeliveryInv /\ SessionsInv)
<1>1. DispatcherInit /\ SessionsInit => DeliveryInv /\ SessionsInv
  BY DispatcherInitSound, SessionsInitSound
<1>2. [WatcherNext]_watcherVars => [DispatcherNext]_dispatcherVars /\ [SessionsNext]_sessionVars
  BY DEF WatcherNext, watcherVars
<1>3. DeliveryInv /\ SessionsInv /\ [WatcherNext]_watcherVars => (DeliveryInv /\ SessionsInv)'
  BY <1>2, DispatcherNextSound, SessionsNextSound
<1>4. QED  BY <1>1, <1>3, PTL DEF WatcherSpec, WatcherInit

(* All variables of the watcher package keep their types.                    *)
THEOREM WatcherTypes == WatcherSpec => []WatcherTypeOK
<1>1. DeliveryInv /\ SessionsInv => WatcherTypeOK
  BY DEF DeliveryInv, SessionsInv, WatcherTypeOK
<1>2. QED  BY <1>1, WatcherInvariant, PTL

(* Whatever the goroutines of EventDispatcher.processEvents, Close and Stop  *)
(* do, a received event has reached a handler or is on its way to it in one  *)
(* goroutine.                                                                *)
THEOREM NothingIsLost == WatcherSpec => []NothingLost
<1>1. QED  BY WatcherInvariant, InvariantMeansNothingLost, PTL

(* EventDispatcher gives handlers accepted events only, each once, in the    *)
(* order of the handlers, and none after Stop has returned.                  *)
THEOREM DispatcherKeepsDelivery == WatcherSpec => KeepsDelivery
<1>1. DispatcherInit => Delivery!Init
  BY DEF DispatcherInit, Delivery!Init
<1>2. [WatcherNext]_watcherVars => [DispatcherNext]_dispatcherVars
  BY DEF WatcherNext, watcherVars
<1>3. DeliveryInv /\ [WatcherNext]_watcherVars
         => [Delivery!Next]_<<accepted, got, stop = "returned">>
  BY <1>2, DispatcherImplements
<1>4. QED
  BY <1>1, <1>3, WatcherInvariant, PTL DEF WatcherSpec, WatcherInit, KeepsDelivery, Delivery!Spec

(* However main and the workers of NamespaceReconciler race to start and to  *)
(* end sessions, SessionManager never has two of them running and never     *)
(* closes the channel of one twice.                                          *)
THEOREM SessionIsUnique == WatcherSpec => []OneSession
<1>1. SessionsInv => OneSession
  BY DEF SessionsInv
<1>2. QED  BY <1>1, WatcherInvariant, PTL
==============================================================================
