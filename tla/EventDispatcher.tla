--------------------------- MODULE EventDispatcher ---------------------------
(***************************************************************************)
(* EventChannel and EventDispatcher of the watcher package: goroutines     *)
(* send events into a bounded channel, the goroutines that Start created   *)
(* take them out and call every handler with each.                         *)
(*                                                                         *)
(* A Go channel is first in, first out: events are numbered in the order   *)
(* in which Send accepted them, and the channel holds taken+1..accepted.   *)
(* Closing a channel twice panics and ends the process: both Close and     *)
(* Stop do so when they are called a second time.                          *)
(***************************************************************************)
EXTENDS Naturals

CONSTANTS
    Loop,       \* the goroutines of processEvents: Start creates one
    H,          \* the number of handlers
    BufferSize,
    MaxEvents   \* no more events are accepted

ASSUME DispatcherAssumption ==
    H \in Nat /\ BufferSize \in Nat \ {0} /\ MaxEvents \in Nat

VARIABLES
    accepted,   \* the number of events that Send accepted
    taken,      \* the number of events that were received
    done,       \* the channel is closed
    stop,       \* "no", "waiting": stopCh is closed, "returned": Stop is back
    cancelled,  \* the context of Start is done
    panicked,
    loop,       \* loop[l]: where goroutine l stands
    got         \* got[h]: the events that handler h has been given

channelVars == <<accepted, taken, done>>
dispatcherVars == <<channelVars, stop, cancelled, panicked, loop, got>>

(* event: the one in hand; next: the handler that gets it next.              *)
NoLoop == [at |-> "none", event |-> 0, next |-> 1]

DispatcherTypeOK ==
    /\ accepted \in Nat /\ taken \in 0..accepted
    /\ done \in BOOLEAN /\ cancelled \in BOOLEAN /\ panicked \in BOOLEAN
    /\ stop \in {"no", "waiting", "returned"}
    /\ loop \in [Loop -> [at: {"none", "select", "handle", "returned"},
                          event: Nat, next: 1..(H + 1)]]
    /\ got \in [1..H -> SUBSET Nat]

DispatcherInit ==
    /\ accepted = 0 /\ taken = 0 /\ done = FALSE
    /\ stop = "no" /\ cancelled = FALSE /\ panicked = FALSE
    /\ loop = [l \in Loop |-> NoLoop]
    /\ got = [h \in 1..H |-> {}]

-----------------------------------------------------------------------------
(* EventChannel. Send holds the lock for reading, Close for writing: none    *)
(* sends to a closed channel.                                              *)

Pending == accepted - taken

(* Send refuses an event when the channel is closed or full: it is lost, and *)
(* nothing changes.                                                        *)
Send ==
    /\ ~done /\ Pending < BufferSize
    /\ accepted < MaxEvents
    /\ accepted' = accepted + 1
    /\ UNCHANGED <<taken, done, stop, cancelled, panicked, loop, got>>

Close ==
    /\ done' = TRUE
    /\ panicked' = done
    /\ UNCHANGED <<accepted, taken, stop, cancelled, loop, got>>

-----------------------------------------------------------------------------
(* EventDispatcher.                                                          *)

(* A WaitGroup allows Add before Wait only: Start comes before Stop.         *)
Start(l) ==
    /\ loop[l].at = "none" /\ stop = "no"
    /\ loop' = [loop EXCEPT ![l].at = "select"]
    /\ UNCHANGED <<channelVars, stop, cancelled, panicked, got>>

Stop ==
    /\ stop' = IF stop = "no" THEN "waiting" ELSE stop
    /\ panicked' = (stop # "no")
    /\ UNCHANGED <<channelVars, cancelled, loop, got>>

(* Mutant: Stop does not wait for the goroutines.                            *)
StopReturnsAtOnce ==
    /\ stop = "waiting"
    /\ stop' = "returned"
    /\ UNCHANGED <<channelVars, cancelled, panicked, loop, got>>

StopReturns ==
    /\ stop = "waiting"
    /\ \A l \in Loop : loop[l].at \in {"none", "returned"}
    /\ stop' = "returned"
    /\ UNCHANGED <<channelVars, cancelled, panicked, loop, got>>

Cancel ==
    /\ ~cancelled
    /\ cancelled' = TRUE
    /\ UNCHANGED <<channelVars, stop, panicked, loop, got>>

(* Mutant: the goroutine leaves as soon as the channel is closed.            *)
LeaveWhenClosed(l) ==
    /\ loop[l].at = "select"
    /\ cancelled \/ stop # "no" \/ done
    /\ loop' = [loop EXCEPT ![l].at = "returned"]
    /\ UNCHANGED <<channelVars, stop, cancelled, panicked, got>>

(* Mutant: the goroutine does not listen to stopCh.                          *)
LeaveWhenCancelled(l) ==
    /\ loop[l].at = "select"
    /\ cancelled \/ (done /\ Pending = 0)
    /\ loop' = [loop EXCEPT ![l].at = "returned"]
    /\ UNCHANGED <<channelVars, stop, cancelled, panicked, got>>

(* The select of processEvents takes one of the cases that are ready: it      *)
(* leaves, or it takes an event.                                           *)
Leave(l) ==
    /\ loop[l].at = "select"
    /\ cancelled \/ stop # "no" \/ (done /\ Pending = 0)
    /\ loop' = [loop EXCEPT ![l].at = "returned"]
    /\ UNCHANGED <<channelVars, stop, cancelled, panicked, got>>

(* Mutant: what a closed channel gives back is taken for an event.           *)
ReceiveUnchecked(l) ==
    /\ loop[l].at = "select"
    /\ Pending > 0 \/ done
    /\ taken' = taken + 1
    /\ loop' = [loop EXCEPT ![l] = [at |-> "handle", event |-> taken + 1, next |-> 1]]
    /\ UNCHANGED <<accepted, done, stop, cancelled, panicked, got>>

Receive(l) ==
    /\ loop[l].at = "select"
    /\ Pending > 0
    /\ taken' = taken + 1
    /\ loop' = [loop EXCEPT ![l] = [at |-> "handle", event |-> taken + 1, next |-> 1]]
    /\ UNCHANGED <<accepted, done, stop, cancelled, panicked, got>>

(* Mutant: a handler that fails keeps the event from the others.             *)
DispatchToFirst(l) ==
    /\ loop[l].at = "handle" /\ loop[l].next <= H
    /\ got' = [got EXCEPT ![loop[l].next] = @ \cup {loop[l].event}]
    /\ \/ loop' = [loop EXCEPT ![l].next = @ + 1]
       \/ loop' = [loop EXCEPT ![l] = [@ EXCEPT !.at = "select", !.event = 0]]
    /\ UNCHANGED <<channelVars, stop, cancelled, panicked>>

(* dispatchEvent calls the handlers one after the other. The error of one    *)
(* goes to its OnError, and the next is called.                            *)
DispatchEvent(l) ==
    /\ loop[l].at = "handle" /\ loop[l].next <= H
    /\ got' = [got EXCEPT ![loop[l].next] = @ \cup {loop[l].event}]
    /\ loop' = [loop EXCEPT ![l].next = @ + 1]
    /\ UNCHANGED <<channelVars, stop, cancelled, panicked>>

Dispatched(l) ==
    /\ loop[l].at = "handle" /\ loop[l].next = H + 1
    /\ loop' = [loop EXCEPT ![l] = [@ EXCEPT !.at = "select", !.event = 0]]
    /\ UNCHANGED <<channelVars, stop, cancelled, panicked, got>>

ProcessEvents(l) == Leave(l) \/ Receive(l) \/ DispatchEvent(l) \/ Dispatched(l)

DispatcherNext ==
    /\ ~panicked
    /\ \/ Send \/ Close \/ Stop \/ StopReturns \/ Cancel
       \/ \E l \in Loop : Start(l) \/ ProcessEvents(l)

DispatcherSpec == DispatcherInit /\ [][DispatcherNext]_dispatcherVars

-----------------------------------------------------------------------------
(* Properties.                                                               *)

(* A goroutine that has event e in hand and has yet to give it to handler h. *)
Holds(l, e, h) == loop[l].at = "handle" /\ loop[l].event = e /\ loop[l].next <= h

(* No event is lost between the channel and the handlers, whatever fails,    *)
(* closes or stops in between: each one that was received has been given   *)
(* to each handler or is on its way to it in exactly one goroutine.        *)
NothingLost ==
    \A e \in 1..taken, h \in 1..H :
        \/ e \in got[h] /\ \A l \in Loop : ~Holds(l, e, h)
        \/ e \notin got[h] /\ \E l \in Loop : Holds(l, e, h)
                                 /\ \A m \in Loop \ {l} : ~Holds(m, e, h)

(* Why: the inductive invariant. The events in hand are received ones, no    *)
(* two goroutines have the same, a handler lacks exactly the events that   *)
(* are on their way to it, and none are once Stop has returned.            *)
HandsSound ==
    \A l \in Loop : loop[l].at = "handle" =>
        /\ loop[l].event \in 1..taken
        /\ \A m \in Loop \ {l} : loop[m].at = "handle" => loop[m].event # loop[l].event

GotSound ==
    /\ \A h \in 1..H : got[h] \subseteq 1..taken
    /\ \A e \in 1..taken, h \in 1..H : e \notin got[h] <=> \E l \in Loop : Holds(l, e, h)

StopSound == stop = "returned" => \A l \in Loop : loop[l].at \in {"none", "returned"}

DeliveryInv == DispatcherTypeOK /\ HandsSound /\ GotSound /\ StopSound

(* Calls of the handlers keep EventDelivery: in particular none is made       *)
(* after Stop has returned.                                                *)
Delivery == INSTANCE EventDelivery WITH stopped <- stop = "returned"

KeepsDelivery == Delivery!Spec

(* Stop comes back: every goroutine ends its event and notices stopCh.       *)
StopComesBack == stop = "waiting" ~> stop = "returned" \/ panicked

(* With a goroutine running every accepted event reaches every handler, also  *)
(* when the channel is closed meanwhile, unless the dispatcher is stopped.  *)
EventsReachHandlers ==
    \A e \in 1..MaxEvents :
        (e <= accepted /\ \E l \in Loop : loop[l].at \in {"select", "handle"}) ~>
        \/ \A h \in 1..H : e \in got[h]
        \/ stop # "no" \/ cancelled \/ panicked
==============================================================================
