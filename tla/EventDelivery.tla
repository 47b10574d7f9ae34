---------------------------- MODULE EventDelivery ----------------------------
(***************************************************************************)
(* What an EventDispatcher promises: a handler is given accepted events    *)
(* only, each once and after the handlers that were added before it have   *)
(* it, and nothing any more once Stop has returned.                        *)
(***************************************************************************)
EXTENDS Naturals

CONSTANT H      \* the number of handlers

VARIABLES
    accepted,   \* events are numbered in the order in which Send accepted them
    got,        \* got[h]: the events that handler h has been given
    stopped     \* Stop has returned

Init ==
    /\ accepted = 0
    /\ got = [h \in 1..H |-> {}]
    /\ stopped = FALSE

Accept ==
    /\ accepted' = accepted + 1
    /\ UNCHANGED <<got, stopped>>

Give(h, e) ==
    /\ ~stopped
    /\ e \in 1..accepted /\ e \notin got[h]
    /\ \A g \in 1..(h - 1) : e \in got[g]
    /\ got' = [got EXCEPT ![h] = @ \cup {e}]
    /\ UNCHANGED <<accepted, stopped>>

Stop ==
    /\ stopped' = TRUE
    /\ UNCHANGED <<accepted, got>>

Next == Accept \/ Stop \/ \E h \in 1..H, e \in 1..accepted : Give(h, e)

Spec == Init /\ [][Next]_<<accepted, got, stopped>>
==============================================================================
