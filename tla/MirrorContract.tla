---------------------------- MODULE MirrorContract ----------------------------
(***************************************************************************)
(* What the operator promises the cluster, whatever its schedule: the only *)
(* thing it does is append copies, and every copy is an honest one. The     *)
(* state is the log of revisions alone.                                    *)
(***************************************************************************)
EXTENDS Resources

VARIABLE log

Init == log = <<>>

Appended == log'[Len(log')]

Grows == Len(log') = Len(log) + 1 /\ log' = Append(log, Appended)

(* Somebody else writes or deletes an object.                              *)
UserWrite == Grows /\ Appended.by = "user"

(* e is a copy whose label names revision v and whose content is that of    *)
(* revision r: both are live revisions of one source object, the content   *)
(* is not older than the label, and one of the policies that stand for the *)
(* labelled revision allows the namespace of the copy.                     *)
HonestCopy(e, v, r) ==
    /\ v <= r
    /\ log[v].live /\ log[r].live
    /\ log[v].key = log[r].key
    /\ e = MirrorEntry(e.key, log[r].data, log[v].key.id, v, e.auto)
    /\ \E policy \in Sources(log[v]) : CanReflectToNamespace(policy, e.key.id.ns)

(* The operator writes a mirror. It never appends a tombstone.             *)
MirrorWrite ==
    /\ Grows
    /\ Appended.by = "operator"
    /\ \E v, r \in 1..Len(log) : HonestCopy(Appended, v, r)

Next == UserWrite \/ MirrorWrite

Spec == Init /\ [][Next]_log
==============================================================================
