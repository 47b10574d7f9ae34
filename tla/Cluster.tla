------------------------------- MODULE Cluster -------------------------------
(***************************************************************************)
(* The Kubernetes API server and the informer cache of the operator, as    *)
(* far as the code relies on them. Both are external to the repository.    *)
(*                                                                         *)
(* The API server is a log of object revisions: the index of an entry is   *)
(* its resourceVersion, the latest entry of a key is the stored object and *)
(* a deletion appends a tombstone. The informer cache holds, for each key, *)
(* the latest revision the watch has delivered; every Get and List of the  *)
(* operator (mgr.GetClient()) answers from the cache, every Create and     *)
(* Update goes to the log.                                                 *)
(*                                                                         *)
(* The content of an object is the revision that introduced it: two        *)
(* objects hold the same data iff their data fields are equal.             *)
(***************************************************************************)
EXTENDS Resources

CONSTANTS
    Manifest,   \* the manifests users apply
    Volatile,   \* the namespaces that may be deleted and created again
    Budget,     \* how often each kind of disturbance may happen
    MaxRevision \* the operator writes nothing beyond this revision

(* What happens around the operator. The modules that extend this one use  *)
(* "fault" (a write request fails), "restart" (of the operator), "expire"  *)
(* (of a cache entry), "event" (a resync of an informer, or an event of a  *)
(* Certificate or an Ingress) and "rule" (a user writes a                  *)
(* ClusterReplicationRule).                                                *)
Disturbance == {"apply", "edit", "tamper", "delete", "namespace", "fault", "restart",
                "expire", "event", "rule"}

ASSUME ClusterAssumption ==
    /\ Manifest \subseteq [key: Key, policy: Policy, helm: BOOLEAN,
                           from: ID \cup {NoID}]
    /\ Volatile \subseteq Namespace
    /\ Budget \in [Disturbance -> Nat]
    /\ MaxRevision \in Nat

VARIABLES
    log,        \* the API server: the sequence of revisions
    head,       \* head[k]: the latest revision of key k, 0 if there is none
    seen,       \* seen[k]: the revision of k the informer cache holds, or 0
    phase,      \* phase[n]: "active", "terminating" or "gone"
    nsSeen,     \* the namespaces in the informer cache
    budget      \* what is left of Budget

clusterVars == <<log, head, seen, phase, nsSeen, budget>>

ClusterTypeOK ==
    /\ log \in Seq(Entry)
    /\ head \in [Key -> 0..Len(log)]
    /\ seen \in [Key -> 0..Len(log)]
    /\ phase \in [Namespace -> {"active", "terminating", "gone"}]
    /\ nsSeen \subseteq Namespace
    /\ budget \in [Disturbance -> Nat]

ClusterInit ==
    /\ log = <<>>
    /\ head = [k \in Key |-> 0]
    /\ seen = [k \in Key |-> 0]
    /\ phase = [n \in Namespace |-> "active"]
    /\ nsSeen = Namespace
    /\ budget = Budget

-----------------------------------------------------------------------------
(* Reading.                                                                *)

(* Revision r exists and is not a tombstone: a Get that answers r succeeds, *)
(* any other answer is a NotFound error.                                   *)
Live(r) == r # 0 /\ log[r].live

(* Revision r of key k is the one that the watch delivers next.             *)
NextEvent(k, r) ==
    /\ r \in (seen[k] + 1)..head[k] /\ log[r].key = k
    /\ \A q \in (seen[k] + 1)..(r - 1) : log[q].key # k

-----------------------------------------------------------------------------
(* Writing. Every write appends one revision and becomes the head of its    *)
(* key.                                                                    *)

Spend(d) == budget[d] > 0 /\ budget' = [budget EXCEPT ![d] = @ - 1]

Commit(e) ==
    /\ log' = Append(log, e)
    /\ head' = [head EXCEPT ![e.key] = Len(log) + 1]

(* A user applies a manifest: it creates the object or replaces it, with   *)
(* new content.                                                            *)
Apply(m) ==
    /\ Spend("apply")
    /\ phase[m.key.id.ns] = "active"
    /\ Commit([key |-> m.key, live |-> TRUE, by |-> "user",
               data |-> Len(log) + 1, policy |-> m.policy, helm |-> m.helm,
               from |-> m.from, ver |-> 0, auto |-> FALSE])
    /\ UNCHANGED <<seen, phase, nsSeen>>

(* A user changes the content of an object and leaves its metadata alone.   *)
(* Doing so to a mirror is tampering.                                      *)
EditData(k) ==
    /\ Live(head[k])
    /\ Spend(IF log[head[k]].from = NoID THEN "edit" ELSE "tamper")
    /\ Commit([log[head[k]] EXCEPT !.by = "user", !.data = Len(log) + 1])
    /\ UNCHANGED <<seen, phase, nsSeen>>

(* A user deletes an object.                                               *)
Delete(k) ==
    /\ Spend("delete")
    /\ Live(head[k])
    /\ Commit([log[head[k]] EXCEPT !.by = "user", !.live = FALSE])
    /\ UNCHANGED <<seen, phase, nsSeen>>

(* A namespace is deleted: it terminates, loses its objects one by one and  *)
(* goes.                                                                   *)
NamespaceTerminate(n) ==
    /\ n \in Volatile
    /\ Spend("namespace")
    /\ phase[n] = "active"
    /\ phase' = [phase EXCEPT ![n] = "terminating"]
    /\ UNCHANGED <<log, head, seen, nsSeen>>

NamespacePurge(k) ==
    /\ phase[k.id.ns] = "terminating"
    /\ Live(head[k])
    /\ Commit([log[head[k]] EXCEPT !.by = "user", !.live = FALSE])
    /\ UNCHANGED <<seen, phase, nsSeen, budget>>

NamespaceRemove(n) ==
    /\ phase[n] = "terminating"
    /\ \A k \in Key : k.id.ns = n => ~Live(head[k])
    /\ phase' = [phase EXCEPT ![n] = "gone"]
    /\ UNCHANGED <<log, head, seen, nsSeen, budget>>

NamespaceCreate(n) ==
    /\ Spend("namespace")
    /\ phase[n] = "gone"
    /\ phase' = [phase EXCEPT ![n] = "active"]
    /\ UNCHANGED <<log, head, seen, nsSeen>>

UserStep ==
    \/ \E m \in Manifest : Apply(m)
    \/ \E k \in Key : EditData(k) \/ Delete(k) \/ NamespacePurge(k)
    \/ \E n \in Namespace :
          NamespaceTerminate(n) \/ NamespaceRemove(n) \/ NamespaceCreate(n)

-----------------------------------------------------------------------------
(* The watch brings the cache up to date, one revision at a time for each   *)
(* key; the order between keys is open.                                    *)

Observe(k, r) ==
    /\ NextEvent(k, r)
    /\ seen' = [seen EXCEPT ![k] = r]
    /\ UNCHANGED <<log, head, phase, nsSeen, budget>>

ObserveNamespace(n) ==
    /\ (n \in nsSeen) # (phase[n] # "gone")
    /\ nsSeen' = IF phase[n] = "gone" THEN nsSeen \ {n} ELSE nsSeen \cup {n}
    /\ UNCHANGED <<log, head, seen, phase, budget>>
==============================================================================
