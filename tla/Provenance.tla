------------------------------ MODULE Provenance ------------------------------
(***************************************************************************)
(* Why a copy stands where it stands: the inductive invariant behind        *)
(* CopiesHaveReasons and CopiesAreAskedFor.                                 *)
(*                                                                         *)
(* Execute writes every mirror that is registered for the ID of its        *)
(* source, whoever registered it: an earlier call under another policy, a  *)
(* rule, the mirror controller that read replicated-from in an object. The *)
(* call itself may carry a policy that allows all namespaces. So what      *)
(* keeps copies out of a namespace is that nothing is ever registered      *)
(* without a reason, and that no call writes a mirror of another source.   *)
(*                                                                         *)
(* R is the set of rules that count: none where there are none, and in     *)
(* ClusterRules those that have been stored.                               *)
(***************************************************************************)
EXTENDS Controllers

(* A rule asks for a copy of k in n, in so many words.                      *)
Asks(spec, k, n) ==
    /\ Covers(spec, k)
    /\ n \in spec.matches /\ n \notin spec.excludes
    /\ spec.includes # {} => n \in spec.includes

-----------------------------------------------------------------------------
(* The three reasons for which a source may have a mirror at id.            *)

(* A revision of the source, with what an Ingress adds to it, pushed it to  *)
(* the namespace, under its own name.                                       *)
OwnPolicies(e) == {e.policy, MirrorView(e.policy)} \cup IngressPolicies(e)

AnnotationsAsk(source, id) ==
    /\ id.name = source.name /\ id.ns # source.ns
    /\ \E i \in 1..Len(log) :
          /\ log[i].key.id = source
          /\ \E policy \in OwnPolicies(log[i]) : CanAutoMirrorToNamespace(policy, id.ns)

(* A rule of R asks for it, under the name that the rule gives it.          *)
ARuleAsks(R, source, id) ==
    /\ id.ns # source.ns
    /\ \E spec \in R, kind \in Kind :
          /\ Asks(spec, [kind |-> kind, id |-> source], id.ns)
          /\ id.name = TransformTargetName(spec, source.name)

(* A user has applied an object that is marked replicated-from there.       *)
AUserAsks(source, id) ==
    \E i \in 1..Len(log) : /\ log[i].key.id = id /\ log[i].from = source
                           /\ log[i].by = "user" /\ log[i].ver = 0

Reason(R, source, id) ==
    AnnotationsAsk(source, id) \/ ARuleAsks(R, source, id) \/ AUserAsks(source, id)

-----------------------------------------------------------------------------
(* Who may have a reason at all: the same three, of what users can write.   *)

(* The rules that the webhook lets in.                                      *)
Admissible == {spec \in Rule : ValidateRule(spec)}

(* The policies that an object at source may carry; a copy carries none.    *)
PoliciesAt(source) == {NoPolicy} \cup {m.policy : m \in {o \in Manifest : o.key.id = source}}

Claims(source, id) ==
    \/ /\ id.name = source.name /\ id.ns # source.ns
       /\ \E own \in PoliciesAt(source) :
             \E policy \in {own, MirrorView(own)} \cup UNION {Merged(own, t) : t \in Template} :
                CanAutoMirrorToNamespace(policy, id.ns)
    \/ ARuleAsks(Admissible, source, id)
    \/ \E m \in Manifest : m.key.id = id /\ m.from = source

(* No two sources are after the same ID.                                    *)
Uncontested == \A id, a, b \in ID : Claims(a, id) /\ Claims(b, id) => a = b

-----------------------------------------------------------------------------
(* The inductive invariant.                                                 *)

(* Every revision that is marked replicated-from, and of one that the       *)
(* operator wrote the label names a revision of that source.                *)
LogReasoned(R) ==
    \A i \in 1..Len(log) :
        /\ log[i].from # NoID => Reason(R, log[i].from, log[i].key.id)
        /\ log[i].by = "operator" => /\ log[i].ver \in 1..Len(log)
                                     /\ log[i].from = log[log[i].ver].key.id

(* Every Mirror object, registered or forgotten.                            *)
HeapReasoned(R) ==
    \A p \in Ptr : heap[p].id # NoID => Reason(R, heap[p].source, heap[p].id)

(* A call is about to register mirrors that have one, and handles mirrors of *)
(* its own source only.                                                     *)
JobReasoned(R, j) ==
    LET source == log[j.ver].key.id
    IN  j.pc # "idle" =>
          /\ \A n \in j.nss : Reason(R, source, [ns |-> n, name |-> j.name])
          /\ j.pc \in {"conflict", "create"} => Reason(R, source, j.at)
          /\ \A p \in Ptr : p \in j.ptrs \/ p = j.cur => heap[p].source = source

(* A Reconcile has read the object that its request, or the annotation of its *)
(* mirror, names; a mirror that it is about to register has a reason.       *)
StageReasoned(R, w, s) ==
    /\ s.at \in {"source", "adopt", "register"} => Reason(R, s.from, w.id)
    /\ s.at \in {"hit", "issued"} => log[s.ver].key.id = w.id
    /\ s.at = "issued" => s.via \in OwnPolicies(log[s.ver])
    /\ s.at \in {"register", "count"} \/ s.left > 0 => log[s.ver].key.id = s.from

Reasoned(R) ==
    /\ LogReasoned(R) /\ HeapReasoned(R)
    /\ \A w \in Worker : JobReasoned(R, job[w])
    /\ \A w \in Request : StageReasoned(R, w, stage[w])

-----------------------------------------------------------------------------
(* The registry.                                                            *)

(* What stands in the log was claimed in a manifest.                        *)
LogClaimed ==
    \A i \in 1..Len(log) :
        /\ log[i].policy \in PoliciesAt(log[i].key.id)
        /\ log[i].ver = 0 /\ log[i].from # NoID =>
              \E m \in Manifest : m.key.id = log[i].key.id /\ m.from = log[i].from

(* A Mirror object has a source, and is registered for its own ID only.     *)
RegistrySound ==
    /\ \A p \in Ptr : heap[p].id # NoID => heap[p].source \in ID
    /\ \A id \in ID : Registered(id) => heap[store[id]].id = id

(* The store and the cluster name the same source for an ID: whatever has   *)
(* been marked replicated-from there, by users or by the operator, then or  *)
(* now, is of the source that the ID is registered for.                     *)
RegistryExact ==
    \A id \in ID, i \in 1..Len(log) :
        Registered(id) /\ log[i].key.id = id /\ log[i].from # NoID =>
            heap[store[id]].source = log[i].from

-----------------------------------------------------------------------------
(* Properties.                                                              *)

(* No copy without a reason: whatever the operator wrote, it wrote where    *)
(* some revision of the source pushed it, or where a user asked for it. That *)
(* holds of calls whose Source is stale by now and of mirrors that another  *)
(* call registered. ClusterRules says the same of an operator with rules.   *)
CopiesHaveReasons ==
    \A i \in 1..Len(log) :
        log[i].by = "operator" => Reason({}, log[i].from, log[i].key.id)
==============================================================================
