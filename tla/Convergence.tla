----------------------------- MODULE Convergence -----------------------------
(***************************************************************************)
(* Why the controllers bring every mirror up to date: the inductive         *)
(* invariant behind SyncedWhenQuiet, FaultsContained and RestartHeals.      *)
(*                                                                         *)
(* Nothing in the operator retries: a rejected or failed write is logged,  *)
(* a stale call may put an old copy over a new one, the version of a       *)
(* Mirror is set before anything is written and a source that was missed   *)
(* is remembered as missing. What brings a target up to date is that       *)
(* somebody is always still on the way to it: the invariant says who.      *)
(*                                                                         *)
(* It is not an invariant of every instance. RevokedMirrorsGone and the    *)
(* runs that expect a violation show what a changing policy or a deleted   *)
(* source does. Orderly says under which circumstances it is one.          *)
(***************************************************************************)
EXTENDS Controllers

Original == {m.key : m \in Manifest}

KeyOf(id) == [kind |-> "Secret", id |-> id]

SourceRequest(k) == [ctl |-> "source", kind |-> k.kind, id |-> k.id]
MirrorRequest(k) == [ctl |-> "mirror", kind |-> k.kind, id |-> k.id]

(* There are Secrets only, since the mirror controller reconciles nothing     *)
(* else. Every manifest is that of an original, alone under its name, with  *)
(* a policy that never changes; users write, edit and tamper, but delete    *)
(* neither objects nor namespaces; no Ingress overrides a policy; and the   *)
(* queues have room for the source and its possible mirrors.               *)
Orderly ==
    /\ Kind = {"Secret"} /\ Volatile = {} /\ Budget["delete"] = 0
    /\ \A m \in Manifest : m.from = NoID
    /\ \A m, o \in Manifest : m.key.id.name = o.key.id.name => m = o
    /\ \A w \in Request : w.ctl # "ingress"
    /\ \A m \in Manifest :
          /\ SourceRequest(m.key) \in Request
          /\ \A n \in Namespace \ {m.key.id.ns} : MirrorRequest(Target(m.key, n)) \in Request

(* id is where a copy of the original k may stand.                           *)
Beside(id, k) == k \in Original /\ id.name = k.id.name /\ id.ns # k.id.ns

(* What the source controller takes for a source.                            *)
OptedIn(m) == m.policy.replicate /\ ~m.helm

(* m asks for a copy in namespace n, and allows it there.                     *)
Wanted(m, n) ==
    /\ OptedIn(m) /\ n # m.key.id.ns
    /\ CanAutoMirrorToNamespace(m.policy, n) /\ CanReflectToNamespace(m.policy, n)

-----------------------------------------------------------------------------
(* What can be relied on around a target.                                    *)

(* No namespace comes or goes, and faults are counted.                        *)
Steady ==
    /\ phase = [n \in Namespace |-> "active"] /\ nsSeen = Namespace /\ nsDrop = {}
    /\ budget["delete"] = 0 /\ budget["fault"] <= Budget["fault"]

(* An object is a revision of an original ...                                 *)
OriginalEntry(e) ==
    /\ e.live /\ e.from = NoID
    /\ \E m \in Manifest : e.key = m.key /\ e.policy = m.policy /\ e.helm = m.helm

(* ... or a copy of one, of a revision that the cache has reached, with the    *)
(* content of that revision or a later one unless somebody tampered with it. *)
CopyEntry(e) ==
    /\ e.live /\ e.policy = NoPolicy /\ ~e.helm
    /\ e.ver \in 1..Len(log)
    /\ e.ver <= seen[log[e.ver].key]
    /\ Beside(e.key.id, log[e.ver].key) /\ e.from = log[e.ver].key.id
    /\ e.by = "operator" =>
          \E d \in e.ver..Len(log) : log[d].key = log[e.ver].key /\ e.data = log[d].data

LogOrderly ==
    \A i \in 1..Len(log) : /\ i <= head[log[i].key]
                           /\ OriginalEntry(log[i]) \/ CopyEntry(log[i])

(* A registered Mirror is that of its ID, and of the original of its name.     *)
StoreOrderly ==
    \A id \in ID : Registered(id) =>
        LET m == heap[store[id]]
        IN  m.id = id /\ m.source \in ID /\ Beside(id, KeyOf(m.source))

(* A version was read from the cache.                                          *)
VersionsOrderly ==
    \A p \in Ptr : LET v == heap[p].version
                   IN  v # 0 => v \in 1..Len(log) /\ v <= seen[log[v].key]

Held(w) == job[w].ptrs \cup ({job[w].cur} \ {Nil})

(* A call belongs to a Reconcile, carries the policy of its original and the   *)
(* original's name, and handles mirrors of its original only.               *)
JobOrderly(w) ==
    job[w].pc # "idle" =>
        /\ w \in Request /\ stage[w].at = "execute"
        /\ job[w].policy \in {log[job[w].ver].policy, MirrorView(log[job[w].ver].policy)}
        /\ job[w].name = SourceID(w).name
        /\ SourceID(w).ns \notin job[w].nss
        /\ job[w].pc \in {"conflict", "create"} => Beside(job[w].at, SourceKey(w))
        /\ job[w].pc = "forget" =>
              \A id \in job[w].ids : /\ Beside(id, SourceKey(w))
                                     /\ ~CanAutoMirrorToNamespace(job[w].policy, id.ns)
        /\ \A p \in Held(w) :
              heap[p].source = SourceID(w) /\ Beside(heap[p].id, SourceKey(w))

(* A Reconcile has read the original that its request, or the annotation of    *)
(* its mirror, names; whoever is about to read finds something.             *)
StageOrderly(w) ==
    LET s == stage[w]
    IN  /\ s.at = "fetch" \/ w \in queue => w.ctl = "certificate" \/ seen[KeyOf(w.id)] # 0
        /\ s.at \in {"hit", "issued"} => log[s.ver].key = KeyOf(w.id)
        /\ s.at = "issued" => s.via = log[s.ver].policy
        /\ s.at = "source" => seen[KeyOf(s.from)] # 0
        /\ s.at \in {"source", "adopt", "orphan", "register", "count"} \/ s.left > 0 =>
              s.from \in ID /\ Beside(w.id, KeyOf(s.from))
        /\ s.at \in {"register", "count"} \/ s.left > 0 => log[s.ver].key = KeyOf(s.from)
        /\ s.at = "miss" => \A m \in Manifest : OptedIn(m) => m.key.id # w.id
        /\ s.at \in {"adopt", "orphan"} =>
              \A m \in Manifest : OptedIn(m) => m.key.id # s.from

(* A source is never taken for missing.                                        *)
NotFoundOrderly == \A m \in Manifest : OptedIn(m) => m.key.id \notin notFound

OrderlyInv ==
    /\ Orderly /\ Steady /\ LogOrderly /\ StoreOrderly /\ VersionsOrderly /\ NotFoundOrderly
    /\ \A w \in Worker : JobOrderly(w)
    /\ \A w \in Request : StageOrderly(w)

-----------------------------------------------------------------------------
(* Who is on the way to the target of m in namespace n.                       *)

TargetKey(m, n) == Target(m.key, n)

(* The target is labelled with the current revision.                           *)
Settled(m, n) ==
    LET h == head[TargetKey(m, n)]
    IN  h # 0 /\ log[h].ver = head[m.key]

(* The current revision of the source is on its way to Execute.               *)
SourcePending(m) ==
    LET w == SourceRequest(m.key)
    IN  \/ seen[m.key] < head[m.key]
        \/ w \in queue \/ stage[w].at = "fetch"
        \/ stage[w].at = "hit" /\ stage[w].ver = head[m.key]

(* The mirror controller has yet to look at the target: it registers a new    *)
(* Mirror, which has no version.                                           *)
MirrorPending(m, n) ==
    LET c == TargetKey(m, n)
        w == MirrorRequest(c)
    IN  \/ seen[c] < head[c]
        \/ w \in queue \/ stage[w].at \in {"fetch", "source"}
        \/ stage[w].at = "register" /\ stage[w].ver = head[m.key]

(* The Mirror registered for the target does not have, has the current version. *)
Behind(m, n) ==
    LET id == TargetKey(m, n).id
    IN  Registered(id) /\ heap[store[id]].version # head[m.key]

Current(m, n) ==
    LET id == TargetKey(m, n).id
    IN  Registered(id) /\ heap[store[id]].version = head[m.key]

(* The mirror controller has registered it, and is about to call Execute.      *)
MirrorNext(m, n) ==
    LET s == stage[MirrorRequest(TargetKey(m, n))]
    IN  s.at \in {"count", "loop"} /\ s.ver = head[m.key] /\ Behind(m, n)

(* p is a Mirror of the target that is due.                                    *)
Due(m, n, p) == heap[p].id = TargetKey(m, n).id /\ heap[p].version # head[m.key]

(* Call w is about to write the current revision to the target: the version   *)
(* is set or will be, and the write is going to be accepted.                *)
InTheHandOf(m, n, w) ==
    /\ job[w].ver = head[m.key]
    /\ job[w].cur # Nil /\ heap[job[w].cur].id = TargetKey(m, n).id
    /\ \/ job[w].pc \in {"set", "get"}
       \/ job[w].pc = "write" /\ job[w].got = head[TargetKey(m, n)]

(* Call w has yet to create, list, take up or write the mirror.                *)
OnTheWay(m, n, w) ==
    /\ job[w].ver = head[m.key]
    /\ \/ /\ \/ job[w].pc \in {"auto", "conflict", "create"} /\ n \in job[w].nss
             \/ job[w].pc \in {"conflict", "create"} /\ job[w].at = TargetKey(m, n).id
          /\ ~Current(m, n)
       \/ job[w].pc \in {"auto", "conflict", "create", "cleanup", "forget"} /\ Behind(m, n)
       \/ /\ job[w].pc \in {"mirrors", "check", "set", "get", "write"}
          /\ \E p \in job[w].ptrs : Due(m, n, p)
       \/ job[w].pc = "check" /\ job[w].cur # Nil /\ Due(m, n, job[w].cur)
       \/ InTheHandOf(m, n, w)

(* The target is up to date or somebody is on the way to it.                   *)
Promised(m, n) ==
    \/ Settled(m, n) \/ SourcePending(m) \/ MirrorPending(m, n) \/ MirrorNext(m, n)
    \/ \E w \in Worker : OnTheWay(m, n, w)

(* A Mirror has the current version, so no call will write it again, only if   *)
(* the target has it too, or gets it, or is looked at again.                *)
Backed(m, n) ==
    Current(m, n) => \/ Settled(m, n) \/ MirrorPending(m, n)
                     \/ \E w \in Worker : InTheHandOf(m, n, w)

Attended(m, n) == Wanted(m, n) /\ head[m.key] # 0 => Promised(m, n) /\ Backed(m, n)

(* Every target is attended to, but for one for each write that failed.        *)
Converging ==
    OrderlyInv /\ \E lost \in SUBSET Namespace :
        /\ Cardinality(lost) <= Budget["fault"] - budget["fault"]
        /\ \A m \in Manifest, n \in Namespace \ lost : Attended(m, n)
==============================================================================
