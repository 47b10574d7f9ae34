----------------------------- MODULE RuleReports -----------------------------
(***************************************************************************)
(* When the status of a ClusterReplicationRule can be believed: the        *)
(* inductive invariant behind StatusCounts.                                *)
(*                                                                         *)
(* A reconcile reports a resource with all its targets as soon as Execute  *)
(* has come back, and Execute comes back without an error whatever became  *)
(* of its writes. A target is left out without a word when it is the       *)
(* namespace of the source, when its ID is registered for another source,  *)
(* when an object is in the way, when the source is gone, when the write   *)
(* fails or its namespace is going, when somebody unregisters it, and when *)
(* another call has recorded the version and not written yet. The first    *)
(* and the failing writes are counted. Trusted rules out the rest; what    *)
(* remains is that the list, the targets, the registrations and the        *)
(* payload are of different moments, that a write is rejected, that a      *)
(* version stays recorded after its write has failed, that the mirror      *)
(* controller registers mirrors anew in between, and that the operator     *)
(* restarts.                                                               *)
(***************************************************************************)
EXTENDS ClusterRules

(* Rules alone replicate, one rule object is in use, no two sources are after *)
(* one target, no user has an object of his own at a target, and sources and *)
(* namespaces stay. With two rule objects one may report what the other has *)
(* recorded and not written, or the cleanup of one drop what the other has  *)
(* registered.                                                              *)
Trusted ==
    /\ RulesAlone /\ Uncontested
    /\ \A r, s \in RuleName : r = s
    /\ \A m \in Manifest, source \in ID : ~ARuleAsks(Admissible, source, m.key.id)
    /\ Volatile = {} /\ Budget["delete"] = 0

(* In what follows lost are the keys that a write has failed for.           *)

(* The operator has written a copy of source to key c, which is Copied, by  *)
(* ID; or it has failed to.                                                 *)
Written(lost, source, c) ==
    \/ c \in lost
    \/ \E i \in 1..Len(log) :
          log[i].key = c /\ log[i].by = "operator" /\ log[i].from = source

-----------------------------------------------------------------------------
(* Around the rules.                                                        *)

(* Nothing goes away.                                                       *)
Calm ==
    /\ phase = [n \in Namespace |-> "active"] /\ nsSeen = Namespace
    /\ budget["delete"] = 0
    /\ \A i \in 1..Len(log) : log[i].live

(* An object that is no copy is that of a user; a copy was written.         *)
LogKnown ==
    \A i \in 1..Len(log) :
        IF log[i].from = NoID THEN \E m \in Manifest : m.key = log[i].key
                              ELSE Written({}, log[i].from, log[i].key)

(* The other controllers make no calls, and the mirror controllers register *)
(* automatic mirrors anew but drop none.                                    *)
Harmless(s) ==
    /\ s.at \in {"idle", "fetch", "miss", "source", "adopt"}
    /\ s.at \in {"source", "adopt"} => s.auto

OthersIdle ==
    /\ nsDrop = {}
    /\ \A w \in Worker \ RuleName : job[w].pc = "idle"
    /\ \A w \in Request : Harmless(stage[w])

AllAutomatic ==
    /\ \A i \in 1..Len(log) : log[i].from # NoID => log[i].auto
    /\ \A p \in Ptr : heap[p].id # NoID => heap[p].auto

-----------------------------------------------------------------------------
(* The call of a rule.                                                      *)

(* A version is recorded before the write: it is backed by a copy, the      *)
(* write has failed, or the call that recorded it is still at it.           *)
VersionsKnown(lost) ==
    \A p \in Ptr : heap[p].id # NoID /\ heap[p].version # 0 =>
        \/ Written(lost, heap[p].source, [kind |-> heap[p].kind, id |-> heap[p].id])
        \/ \E r \in RuleName : job[r].cur = p /\ job[r].pc \in {"get", "write"}

(* The call of rule r has yet to get to id.                                 *)
Ahead(r, id) ==
    LET j == job[r]
    IN  \/ j.pc \in {"auto", "conflict", "create"} /\ id.ns \in j.nss
        \/ j.pc \in {"conflict", "create"} /\ j.at = id
        \/ j.pc \in {"auto", "conflict", "create", "cleanup", "forget"} /\ Registered(id)
        \/ /\ j.pc \in {"mirrors", "check", "set", "get", "write"}
           /\ \E p \in j.ptrs : heap[p].id = id
        \/ j.pc \in {"check", "set", "get", "write"} /\ heap[j.cur].id = id

(* It has copied its source to id, or failed to.                            *)
Got(lost, r, id) == Written(lost, SourceID(r), [kind |-> SourceKey(r).kind, id |-> id])

(* The namespaces that a resource is to be copied to. Its own, which is the *)
(* same for all, is none of them though the status counts it.               *)
Aims(s) == s.targets \ {s.rule.spec.ns}

(* Each target is reached or ahead; the call drops none of them, and has    *)
(* read the object that it is about to write.                               *)
CallReports(lost, r) ==
    LET j == job[r]
        s == sync[r]
    IN  /\ j.pc # "idle" <=> s.at = "execute"
        /\ j.pc # "idle" =>
              /\ j.policy = RulePolicy(s.targets)
              /\ Covers(s.rule.spec, SourceKey(r))
              /\ j.name = TransformTargetName(s.rule.spec, SourceID(r).name)
              /\ \A n \in Aims(s) : Got(lost, r, TargetID(r, n)) \/ Ahead(r, TargetID(r, n))
        /\ j.pc = "forget" => \A id \in j.ids : id.ns \notin s.targets
        /\ j.pc = "write" /\ j.got # 0 => j.got \in 1..Len(log) /\ log[j.got].key = MirrorKey(r)

-----------------------------------------------------------------------------
(* The report.                                                              *)

(* Each resource in done is one of the rule, and has been copied into each  *)
(* of the namespaces but its own, or a write to there has failed.           *)
Backs(lost, spec, done, targets) ==
    /\ \A k \in done : Covers(spec, k)
    /\ \A k \in done, n \in targets \ {spec.ns} :
          RuleCopy(spec, k, n) \in lost \/ Copied(k, RuleCopy(spec, k, n))

(* What a Reconcile has done so far.                                        *)
SyncReports(lost, s) ==
    /\ s.at = "targets" => s.done = {}
    /\ s.at # "idle" => Backs(lost, s.rule.spec, s.done, s.targets)

(* What the stored status says of the generation it was observed at.        *)
StatusReports(lost, rule) ==
    rule # NoRule =>
        /\ rule.status.observed <= rule.generation
        /\ rule.status.observed = rule.generation =>
              Backs(lost, rule.spec, rule.status.synced, rule.status.targets)

ReportsBut(lost) ==
    /\ Calm /\ LogKnown /\ OthersIdle /\ AllAutomatic /\ VersionsKnown(lost)
    /\ \A r \in RuleName : /\ CallReports(lost, r) /\ SyncReports(lost, sync[r])
                            /\ StatusReports(lost, Stored(r))

(* At every step of a rule, each copy that its status reports or is going   *)
(* to report outside the namespace of the source has been written, or is    *)
(* one that the call of Execute in hand has yet to get to, but for one for  *)
(* each write that failed: whatever it reads is stale, writes are rejected  *)
(* or fail, mirrors are registered anew in between and the operator         *)
(* restarts. This is the inductive invariant behind StatusCounts.           *)
Reporting ==
    Trusted /\ \E lost \in SUBSET Key : Cardinality(lost) <= Failed /\ ReportsBut(lost)
==============================================================================
