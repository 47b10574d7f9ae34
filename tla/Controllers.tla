----------------------------- MODULE Controllers -----------------------------
(***************************************************************************)
(* The controllers of the operator around ReflectResources: the source     *)
(* controllers (source-secret, source-configmap), the mirror controllers   *)
(* (mirror-secret, mirror-configmap), the certificate, ingress and         *)
(* namespace controllers, their work queues and event predicates, and the  *)
(* NotFoundCache that the source controllers share with their predicate.   *)
(*                                                                         *)
(* A work queue hands a key to at most one of its workers at a time and    *)
(* holds a key at most once: there is one Worker for each Request, a key   *)
(* of one of the queues, and queue is the set of those that are pending.   *)
(* Nothing bounds the number that run at once as long as there are at most *)
(* ten keys (five for certificates and ingresses), the                     *)
(* MaxConcurrentReconciles of main.go.                                     *)
(***************************************************************************)
EXTENDS ReflectResources

CONSTANT
    Request     \* the keys of the queues

Controller == {"source", "mirror", "certificate", "ingress"}

(* A Certificate and an Ingress stand for the Secret that they name.         *)
ASSUME RequestAssumption ==
    Request \subseteq Worker /\ Request \subseteq [ctl: Controller, kind: Kind, id: ID]

VARIABLES
    queue,      \* the Requests that are pending
    stage,      \* stage[w]: where the Reconcile of Request w stands
    notFound,   \* the IDs in the NotFoundCache
    nsQueue,    \* the namespaces with a pending request
    nsDrop      \* the MirrorIDs that handleNamespaceDeletion has left

controllerVars == <<queue, stage, notFound, nsQueue, nsDrop>>

allVars == <<vars, controllerVars>>

(* at: the next step; ver: the revision of the source that was fetched;     *)
(* from and auto: the annotations of the mirror that was fetched; left:    *)
(* the calls of Execute a MirrorReconciler has yet to make; via: the       *)
(* policy that a Certificate or an Ingress brings.                         *)
Stage == [at: {"idle", "fetch", "miss", "hit", "source", "adopt", "orphan",
               "register", "count", "loop", "issued", "execute"},
          ver: Nat, from: ID \cup {NoID}, auto: BOOLEAN, left: Nat, via: Policy]

NoStage == [at |-> "idle", ver |-> 0, from |-> NoID, auto |-> FALSE, left |-> 0,
            via |-> NoPolicy]

ControllerTypeOK ==
    /\ queue \subseteq Request
    /\ stage \in [Request -> Stage]
    /\ notFound \subseteq ID
    /\ nsQueue \subseteq Namespace
    /\ nsDrop \subseteq ID

TypeOK == ClusterTypeOK /\ EngineTypeOK /\ ControllerTypeOK

ControllerInit ==
    /\ queue = {}
    /\ stage = [w \in Request |-> NoStage]
    /\ notFound = {}
    /\ nsQueue = {}
    /\ nsDrop = {}

-----------------------------------------------------------------------------
(* NotFoundCache.                                                            *)

IsNotFound(id) == id \in notFound
MarkNotFound(id) == notFound' = notFound \cup {id}
MarkFound(id) == notFound' = notFound \ {id}

(* An entry outlives its TTL.                                                *)
NotFoundExpires(id) ==
    /\ IsNotFound(id)
    /\ Spend("expire")
    /\ notFound' = notFound \ {id}
    /\ UNCHANGED <<log, head, seen, phase, nsSeen, engineVars, queue, stage, nsQueue, nsDrop>>

-----------------------------------------------------------------------------
(* Events and predicates.                                                   *)

(* SourcePredicate.hasReplicationAnnotation, MirrorPredicate.hasReflects... *)
HasReplicationAnnotation(r) == log[r].policy.replicate
HasReflectsAnnotation(r) == log[r].from # NoID

(* Whether the event that takes a key from revision old to revision new      *)
(* passes the predicate of a controller. A deletion event carries the      *)
(* object as it was last.                                                  *)
SourcePasses(old, new) ==
    \/ Live(new) /\ HasReplicationAnnotation(new)
    \/ Live(old) /\ HasReplicationAnnotation(old)

(* Mutant: updates of a mirror are filtered out.                             *)
MirrorPassesCreationsOnly(old, new) ==
    /\ Live(new) # Live(old)
    /\ HasReflectsAnnotation(IF Live(new) THEN new ELSE old)

MirrorPasses(old, new) ==
    \/ Live(new) /\ HasReflectsAnnotation(new)
    \/ ~Live(new) /\ Live(old) /\ HasReflectsAnnotation(old)

Notified(k, old, new) ==
    {w \in Request : /\ w.kind = k.kind /\ w.id = k.id
                    /\ CASE w.ctl = "source" -> SourcePasses(old, new)
                         [] w.ctl = "mirror" -> MirrorPasses(old, new)
                         [] OTHER -> FALSE}

(* SourcePredicate clears the NotFoundCache on an update and on a deletion,  *)
(* whatever the object is, and leaves it alone on a creation.              *)
MarkFoundOnEvent(k, old) ==
    IF Live(old) THEN MarkFound(k.id) ELSE UNCHANGED notFound

(* The watch delivers the next revision of key k to cache, predicates and    *)
(* queues.                                                                 *)
Informer(k) ==
    /\ \E r \in 1..Len(log) :
          /\ Observe(k, r)
          /\ queue' = queue \cup Notified(k, seen[k], r)
    /\ MarkFoundOnEvent(k, seen[k])
    /\ UNCHANGED <<engineVars, stage, nsQueue, nsDrop>>

(* The periodic resync of the informers: an update event without a change.   *)
Resync(k) ==
    /\ Spend("event")
    /\ Live(seen[k])
    /\ queue' = queue \cup Notified(k, seen[k], seen[k])
    /\ MarkFoundOnEvent(k, seen[k])
    /\ UNCHANGED <<log, head, seen, phase, nsSeen, engineVars, stage, nsQueue, nsDrop>>

InformerNamespace(n) ==
    /\ ObserveNamespace(n)
    /\ nsQueue' = nsQueue \cup {n}
    /\ UNCHANGED <<engineVars, queue, stage, notFound, nsDrop>>

-----------------------------------------------------------------------------
(* Reading a source from the cache: the Secret of that ID if there is one,   *)
(* the ConfigMap otherwise.                                                *)

Cached(kind, id) ==
    IF kind \in Kind THEN seen[[kind |-> kind, id |-> id]] ELSE 0

CachedObject(id) ==
    IF Live(Cached("Secret", id)) THEN Cached("Secret", id)
                                  ELSE Cached("ConfigMap", id)

(* The converters give nil for what Helm owns and for what is not opted in. *)
IsSource(r) == Live(r) /\ ~IsHelm(r) /\ log[r].policy.replicate

At(w, where) == stage' = [stage EXCEPT ![w].at = where]
Finish(w) == stage' = [stage EXCEPT ![w] = NoStage]

-----------------------------------------------------------------------------
(* SourceReconciler.Reconcile.                                               *)

SourceStart(w) ==
    /\ w.ctl = "source" /\ w \in queue /\ stage[w].at = "idle"
    /\ queue' = queue \ {w}
    /\ IF IsNotFound(w.id) THEN UNCHANGED stage ELSE At(w, "fetch")
    /\ UNCHANGED <<vars, notFound, nsQueue, nsDrop>>

SourceFetch(w) ==
    /\ w.ctl = "source" /\ stage[w].at = "fetch"
    /\ LET r == CachedObject(w.id)
       IN  stage' = [stage EXCEPT ![w] = IF IsSource(r)
                       THEN [@ EXCEPT !.at = "hit", !.ver = r]
                       ELSE [@ EXCEPT !.at = "miss"]]
    /\ UNCHANGED <<vars, queue, notFound, nsQueue, nsDrop>>

(* Nothing there, or nothing to replicate: both are remembered.              *)
SourceMiss(w) ==
    /\ stage[w].at = "miss"
    /\ MarkNotFound(w.id)
    /\ Finish(w)
    /\ UNCHANGED <<vars, queue, nsQueue, nsDrop>>

SourceHit(w) ==
    /\ stage[w].at = "hit"
    /\ MarkFound(w.id)
    /\ Execute(w, stage[w].ver, log[stage[w].ver].policy, w.id.name)
    /\ At(w, "execute")
    /\ UNCHANGED <<queue, nsQueue, nsDrop>>

SourceReturn(w) ==
    /\ w.ctl # "mirror" /\ stage[w].at = "execute"
    /\ ExecuteReturns(w)
    /\ Finish(w)
    /\ UNCHANGED <<queue, notFound, nsQueue, nsDrop>>

-----------------------------------------------------------------------------
(* MirrorReconciler.Reconcile.                                               *)

MirrorStart(w) ==
    /\ w.ctl = "mirror" /\ w \in queue /\ stage[w].at = "idle"
    /\ queue' = queue \ {w}
    /\ At(w, "fetch")
    /\ UNCHANGED <<vars, notFound, nsQueue, nsDrop>>

(* fetchMirror: a Secret marked replicated-from is a mirror. A ConfigMap so   *)
(* marked is an error, and the request goes back to the queue.             *)
MirrorFetch(w) ==
    /\ w.ctl = "mirror" /\ stage[w].at = "fetch"
    /\ LET r == CachedObject(w.id)
           marked == Live(r) /\ ~IsHelm(r) /\ HasReflectsAnnotation(r)
       IN  /\ IF marked /\ log[r].key.kind = "Secret"
              THEN stage' = [stage EXCEPT ![w] = [@ EXCEPT !.at = "source",
                               !.from = log[r].from, !.auto = log[r].auto]]
              ELSE Finish(w)
           /\ queue' = IF marked /\ log[r].key.kind = "ConfigMap"
                       THEN queue \cup {w} ELSE queue
    /\ UNCHANGED <<vars, notFound, nsQueue, nsDrop>>

(* Mutant: a missing source is returned as an error, so it is tried again.   *)
MirrorFetchSourceRetries(w) ==
    /\ stage[w].at = "source"
    /\ LET r == CachedObject(stage[w].from)
       IN  CASE IsSource(r) ->
                  /\ stage' = [stage EXCEPT ![w] = [@ EXCEPT !.at = "register", !.ver = r]]
                  /\ queue' = queue
             [] Live(r) /\ ~IsSource(r) ->
                  /\ At(w, IF stage[w].auto THEN "adopt" ELSE "orphan")
                  /\ queue' = queue
             [] OTHER -> Finish(w) /\ queue' = queue \cup {w}
    /\ UNCHANGED <<vars, notFound, nsQueue, nsDrop>>

(* fetchSource. No object at all is an error that is only logged; an object  *)
(* that is no source leaves an automatic mirror registered and a requested *)
(* one orphaned.                                                           *)
MirrorFetchSource(w) ==
    /\ stage[w].at = "source"
    /\ LET r == CachedObject(stage[w].from)
       IN  CASE IsSource(r) ->
                  stage' = [stage EXCEPT ![w] = [@ EXCEPT !.at = "register", !.ver = r]]
             [] Live(r) /\ ~IsSource(r) ->
                  At(w, IF stage[w].auto THEN "adopt" ELSE "orphan")
             [] OTHER -> Finish(w)
    /\ UNCHANGED <<vars, queue, notFound, nsQueue, nsDrop>>

(* The adopted mirror is registered as a Secret, whatever its source is.     *)
MirrorAdopt(w) ==
    /\ stage[w].at = "adopt"
    /\ RegisterMirror(w.id, stage[w].from, "Secret", TRUE)
    /\ Finish(w)
    /\ UNCHANGED <<queue, notFound, nsQueue, nsDrop>>

(* deleteMirrorIfOrphaned: the client never deletes anything, so only the     *)
(* registration goes.                                                      *)
MirrorOrphaned(w) ==
    /\ stage[w].at = "orphan"
    /\ UnregisterMirror(w.id)
    /\ Finish(w)
    /\ UNCHANGED <<queue, notFound, nsQueue, nsDrop>>

(* Mutant: a mirror that is registered already is not registered again.      *)
MirrorRegisterIfAbsent(w) ==
    /\ stage[w].at = "register"
    /\ IF Registered(w.id) THEN UNCHANGED vars
       ELSE RegisterMirror(w.id, stage[w].from, log[stage[w].ver].key.kind, stage[w].auto)
    /\ At(w, "count")
    /\ UNCHANGED <<queue, notFound, nsQueue, nsDrop>>

(* The mirror takes the place of what is registered for its ID.               *)
MirrorRegister(w) ==
    /\ stage[w].at = "register"
    /\ RegisterMirror(w.id, stage[w].from, log[stage[w].ver].key.kind, stage[w].auto)
    /\ At(w, "count")
    /\ UNCHANGED <<queue, notFound, nsQueue, nsDrop>>

(* Execute is called once for every mirror the source has at this moment.    *)
MirrorCount(w) ==
    /\ stage[w].at = "count"
    /\ LET n == Cardinality(GetBySourceID(stage[w].from))
       IN  stage' = [stage EXCEPT ![w] = IF n = 0 THEN NoStage
                       ELSE [@ EXCEPT !.at = "loop", !.left = n]]
    /\ UNCHANGED <<vars, queue, notFound, nsQueue, nsDrop>>

MirrorLoop(w) ==
    /\ stage[w].at = "loop"
    /\ Execute(w, stage[w].ver, MirrorView(log[stage[w].ver].policy), stage[w].from.name)
    /\ stage' = [stage EXCEPT ![w] = [@ EXCEPT !.at = "execute", !.left = stage[w].left - 1]]
    /\ UNCHANGED <<queue, notFound, nsQueue, nsDrop>>

(* Mutant: the loop over the mirrors runs once too often.                    *)
MirrorReturnOnceMore(w) ==
    /\ w.ctl = "mirror" /\ stage[w].at = "execute"
    /\ ExecuteReturns(w)
    /\ IF stage[w].left < 0 THEN Finish(w) ELSE At(w, "loop")
    /\ UNCHANGED <<queue, notFound, nsQueue, nsDrop>>

MirrorReturn(w) ==
    /\ w.ctl = "mirror" /\ stage[w].at = "execute"
    /\ ExecuteReturns(w)
    /\ IF stage[w].left = 0 THEN Finish(w) ELSE At(w, "loop")
    /\ UNCHANGED <<queue, notFound, nsQueue, nsDrop>>

-----------------------------------------------------------------------------
(* CertificateReconciler.Reconcile and IngressReconciler.Reconcile read the   *)
(* Secret whether or not Helm owns it, leave the NotFoundCache alone and   *)
(* return the way SourceReconciler does.                                   *)

(* Neither watch has a predicate: every event is a request.                  *)
CertificateEvent(w) ==
    /\ w.ctl \in {"certificate", "ingress"}
    /\ Spend("event")
    /\ queue' = queue \cup {w}
    /\ UNCHANGED <<log, head, seen, phase, nsSeen, engineVars, stage, notFound, nsQueue, nsDrop>>

(* A Certificate that is gone or names no Secret needs nothing, nor does an   *)
(* Ingress that is gone, has no secret template that can be read and asks  *)
(* for replication, or no TLS section that names a Secret.                 *)
CertificateStart(w) ==
    /\ w.ctl \in {"certificate", "ingress"} /\ w \in queue /\ stage[w].at = "idle"
    /\ queue' = queue \ {w}
    /\ At(w, "fetch") \/ UNCHANGED stage
    /\ UNCHANGED <<vars, notFound, nsQueue, nsDrop>>

(* The Secret is read once; what it lacks of the policy comes from the        *)
(* template of the Ingress.                                                *)
Replicates(w, r, policy) ==
    stage' = [stage EXCEPT ![w] = IF policy.replicate
                THEN [@ EXCEPT !.at = "issued", !.ver = r, !.via = policy]
                ELSE NoStage]

CertificateFetch(w) ==
    /\ w.ctl = "certificate" /\ stage[w].at = "fetch"
    /\ LET r == Cached("Secret", w.id)
       IN  IF Live(r) THEN Replicates(w, r, log[r].policy) ELSE Finish(w)
    /\ UNCHANGED <<vars, queue, notFound, nsQueue, nsDrop>>

IngressFetch(w) ==
    /\ w.ctl = "ingress" /\ stage[w].at = "fetch"
    /\ LET r == Cached("Secret", w.id)
       IN  IF Live(r)
           THEN \E t \in Template : \E policy \in Merged(log[r].policy, t) :
                   Replicates(w, r, policy)
           ELSE Finish(w)
    /\ UNCHANGED <<vars, queue, notFound, nsQueue, nsDrop>>

CertificateExecute(w) ==
    /\ stage[w].at = "issued"
    /\ Execute(w, stage[w].ver, stage[w].via, w.id.name)
    /\ At(w, "execute")
    /\ UNCHANGED <<queue, notFound, nsQueue, nsDrop>>

-----------------------------------------------------------------------------
ReconcileStep(w) ==
    \/ SourceStart(w) \/ SourceFetch(w) \/ SourceMiss(w) \/ SourceHit(w)
    \/ SourceReturn(w)
    \/ MirrorStart(w) \/ MirrorFetch(w) \/ MirrorFetchSource(w)
    \/ MirrorAdopt(w) \/ MirrorOrphaned(w) \/ MirrorRegister(w)
    \/ MirrorCount(w) \/ MirrorLoop(w) \/ MirrorReturn(w)
    \/ CertificateStart(w) \/ CertificateFetch(w) \/ IngressFetch(w) \/ CertificateExecute(w)
    \/ Work(w) /\ UNCHANGED controllerVars

-----------------------------------------------------------------------------
(* NamespaceReconciler.Reconcile, with its one worker: it acts only on a     *)
(* namespace that the cache no longer lists, and forgets the automatic     *)
(* mirrors registered there.                                               *)

NamespaceReconcile(n) ==
    /\ n \in nsQueue /\ nsDrop = {}
    /\ nsQueue' = nsQueue \ {n}
    /\ nsDrop' = IF n \in nsSeen THEN {}
                 ELSE {id \in ListByNamespace(n) : heap[store[id]].auto}
    /\ UNCHANGED <<vars, queue, stage, notFound>>

NamespaceForget(id) ==
    /\ id \in nsDrop
    /\ UnregisterMirror(id)
    /\ nsDrop' = nsDrop \ {id}
    /\ UNCHANGED <<queue, stage, notFound, nsQueue>>

-----------------------------------------------------------------------------
(* Mutant: the initial list does not reach the predicates.                   *)
OperatorRestartSilent ==
    /\ Restart
    /\ queue' = {}
    /\ stage' = [w \in Request |-> NoStage]
    /\ notFound' = {}
    /\ nsQueue' = nsSeen'
    /\ nsDrop' = {}

(* The operator starts again with empty memory. The full list it begins      *)
(* with reaches the predicates as creations; so do the Certificates and    *)
(* Ingresses there are.                                                    *)
OperatorRestart ==
    /\ Restart
    /\ \E others \in SUBSET {w \in Request : w.ctl \in {"certificate", "ingress"}} :
          queue' = others \cup UNION {Notified(k, 0, head[k]) : k \in Key}
    /\ stage' = [w \in Request |-> NoStage]
    /\ notFound' = {}
    /\ nsQueue' = nsSeen'
    /\ nsDrop' = {}

ControllersInit == Init /\ ControllerInit

ControllersStep ==
    \/ UserStep /\ UNCHANGED <<engineVars, controllerVars>>
    \/ \E k \in Key : Informer(k) \/ Resync(k)
    \/ \E n \in Namespace : InformerNamespace(n) \/ NamespaceReconcile(n)
    \/ \E id \in ID : NamespaceForget(id) \/ NotFoundExpires(id)
    \/ \E w \in Request : ReconcileStep(w) \/ CertificateEvent(w)

ControllersNext == ControllersStep \/ OperatorRestart

(* The watch delivers, and every worker and the namespace controller keep    *)
(* running.                                                                *)
Fairness ==
    /\ \A k \in Key : WF_allVars(Informer(k))
    /\ \A n \in Namespace : WF_allVars(InformerNamespace(n) \/ NamespaceReconcile(n))
    /\ \A id \in ID : WF_allVars(NamespaceForget(id))
    /\ \A w \in Request : WF_allVars(ReconcileStep(w))

ControllersSpec == ControllersInit /\ [][ControllersNext]_allVars

FairSpec == ControllersSpec /\ Fairness

-----------------------------------------------------------------------------
(* Why the controllers are one of the environments that ReflectResources       *)
(* allows: the inductive invariant of their stages.                        *)

(* A mirror is registered with the source that its annotation names and the   *)
(* kind of a revision that exists; the loop has calls left when it calls,  *)
(* and remembers the source as long as it has. Whoever is about to call    *)
(* Execute has a Source that can be called with, however long ago it was   *)
(* read.                                                                   *)
StageSound(s) ==
    /\ s.at \in {"source", "adopt", "register", "count"} => s.from \in ID /\ "Secret" \in Kind
    /\ s.left > 0 => s.from \in ID
    /\ s.at = "loop" => s.left > 0
    /\ s.at \in {"idle", "fetch", "issued"} => s.left = 0
    /\ s.at \in {"hit", "register", "count"} \/ s.left > 0 =>
          IsSourceOf(log[s.ver].policy, s.ver)
    /\ s.at = "issued" => IsSourceOf(s.via, s.ver)

ControllerInv == ControllerTypeOK /\ \A w \in Request : StageSound(stage[w])

-----------------------------------------------------------------------------
(* Properties.                                                               *)

(* Nothing is pending: the cache is up to date, the queues are empty and no  *)
(* Reconcile is running.                                                   *)
Quiet ==
    /\ queue = {} /\ nsQueue = {} /\ nsDrop = {}
    /\ \A w \in Request : stage[w].at = "idle"
    /\ seen = head
    /\ nsSeen = {n \in Namespace : phase[n] # "gone"}

Target(k, n) == [k EXCEPT !.id.ns = n]

(* The object k is a source whose policy pushes it into namespace n.         *)
Pushed(k, n) ==
    /\ IsSource(head[k])
    /\ n # k.id.ns /\ phase[n] = "active"
    /\ CanAutoMirrorToNamespace(log[head[k]].policy, n)

Permitted(k, n) == CanReflectToNamespace(log[head[k]].policy, n)

(* The mirror of k in n is a copy of the current revision of k.              *)
InSync(k, n) ==
    LET h == head[Target(k, n)]
    IN  /\ Live(h)
        /\ log[h].from = k.id
        /\ log[h].ver = head[k]
        /\ log[h].by = "operator" => log[h].data = log[head[k]].data

(* The targets of k that ought to hold its current revision and do not. An   *)
(* unmarked object that is in the way excuses a target.                    *)
OutOfSync(k) ==
    {n \in Namespace : /\ Pushed(k, n) /\ Permitted(k, n)
                       /\ ~InSync(k, n) /\ ~InTheWay(head[Target(k, n)])}

(* When the operator has nothing left to do, every namespace that a source   *)
(* is pushed to and allowed in holds a copy of its current revision. This  *)
(* is what the loop of source events, writes, mirror events and rewrites   *)
(* is for: a rejected write is never retried by the call that made it, and *)
(* a late call may put an old copy over a new one.                         *)
SyncedWhenQuiet == Quiet => \A k \in Key : OutOfSync(k) = {}

(* A write request that fails leaves at most its own target out of date:     *)
(* Execute goes on with the other mirrors, and no later step makes it      *)
(* worse.                                                                  *)
FaultsContained ==
    Quiet => \A k \in Key :
                Cardinality(OutOfSync(k)) <= Budget["fault"] - budget["fault"]

(* A restart that comes after the last failed write repairs what it left:    *)
(* the initial list makes every source and mirror be reconciled with an    *)
(* empty store.                                                            *)
RestartHeals ==
    [](budget["fault"] = 0 /\ budget["restart"] > 0 =>
         [](budget["restart"] = 0 => SyncedWhenQuiet))

(* The writes of the operator cause events that cause reconciles that may    *)
(* write again: this comes to an end once the users leave the cluster      *)
(* alone.                                                                  *)
EventuallyQuiet == <>[]Quiet

(* When the operator has nothing left to do, the store attributes a Secret   *)
(* that it wrote to the source that replicated-from names there, however   *)
(* registrations by Execute and by the mirror controller were ordered.     *)
(* Only a source that may not write there may have taken its place.        *)
RegistryAgrees ==
    Quiet => \A id \in ID :
                LET h == Cached("Secret", id)
                    m == heap[store[id]]
                IN  Registered(id) /\ Live(h) /\ log[h].by = "operator" =>
                       \/ m.source = log[h].from
                       \/ ~Permitted([kind |-> m.kind, id |-> m.source], id.ns)

(* Every write of the operator is a copy of a revision of its source that    *)
(* is not older than the label says, into a namespace that the labelled    *)
(* revision allows; it deletes nothing.                                    *)
MirrorsAreHonest == Contract!Spec

-----------------------------------------------------------------------------
(* What the documentation says and the code does not do.                     *)

(* "Replikator ... proactively deletes the dangling mirrors in those         *)
(* now-forbidden namespaces": at rest no mirror that the operator made is  *)
(* left where the policy of its source does not allow it.                  *)
RevokedMirrorsGone ==
    Quiet => \A k \in Key, n \in Namespace :
                LET h == head[Target(k, n)]
                IN  Live(h) /\ log[h].by = "operator" /\ log[h].from = k.id
                    /\ IsSource(head[k]) => Permitted(k, n)

(* CanReflectToNamespace is validated "before initiating a K8s client        *)
(* payload": what a mirror holds was allowed in its namespace by the       *)
(* revision that introduced it.                                            *)
ContentPermitted ==
    \A k \in Key : LET h == head[k]
                   IN  Live(h) /\ log[h].by = "operator" =>
                         CanReflectToNamespace(log[log[h].data].policy, k.id.ns)
==============================================================================
