--------------------------- MODULE ControllersProofs ---------------------------
(***************************************************************************)
(* The controllers are an environment that ReflectResources allows, so     *)
(* they inherit its invariant and its contract; and they keep their types. *)
(***************************************************************************)
EXTENDS Controllers, ReflectResourcesProofs

-----------------------------------------------------------------------------
(* What the reconcilers read.                                                *)

(* There are finitely many IDs, so the mirrors of a source can be counted.   *)
LEMMA MirrorsAreCounted ==
    ASSUME NEW source
    PROVE  IsFiniteSet(GetBySourceID(source)) /\ Cardinality(GetBySourceID(source)) \in Nat
<1> DEFINE f == [p \in Namespace \X Name |-> [ns |-> p[1], name |-> p[2]]]
<1>1. IsFiniteSet(Namespace \X Name)
  BY FS_Product, PolicyAssumption, ResourcesAssumption
<1>2. f \in Surjection(Namespace \X Name, ID)
  <2>1. f \in [Namespace \X Name -> ID]
    BY DEF ID
  <2>2. ASSUME NEW id \in ID PROVE \E p \in Namespace \X Name : f[p] = id
    <3>1. <<id.ns, id.name>> \in Namespace \X Name /\ id = [ns |-> id.ns, name |-> id.name]
      BY DEF ID
    <3>2. f[<<id.ns, id.name>>] = id
      BY <3>1
    <3>3. QED  BY <3>1, <3>2
  <2>3. QED  BY <2>1, <2>2 DEF Surjection
<1>3. IsFiniteSet(ID)
  BY <1>1, <1>2, FS_Surjection
<1>4. GetBySourceID(source) \subseteq ID
  BY DEF GetBySourceID
<1>5. IsFiniteSet(GetBySourceID(source))
  BY <1>3, <1>4, FS_Subset
<1>6. QED  BY <1>5, FS_CardinalityType

(* A cached object is a revision of its own key.                             *)
LEMMA CachedFacts ==
    ASSUME EngineInv, NEW id \in ID
    PROVE  /\ \A kind : Cached(kind, id) \in 0..Len(log)
           /\ CachedObject(id) \in 0..Len(log)
           /\ Live(CachedObject(id)) => /\ CachedObject(id) \in 1..Len(log)
                                        /\ log[CachedObject(id)] \in Entry
<1>1. \A kind \in Kind : [kind |-> kind, id |-> id] \in Key
  BY DEF Key
<1>2. \A kind : Cached(kind, id) \in 0..Len(log)
  BY <1>1, Parts DEF Cached
<1>3. CachedObject(id) \in 0..Len(log)
  BY <1>2 DEF CachedObject
<1>4. QED  BY <1>2, <1>3, Parts DEF Live

LEMMA WorkerFields ==
    \A w \in Request : /\ w \in Worker /\ w.id \in ID /\ w.id.name \in Name
                      /\ w.ctl \in Controller
BY RequestAssumption DEF ID

-----------------------------------------------------------------------------
(* Stages.                                                                   *)

(* What was a Source that Execute can be called with remains one.            *)
LEMMA SourceRemains ==
    ASSUME EngineInv, EngineInv', Advances, NEW v, NEW policy, IsSourceOf(policy, v)
    PROVE  log'[v] = log[v] /\ IsSourceOf(policy, v)'
<1>1. v \in 1..Len(log) /\ log[v].key \in Key
  BY Parts, EntryFields DEF IsSourceOf
<1>2. v \in 1..Len(log') /\ log'[v] = log[v]
  BY <1>1, Parts DEF Advances, EngineInv, EngineTypes, ClusterTypeOK
<1>3. seen[log[v].key] \in Nat /\ seen'[log[v].key] \in Nat
  BY <1>1, Parts DEF EngineInv, EngineTypes, ClusterTypeOK
<1>4. v <= seen'[log'[v].key]
  BY <1>1, <1>2, <1>3 DEF IsSourceOf, Advances
<1>5. QED  BY <1>2, <1>4 DEF IsSourceOf

(* An opted-in object of the cache is a Source that Execute can be called     *)
(* with, and so it is without its auto-replicate-to.                        *)
LEMMA CachedSource ==
    ASSUME EngineInv, NEW k \in Key, Live(seen[k]), NEW policy \in Policy, policy.replicate,
           policy = log[seen[k]].policy \/ policy \in IngressPolicies(log[seen[k]])
    PROVE  IsSourceOf(policy, seen[k])
<1>1. seen[k] \in 1..Len(log) /\ log[seen[k]].live /\ log[seen[k]].key = k
  BY Parts DEF Live, CacheSound
<1>2. seen[k] <= seen[log[seen[k]].key]
  BY <1>1
<1>3. policy \in Sources(log[seen[k]])
  BY DEF Sources
<1>4. QED  BY <1>1, <1>2, <1>3 DEF IsSourceOf

LEMMA MirrorViewSource ==
    ASSUME NEW v, IsSourceOf(log[v].policy, v)
    PROVE  IsSourceOf(MirrorView(log[v].policy), v)
<1>1. MirrorView(log[v].policy).replicate = log[v].policy.replicate
  BY DEF MirrorView
<1>2. QED  BY <1>1 DEF IsSourceOf, Sources

LEMMA CachedObjectSource ==
    ASSUME EngineInv, NEW id \in ID, IsSource(CachedObject(id))
    PROVE  IsSourceOf(log[CachedObject(id)].policy, CachedObject(id))
<1>1. PICK kind : CachedObject(id) = Cached(kind, id)
  BY DEF CachedObject
<1>2. Live(CachedObject(id)) /\ log[CachedObject(id)].policy.replicate
  BY DEF IsSource
<1>3. kind \in Kind /\ Cached(kind, id) = seen[[kind |-> kind, id |-> id]]
  BY <1>1, <1>2 DEF Cached, Live
<1>4. [kind |-> kind, id |-> id] \in Key
  BY <1>3 DEF Key
<1>5. log[CachedObject(id)].policy \in Policy
  BY <1>2, CachedFacts, EntryFields
<1>6. QED  BY <1>1, <1>2, <1>3, <1>4, <1>5, CachedSource

LEMMA NoStageSound == NoStage \in Stage /\ StageSound(NoStage)
BY PolicyTypes DEF NoStage, Stage, StageSound

(* A step that moves worker w on.                                            *)
LEMMA StageUpdate ==
    ASSUME ControllerInv, NEW w \in Request, NEW s \in Stage, StageSound(s),
           stage' = [stage EXCEPT ![w] = s], UNCHANGED <<log, seen>>
    PROVE  stage' \in [Request -> Stage] /\ \A u \in Request : StageSound(stage[u])'
<1>1. /\ stage' \in [Request -> Stage] /\ stage'[w] = s
      /\ \A u \in Request : u # w => stage'[u] = stage[u]
  BY DEF ControllerInv, ControllerTypeOK
<1>2. ASSUME NEW u \in Request PROVE StageSound(stage[u])'
  <2>1. CASE u = w
    BY <1>1, <2>1 DEF StageSound, IsSourceOf
  <2>2. CASE u # w
    <3>1. StageSound(stage[u])
      BY DEF ControllerInv
    <3>2. QED  BY <1>1, <2>2, <3>1 DEF StageSound, IsSourceOf
  <2>3. QED  BY <2>1, <2>2
<1>3. QED  BY <1>1, <1>2

(* ... or one that leaves all of them where they are.                        *)
LEMMA StagesKept ==
    ASSUME EngineInv, ControllerInv, EngineInv', UNCHANGED stage, Advances
    PROVE  stage' \in [Request -> Stage] /\ \A u \in Request : StageSound(stage[u])'
<1>1. stage' \in [Request -> Stage]
  BY DEF ControllerInv, ControllerTypeOK
<1>2. ASSUME NEW u \in Request PROVE StageSound(stage[u])'
  <2>1. StageSound(stage[u]) /\ stage'[u] = stage[u]
    BY DEF ControllerInv
  <2>2. /\ IsSourceOf(log[stage[u].ver].policy, stage[u].ver) =>
              IsSourceOf(log[stage[u].ver].policy, stage[u].ver)'
        /\ IsSourceOf(stage[u].via, stage[u].ver) => IsSourceOf(stage[u].via, stage[u].ver)'
    BY <2>1, SourceRemains
  <2>3. QED  BY <2>1, <2>2 DEF StageSound
<1>3. QED  BY <1>1, <1>2

LEMMA ControllerParts ==
    ASSUME ControllerInv
    PROVE  /\ \A w \in Request : stage[w] \in Stage /\ StageSound(stage[w])
           /\ queue \subseteq Request /\ stage \in [Request -> Stage]
           /\ notFound \subseteq ID /\ nsQueue \subseteq Namespace /\ nsDrop \subseteq ID
BY DEF ControllerInv, ControllerTypeOK

LEMMA WorkerStep ==
    ASSUME ControllerInv, NEW w \in Request, NEW s \in Stage, StageSound(s),
           stage' = [stage EXCEPT ![w] = s], UNCHANGED <<log, seen, nsQueue, nsDrop>>,
           queue' \subseteq Request, notFound' \subseteq ID
    PROVE  ControllerInv'
BY StageUpdate, ControllerParts DEF ControllerInv, ControllerTypeOK

(* Places that ask nothing new of a stage.                                   *)
LEMMA AtSound ==
    ASSUME NEW s \in Stage, StageSound(s),
           NEW where \in {"fetch", "miss", "orphan", "count", "execute"},
           where = "count" => s.at = "register",
           where = "fetch" => s.at = "idle"
    PROVE  [s EXCEPT !.at = where] \in Stage /\ StageSound([s EXCEPT !.at = where])
<1> DEFINE x == [s EXCEPT !.at = where]
<1>1. /\ x \in Stage /\ x.at = where /\ x.from = s.from /\ x.left = s.left /\ x.ver = s.ver
      /\ x.via = s.via
  BY DEF Stage
<1> HIDE DEF x
<1>2. StageSound(x)
  BY <1>1 DEF StageSound
<1>3. QED  BY <1>1, <1>2 DEF x

-----------------------------------------------------------------------------
(* Every step of a reconciler is a step of the engine or none of its          *)
(* business, and keeps the stages sound.                                     *)

Keeps == [Next]_vars /\ ControllerInv'

LEMMA StartKeeps ==
    ASSUME EngineInv, ControllerInv, NEW w \in Request,
           SourceStart(w) \/ MirrorStart(w) \/ CertificateStart(w)
    PROVE  Keeps
<1>1. /\ queue' = queue \ {w} /\ UNCHANGED <<vars, notFound, nsQueue, nsDrop>>
      /\ \/ UNCHANGED stage
         \/ /\ stage[w].at = "idle"
            /\ stage' = [stage EXCEPT ![w] = [stage[w] EXCEPT !.at = "fetch"]]
  BY DEF SourceStart, MirrorStart, CertificateStart, At
<1>2. CASE UNCHANGED stage
  BY <1>1, <1>2, ControllerParts DEF Keeps, ControllerInv, ControllerTypeOK, StageSound,
     IsSourceOf, vars, clusterVars
<1>3. CASE /\ stage[w].at = "idle"
           /\ stage' = [stage EXCEPT ![w] = [stage[w] EXCEPT !.at = "fetch"]]
  <2> DEFINE s == [stage[w] EXCEPT !.at = "fetch"]
  <2>1. s \in Stage /\ StageSound(s)
    BY <1>3, ControllerParts, AtSound
  <2> HIDE DEF s
  <2>2. ControllerInv'
    BY <1>1, <1>3, <2>1, ControllerParts, WorkerStep DEF s, vars, clusterVars
  <2>3. QED  BY <1>1, <2>2 DEF Keeps
<1>4. QED  BY <1>1, <1>2, <1>3

LEMMA SourceFetchKeeps ==
    ASSUME EngineInv, ControllerInv, NEW w \in Request, SourceFetch(w)
    PROVE  Keeps
<1> DEFINE r == CachedObject(w.id)
           s == [stage[w] EXCEPT !.at = "hit", !.ver = r]
           t == [stage[w] EXCEPT !.at = "miss"]
<1>1. /\ UNCHANGED <<vars, queue, notFound, nsQueue, nsDrop>>
      /\ \/ IsSource(r) /\ stage' = [stage EXCEPT ![w] = s]
         \/ stage' = [stage EXCEPT ![w] = t]
  BY DEF SourceFetch
<1>2. r \in Nat /\ (IsSource(r) => IsSourceOf(log[r].policy, r))
  BY WorkerFields, CachedFacts, CachedObjectSource
<1> HIDE DEF r
<1>3. t \in Stage /\ StageSound(t)
  BY ControllerParts, AtSound
<1>4. /\ s \in Stage /\ s.at = "hit" /\ s.ver = r /\ s.from = stage[w].from
      /\ s.left = stage[w].left
  BY <1>2, ControllerParts DEF Stage
<1> HIDE DEF s, t
<1>5. IsSource(r) => StageSound(s)
  BY <1>2, <1>4, ControllerParts DEF StageSound
<1>6. ControllerInv'
  BY <1>1, <1>3, <1>4, <1>5, ControllerParts, WorkerStep DEF vars, clusterVars
<1>7. QED  BY <1>1, <1>6 DEF Keeps

LEMMA SourceMissKeeps ==
    ASSUME EngineInv, ControllerInv, NEW w \in Request, SourceMiss(w)
    PROVE  Keeps
<1>1. /\ UNCHANGED <<vars, queue, nsQueue, nsDrop>>
      /\ notFound' = notFound \cup {w.id} /\ stage' = [stage EXCEPT ![w] = NoStage]
  BY DEF SourceMiss, MarkNotFound, Finish
<1>2. ControllerInv'
  BY <1>1, NoStageSound, WorkerFields, ControllerParts, WorkerStep DEF vars, clusterVars
<1>3. QED  BY <1>1, <1>2 DEF Keeps

LEMMA SourceHitKeeps ==
    ASSUME EngineInv, ControllerInv, NEW w \in Request, SourceHit(w) \/ CertificateExecute(w)
    PROVE  Keeps
<1> DEFINE s == [stage[w] EXCEPT !.at = "execute"]
           v == stage[w].ver
<1>1. /\ UNCHANGED <<queue, nsQueue, nsDrop>> /\ notFound' \in {notFound, notFound \ {w.id}}
      /\ stage' = [stage EXCEPT ![w] = s]
      /\ \/ stage[w].at = "hit" /\ Execute(w, v, log[v].policy, w.id.name)
         \/ stage[w].at = "issued" /\ Execute(w, v, stage[w].via, w.id.name)
  BY DEF SourceHit, MarkFound, CertificateExecute, At
<1>2. s \in Stage /\ StageSound(s)
  BY ControllerParts, AtSound
<1>3. UNCHANGED <<log, seen>>
  BY <1>1 DEF Execute, clusterVars
<1>4. Next
  <2>1. PICK policy : IsSourceOf(policy, v) /\ Execute(w, v, policy, w.id.name)
    BY <1>1, ControllerParts DEF StageSound
  <2>2. /\ v \in 1..Len(log) /\ policy \in Sources(log[v])
        /\ w \in Worker /\ w.id.name \in Name
    BY <2>1, WorkerFields DEF IsSourceOf
  <2> HIDE DEF v
  <2>3. QED  BY <2>1, <2>2 DEF Next
<1> HIDE DEF s, v
<1>5. ControllerInv'
  BY <1>1, <1>2, <1>3, ControllerParts, WorkerStep
<1>6. QED  BY <1>4, <1>5 DEF Keeps

LEMMA ReturnKeeps ==
    ASSUME EngineInv, ControllerInv, NEW w \in Request, SourceReturn(w) \/ MirrorReturn(w)
    PROVE  Keeps
<1> DEFINE s == [stage[w] EXCEPT !.at = "loop"]
<1>1. /\ UNCHANGED <<queue, notFound, nsQueue, nsDrop>> /\ ExecuteReturns(w)
      /\ \/ stage' = [stage EXCEPT ![w] = NoStage]
         \/ stage[w].left # 0 /\ stage' = [stage EXCEPT ![w] = s]
  BY DEF SourceReturn, MirrorReturn, Finish, At
<1>2. /\ s \in Stage /\ s.at = "loop" /\ s.left = stage[w].left /\ stage[w].left \in Nat
      /\ s.from = stage[w].from /\ s.ver = stage[w].ver
  BY ControllerParts DEF Stage
<1> HIDE DEF s
<1>3. stage[w].left # 0 => StageSound(s)
  BY <1>2, ControllerParts DEF StageSound
<1>4. UNCHANGED <<log, seen>> /\ Next
  BY <1>1, WorkerFields DEF ExecuteReturns, clusterVars, Next
<1>5. ControllerInv'
  BY <1>1, <1>2, <1>3, <1>4, NoStageSound, ControllerParts, WorkerStep
<1>6. QED  BY <1>4, <1>5 DEF Keeps

LEMMA MirrorFetchKeeps ==
    ASSUME EngineInv, ControllerInv, NEW w \in Request, MirrorFetch(w)
    PROVE  Keeps
<1> DEFINE r == CachedObject(w.id)
           s == [stage[w] EXCEPT !.at = "source", !.from = log[r].from, !.auto = log[r].auto]
<1>1. /\ stage[w].at = "fetch" /\ UNCHANGED <<vars, notFound, nsQueue, nsDrop>>
      /\ queue' \in {queue, queue \cup {w}}
      /\ \/ stage' = [stage EXCEPT ![w] = NoStage]
         \/ /\ Live(r) /\ log[r].from # NoID /\ log[r].key.kind = "Secret"
            /\ stage' = [stage EXCEPT ![w] = s]
  BY DEF MirrorFetch, HasReflectsAnnotation, Finish
<1>2. CASE stage' = [stage EXCEPT ![w] = NoStage]
  <2>1. ControllerInv'
    BY <1>1, <1>2, NoStageSound, ControllerParts, WorkerStep DEF vars, clusterVars
  <2>2. QED  BY <1>1, <2>1 DEF Keeps
<1>3. CASE /\ Live(r) /\ log[r].from # NoID /\ log[r].key.kind = "Secret"
           /\ stage' = [stage EXCEPT ![w] = s]
  <2>1. log[r] \in Entry
    BY <1>3, WorkerFields, CachedFacts
  <2>2. log[r].from \in ID /\ log[r].auto \in BOOLEAN /\ "Secret" \in Kind
    BY <1>3, <2>1, EntryFields, KeyFields
  <2>3. s \in Stage /\ s.at = "source" /\ s.from = log[r].from /\ s.left = stage[w].left
    BY <2>2, ControllerParts DEF Stage
  <2> HIDE DEF s
  <2>4. StageSound(s)
    BY <1>1, <2>2, <2>3, ControllerParts DEF StageSound
  <2>5. ControllerInv'
    BY <1>1, <1>3, <2>3, <2>4, ControllerParts, WorkerStep DEF vars, clusterVars
  <2>6. QED  BY <1>1, <2>5 DEF Keeps
<1>4. QED  BY <1>1, <1>2, <1>3

LEMMA MirrorFetchSourceKeeps ==
    ASSUME EngineInv, ControllerInv, NEW w \in Request, MirrorFetchSource(w)
    PROVE  Keeps
<1> DEFINE r == CachedObject(stage[w].from)
           s == [stage[w] EXCEPT !.at = "register", !.ver = r]
           t == [stage[w] EXCEPT !.at = "adopt"]
           u == [stage[w] EXCEPT !.at = "orphan"]
<1>1. /\ stage[w].at = "source" /\ UNCHANGED <<vars, queue, notFound, nsQueue, nsDrop>>
      /\ \/ IsSource(r) /\ stage' = [stage EXCEPT ![w] = s]
         \/ stage' = [stage EXCEPT ![w] = t]
         \/ stage' = [stage EXCEPT ![w] = u]
         \/ stage' = [stage EXCEPT ![w] = NoStage]
  BY DEF MirrorFetchSource, At, Finish
<1>2. stage[w] \in Stage /\ stage[w].from \in ID /\ "Secret" \in Kind
  BY <1>1, ControllerParts DEF StageSound
<1>3. r \in Nat /\ (IsSource(r) => IsSourceOf(log[r].policy, r))
  BY <1>2, CachedFacts, CachedObjectSource
<1> HIDE DEF r
<1>4. /\ s \in Stage /\ s.at = "register" /\ s.ver = r /\ s.from = stage[w].from
      /\ s.left = stage[w].left
  BY <1>2, <1>3 DEF Stage
<1>5. /\ t \in Stage /\ t.at = "adopt" /\ t.from = stage[w].from
      /\ t.left = stage[w].left /\ t.ver = stage[w].ver
  BY <1>2 DEF Stage
<1>6. u \in Stage /\ StageSound(u)
  BY ControllerParts, AtSound
<1> HIDE DEF s, t, u
<1>7. (IsSource(r) => StageSound(s)) /\ StageSound(t)
  BY <1>2, <1>3, <1>4, <1>5, ControllerParts DEF StageSound
<1>8. ControllerInv'
  BY <1>1, <1>4, <1>5, <1>6, <1>7, NoStageSound, ControllerParts, WorkerStep
     DEF vars, clusterVars
<1>9. QED  BY <1>1, <1>8 DEF Keeps

LEMMA MirrorAdoptKeeps ==
    ASSUME EngineInv, ControllerInv, NEW w \in Request, MirrorAdopt(w)
    PROVE  Keeps
<1>1. /\ stage[w].at = "adopt" /\ UNCHANGED <<queue, notFound, nsQueue, nsDrop>>
      /\ RegisterMirror(w.id, stage[w].from, "Secret", TRUE)
      /\ stage' = [stage EXCEPT ![w] = NoStage]
  BY DEF MirrorAdopt, Finish
<1>2. stage[w].from \in ID /\ "Secret" \in Kind /\ w.id \in ID
  BY <1>1, ControllerParts, WorkerFields DEF StageSound
<1>3. Next /\ UNCHANGED <<log, seen>>
  BY <1>1, <1>2 DEF Next, RegisterMirror, clusterVars
<1>4. ControllerInv'
  BY <1>1, <1>3, NoStageSound, ControllerParts, WorkerStep
<1>5. QED  BY <1>3, <1>4 DEF Keeps

LEMMA MirrorOrphanedKeeps ==
    ASSUME EngineInv, ControllerInv, NEW w \in Request, MirrorOrphaned(w)
    PROVE  Keeps
<1>1. /\ UNCHANGED <<queue, notFound, nsQueue, nsDrop>> /\ UnregisterMirror(w.id)
      /\ stage' = [stage EXCEPT ![w] = NoStage]
  BY DEF MirrorOrphaned, Finish
<1>2. Next /\ UNCHANGED <<log, seen>>
  BY <1>1, WorkerFields DEF Next, UnregisterMirror, clusterVars
<1>3. ControllerInv'
  BY <1>1, <1>2, NoStageSound, ControllerParts, WorkerStep
<1>4. QED  BY <1>2, <1>3 DEF Keeps

LEMMA MirrorRegisterKeeps ==
    ASSUME EngineInv, ControllerInv, NEW w \in Request, MirrorRegister(w)
    PROVE  Keeps
<1> DEFINE s == [stage[w] EXCEPT !.at = "count"]
           kind == log[stage[w].ver].key.kind
<1>1. /\ stage[w].at = "register" /\ UNCHANGED <<queue, notFound, nsQueue, nsDrop>>
      /\ RegisterMirror(w.id, stage[w].from, kind, stage[w].auto)
      /\ stage' = [stage EXCEPT ![w] = s]
  BY DEF MirrorRegister, At
<1>2. /\ stage[w].from \in ID /\ stage[w].ver \in 1..Len(log) /\ stage[w].auto \in BOOLEAN
      /\ w.id \in ID
  BY <1>1, ControllerParts, WorkerFields DEF StageSound, Stage, IsSourceOf
<1>3. kind \in Kind
  BY <1>2, Parts, EntryFields, KeyFields
<1>4. s \in Stage /\ StageSound(s)
  BY <1>1, ControllerParts, AtSound
<1> HIDE DEF s, kind
<1>5. Next /\ UNCHANGED <<log, seen>>
  BY <1>1, <1>2, <1>3 DEF Next, RegisterMirror, clusterVars
<1>6. ControllerInv'
  BY <1>1, <1>4, <1>5, ControllerParts, WorkerStep
<1>7. QED  BY <1>5, <1>6 DEF Keeps

LEMMA MirrorCountKeeps ==
    ASSUME EngineInv, ControllerInv, NEW w \in Request, MirrorCount(w)
    PROVE  Keeps
<1> DEFINE n == Cardinality(GetBySourceID(stage[w].from))
           s == [stage[w] EXCEPT !.at = "loop", !.left = n]
<1>1. /\ stage[w].at = "count" /\ UNCHANGED <<vars, queue, notFound, nsQueue, nsDrop>>
      /\ \/ stage' = [stage EXCEPT ![w] = NoStage]
         \/ n # 0 /\ stage' = [stage EXCEPT ![w] = s]
  BY DEF MirrorCount
<1>2. n \in Nat
  BY MirrorsAreCounted
<1> HIDE DEF n
<1>3. /\ s \in Stage /\ s.at = "loop" /\ s.left = n /\ s.from = stage[w].from
      /\ s.ver = stage[w].ver
  BY <1>2, ControllerParts DEF Stage
<1> HIDE DEF s
<1>4. n # 0 => StageSound(s)
  BY <1>1, <1>2, <1>3, ControllerParts DEF StageSound
<1>5. ControllerInv'
  BY <1>1, <1>3, <1>4, NoStageSound, ControllerParts, WorkerStep DEF vars, clusterVars
<1>6. QED  BY <1>1, <1>5 DEF Keeps

LEMMA MirrorLoopKeeps ==
    ASSUME EngineInv, ControllerInv, NEW w \in Request, MirrorLoop(w)
    PROVE  Keeps
<1> DEFINE s == [stage[w] EXCEPT !.at = "execute", !.left = stage[w].left - 1]
           v == stage[w].ver
<1>1. /\ stage[w].at = "loop" /\ UNCHANGED <<queue, notFound, nsQueue, nsDrop>>
      /\ Execute(w, v, MirrorView(log[v].policy), stage[w].from.name)
  BY DEF MirrorLoop
<1>2. stage' = [stage EXCEPT ![w] = s]
  BY DEF MirrorLoop
<1>3. /\ stage[w] \in Stage /\ stage[w].left \in Nat /\ stage[w].left - 1 \in Nat
      /\ stage[w].from \in ID /\ IsSourceOf(log[v].policy, v)
  BY <1>1, ControllerParts DEF StageSound, Stage
<1>4. s \in Stage /\ s.at = "execute" /\ s.from = stage[w].from /\ s.ver = v
  BY <1>3 DEF Stage
<1> HIDE DEF s, v
<1>5. StageSound(s)
  BY <1>3, <1>4 DEF StageSound
<1>6. UNCHANGED <<log, seen>>
  BY <1>1 DEF Execute, clusterVars
<1>7. Next
  <2>1. IsSourceOf(MirrorView(log[v].policy), v) /\ stage[w].from.name \in Name
    BY <1>3, MirrorViewSource DEF ID
  <2>2. v \in 1..Len(log) /\ MirrorView(log[v].policy) \in Sources(log[v])
    BY <2>1 DEF IsSourceOf
  <2>3. QED  BY <1>1, <2>1, <2>2, WorkerFields DEF Next
<1>8. ControllerInv'
  BY <1>1, <1>2, <1>4, <1>5, <1>6, ControllerParts, WorkerStep
<1>9. QED  BY <1>7, <1>8 DEF Keeps

(* A Secret read for a Certificate or an Ingress.                             *)
LEMMA ReplicatesKeeps ==
    ASSUME EngineInv, ControllerInv, NEW w \in Request, NEW r \in Nat, NEW policy \in Policy,
           policy.replicate => IsSourceOf(policy, r), stage[w].at = "fetch",
           Replicates(w, r, policy), UNCHANGED <<vars, queue, notFound, nsQueue, nsDrop>>
    PROVE  Keeps
<1> DEFINE s == [stage[w] EXCEPT !.at = "issued", !.ver = r, !.via = policy]
<1>1. \/ policy.replicate /\ stage' = [stage EXCEPT ![w] = s]
      \/ stage' = [stage EXCEPT ![w] = NoStage]
  BY DEF Replicates
<1>2. /\ s \in Stage /\ s.at = "issued" /\ s.from = stage[w].from /\ s.left = stage[w].left
      /\ s.ver = r /\ s.via = policy
  BY ControllerParts DEF Stage
<1> HIDE DEF s
<1>3. policy.replicate => StageSound(s)
  BY <1>2, ControllerParts DEF StageSound
<1>4. ControllerInv'
  BY <1>1, <1>2, <1>3, NoStageSound, ControllerParts, WorkerStep DEF vars, clusterVars
<1>5. QED  BY <1>4 DEF Keeps

LEMMA CertificateFetchKeeps ==
    ASSUME EngineInv, ControllerInv, NEW w \in Request, CertificateFetch(w) \/ IngressFetch(w)
    PROVE  Keeps
<1> DEFINE r == Cached("Secret", w.id)
<1>1. /\ stage[w].at = "fetch" /\ UNCHANGED <<vars, queue, notFound, nsQueue, nsDrop>>
      /\ \/ Live(r) /\ Replicates(w, r, log[r].policy)
         \/ /\ Live(r)
            /\ \E t \in Template : \E policy \in Merged(log[r].policy, t) : Replicates(w, r, policy)
         \/ stage' = [stage EXCEPT ![w] = NoStage]
  BY DEF CertificateFetch, IngressFetch, Finish
<1>2. r \in Nat /\ (Live(r) => log[r].policy \in Policy)
  <2>1. r \in 0..Len(log)
    BY WorkerFields, CachedFacts
  <2>2. QED  BY <2>1, Parts, EntryFields DEF Live
<1>3. ASSUME Live(r), NEW policy \in Policy, policy.replicate,
             policy = log[r].policy \/ \E t \in Template : policy \in Merged(log[r].policy, t)
      PROVE  IsSourceOf(policy, r)
  <2>1. "Secret" \in Kind /\ r = seen[[kind |-> "Secret", id |-> w.id]]
    BY <1>3 DEF Cached, Live
  <2>2. [kind |-> "Secret", id |-> w.id] \in Key
    BY <2>1, WorkerFields DEF Key
  <2>3. log[r].key.kind = "Secret"
    BY <1>3, <2>1, <2>2, Parts DEF CacheSound, Live
  <2>4. policy = log[r].policy \/ policy \in IngressPolicies(log[r])
    BY <1>3, <2>3 DEF IngressPolicies
  <2>5. QED  BY <1>3, <2>1, <2>2, <2>4, CachedSource
<1> HIDE DEF r
<1>4. CASE stage' = [stage EXCEPT ![w] = NoStage]
  <2>1. ControllerInv'
    BY <1>1, <1>4, NoStageSound, ControllerParts, WorkerStep DEF vars, clusterVars
  <2>2. QED  BY <1>1, <2>1 DEF Keeps
<1>5. CASE Live(r) /\ Replicates(w, r, log[r].policy)
  BY <1>1, <1>2, <1>5, <1>3, ReplicatesKeeps
<1>6. CASE /\ Live(r)
           /\ \E t \in Template : \E policy \in Merged(log[r].policy, t) : Replicates(w, r, policy)
  <2>1. PICK t \in Template : \E policy \in Merged(log[r].policy, t) : Replicates(w, r, policy)
    BY <1>6
  <2>2. PICK policy \in Merged(log[r].policy, t) : Replicates(w, r, policy)
    BY <2>1
  <2>3. policy \in Policy
    BY <1>2, <1>6, PolicyTypes, ResourcesAssumption
  <2>4. QED  BY <1>1, <1>2, <1>3, <1>6, <2>2, <2>3, ReplicatesKeeps
<1>7. QED  BY <1>1, <1>4, <1>5, <1>6

LEMMA ReconcileStepKeeps ==
    ASSUME EngineInv, ControllerInv, NEW w \in Request, ReconcileStep(w)
    PROVE  Keeps
<1>1. CASE Work(w) /\ UNCHANGED controllerVars
  <2>1. Next
    BY <1>1, WorkerFields DEF Next
  <2>2. EngineInv' /\ Advances
    BY <2>1, NextSafe, NextAdvances
  <2>3. ControllerInv'
    BY <1>1, <2>2, ControllerParts, StagesKept
       DEF ControllerInv, ControllerTypeOK, controllerVars
  <2>4. QED  BY <2>1, <2>3 DEF Keeps
<1>2. QED
  BY <1>1, StartKeeps, SourceFetchKeeps, SourceMissKeeps, SourceHitKeeps,
     ReturnKeeps, MirrorFetchKeeps, MirrorFetchSourceKeeps, MirrorAdoptKeeps,
     MirrorOrphanedKeeps, MirrorRegisterKeeps, MirrorCountKeeps, MirrorLoopKeeps,
     CertificateFetchKeeps
     DEF ReconcileStep

-----------------------------------------------------------------------------
(* The other steps leave the stages alone or reset them.                     *)

LEMMA OtherStep ==
    ASSUME EngineInv, ControllerInv, [Next]_vars, UNCHANGED stage, queue' \subseteq Request,
           notFound' \subseteq ID, nsQueue' \subseteq Namespace, nsDrop' \subseteq ID
    PROVE  Keeps
<1>1. EngineInv' /\ Advances
  BY NextSafe, NextAdvances
<1>2. ControllerInv'
  BY <1>1, StagesKept DEF ControllerInv, ControllerTypeOK
<1>3. QED  BY <1>2 DEF Keeps

LEMMA InformerKeeps ==
    ASSUME EngineInv, ControllerInv, NEW k \in Key, Informer(k)
    PROVE  Keeps
<1>1. PICK r \in 1..Len(log) : Observe(k, r) /\ queue' = queue \cup Notified(k, seen[k], r)
  BY DEF Informer
<1>2. /\ notFound' \in {notFound, notFound \ {k.id}}
      /\ UNCHANGED <<engineVars, stage, nsQueue, nsDrop>>
  BY DEF Informer, MarkFoundOnEvent, MarkFound
<1>3. Next
  BY <1>1, <1>2 DEF Next
<1>4. Notified(k, seen[k], r) \subseteq Request
  BY DEF Notified
<1>5. QED  BY <1>1, <1>2, <1>3, <1>4, ControllerParts, OtherStep

LEMMA ResyncKeeps ==
    ASSUME EngineInv, ControllerInv, NEW k \in Key, Resync(k)
    PROVE  Keeps
<1>1. /\ Spend("event") /\ queue' = queue \cup Notified(k, seen[k], seen[k])
      /\ notFound' \in {notFound, notFound \ {k.id}}
      /\ UNCHANGED <<log, head, seen, phase, nsSeen, engineVars, stage, nsQueue, nsDrop>>
  BY DEF Resync, MarkFoundOnEvent, MarkFound
<1>2. Next
  BY <1>1 DEF Next, Elsewhere, engineVars
<1>3. Notified(k, seen[k], seen[k]) \subseteq Request
  BY DEF Notified
<1>4. QED  BY <1>1, <1>2, <1>3, ControllerParts, OtherStep

LEMMA CertificateEventKeeps ==
    ASSUME EngineInv, ControllerInv, NEW w \in Request, CertificateEvent(w)
    PROVE  Keeps
<1>1. /\ Spend("event") /\ w.ctl \in {"certificate", "ingress"} /\ queue' = queue \cup {w}
      /\ UNCHANGED <<log, head, seen, phase, nsSeen, engineVars, stage, notFound, nsQueue, nsDrop>>
  BY DEF CertificateEvent
<1>2. Next
  BY <1>1 DEF Next, Elsewhere, engineVars
<1>3. QED  BY <1>1, <1>2, ControllerParts, OtherStep

LEMMA NamespaceControllerKeeps ==
    ASSUME EngineInv, ControllerInv, NEW n \in Namespace,
           InformerNamespace(n) \/ NamespaceReconcile(n)
    PROVE  Keeps
<1>1. CASE InformerNamespace(n)
  <2>1. /\ ObserveNamespace(n) /\ nsQueue' = nsQueue \cup {n}
        /\ UNCHANGED <<engineVars, queue, stage, notFound, nsDrop>>
    BY <1>1 DEF InformerNamespace
  <2>2. Next
    BY <2>1 DEF Next
  <2>3. QED  BY <2>1, <2>2, ControllerParts, OtherStep
<1>2. CASE NamespaceReconcile(n)
  <2>1. /\ UNCHANGED <<vars, queue, stage, notFound>> /\ nsQueue' = nsQueue \ {n}
        /\ nsDrop' \subseteq ID
    BY <1>2 DEF NamespaceReconcile, ListByNamespace
  <2>2. QED  BY <2>1, ControllerParts, OtherStep
<1>3. QED  BY <1>1, <1>2

LEMMA ForgetKeeps ==
    ASSUME EngineInv, ControllerInv, NEW id \in ID, NamespaceForget(id) \/ NotFoundExpires(id)
    PROVE  Keeps
<1>1. CASE NamespaceForget(id)
  <2>1. /\ UnregisterMirror(id) /\ nsDrop' = nsDrop \ {id}
        /\ UNCHANGED <<queue, stage, notFound, nsQueue>>
    BY <1>1 DEF NamespaceForget
  <2>2. Next
    BY <2>1 DEF Next
  <2>3. QED  BY <2>1, <2>2, ControllerParts, OtherStep
<1>2. CASE NotFoundExpires(id)
  <2>1. /\ Spend("expire") /\ notFound' = notFound \ {id}
        /\ UNCHANGED <<log, head, seen, phase, nsSeen, engineVars, queue, stage, nsQueue, nsDrop>>
    BY <1>2 DEF NotFoundExpires
  <2>2. Next
    BY <2>1 DEF Next, Elsewhere, engineVars
  <2>3. QED  BY <2>1, <2>2, ControllerParts, OtherStep
<1>3. QED  BY <1>1, <1>2

LEMMA OperatorRestartKeeps ==
    ASSUME EngineInv, ControllerInv, OperatorRestart
    PROVE  Keeps
<1>1. /\ Restart /\ stage' = [w \in Request |-> NoStage] /\ notFound' = {}
      /\ nsQueue' = nsSeen' /\ nsDrop' = {}
      /\ \E others \in SUBSET {w \in Request : w.ctl \in {"certificate", "ingress"}} :
            queue' = others \cup UNION {Notified(k, 0, head[k]) : k \in Key}
  BY DEF OperatorRestart
<1>2. queue' \subseteq Request /\ nsSeen' \subseteq Namespace
  BY <1>1 DEF Notified, Restart
<1>3. \A w \in Request : StageSound(stage[w])'
  BY <1>1 DEF NoStage, StageSound
<1>4. ControllerInv'
  BY <1>1, <1>2, <1>3, NoStageSound DEF ControllerInv, ControllerTypeOK
<1>5. Next
  BY <1>1 DEF Next
<1>6. QED  BY <1>4, <1>5 DEF Keeps

(* A step of the controllers, of what surrounds them, or none of theirs.      *)
LEMMA ControllersStepKeeps ==
    ASSUME EngineInv, ControllerInv, [ControllersStep]_allVars
    PROVE  Keeps
<1>1. CASE UserStep /\ UNCHANGED <<engineVars, controllerVars>>
  <2>1. Next
    BY <1>1 DEF Next
  <2>2. QED  BY <1>1, <2>1, ControllerParts, OtherStep DEF controllerVars
<1>2. CASE UNCHANGED allVars
  BY <1>2, ControllerParts, OtherStep DEF allVars, controllerVars
<1>3. QED
  BY <1>1, <1>2, InformerKeeps, ResyncKeeps, CertificateEventKeeps,
     NamespaceControllerKeeps, ForgetKeeps, ReconcileStepKeeps
     DEF ControllersStep

LEMMA ControllersNextKeeps ==
    ASSUME EngineInv, ControllerInv, [ControllersNext]_allVars
    PROVE  Keeps
BY ControllersStepKeeps, OperatorRestartKeeps DEF ControllersNext

-----------------------------------------------------------------------------
(* Theorems.                                                                 *)

LEMMA ControllersInitKeeps == ControllersInit => ControllerInv
BY NoStageSound DEF ControllersInit, ControllerInit, ControllerInv, ControllerTypeOK

LEMMA ControllersInvariant == ControllersSpec => [](EngineInv /\ ControllerInv)
<1>1. ControllersInit => EngineInv /\ ControllerInv
  BY InitSafe, ControllersInitKeeps DEF ControllersInit
<1>2. EngineInv /\ ControllerInv /\ [ControllersNext]_allVars
         => (EngineInv /\ ControllerInv)'
  BY ControllersNextKeeps, NextSafe DEF Keeps
<1>3. QED  BY <1>1, <1>2, PTL DEF ControllersSpec

(* Every behaviour of the controllers is one of ReflectResources: what is    *)
(* proved of Execute under arbitrary callers holds in the operator.          *)
THEOREM ControllersImplementEngine == ControllersSpec => Spec
<1>1. ControllersInit => Init
  BY DEF ControllersInit
<1>2. EngineInv /\ ControllerInv /\ [ControllersNext]_allVars => [Next]_vars
  BY ControllersNextKeeps DEF Keeps
<1>3. QED  BY <1>1, <1>2, ControllersInvariant, PTL DEF ControllersSpec, Spec

(* All variables keep their types in every state of the operator; among      *)
(* other things the loop of MirrorReconciler.Reconcile never runs past the   *)
(* mirrors it counted.                                                       *)
THEOREM TypesHold == ControllersSpec => []TypeOK
<1>1. EngineInv /\ ControllerInv => TypeOK
  BY DEF EngineInv, EngineTypes, ControllerInv, TypeOK
<1>2. QED  BY <1>1, ControllersInvariant, PTL

(* Every write of the operator is an honest copy, for any number of          *)
(* namespaces, objects, policies, workers and disturbances.                  *)
THEOREM OperatorIsHonest == ControllersSpec => MirrorsAreHonest
BY ControllersImplementEngine, EngineImplementsContract, PTL DEF MirrorsAreHonest
==============================================================================
