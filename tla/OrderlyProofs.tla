---------------------------- MODULE OrderlyProofs ----------------------------
(***************************************************************************)
(* In orderly circumstances the surroundings of a target stay orderly.      *)
(***************************************************************************)
EXTENDS Convergence, ControllersProofs

OrderlyState == EngineInv /\ ControllerInv /\ OrderlyInv

LEMMA OrderlyParts ==
    ASSUME OrderlyState
    PROVE  /\ EngineInv /\ ControllerInv /\ Orderly /\ Steady /\ LogOrderly /\ StoreOrderly
           /\ VersionsOrderly /\ NotFoundOrderly
           /\ \A w \in Worker : JobOrderly(w)
           /\ \A w \in Request : StageOrderly(w)
BY DEF OrderlyState, OrderlyInv

-----------------------------------------------------------------------------
(* Names.                                                                    *)

(* There are Secrets only, so an ID is as good as a key.                     *)
LEMMA OrderlyKeys ==
    ASSUME Orderly
    PROVE  /\ "Secret" \in Kind /\ "ConfigMap" \notin Kind
           /\ \A k \in Key : k = KeyOf(k.id) /\ k.kind = "Secret"
           /\ \A id \in ID : KeyOf(id) \in Key /\ KeyOf(id).id = id
BY DEF Orderly, Key, KeyOf

LEMMA ManifestFields ==
    \A m \in Manifest : /\ m.key \in Key /\ m.policy \in Policy /\ m.helm \in BOOLEAN
                        /\ m.key.id \in ID /\ m.key.id.ns \in Namespace
                        /\ m.key.id.name \in Name /\ m.key \in Original
BY ClusterAssumption, KeyFields DEF Original

(* An ID belongs to one original, and is that of one or beside one.           *)
LEMMA OneOriginal ==
    ASSUME Orderly
    PROVE  /\ \A k, l \in Original : k.id.name = l.id.name => k = l
           /\ \A m, o \in Manifest : m.key = o.key => m = o
           /\ \A id : \A k, l : Beside(id, k) /\ Beside(id, l) => k = l
           /\ \A id, k : Beside(id, k) => \A l \in Original : l.id # id
<1>1. \A k, l \in Original : k.id.name = l.id.name => k = l
  BY DEF Orderly, Original
<1>2. \A m, o \in Manifest : m.key = o.key => m = o
  BY DEF Orderly
<1>3. QED  BY <1>1, <1>2 DEF Beside

LEMMA TargetFacts ==
    ASSUME Orderly, NEW m \in Manifest, NEW n \in Namespace
    PROVE  /\ TargetKey(m, n) \in Key /\ TargetKey(m, n).id \in ID
           /\ TargetKey(m, n) = KeyOf(TargetKey(m, n).id)
           /\ TargetKey(m, n).id = [ns |-> n, name |-> m.key.id.name]
           /\ TargetKey(m, n).id.ns = n /\ TargetKey(m, n).id.name = m.key.id.name
           /\ n # m.key.id.ns => /\ Beside(TargetKey(m, n).id, m.key)
                                 /\ TargetKey(m, n) # m.key /\ TargetKey(m, n) \notin Original
                                 /\ MirrorRequest(TargetKey(m, n)) \in Request
           /\ SourceRequest(m.key) \in Request
<1>1. m.key \in Key /\ m.key.id \in ID /\ m.key \in Original
  BY ManifestFields
<1>2. /\ TargetKey(m, n) \in Key
      /\ TargetKey(m, n).id = [ns |-> n, name |-> m.key.id.name]
  BY <1>1 DEF TargetKey, Target, Key, ID
<1>3. /\ TargetKey(m, n).id.ns = n /\ TargetKey(m, n).id.name = m.key.id.name
      /\ TargetKey(m, n).id \in ID /\ TargetKey(m, n) = KeyOf(TargetKey(m, n).id)
  BY <1>2, OrderlyKeys, KeyFields
<1>4. SourceRequest(m.key) \in Request
  BY DEF Orderly
<1>5. n # m.key.id.ns => MirrorRequest(TargetKey(m, n)) \in Request
  BY DEF Orderly, TargetKey
<1>6. n # m.key.id.ns => Beside(TargetKey(m, n).id, m.key)
  BY <1>1, <1>3 DEF Beside
<1>7. n # m.key.id.ns => TargetKey(m, n) # m.key /\ TargetKey(m, n) \notin Original
  <2> SUFFICES ASSUME n # m.key.id.ns
               PROVE  TargetKey(m, n) # m.key /\ TargetKey(m, n) \notin Original
    OBVIOUS
  <2>1. \A l \in Original : l.id # TargetKey(m, n).id
    BY <1>6, OneOriginal
  <2>2. QED  BY <1>1, <2>1
<1>8. QED  BY <1>2, <1>3, <1>4, <1>5, <1>6, <1>7

(* Only one manifest has a target at an ID.                                  *)
LEMMA OneTarget ==
    ASSUME Orderly, NEW m \in Manifest, NEW n \in Namespace, n # m.key.id.ns,
           NEW k, Beside(TargetKey(m, n).id, k)
    PROVE  k = m.key
BY TargetFacts, OneOriginal

-----------------------------------------------------------------------------
(* What the log holds.                                                       *)

LEMMA NoPolicyIsNone == ~NoPolicy.replicate
BY DEF NoPolicy

LEMMA Revisions ==
    ASSUME OrderlyState, NEW i \in 1..Len(log)
    PROVE  /\ log[i] \in Entry /\ log[i].key \in Key /\ log[i].live
           /\ i <= head[log[i].key]
           /\ \A m \in Manifest : log[i].key = m.key =>
                 log[i].policy = m.policy /\ log[i].helm = m.helm /\ log[i].from = NoID
           /\ log[i].key \notin Original => CopyEntry(log[i])
           /\ log[i].policy.replicate => log[i].key \in Original
<1>1. /\ log[i] \in Entry /\ log[i].key \in Key
      /\ i <= head[log[i].key] /\ (OriginalEntry(log[i]) \/ CopyEntry(log[i]))
  BY OrderlyParts, Parts, EntryFields DEF LogOrderly
<1>2. log[i].live
  BY <1>1 DEF OriginalEntry, CopyEntry
<1>3. OriginalEntry(log[i]) => log[i].key \in Original
  BY DEF OriginalEntry, Original
<1>4. CopyEntry(log[i]) => log[i].key \notin Original
  BY OrderlyParts, OneOriginal DEF CopyEntry
<1>5. \A m \in Manifest : log[i].key = m.key =>
          log[i].policy = m.policy /\ log[i].helm = m.helm /\ log[i].from = NoID
  <2> SUFFICES ASSUME NEW m \in Manifest, log[i].key = m.key
               PROVE  log[i].policy = m.policy /\ log[i].helm = m.helm /\ log[i].from = NoID
    OBVIOUS
  <2>1. OriginalEntry(log[i])
    BY <1>1, <1>4, ManifestFields
  <2>2. PICK o \in Manifest : log[i].key = o.key /\ log[i].policy = o.policy /\ log[i].helm = o.helm
    BY <2>1 DEF OriginalEntry
  <2>3. o = m
    BY <2>2, OrderlyParts, OneOriginal
  <2>4. QED  BY <2>1, <2>2, <2>3 DEF OriginalEntry
<1>6. log[i].policy.replicate => log[i].key \in Original
  BY <1>1, <1>3, NoPolicyIsNone DEF CopyEntry
<1>7. QED  BY <1>1, <1>2, <1>3, <1>4, <1>5, <1>6

(* The cache answers with the revision it has.                               *)
LEMMA CacheAnswers ==
    ASSUME OrderlyState, NEW id \in ID
    PROVE  /\ CachedObject(id) = seen[KeyOf(id)] /\ Cached("Secret", id) = seen[KeyOf(id)]
           /\ seen[KeyOf(id)] # 0 => /\ seen[KeyOf(id)] \in 1..Len(log)
                                     /\ Live(seen[KeyOf(id)])
                                     /\ log[seen[KeyOf(id)]].key = KeyOf(id)
           /\ Live(seen[KeyOf(id)]) = (seen[KeyOf(id)] # 0)
<1>1. KeyOf(id) \in Key /\ "Secret" \in Kind /\ "ConfigMap" \notin Kind
  BY OrderlyParts, OrderlyKeys
<1>2. seen[KeyOf(id)] \in 0..Len(log) /\ Len(log) \in Nat
  BY <1>1, OrderlyParts, Parts
<1>3. Cached("Secret", id) = seen[KeyOf(id)] /\ Cached("ConfigMap", id) = 0
  BY <1>1 DEF Cached, KeyOf
<1>4. seen[KeyOf(id)] # 0 => log[seen[KeyOf(id)]].key = KeyOf(id)
  BY <1>1, OrderlyParts, Parts DEF CacheSound
<1>5. seen[KeyOf(id)] # 0 => seen[KeyOf(id)] \in 1..Len(log) /\ Live(seen[KeyOf(id)])
  BY <1>2, Revisions DEF Live
<1>6. CachedObject(id) = seen[KeyOf(id)]
  BY <1>3, <1>5 DEF CachedObject
<1>7. QED  BY <1>3, <1>4, <1>5, <1>6 DEF Live

(* A manifest that is opted in is a source as soon as the cache has it.       *)
LEMMA OptedInIsSource ==
    ASSUME OrderlyState, NEW m \in Manifest, NEW r \in 1..Len(log), log[r].key = m.key
    PROVE  IsSource(r) = OptedIn(m)
<1>1. log[r].live /\ log[r].policy = m.policy /\ log[r].helm = m.helm
  BY Revisions
<1>2. r # 0
  OBVIOUS
<1>3. QED  BY <1>1, <1>2 DEF IsSource, Live, IsHelm, OptedIn

-----------------------------------------------------------------------------
(* Policies.                                                                 *)

LEMMA MirrorViewAgrees ==
    ASSUME NEW policy, NEW n, CanAutoMirrorToNamespace(policy, n), CanReflectToNamespace(policy, n)
    PROVE  /\ CanAutoMirrorToNamespace(MirrorView(policy), n)
           /\ CanReflectToNamespace(MirrorView(policy), n)
<1>1. /\ MirrorView(policy).replicate = policy.replicate /\ MirrorView(policy).to = policy.to
      /\ MirrorView(policy).auto = policy.auto /\ MirrorView(policy).autoTo = <<>>
  BY DEF MirrorView
<1>2. CanReflectToNamespace(MirrorView(policy), n)
  BY <1>1 DEF CanReflectToNamespace
<1>3. IsEmpty(NewAllowedNamespaces(<<>>))
  BY DEF NewAllowedNamespaces, Stops, IsEmpty
<1>4. policy.replicate /\ policy.auto /\ Matches(NewAllowedNamespaces(policy.to), n)
  BY DEF CanAutoMirrorToNamespace, CanReflectToNamespace
<1>5. CanAutoMirrorToNamespace(MirrorView(policy), n)
  BY <1>1, <1>3, <1>4 DEF CanAutoMirrorToNamespace
<1>6. QED  BY <1>2, <1>5

(* Whichever way the Source was built.                                        *)
LEMMA WantedEitherWay ==
    ASSUME NEW m, NEW n, Wanted(m, n), NEW policy \in {m.policy, MirrorView(m.policy)}
    PROVE  CanAutoMirrorToNamespace(policy, n) /\ CanReflectToNamespace(policy, n)
BY MirrorViewAgrees DEF Wanted

(* The call of a worker carries a policy of an original.                      *)
LEMMA CallFacts ==
    ASSUME OrderlyState, NEW w \in Worker, job[w].pc # "idle"
    PROVE  /\ job[w].ver \in 1..Len(log) /\ SourceKey(w) \in Original /\ SourceKey(w) \in Key
           /\ SourceKey(w) = KeyOf(SourceID(w)) /\ SourceID(w) \in ID
           /\ job[w].ver <= seen[SourceKey(w)]
           /\ \E m \in Manifest : /\ m.key = SourceKey(w)
                                  /\ job[w].policy \in {m.policy, MirrorView(m.policy)}
<1>1. /\ job[w].ver \in 1..Len(log) /\ SourceKey(w) \in Key /\ SourceID(w) \in ID
      /\ job[w].ver <= seen[SourceKey(w)]
  BY OrderlyParts, SourceFacts
<1>2. /\ job[w].policy \in {log[job[w].ver].policy, MirrorView(log[job[w].ver].policy)}
      /\ job[w].policy.replicate
  <2>1. job[w].policy \in {log[job[w].ver].policy, MirrorView(log[job[w].ver].policy)}
    BY OrderlyParts DEF JobOrderly
  <2>2. job[w].policy \in Sources(log[job[w].ver])
    BY OrderlyParts, Parts DEF JobSound, SourceSound, IsSourceOf
  <2>3. QED  BY <2>1, <2>2 DEF Sources
<1>3. log[job[w].ver].policy.replicate
  BY <1>2 DEF MirrorView
<1>4. SourceKey(w) \in Original
  BY <1>1, <1>3, Revisions DEF SourceKey
<1>5. PICK m \in Manifest : m.key = SourceKey(w)
  BY <1>4 DEF Original
<1>6. log[job[w].ver].policy = m.policy
  BY <1>1, <1>5, Revisions DEF SourceKey
<1>7. SourceKey(w) = KeyOf(SourceID(w))
  BY <1>1, OrderlyParts, OrderlyKeys DEF SourceID
<1>8. QED  BY <1>1, <1>2, <1>4, <1>5, <1>6, <1>7

-----------------------------------------------------------------------------
(* What a step leaves alone. Every step of the controllers Moves.             *)

Moves == EngineInv' /\ ControllerInv' /\ Advances

LEMMA MovesFacts ==
    ASSUME OrderlyState, Moves
    PROVE  /\ Len(log) \in Nat /\ Len(log') \in Nat /\ Len(log) <= Len(log')
           /\ \A i \in 1..Len(log) : i \in 1..Len(log') /\ log'[i] = log[i] /\ log[i].key \in Key
           /\ \A k \in Key : seen[k] \in Nat /\ seen'[k] \in Nat /\ seen[k] <= seen'[k]
           /\ seen \in [Key -> Nat] /\ seen' \in [Key -> Nat]
<1>1. Len(log) \in Nat /\ Len(log') \in Nat
  BY OrderlyParts, Parts DEF Moves, EngineInv, EngineTypes, ClusterTypeOK
<1>2. seen \in [Key -> Nat] /\ seen' \in [Key -> Nat]
  <2>1. seen \in [Key -> 0..Len(log)] /\ seen' \in [Key -> 0..Len(log')]
    BY OrderlyParts, Parts DEF Moves, EngineInv, EngineTypes, ClusterTypeOK
  <2>2. QED  BY <1>1, <2>1
<1>3. Len(log) <= Len(log') /\ \A i \in 1..Len(log) : log'[i] = log[i] /\ log[i].key \in Key
  BY Revisions DEF Moves, Advances
<1>4. \A k \in Key : seen[k] <= seen'[k]
  BY DEF Moves, Advances
<1>5. QED  BY <1>1, <1>2, <1>3, <1>4

(* An entry stays what it is while the log grows.                             *)
LEMMA EntryKept ==
    ASSUME OrderlyState, Moves, NEW e \in Entry, OriginalEntry(e) \/ CopyEntry(e)
    PROVE  OriginalEntry(e) \/ CopyEntry(e)'
<1>1. CASE OriginalEntry(e)
  BY <1>1
<1>2. CASE CopyEntry(e)
  <2> DEFINE v == e.ver
  <2>1. v \in 1..Len(log) /\ v <= seen[log[v].key] /\ v \in Nat
    BY <1>2 DEF CopyEntry
  <2>2. v \in 1..Len(log') /\ log'[v] = log[v] /\ v <= seen'[log'[v].key]
    BY <2>1, MovesFacts
  <2>3. ASSUME NEW d \in v..Len(log)
        PROVE  d \in v..Len(log') /\ log'[d] = log[d]
    BY <2>1, MovesFacts
  <2>4. QED  BY <1>2, <2>1, <2>2, <2>3 DEF CopyEntry
<1>3. QED  BY <1>1, <1>2

LEMMA LogKept ==
    ASSUME OrderlyState, Moves, UNCHANGED <<log, head>>
    PROVE  LogOrderly'
<1> SUFFICES ASSUME NEW i \in 1..Len(log)
             PROVE  i <= head[log[i].key] /\ (OriginalEntry(log[i]) \/ CopyEntry(log[i])')
  BY DEF LogOrderly, OriginalEntry, CopyEntry
<1>1. /\ log[i] \in Entry /\ i <= head[log[i].key]
      /\ OriginalEntry(log[i]) \/ CopyEntry(log[i])
  BY Revisions, OrderlyParts DEF LogOrderly
<1>2. OriginalEntry(log[i]) \/ CopyEntry(log[i])'
  BY <1>1, EntryKept
<1>3. QED  BY <1>1, <1>2

LEMMA LogGrows ==
    ASSUME OrderlyState, Moves, NEW e \in Entry, Commit(e), OriginalEntry(e) \/ CopyEntry(e)
    PROVE  LogOrderly'
<1>1. /\ Len(log') = Len(log) + 1 /\ \A i \in 1..Len(log) : log'[i] = log[i]
      /\ log'[Len(log) + 1] = e
      /\ head'[e.key] = Len(log) + 1 /\ \A k \in Key : k # e.key => head'[k] = head[k]
  BY OrderlyParts, Parts, CommitFacts
<1>2. OriginalEntry(e) \/ CopyEntry(e)'
  BY EntryKept
<1>3. ASSUME NEW i \in 1..Len(log)
      PROVE  i <= head'[log'[i].key] /\ (OriginalEntry(log'[i]) \/ CopyEntry(log[i])')
  <2>1. /\ log[i] \in Entry /\ i <= head[log[i].key] /\ log[i].key \in Key
        /\ OriginalEntry(log[i]) \/ CopyEntry(log[i])
    BY Revisions, OrderlyParts DEF LogOrderly
  <2>2. PICK f \in Entry : f = log[i] /\ f = log'[i]
    BY <1>1, <2>1
  <2>3. OriginalEntry(f) \/ CopyEntry(f)'
    BY <2>1, <2>2, EntryKept
  <2>4. OriginalEntry(log'[i]) \/ CopyEntry(log[i])'
    BY <2>2, <2>3
  <2>5. Len(log) \in Nat
    BY MovesFacts
  <2>6. QED  BY <1>1, <2>1, <2>4, <2>5
<1>4. ASSUME NEW i \in 1..Len(log')
      PROVE  i <= head'[log'[i].key] /\ (OriginalEntry(log'[i]) \/ CopyEntry(log[i])')
  <2>1. CASE i \in 1..Len(log)
    BY <1>3, <2>1
  <2>2. CASE i = Len(log) + 1
    BY <1>1, <1>2, <2>2, MovesFacts DEF CopyEntry
  <2>3. QED  BY <1>1, <2>1, <2>2, MovesFacts
<1>5. QED  BY <1>4 DEF LogOrderly, OriginalEntry

LEMMA VersionsKept ==
    ASSUME OrderlyState, Moves,
           \A p \in Ptr : LET v == heap'[p].version
                          IN  \/ v = 0 \/ v = heap[p].version
                              \/ v \in 1..Len(log) /\ v <= seen[log[v].key]
    PROVE  VersionsOrderly'
<1> SUFFICES ASSUME NEW p \in Ptr, heap'[p].version # 0
             PROVE  /\ heap'[p].version \in 1..Len(log')
                    /\ heap'[p].version <= seen'[log'[heap'[p].version].key]
  BY DEF VersionsOrderly
<1> DEFINE v == heap'[p].version
<1>1. v \in 1..Len(log) /\ v <= seen[log[v].key]
  BY OrderlyParts DEF VersionsOrderly
<1> HIDE DEF v
<1>2. v \in 1..Len(log') /\ log'[v] = log[v] /\ v <= seen'[log'[v].key]
  BY <1>1, MovesFacts
<1>3. QED  BY <1>2 DEF v

LEMMA StoreKept ==
    ASSUME OrderlyState,
           \A id \in ID : store'[id] # Nil =>
              /\ store'[id] = store[id]
              /\ heap'[store[id]].id = heap[store[id]].id
              /\ heap'[store[id]].source = heap[store[id]].source
    PROVE  StoreOrderly'
BY OrderlyParts DEF StoreOrderly, Registered

(* A call that goes on as it was.                                            *)
LEMMA JobKept ==
    ASSUME OrderlyState, Moves, NEW u \in Worker, job'[u] = job[u],
           u \in Request /\ stage[u].at = "execute" => stage'[u].at = "execute",
           \A p \in Held(u) : heap'[p].id = heap[p].id /\ heap'[p].source = heap[p].source
    PROVE  JobOrderly(u)'
<1> SUFFICES ASSUME job[u].pc # "idle" PROVE JobOrderly(u)'
  BY DEF JobOrderly
<1>1. job[u].ver \in 1..Len(log)
  BY CallFacts
<1>2. log'[job[u].ver] = log[job[u].ver]
  BY <1>1, MovesFacts
<1>3. SourceKey(u)' = SourceKey(u) /\ SourceID(u)' = SourceID(u) /\ Held(u)' = Held(u)
  BY <1>2 DEF SourceKey, SourceID, Held
<1>4. JobOrderly(u)
  BY OrderlyParts
<1>5. QED  BY <1>2, <1>3, <1>4 DEF JobOrderly

LEMMA StageKept ==
    ASSUME OrderlyState, Moves, NEW u \in Request, stage'[u] = stage[u],
           u \in queue' => u \in queue \/ u.ctl = "certificate" \/ seen'[KeyOf(u.id)] # 0
    PROVE  StageOrderly(u)'
<1> DEFINE s == stage[u]
<1>1. StageOrderly(u) /\ StageSound(s)
  BY OrderlyParts, ControllerParts
<1>2. \A id \in ID : seen[KeyOf(id)] # 0 => seen'[KeyOf(id)] # 0
  <2>1. \A id \in ID : KeyOf(id) \in Key
    BY OrderlyParts, OrderlyKeys
  <2>2. QED  BY <2>1, MovesFacts
<1>3. u.id \in ID
  BY WorkerFields
<1>4. s.at \in {"hit", "issued", "register", "count"} \/ s.left > 0 =>
         log'[s.ver] = log[s.ver]
  BY <1>1, MovesFacts DEF StageSound, IsSourceOf
<1>5. QED  BY <1>1, <1>2, <1>3, <1>4 DEF StageOrderly

LEMMA SteadyKept ==
    ASSUME OrderlyState, UNCHANGED <<phase, nsSeen, nsDrop>>,
           UNCHANGED budget \/ \E d \in Disturbance : Spend(d)
    PROVE  Steady'
<1>1. CASE UNCHANGED budget
  BY <1>1, OrderlyParts DEF Steady
<1>2. CASE \E d \in Disturbance : Spend(d)
  <2>1. PICK d \in Disturbance : budget[d] > 0 /\ budget' = [budget EXCEPT ![d] = @ - 1]
    BY <1>2 DEF Spend
  <2>2. /\ budget \in [Disturbance -> Nat] /\ Budget \in [Disturbance -> Nat]
        /\ "delete" \in Disturbance /\ "fault" \in Disturbance
    BY OrderlyParts, Parts, ClusterAssumption DEF Disturbance
  <2>3. budget["delete"] = 0 /\ budget["fault"] <= Budget["fault"]
    BY OrderlyParts DEF Steady
  <2>4. d # "delete"
    BY <2>1, <2>2, <2>3
  <2>5. budget'["delete"] = 0 /\ budget'["fault"] <= Budget["fault"]
    BY <2>1, <2>2, <2>3, <2>4
  <2>6. QED  BY <2>5, OrderlyParts DEF Steady
<1>3. QED  BY <1>1, <1>2

-----------------------------------------------------------------------------
(* Steps of a Reconcile outside Execute.                                      *)

LEMMA StageStep ==
    ASSUME OrderlyState, Moves, NEW w \in Request, UNCHANGED <<vars, nsDrop>>,
           NEW s, stage' = [stage EXCEPT ![w] = s], stage[w].at # "execute",
           \A u \in Request : u # w /\ u \in queue' => u \in queue,
           StageOrderly(w)', NotFoundOrderly'
    PROVE  OrderlyInv'
<1>1. /\ UNCHANGED <<log, head, seen, phase, nsSeen, budget, store, heap, job>>
  BY DEF vars, clusterVars, engineVars
<1>2. \A u \in Request : u # w => stage'[u] = stage[u]
  BY OrderlyParts, ControllerParts
<1>3. LogOrderly' /\ StoreOrderly' /\ VersionsOrderly' /\ Steady'
  BY <1>1, LogKept, StoreKept, VersionsKept, SteadyKept
<1>4. ASSUME NEW u \in Worker PROVE JobOrderly(u)'
  <2>1. u \in Request /\ stage[u].at = "execute" => stage'[u].at = "execute"
    BY <1>2
  <2>2. QED  BY <1>1, <2>1, JobKept
<1>5. ASSUME NEW u \in Request PROVE StageOrderly(u)'
  BY <1>2, StageKept
<1>6. QED  BY <1>3, <1>4, <1>5, OrderlyParts DEF OrderlyInv

(* The end of a Reconcile asks nothing.                                       *)
LEMMA Finished ==
    ASSUME OrderlyState, NEW w \in Request, stage' = [stage EXCEPT ![w] = NoStage],
           UNCHANGED seen, w \in queue' => w \in queue
    PROVE  StageOrderly(w)'
<1>1. stage'[w] = NoStage
  BY OrderlyParts, ControllerParts
<1>2. NoStage.at = "idle" /\ NoStage.left = 0
  BY DEF NoStage
<1>3. StageOrderly(w)
  BY OrderlyParts
<1>4. QED  BY <1>1, <1>2, <1>3 DEF StageOrderly

LEMMA StartOrderly ==
    ASSUME OrderlyState, Moves, NEW w \in Request,
           SourceStart(w) \/ MirrorStart(w) \/ CertificateStart(w)
    PROVE  OrderlyInv'
<1> DEFINE s == [stage[w] EXCEPT !.at = "fetch"]
<1>1. /\ w \in queue /\ stage[w].at = "idle" /\ queue' = queue \ {w}
      /\ UNCHANGED <<vars, notFound, nsQueue, nsDrop>>
      /\ \/ stage' = [stage EXCEPT ![w] = stage[w]]
         \/ stage' = [stage EXCEPT ![w] = s]
  BY OrderlyParts, ControllerParts DEF SourceStart, MirrorStart, CertificateStart, At
<1>2. stage[w] \in Stage /\ StageSound(stage[w]) /\ StageOrderly(w)
  BY OrderlyParts, ControllerParts
<1>3. s.at = "fetch" /\ s.left = 0 /\ stage[w].left = 0
  BY <1>1, <1>2 DEF Stage, StageSound
<1>4. stage'[w] \in {stage[w], s}
  BY <1>1, OrderlyParts, ControllerParts
<1>5. seen' = seen
  BY <1>1 DEF vars, clusterVars
<1> HIDE DEF s
<1>6. StageOrderly(w)'
  BY <1>1, <1>2, <1>3, <1>4, <1>5 DEF StageOrderly
<1>7. NotFoundOrderly'
  BY <1>1, OrderlyParts DEF NotFoundOrderly
<1>8. QED  BY <1>1, <1>6, <1>7, StageStep

LEMMA SourceFetchOrderly ==
    ASSUME OrderlyState, Moves, NEW w \in Request, SourceFetch(w)
    PROVE  OrderlyInv'
<1> DEFINE r == CachedObject(w.id)
           s == [stage[w] EXCEPT !.at = "hit", !.ver = r]
           t == [stage[w] EXCEPT !.at = "miss"]
<1>1. /\ w.ctl = "source" /\ stage[w].at = "fetch"
      /\ UNCHANGED <<vars, queue, notFound, nsQueue, nsDrop>>
      /\ stage' = [stage EXCEPT ![w] = IF IsSource(r) THEN s ELSE t]
  BY DEF SourceFetch
<1>2. stage[w] \in Stage /\ StageSound(stage[w]) /\ StageOrderly(w) /\ w.id \in ID
  BY OrderlyParts, ControllerParts, WorkerFields
<1>3. /\ seen[KeyOf(w.id)] # 0 /\ r = seen[KeyOf(w.id)] /\ r \in 1..Len(log)
      /\ log[r].key = KeyOf(w.id)
  BY <1>1, <1>2, CacheAnswers DEF StageOrderly
<1>4. ASSUME ~IsSource(r), NEW m \in Manifest, OptedIn(m) PROVE m.key.id # w.id
  <2>1. m.key = KeyOf(m.key.id)
    BY OrderlyParts, OrderlyKeys, ManifestFields
  <2>2. QED  BY <1>3, <1>4, <2>1, OptedInIsSource
<1> HIDE DEF r
<1>5. /\ s.at = "hit" /\ s.ver = r /\ s.left = 0
      /\ t.at = "miss" /\ t.left = 0
  BY <1>1, <1>2 DEF Stage, StageSound
<1>6. stage'[w] = IF IsSource(r) THEN s ELSE t
  BY <1>1, OrderlyParts, ControllerParts
<1>7. seen' = seen /\ log' = log /\ queue' = queue
  BY <1>1 DEF vars, clusterVars
<1> HIDE DEF s, t
<1>8. StageOrderly(w)'
  <2>1. CASE IsSource(r)
    BY <1>1, <1>2, <1>3, <1>5, <1>6, <1>7, <2>1 DEF StageOrderly
  <2>2. CASE ~IsSource(r)
    BY <1>1, <1>2, <1>4, <1>5, <1>6, <1>7, <2>2 DEF StageOrderly
  <2>3. QED  BY <2>1, <2>2
<1>9. NotFoundOrderly'
  BY <1>1, OrderlyParts DEF NotFoundOrderly
<1>10. QED  BY <1>1, <1>7, <1>8, <1>9, StageStep

LEMMA SourceMissOrderly ==
    ASSUME OrderlyState, Moves, NEW w \in Request, SourceMiss(w)
    PROVE  OrderlyInv'
<1>1. /\ stage[w].at = "miss" /\ UNCHANGED <<vars, queue, nsQueue, nsDrop>>
      /\ notFound' = notFound \cup {w.id} /\ stage' = [stage EXCEPT ![w] = NoStage]
  BY DEF SourceMiss, MarkNotFound, Finish
<1>2. NotFoundOrderly'
  BY <1>1, OrderlyParts DEF NotFoundOrderly, StageOrderly
<1>3. StageOrderly(w)'
  BY <1>1, Finished DEF vars, clusterVars
<1>4. QED  BY <1>1, <1>2, <1>3, StageStep

LEMMA MirrorFetchOrderly ==
    ASSUME OrderlyState, Moves, NEW w \in Request, MirrorFetch(w)
    PROVE  OrderlyInv'
<1> DEFINE r == CachedObject(w.id)
           s == [stage[w] EXCEPT !.at = "source", !.from = log[r].from, !.auto = log[r].auto]
<1>1. /\ w.ctl = "mirror" /\ stage[w].at = "fetch" /\ UNCHANGED <<vars, notFound, nsQueue, nsDrop>>
      /\ queue' \in {queue, queue \cup {w}}
      /\ \/ stage' = [stage EXCEPT ![w] = NoStage]
         \/ /\ Live(r) /\ log[r].from # NoID
            /\ stage' = [stage EXCEPT ![w] = s]
  BY DEF MirrorFetch, HasReflectsAnnotation, Finish
<1>2. stage[w] \in Stage /\ StageSound(stage[w]) /\ StageOrderly(w) /\ w.id \in ID
  BY OrderlyParts, ControllerParts, WorkerFields
<1>3. /\ seen[KeyOf(w.id)] # 0 /\ r = seen[KeyOf(w.id)] /\ r \in 1..Len(log)
      /\ log[r].key = KeyOf(w.id)
  BY <1>1, <1>2, CacheAnswers DEF StageOrderly
<1>4. seen' = seen /\ log' = log
  BY <1>1 DEF vars, clusterVars
<1>5. NotFoundOrderly'
  BY <1>1, OrderlyParts DEF NotFoundOrderly
<1>6. \A u \in Request : u # w /\ u \in queue' => u \in queue
  BY <1>1
<1>7. CASE stage' = [stage EXCEPT ![w] = NoStage]
  <2>1. stage'[w] = NoStage /\ NoStage.at = "idle" /\ NoStage.left = 0
    BY <1>7, OrderlyParts, ControllerParts DEF NoStage
  <2>2. StageOrderly(w)'
    BY <1>3, <1>4, <2>1 DEF StageOrderly
  <2>3. QED  BY <1>1, <1>5, <1>6, <1>7, <2>2, StageStep
<1>8. CASE log[r].from # NoID /\ stage' = [stage EXCEPT ![w] = s]
  <2>1. CopyEntry(log[r]) /\ KeyOf(w.id).id = w.id
    <3>1. log[r].key \notin Original
      BY <1>3, <1>8, Revisions DEF Original
    <3>2. QED  BY <1>2, <1>3, <3>1, Revisions, OrderlyParts, OrderlyKeys
  <2> DEFINE v == log[r].ver
  <2>2. /\ v \in 1..Len(log) /\ v <= seen[log[v].key] /\ log[r].from = log[v].key.id
        /\ Beside(w.id, log[v].key)
    BY <1>3, <2>1 DEF CopyEntry
  <2>3. log[v].key \in Key /\ log[v].key = KeyOf(log[r].from) /\ log[r].from \in ID
    BY <2>2, Revisions, OrderlyParts, OrderlyKeys, KeyFields
  <2> HIDE DEF v, r
  <2>4. seen[KeyOf(log[r].from)] # 0
    <3>1. Len(log) \in Nat /\ seen[log[v].key] \in Nat
      BY <2>3, MovesFacts
    <3>2. v \in Nat /\ v >= 1
      BY <2>2, <3>1
    <3>3. QED  BY <2>2, <2>3, <3>1, <3>2
  <2>5. s.at = "source" /\ s.from = log[r].from /\ s.left = 0
    BY <1>1, <1>2 DEF Stage, StageSound
  <2>6. stage'[w] = s
    BY <1>8, OrderlyParts, ControllerParts
  <2> HIDE DEF s
  <2>7. StageOrderly(w)'
    BY <1>3, <1>4, <2>2, <2>3, <2>4, <2>5, <2>6 DEF StageOrderly
  <2>8. QED  BY <1>1, <1>5, <1>6, <1>8, <2>7, StageStep
<1>9. QED  BY <1>1, <1>7, <1>8

LEMMA MirrorFetchSourceOrderly ==
    ASSUME OrderlyState, Moves, NEW w \in Request, MirrorFetchSource(w)
    PROVE  OrderlyInv'
<1> DEFINE r == CachedObject(stage[w].from)
           s == [stage[w] EXCEPT !.at = "register", !.ver = r]
           t == [stage[w] EXCEPT !.at = IF stage[w].auto THEN "adopt" ELSE "orphan"]
<1>1. /\ stage[w].at = "source" /\ UNCHANGED <<vars, queue, notFound, nsQueue, nsDrop>>
      /\ \/ IsSource(r) /\ stage' = [stage EXCEPT ![w] = s]
         \/ ~IsSource(r) /\ stage' = [stage EXCEPT ![w] = t]
         \/ stage' = [stage EXCEPT ![w] = NoStage]
  BY DEF MirrorFetchSource, At, Finish
<1>2. /\ stage[w] \in Stage /\ StageSound(stage[w]) /\ StageOrderly(w)
      /\ stage[w].from \in ID /\ Beside(w.id, KeyOf(stage[w].from))
  BY <1>1, OrderlyParts, ControllerParts DEF StageOrderly
<1>3. /\ seen[KeyOf(stage[w].from)] # 0 /\ r = seen[KeyOf(stage[w].from)] /\ r \in 1..Len(log)
      /\ log[r].key = KeyOf(stage[w].from)
  BY <1>1, <1>2, CacheAnswers DEF StageOrderly
<1>4. ASSUME ~IsSource(r), NEW m \in Manifest, OptedIn(m) PROVE m.key.id # stage[w].from
  <2>1. m.key = KeyOf(m.key.id)
    BY OrderlyParts, OrderlyKeys, ManifestFields
  <2>2. QED  BY <1>3, <1>4, <2>1, OptedInIsSource
<1> HIDE DEF r
<1>5. /\ s.at = "register" /\ s.ver = r /\ s.from = stage[w].from
      /\ t.at \in {"adopt", "orphan"} /\ t.ver = stage[w].ver /\ t.from = stage[w].from
      /\ t.left = stage[w].left
  BY <1>1, <1>2 DEF Stage
<1>6. seen' = seen /\ log' = log /\ queue' = queue
  BY <1>1 DEF vars, clusterVars
<1> HIDE DEF s, t
<1>7. NotFoundOrderly'
  BY <1>1, OrderlyParts DEF NotFoundOrderly
<1>8. CASE IsSource(r) /\ stage' = [stage EXCEPT ![w] = s]
  <2>1. stage'[w] = s
    BY <1>8, OrderlyParts, ControllerParts
  <2>2. StageOrderly(w)'
    BY <1>1, <1>2, <1>3, <1>5, <1>6, <2>1 DEF StageOrderly
  <2>3. QED  BY <1>1, <1>6, <1>7, <1>8, <2>2, StageStep
<1>9. CASE ~IsSource(r) /\ stage' = [stage EXCEPT ![w] = t]
  <2>1. stage'[w] = t
    BY <1>9, OrderlyParts, ControllerParts
  <2>2. StageOrderly(w)'
    BY <1>1, <1>2, <1>4, <1>5, <1>6, <1>9, <2>1 DEF StageOrderly
  <2>3. QED  BY <1>1, <1>6, <1>7, <1>9, <2>2, StageStep
<1>10. CASE stage' = [stage EXCEPT ![w] = NoStage]
  BY <1>1, <1>6, <1>7, <1>10, Finished, StageStep
<1>11. QED  BY <1>1, <1>8, <1>9, <1>10

LEMMA MirrorCountOrderly ==
    ASSUME OrderlyState, Moves, NEW w \in Request, MirrorCount(w)
    PROVE  OrderlyInv'
<1> DEFINE n == Cardinality(GetBySourceID(stage[w].from))
           s == [stage[w] EXCEPT !.at = "loop", !.left = n]
<1>1. /\ stage[w].at = "count" /\ UNCHANGED <<vars, queue, notFound, nsQueue, nsDrop>>
      /\ \/ stage' = [stage EXCEPT ![w] = NoStage]
         \/ stage' = [stage EXCEPT ![w] = s]
  BY DEF MirrorCount
<1> HIDE DEF n
<1>2. stage[w] \in Stage /\ StageOrderly(w)
  BY OrderlyParts, ControllerParts
<1>3. s.at = "loop" /\ s.from = stage[w].from /\ s.ver = stage[w].ver
  BY <1>2 DEF Stage
<1>4. seen' = seen /\ log' = log /\ queue' = queue
  BY <1>1 DEF vars, clusterVars
<1> HIDE DEF s
<1>5. NotFoundOrderly'
  BY <1>1, OrderlyParts DEF NotFoundOrderly
<1>6. CASE stage' = [stage EXCEPT ![w] = s]
  <2>1. stage'[w] = s
    BY <1>6, OrderlyParts, ControllerParts
  <2>2. StageOrderly(w)'
    BY <1>1, <1>2, <1>3, <1>4, <2>1 DEF StageOrderly
  <2>3. QED  BY <1>1, <1>4, <1>5, <1>6, <2>2, StageStep
<1>7. CASE stage' = [stage EXCEPT ![w] = NoStage]
  BY <1>1, <1>4, <1>5, <1>7, Finished, StageStep
<1>8. QED  BY <1>1, <1>6, <1>7

LEMMA CertificateFetchOrderly ==
    ASSUME OrderlyState, Moves, NEW w \in Request, CertificateFetch(w)
    PROVE  OrderlyInv'
<1> DEFINE r == Cached("Secret", w.id)
           s == [stage[w] EXCEPT !.at = "issued", !.ver = r, !.via = log[r].policy]
<1>1. /\ stage[w].at = "fetch" /\ UNCHANGED <<vars, queue, notFound, nsQueue, nsDrop>>
      /\ \/ Live(r) /\ stage' = [stage EXCEPT ![w] = s]
         \/ stage' = [stage EXCEPT ![w] = NoStage]
  BY DEF CertificateFetch, Replicates, Finish
<1>2. stage[w] \in Stage /\ StageSound(stage[w]) /\ StageOrderly(w) /\ w.id \in ID
  BY OrderlyParts, ControllerParts, WorkerFields
<1>3. Live(r) => log[r].key = KeyOf(w.id)
  BY <1>2, CacheAnswers
<1> HIDE DEF r
<1>4. s.at = "issued" /\ s.ver = r /\ s.via = log[r].policy /\ s.left = 0
  BY <1>1, <1>2 DEF Stage, StageSound
<1>5. seen' = seen /\ log' = log /\ queue' = queue
  BY <1>1 DEF vars, clusterVars
<1> HIDE DEF s
<1>6. NotFoundOrderly'
  BY <1>1, OrderlyParts DEF NotFoundOrderly
<1>7. CASE Live(r) /\ stage' = [stage EXCEPT ![w] = s]
  <2>1. stage'[w] = s
    BY <1>7, OrderlyParts, ControllerParts
  <2>2. StageOrderly(w)'
    BY <1>1, <1>2, <1>3, <1>4, <1>5, <1>7, <2>1 DEF StageOrderly
  <2>3. QED  BY <1>1, <1>5, <1>6, <1>7, <2>2, StageStep
<1>8. CASE stage' = [stage EXCEPT ![w] = NoStage]
  BY <1>1, <1>5, <1>6, <1>8, Finished, StageStep
<1>9. QED  BY <1>1, <1>7, <1>8

-----------------------------------------------------------------------------
(* Calls of Execute and returns.                                              *)

(* The Reconcile w moves on together with its call.                           *)
LEMMA CallStep ==
    ASSUME OrderlyState, Moves, NEW w \in Request, NEW x, job' = [job EXCEPT ![w] = x],
           UNCHANGED <<clusterVars, store, heap, queue, nsDrop>>,
           NEW s, stage' = [stage EXCEPT ![w] = s],
           JobOrderly(w)', StageOrderly(w)', NotFoundOrderly'
    PROVE  OrderlyInv'
<1>1. UNCHANGED <<log, head, seen, phase, nsSeen, budget>>
  BY DEF clusterVars
<1>2. LogOrderly' /\ StoreOrderly' /\ VersionsOrderly' /\ Steady'
  BY <1>1, LogKept, StoreKept, VersionsKept, SteadyKept
<1>3. /\ \A u \in Worker : u # w => job'[u] = job[u]
      /\ \A u \in Request : u # w => stage'[u] = stage[u]
  BY OrderlyParts, Parts, ControllerParts DEF EngineTypeOK
<1>4. ASSUME NEW u \in Worker, u # w PROVE JobOrderly(u)'
  BY <1>3, <1>4, JobKept
<1>5. ASSUME NEW u \in Request, u # w PROVE StageOrderly(u)'
  BY <1>3, <1>5, StageKept
<1>6. QED  BY <1>2, <1>4, <1>5, OrderlyParts DEF OrderlyInv

LEMMA ExecuteOrderly ==
    ASSUME OrderlyState, Moves, NEW w \in Request, NEW v \in 1..Len(log), NEW policy, NEW name,
           Execute(w, v, policy, name), name = log[v].key.id.name,
           policy \in {log[v].policy, MirrorView(log[v].policy)},
           stage'[w].at = "execute"
    PROVE  JobOrderly(w)'
<1> DEFINE nss == {n \in ListNamespaces \ {log[v].key.id.ns} : CanAutoMirrorToNamespace(policy, n)}
           x == [NoJob EXCEPT !.pc = AfterNamespaces(nss), !.nss = nss,
                              !.ver = v, !.policy = policy, !.name = name]
<1>1. job' = [job EXCEPT ![w] = x] /\ log' = log
  BY DEF Execute, clusterVars
<1>2. job'[w] = x /\ w \in Worker
  BY <1>1, WorkerFields, OrderlyParts, Parts DEF EngineTypeOK
<1>3. /\ x.pc \in {"auto", "cleanup"} /\ x.ver = v /\ x.policy = policy /\ x.name = name
      /\ x.ptrs = {} /\ x.cur = Nil /\ log[v].key.id.ns \notin x.nss
  BY DEF NoJob, AfterNamespaces
<1> HIDE DEF x
<1>4. Held(w)' = {} /\ SourceKey(w)' = log[v].key /\ SourceID(w)' = log[v].key.id
  BY <1>1, <1>2, <1>3 DEF Held, SourceKey, SourceID
<1>5. QED  BY <1>1, <1>2, <1>3, <1>4 DEF JobOrderly

LEMMA SourceHitOrderly ==
    ASSUME OrderlyState, Moves, NEW w \in Request, SourceHit(w) \/ CertificateExecute(w)
    PROVE  OrderlyInv'
<1> DEFINE s == [stage[w] EXCEPT !.at = "execute"]
           v == stage[w].ver
<1>1. /\ UNCHANGED <<queue, nsQueue, nsDrop>> /\ notFound' \in {notFound, notFound \ {w.id}}
      /\ stage[w].at \in {"hit", "issued"} /\ stage' = [stage EXCEPT ![w] = s]
      /\ \/ stage[w].at = "hit" /\ Execute(w, v, log[v].policy, w.id.name)
         \/ stage[w].at = "issued" /\ Execute(w, v, stage[w].via, w.id.name)
  BY DEF SourceHit, MarkFound, CertificateExecute, At
<1>2. /\ stage[w] \in Stage /\ StageSound(stage[w]) /\ StageOrderly(w) /\ w.id \in ID
  BY OrderlyParts, ControllerParts, WorkerFields
<1>3. /\ v \in 1..Len(log) /\ log[v].key.id = w.id
      /\ stage[w].at = "issued" => stage[w].via = log[v].policy
  BY <1>1, <1>2, OrderlyParts, OrderlyKeys DEF StageSound, IsSourceOf, StageOrderly
<1>4. /\ s.at = "execute" /\ s.ver = v /\ s.from = stage[w].from /\ s.left = stage[w].left
  BY <1>2 DEF Stage
<1>5. stage'[w] = s
  BY <1>1, OrderlyParts, ControllerParts
<1> HIDE DEF s, v
<1>6. PICK policy \in {log[v].policy} : Execute(w, v, policy, w.id.name)
  BY <1>1, <1>3
<1>7. UNCHANGED <<clusterVars, store, heap>> /\ \E x : job' = [job EXCEPT ![w] = x]
  BY <1>6 DEF Execute
<1>8. seen' = seen /\ log' = log /\ queue' = queue
  BY <1>1, <1>7 DEF clusterVars
<1>9. JobOrderly(w)'
  BY <1>3, <1>4, <1>5, <1>6, ExecuteOrderly
<1>10. StageOrderly(w)'
  BY <1>1, <1>2, <1>4, <1>5, <1>8 DEF StageOrderly, v
<1>11. NotFoundOrderly'
  BY <1>1, OrderlyParts DEF NotFoundOrderly
<1>12. QED  BY <1>1, <1>7, <1>9, <1>10, <1>11, CallStep

LEMMA MirrorLoopOrderly ==
    ASSUME OrderlyState, Moves, NEW w \in Request, MirrorLoop(w)
    PROVE  OrderlyInv'
<1> DEFINE s == [stage[w] EXCEPT !.at = "execute", !.left = stage[w].left - 1]
           v == stage[w].ver
<1>1. /\ stage[w].at = "loop" /\ UNCHANGED <<queue, notFound, nsQueue, nsDrop>>
      /\ Execute(w, v, MirrorView(log[v].policy), stage[w].from.name)
      /\ stage' = [stage EXCEPT ![w] = s]
  BY DEF MirrorLoop
<1>2. /\ stage[w] \in Stage /\ StageSound(stage[w]) /\ StageOrderly(w) /\ stage[w].left > 0
      /\ stage[w].from \in ID
  BY <1>1, OrderlyParts, ControllerParts DEF StageSound
<1>3. v \in 1..Len(log) /\ log[v].key.id = stage[w].from
  BY <1>1, <1>2, OrderlyParts, OrderlyKeys DEF StageSound, IsSourceOf, StageOrderly
<1>4. s.at = "execute" /\ s.ver = v /\ s.from = stage[w].from
  BY <1>2 DEF Stage
<1>5. stage'[w] = s
  BY <1>1, OrderlyParts, ControllerParts
<1> HIDE DEF s, v
<1>6. UNCHANGED <<clusterVars, store, heap>> /\ \E x : job' = [job EXCEPT ![w] = x]
  BY <1>1 DEF Execute
<1>7. seen' = seen /\ log' = log /\ queue' = queue
  BY <1>1, <1>6 DEF clusterVars
<1>8. JobOrderly(w)'
  BY <1>1, <1>3, <1>4, <1>5, ExecuteOrderly
<1>9. StageOrderly(w)'
  BY <1>1, <1>2, <1>4, <1>5, <1>7 DEF StageOrderly, v
<1>10. NotFoundOrderly'
  BY <1>1, OrderlyParts DEF NotFoundOrderly
<1>11. QED  BY <1>1, <1>6, <1>8, <1>9, <1>10, CallStep

LEMMA ReturnOrderly ==
    ASSUME OrderlyState, Moves, NEW w \in Request, SourceReturn(w) \/ MirrorReturn(w)
    PROVE  OrderlyInv'
<1> DEFINE s == [stage[w] EXCEPT !.at = "loop"]
<1>1. /\ stage[w].at = "execute" /\ UNCHANGED <<queue, notFound, nsQueue, nsDrop>>
      /\ ExecuteReturns(w)
      /\ \/ stage' = [stage EXCEPT ![w] = NoStage]
         \/ stage[w].left # 0 /\ stage' = [stage EXCEPT ![w] = s]
  BY DEF SourceReturn, MirrorReturn, Finish, At
<1>2. /\ stage[w] \in Stage /\ StageOrderly(w) /\ stage[w].left \in Nat
  BY OrderlyParts, ControllerParts DEF Stage
<1>3. s.at = "loop" /\ s.ver = stage[w].ver /\ s.from = stage[w].from
  BY <1>2 DEF Stage
<1>4. UNCHANGED <<clusterVars, store, heap>> /\ job' = [job EXCEPT ![w] = NoJob]
  BY <1>1 DEF ExecuteReturns
<1>5. seen' = seen /\ log' = log /\ queue' = queue
  BY <1>1, <1>4 DEF clusterVars
<1>6. JobOrderly(w)'
  BY <1>4, OrderlyParts, Parts, WorkerFields DEF JobOrderly, NoJob, EngineTypeOK
<1>7. NotFoundOrderly'
  BY <1>1, OrderlyParts DEF NotFoundOrderly
<1> HIDE DEF s
<1>8. CASE stage' = [stage EXCEPT ![w] = NoStage]
  BY <1>1, <1>4, <1>5, <1>6, <1>7, <1>8, Finished, CallStep
<1>9. CASE stage[w].left # 0 /\ stage' = [stage EXCEPT ![w] = s]
  <2>1. stage'[w] = s
    BY <1>9, OrderlyParts, ControllerParts
  <2>2. StageOrderly(w)'
    BY <1>1, <1>2, <1>3, <1>5, <1>9, <2>1 DEF StageOrderly
  <2>3. QED  BY <1>1, <1>4, <1>6, <1>7, <1>9, <2>2, CallStep
<1>10. QED  BY <1>1, <1>8, <1>9

-----------------------------------------------------------------------------
(* Steps of Execute.                                                          *)

(* A call goes on: its Source stays, and what it holds is of its original.     *)
LEMMA CallContinues ==
    ASSUME OrderlyState, Moves, NEW w \in Request, job[w].pc # "idle", UNCHANGED stage,
           NEW x, job'[w] = x,
           x.ver = job[w].ver, x.policy = job[w].policy, x.name = job[w].name,
           x.nss \subseteq job[w].nss,
           x.pc \in {"conflict", "create"} => Beside(x.at, SourceKey(w)),
           x.pc = "forget" => \A id \in x.ids : /\ Beside(id, SourceKey(w))
                                              /\ ~CanAutoMirrorToNamespace(x.policy, id.ns),
           \A p \in x.ptrs \cup ({x.cur} \ {Nil}) :
              heap'[p].source = SourceID(w) /\ Beside(heap'[p].id, SourceKey(w))
    PROVE  JobOrderly(w)'
<1>1. w \in Worker /\ JobOrderly(w)
  BY WorkerFields, OrderlyParts
<1>2. log'[x.ver] = log[job[w].ver]
  BY <1>1, CallFacts, MovesFacts
<1>3. SourceKey(w)' = SourceKey(w) /\ SourceID(w)' = SourceID(w)
      /\ Held(w)' = x.ptrs \cup ({x.cur} \ {Nil})
  BY <1>2 DEF SourceKey, SourceID, Held
<1>4. QED  BY <1>1, <1>2, <1>3 DEF JobOrderly

(* ... while the other calls and all Reconciles stay where they are.          *)
LEMMA WorkStep ==
    ASSUME OrderlyState, Moves, NEW w \in Request, UNCHANGED controllerVars,
           NEW x, job' = [job EXCEPT ![w] = x],
           JobOrderly(w)', Steady', LogOrderly', StoreOrderly', VersionsOrderly',
           \A u \in Worker : \A p \in Held(u) :
              heap'[p].id = heap[p].id /\ heap'[p].source = heap[p].source
    PROVE  OrderlyInv'
<1>1. \A u \in Worker : u # w => job'[u] = job[u]
  BY OrderlyParts, Parts DEF EngineTypeOK
<1>2. UNCHANGED <<queue, stage, notFound>>
  BY DEF controllerVars
<1>3. ASSUME NEW u \in Worker, u # w PROVE JobOrderly(u)'
  BY <1>1, <1>2, <1>3, JobKept
<1>4. ASSUME NEW u \in Request PROVE StageOrderly(u)'
  BY <1>2, StageKept
<1>5. NotFoundOrderly'
  BY <1>2, OrderlyParts DEF NotFoundOrderly
<1>6. QED  BY <1>3, <1>4, <1>5, OrderlyParts DEF OrderlyInv

LEMMA LocalOrderly ==
    ASSUME OrderlyState, Moves, NEW w \in Request, UNCHANGED controllerVars,
           job[w].pc # "idle", NEW x, job' = [job EXCEPT ![w] = x],
           UNCHANGED <<log, head, seen, phase, nsSeen, store, heap>>,
           UNCHANGED budget \/ \E d \in Disturbance : Spend(d),
           x.ver = job[w].ver, x.policy = job[w].policy, x.name = job[w].name,
           x.nss \subseteq job[w].nss,
           x.pc \in {"conflict", "create"} => Beside(x.at, SourceKey(w)),
           x.pc = "forget" => \A id \in x.ids : /\ Beside(id, SourceKey(w))
                                              /\ ~CanAutoMirrorToNamespace(x.policy, id.ns),
           \A p \in x.ptrs \cup ({x.cur} \ {Nil}) :
              heap[p].source = SourceID(w) /\ Beside(heap[p].id, SourceKey(w))
    PROVE  OrderlyInv'
<1>1. job'[w] = x
  BY WorkerFields, OrderlyParts, Parts DEF EngineTypeOK
<1>2. UNCHANGED <<stage, nsDrop>>
  BY DEF controllerVars
<1>3. JobOrderly(w)'
  BY <1>1, <1>2, CallContinues
<1>4. LogOrderly' /\ StoreOrderly' /\ VersionsOrderly' /\ Steady'
  BY <1>2, LogKept, StoreKept, VersionsKept, SteadyKept
<1>5. QED  BY <1>3, <1>4, WorkStep

LEMMA HeldFacts ==
    ASSUME OrderlyState, NEW w \in Worker, job[w].pc # "idle"
    PROVE  /\ job[w] \in Job /\ JobOrderly(w)
           /\ job[w].ptrs \subseteq Ptr /\ job[w].cur \in Ptr \cup {Nil} /\ Nil \notin Ptr
           /\ \A p \in job[w].ptrs :
                 heap[p].source = SourceID(w) /\ Beside(heap[p].id, SourceKey(w))
           /\ job[w].cur # Nil => /\ heap[job[w].cur].source = SourceID(w)
                                  /\ Beside(heap[job[w].cur].id, SourceKey(w))
<1>1. job[w] \in Job /\ JobOrderly(w)
  BY OrderlyParts, Parts
<1>2. job[w].ptrs \subseteq Ptr /\ job[w].cur \in Ptr \cup {Nil} /\ Nil \notin Ptr
  BY <1>1, EngineAssumption DEF Job, Nil
<1>3. QED  BY <1>1, <1>2 DEF JobOrderly, Held

LEMMA NamespacesOrderly ==
    ASSUME OrderlyState, Moves, NEW w \in Request, UNCHANGED controllerVars,
           \/ \E n \in Namespace : CreateAutoMirrorIfNotExists(w, n)
           \/ CheckForConflicts(w)
    PROVE  OrderlyInv'
<1>1. w \in Worker
  BY WorkerFields
<1>2. ASSUME NEW n \in Namespace, CreateAutoMirrorIfNotExists(w, n) PROVE OrderlyInv'
  <2> DEFINE nss == job[w].nss \ {n}
             x == [job[w] EXCEPT !.nss = nss, !.pc = AfterNamespaces(nss)]
             y == [job[w] EXCEPT !.nss = nss, !.pc = "conflict", !.at = TargetID(w, n)]
  <2>1. /\ job[w].pc = "auto" /\ n \in job[w].nss /\ UNCHANGED <<clusterVars, store, heap>>
        /\ job' = [job EXCEPT ![w] = x] \/ job' = [job EXCEPT ![w] = y]
    BY <1>2 DEF CreateAutoMirrorIfNotExists
  <2>2. /\ job[w] \in Job /\ JobOrderly(w) /\ SourceKey(w) \in Original
        /\ \A p \in job[w].ptrs \cup ({job[w].cur} \ {Nil}) :
              heap[p].source = SourceID(w) /\ Beside(heap[p].id, SourceKey(w))
    BY <1>1, <2>1, HeldFacts, CallFacts
  <2>3. Beside(TargetID(w, n), SourceKey(w))
    BY <2>1, <2>2 DEF JobOrderly, TargetID, Beside, SourceID
  <2>4. /\ x.ver = job[w].ver /\ x.policy = job[w].policy /\ x.name = job[w].name
        /\ x.nss \subseteq job[w].nss /\ x.ptrs = job[w].ptrs /\ x.cur = job[w].cur
        /\ x.pc \in {"auto", "cleanup"}
    BY <2>2 DEF Job, AfterNamespaces
  <2>5. /\ y.ver = job[w].ver /\ y.policy = job[w].policy /\ y.name = job[w].name
        /\ y.nss \subseteq job[w].nss /\ y.ptrs = job[w].ptrs /\ y.cur = job[w].cur
        /\ y.pc = "conflict" /\ y.at = TargetID(w, n)
    BY <2>2 DEF Job
  <2>6. UNCHANGED <<log, head, seen, phase, nsSeen, store, heap, budget>> /\ job[w].pc # "idle"
    BY <2>1 DEF clusterVars
  <2> HIDE DEF x, y, nss
  <2>7. CASE job' = [job EXCEPT ![w] = x]
    BY <2>2, <2>4, <2>6, <2>7, LocalOrderly
  <2>8. CASE job' = [job EXCEPT ![w] = y]
    BY <2>2, <2>3, <2>5, <2>6, <2>8, LocalOrderly
  <2>9. QED  BY <2>1, <2>7, <2>8
<1>3. ASSUME CheckForConflicts(w) PROVE OrderlyInv'
  <2> DEFINE x == [job[w] EXCEPT !.pc = AfterNamespaces(job[w].nss), !.at = NoID]
             y == [job[w] EXCEPT !.pc = "create"]
  <2>1. /\ job[w].pc = "conflict" /\ UNCHANGED <<clusterVars, store, heap>>
        /\ job' = [job EXCEPT ![w] = x] \/ job' = [job EXCEPT ![w] = y]
    BY <1>3 DEF CheckForConflicts, NextNamespace, Go
  <2>2. /\ job[w] \in Job /\ JobOrderly(w)
        /\ \A p \in job[w].ptrs \cup ({job[w].cur} \ {Nil}) :
              heap[p].source = SourceID(w) /\ Beside(heap[p].id, SourceKey(w))
    BY <1>1, <2>1, HeldFacts
  <2>3. Beside(job[w].at, SourceKey(w))
    BY <2>1, <2>2 DEF JobOrderly
  <2>4. /\ x.ver = job[w].ver /\ x.policy = job[w].policy /\ x.name = job[w].name
        /\ x.nss \subseteq job[w].nss /\ x.ptrs = job[w].ptrs /\ x.cur = job[w].cur
        /\ x.pc \in {"auto", "cleanup"}
    BY <2>2 DEF Job, AfterNamespaces
  <2>5. /\ y.ver = job[w].ver /\ y.policy = job[w].policy /\ y.name = job[w].name
        /\ y.nss \subseteq job[w].nss /\ y.ptrs = job[w].ptrs /\ y.cur = job[w].cur
        /\ y.pc = "create" /\ y.at = job[w].at
    BY <2>2 DEF Job
  <2>6. UNCHANGED <<log, head, seen, phase, nsSeen, store, heap, budget>> /\ job[w].pc # "idle"
    BY <2>1 DEF clusterVars
  <2> HIDE DEF x, y
  <2>7. CASE job' = [job EXCEPT ![w] = x]
    BY <2>2, <2>4, <2>6, <2>7, LocalOrderly
  <2>8. CASE job' = [job EXCEPT ![w] = y]
    BY <2>2, <2>3, <2>5, <2>6, <2>8, LocalOrderly
  <2>9. QED  BY <2>1, <2>7, <2>8
<1>4. QED  BY <1>2, <1>3

LEMMA CleanupOrderly ==
    ASSUME OrderlyState, Moves, NEW w \in Request, UNCHANGED controllerVars,
           CleanupAutoMirrors(w) \/ ListMirrors(w)
    PROVE  OrderlyInv'
<1>1. /\ w \in Worker /\ job[w].pc \in {"cleanup", "forget"}
      /\ UNCHANGED <<clusterVars, store, heap>>
  BY WorkerFields DEF CleanupAutoMirrors, ListMirrors
<1>2. /\ job[w] \in Job /\ JobOrderly(w)
      /\ \A p \in job[w].ptrs \cup ({job[w].cur} \ {Nil}) :
            heap[p].source = SourceID(w) /\ Beside(heap[p].id, SourceKey(w))
  BY <1>1, HeldFacts
<1>3. UNCHANGED <<log, head, seen, phase, nsSeen, store, heap, budget>> /\ job[w].pc # "idle"
  BY <1>1 DEF clusterVars
<1>4. ASSUME CleanupAutoMirrors(w) PROVE OrderlyInv'
  <2> DEFINE ids == {id \in GetBySourceID(SourceID(w)) :
                       ~CanAutoMirrorToNamespace(job[w].policy, id.ns)}
             x == [job[w] EXCEPT !.pc = "forget", !.ids = ids]
  <2>1. job' = [job EXCEPT ![w] = x]
    BY <1>4 DEF CleanupAutoMirrors
  <2>2. /\ x.ver = job[w].ver /\ x.policy = job[w].policy /\ x.name = job[w].name
        /\ x.nss \subseteq job[w].nss /\ x.ptrs = job[w].ptrs /\ x.cur = job[w].cur
        /\ x.pc = "forget" /\ x.ids = ids
    BY <1>2 DEF Job
  <2>3. ASSUME NEW id \in x.ids
        PROVE  Beside(id, SourceKey(w)) /\ ~CanAutoMirrorToNamespace(x.policy, id.ns)
    <3>1. /\ id \in ID /\ Registered(id) /\ heap[store[id]].source = SourceID(w)
          /\ ~CanAutoMirrorToNamespace(x.policy, id.ns)
      BY <2>2 DEF GetBySourceID
    <3>2. Beside(id, KeyOf(SourceID(w)))
      BY <3>1, OrderlyParts DEF StoreOrderly
    <3>3. KeyOf(SourceID(w)) = SourceKey(w)
      BY <1>1, CallFacts
    <3>4. QED  BY <3>1, <3>2, <3>3
  <2> HIDE DEF x, ids
  <2>4. QED  BY <1>2, <1>3, <2>1, <2>2, <2>3, LocalOrderly
<1>5. ASSUME ListMirrors(w) PROVE OrderlyInv'
  <2> DEFINE ptrs == {store[id] : id \in GetBySourceID(SourceID(w))}
             x == [job[w] EXCEPT !.pc = "mirrors", !.ptrs = ptrs]
  <2>1. job' = [job EXCEPT ![w] = x]
    BY <1>5 DEF ListMirrors
  <2>2. /\ x.ver = job[w].ver /\ x.policy = job[w].policy /\ x.name = job[w].name
        /\ x.nss \subseteq job[w].nss /\ x.ptrs = ptrs /\ x.cur = job[w].cur
        /\ x.pc = "mirrors"
    BY <1>2 DEF Job
  <2>3. ASSUME NEW p \in ptrs
        PROVE  heap[p].source = SourceID(w) /\ Beside(heap[p].id, SourceKey(w))
    <3>1. PICK id \in ID : Registered(id) /\ heap[store[id]].source = SourceID(w) /\ p = store[id]
      BY DEF GetBySourceID
    <3>2. heap[p].id = id /\ Beside(id, KeyOf(SourceID(w)))
      BY <3>1, OrderlyParts DEF StoreOrderly
    <3>3. KeyOf(SourceID(w)) = SourceKey(w)
      BY <1>1, CallFacts
    <3>4. QED  BY <3>1, <3>2, <3>3
  <2> HIDE DEF x, ptrs
  <2>4. QED  BY <1>2, <1>3, <2>1, <2>2, <2>3, LocalOrderly
<1>6. QED  BY <1>4, <1>5

(* Execute goes on with the next mirror.                                      *)
LEMMA NextMirrorFields ==
    ASSUME NEW j \in Job
    PROVE  LET x == [j EXCEPT !.pc = "mirrors", !.cur = Nil, !.dat = 0, !.got = 0]
           IN  /\ x.ver = j.ver /\ x.policy = j.policy /\ x.name = j.name
               /\ x.nss = j.nss /\ x.ptrs = j.ptrs /\ x.cur = Nil /\ x.pc = "mirrors"
BY DEF Job, Nil

LEMMA MirrorStepsOrderly ==
    ASSUME OrderlyState, Moves, NEW w \in Request, UNCHANGED controllerVars,
           \/ \E p \in Ptr : ReadSource(w, p)
           \/ Reflect(w) \/ GetMirror(w) \/ WriteRejected(w) \/ WriteFails(w)
    PROVE  OrderlyInv'
<1>1. /\ w \in Worker /\ job[w].pc \in {"mirrors", "check", "get", "write"}
      /\ UNCHANGED <<log, head, seen, phase, nsSeen, store, heap>>
      /\ UNCHANGED budget \/ \E d \in Disturbance : Spend(d)
  BY WorkerFields
     DEF ReadSource, Reflect, GetMirror, WriteRejected, WriteFails, clusterVars, Disturbance
<1>2. /\ job[w] \in Job /\ JobOrderly(w) /\ job[w].pc # "idle"
      /\ \A p \in job[w].ptrs \cup ({job[w].cur} \ {Nil}) :
            heap[p].source = SourceID(w) /\ Beside(heap[p].id, SourceKey(w))
  BY <1>1, HeldFacts
<1> DEFINE x == [job[w] EXCEPT !.pc = "mirrors", !.cur = Nil, !.dat = 0, !.got = 0]
<1>3. CASE job' = [job EXCEPT ![w] = x]
  <2>1. /\ x.ver = job[w].ver /\ x.policy = job[w].policy /\ x.name = job[w].name
        /\ x.nss = job[w].nss /\ x.ptrs = job[w].ptrs /\ x.cur = Nil /\ x.pc = "mirrors"
    BY <1>2, NextMirrorFields
  <2> HIDE DEF x
  <2>2. QED  BY <1>1, <1>2, <1>3, <2>1, LocalOrderly
<1>4. ASSUME NEW p \in Ptr, ReadSource(w, p) PROVE OrderlyInv'
  <2> DEFINE r == seen[SourceKey(w)]
             y == [job[w] EXCEPT !.ptrs = job[w].ptrs \ {p}]
             z == [job[w] EXCEPT !.ptrs = job[w].ptrs \ {p}, !.pc = "check", !.cur = p, !.dat = r]
  <2>1. /\ p \in job[w].ptrs /\ job[w].pc = "mirrors"
        /\ job' = [job EXCEPT ![w] = y] \/ job' = [job EXCEPT ![w] = z]
    BY <1>4 DEF ReadSource
  <2>2. /\ y.ver = job[w].ver /\ y.policy = job[w].policy /\ y.name = job[w].name
        /\ y.nss = job[w].nss /\ y.ptrs \subseteq job[w].ptrs /\ y.cur = job[w].cur
        /\ y.pc = "mirrors"
    BY <1>2, <2>1 DEF Job
  <2>3. /\ z.ver = job[w].ver /\ z.policy = job[w].policy /\ z.name = job[w].name
        /\ z.nss = job[w].nss /\ z.ptrs \subseteq job[w].ptrs /\ z.cur = p
        /\ z.pc = "check"
    BY <1>2, <2>1 DEF Job
  <2> HIDE DEF y, z, r
  <2>4. CASE job' = [job EXCEPT ![w] = y]
    BY <1>1, <1>2, <2>2, <2>4, LocalOrderly
  <2>5. CASE job' = [job EXCEPT ![w] = z]
    <3>1. /\ z.nss \subseteq job[w].nss
          /\ z.pc \notin {"conflict", "create", "forget"}
          /\ z.ptrs \cup ({z.cur} \ {Nil}) \subseteq job[w].ptrs
      BY <2>1, <2>3
    <3>2. \A q \in z.ptrs \cup ({z.cur} \ {Nil}) :
             heap[q].source = SourceID(w) /\ Beside(heap[q].id, SourceKey(w))
      BY <1>2, <3>1
    <3>3. job[w].pc # "idle"
      BY <1>2
    <3>4. QED  BY <1>1, <2>3, <2>5, <3>1, <3>2, <3>3, LocalOrderly
  <2>6. QED  BY <2>1, <2>4, <2>5
<1>5. ASSUME NEW pc \in {"set", "write"}, NEW got,
             \/ job' = [job EXCEPT ![w] = [job[w] EXCEPT !.pc = pc]]
             \/ job' = [job EXCEPT ![w] = [job[w] EXCEPT !.pc = pc, !.got = got]]
      PROVE  OrderlyInv'
  <2> DEFINE y == [job[w] EXCEPT !.pc = pc]
             z == [job[w] EXCEPT !.pc = pc, !.got = got]
  <2>1. /\ y.ver = job[w].ver /\ y.policy = job[w].policy /\ y.name = job[w].name
        /\ y.nss = job[w].nss /\ y.ptrs = job[w].ptrs /\ y.cur = job[w].cur
        /\ y.pc = pc
    BY <1>2 DEF Job
  <2>2. /\ z.ver = job[w].ver /\ z.policy = job[w].policy /\ z.name = job[w].name
        /\ z.nss = job[w].nss /\ z.ptrs = job[w].ptrs /\ z.cur = job[w].cur
        /\ z.pc = pc
    BY <1>2 DEF Job
  <2>3. job' = [job EXCEPT ![w] = y] \/ job' = [job EXCEPT ![w] = z]
    BY <1>5
  <2> HIDE DEF y, z
  <2>4. QED  BY <1>1, <1>2, <2>1, <2>2, <2>3, LocalOrderly
<1>6. ASSUME Reflect(w) PROVE OrderlyInv'
  <2>1. job' = [job EXCEPT ![w] = x] \/ job' = [job EXCEPT ![w] = [job[w] EXCEPT !.pc = "set"]]
    BY <1>6 DEF Reflect, NextMirror, Go
  <2>2. QED  BY <1>3, <1>5, <2>1
<1>7. ASSUME GetMirror(w) PROVE OrderlyInv'
  <2>1. PICK got : \/ job' = [job EXCEPT ![w] = x]
                   \/ job' = [job EXCEPT ![w] = [job[w] EXCEPT !.pc = "write", !.got = got]]
    BY <1>7 DEF GetMirror, NextMirror
  <2>2. QED  BY <1>3, <1>5, <2>1
<1>8. ASSUME WriteRejected(w) \/ WriteFails(w) PROVE OrderlyInv'
  BY <1>3, <1>8 DEF WriteRejected, WriteFails, NextMirror
<1>9. QED  BY <1>4, <1>6, <1>7, <1>8

LEMMA ForgetMirrorOrderly ==
    ASSUME OrderlyState, Moves, NEW w \in Request, NEW id \in ID, UNCHANGED controllerVars,
           ForgetMirror(w, id)
    PROVE  OrderlyInv'
<1> DEFINE x == [job[w] EXCEPT !.ids = job[w].ids \ {id}]
<1>1. /\ job[w].pc = "forget" /\ UNCHANGED clusterVars /\ heap' = heap
      /\ store' = [store EXCEPT ![id] = Nil] /\ job' = [job EXCEPT ![w] = x]
  BY DEF ForgetMirror, Unregister
<1>2. /\ job[w] \in Job /\ JobOrderly(w) /\ w \in Worker
      /\ \A p \in job[w].ptrs \cup ({job[w].cur} \ {Nil}) :
            heap[p].source = SourceID(w) /\ Beside(heap[p].id, SourceKey(w))
  BY <1>1, HeldFacts, WorkerFields
<1>3. /\ x.ver = job[w].ver /\ x.policy = job[w].policy /\ x.name = job[w].name
      /\ x.nss \subseteq job[w].nss /\ x.ptrs = job[w].ptrs /\ x.cur = job[w].cur
      /\ x.pc = "forget" /\ x.ids \subseteq job[w].ids
  BY <1>1, <1>2 DEF Job
<1>4. \A i \in x.ids : Beside(i, SourceKey(w)) /\ ~CanAutoMirrorToNamespace(x.policy, i.ns)
  BY <1>1, <1>2, <1>3 DEF JobOrderly
<1> HIDE DEF x
<1>5. job'[w] = x /\ UNCHANGED stage
  BY <1>1, <1>2, OrderlyParts, Parts DEF EngineTypeOK, controllerVars
<1>6. JobOrderly(w)'
  BY <1>1, <1>2, <1>3, <1>4, <1>5, CallContinues
<1>7. StoreOrderly'
  BY <1>1, OrderlyParts, Parts, StoreKept
<1>8. LogOrderly' /\ VersionsOrderly' /\ Steady'
  BY <1>1, LogKept, VersionsKept, SteadyKept DEF clusterVars, controllerVars
<1>9. QED  BY <1>1, <1>6, <1>7, <1>8, WorkStep

(* SetVersion changes the version of one Mirror and nothing else of it.       *)
LEMMA SetVersionEffect ==
    ASSUME EngineInv, NEW w \in Worker, SetVersion(w)
    PROVE  /\ job[w].cur \in Ptr
           /\ heap'[job[w].cur].version = job[w].ver
           /\ \A p \in Ptr : /\ heap'[p].id = heap[p].id /\ heap'[p].source = heap[p].source
                             /\ heap'[p].kind = heap[p].kind
                             /\ p # job[w].cur => heap'[p] = heap[p]
<1>1. job[w].pc = "set" /\ heap' = [heap EXCEPT ![job[w].cur].version = job[w].ver]
  BY DEF SetVersion
<1>2. job[w].cur \in Ptr /\ heap \in [Ptr -> Mirror]
  BY <1>1, InHand, Parts
<1>3. QED  BY <1>1, <1>2 DEF Mirror

LEMMA SetVersionOrderly ==
    ASSUME OrderlyState, Moves, NEW w \in Request, UNCHANGED controllerVars, SetVersion(w)
    PROVE  OrderlyInv'
<1> DEFINE x == [job[w] EXCEPT !.pc = "get"]
<1>1. /\ job[w].pc = "set" /\ UNCHANGED <<clusterVars, store>> /\ job' = [job EXCEPT ![w] = x]
  BY DEF SetVersion, Go
<1>2. /\ job[w] \in Job /\ w \in Worker /\ job[w].ptrs \subseteq Ptr
      /\ \A p \in job[w].ptrs \cup ({job[w].cur} \ {Nil}) : p \in Ptr /\
            heap[p].source = SourceID(w) /\ Beside(heap[p].id, SourceKey(w))
  BY <1>1, HeldFacts, WorkerFields
<1>3. /\ x.ver = job[w].ver /\ x.policy = job[w].policy /\ x.name = job[w].name
      /\ x.nss \subseteq job[w].nss /\ x.ptrs = job[w].ptrs /\ x.cur = job[w].cur
      /\ x.pc = "get"
  BY <1>1, <1>2 DEF Job
<1> HIDE DEF x
<1>4. /\ job[w].cur \in Ptr /\ heap'[job[w].cur].version = job[w].ver
      /\ \A p \in Ptr : /\ heap'[p].id = heap[p].id /\ heap'[p].source = heap[p].source
                        /\ p # job[w].cur => heap'[p] = heap[p]
  BY <1>2, OrderlyParts, SetVersionEffect
<1>5. job'[w] = x /\ UNCHANGED stage
  BY <1>1, <1>2, OrderlyParts, Parts DEF EngineTypeOK, controllerVars
<1>6. JobOrderly(w)'
  BY <1>1, <1>2, <1>3, <1>4, <1>5, CallContinues
<1>7. StoreOrderly'
  BY <1>1, <1>4, OrderlyParts, Parts, StoreKept
<1>8. VersionsOrderly'
  <2>1. job[w].ver \in 1..Len(log) /\ job[w].ver <= seen[log[job[w].ver].key]
    BY <1>1, <1>2, CallFacts DEF SourceKey
  <2>2. QED  BY <1>4, <2>1, VersionsKept
<1>9. LogOrderly' /\ Steady'
  BY <1>1, LogKept, SteadyKept DEF clusterVars, controllerVars
<1>10. \A u \in Worker : Held(u) \subseteq Ptr
  BY OrderlyParts, Parts DEF Held, Job
<1>11. QED  BY <1>1, <1>4, <1>6, <1>7, <1>8, <1>9, <1>10, WorkStep

(* A registration: a Mirror without version takes the place of what was       *)
(* registered for its ID, and nobody holds it yet.                          *)
LEMMA RegisterEffect ==
    ASSUME EngineInv, NEW id \in ID, NEW source \in ID, NEW kind \in Kind,
           NEW auto \in BOOLEAN, Register(id, source, kind, auto)
    PROVE  /\ store'[id] \in Ptr /\ store'[id] # Nil
           /\ heap'[store'[id]].id = id /\ heap'[store'[id]].source = source
           /\ heap'[store'[id]].version = 0
           /\ \A i \in ID : i # id => /\ store'[i] = store[i]
                                      /\ store[i] # Nil => heap'[store[i]] = heap[store[i]]
           /\ \A u \in Worker : \A p \in Held(u) : heap'[p] = heap[p]
           /\ \A p \in Ptr : heap'[p].version \in {heap[p].version, 0}
<1> DEFINE m == [id |-> id, source |-> source, kind |-> kind, version |-> 0, auto |-> auto]
<1>1. PICK p \in Fresh : heap' = [heap EXCEPT ![p] = m] /\ store' = [store EXCEPT ![id] = p]
  BY DEF Register
<1>2. m.id = id /\ m.source = source /\ m.version = 0
  OBVIOUS
<1> HIDE DEF m
<1>3. /\ p \in Ptr /\ p # Nil /\ \A i \in ID : store[i] # p
      /\ \A w \in Worker : p \notin job[w].ptrs /\ p # job[w].cur
  BY <1>1, EngineAssumption DEF Fresh, Nil
<1>4. store \in [ID -> Ptr \cup {Nil}] /\ heap \in [Ptr -> Mirror]
  BY Parts
<1>5. \A u \in Worker : \A q \in Held(u) : heap'[q] = heap[q]
  <2>1. \A u \in Worker : \A q \in Held(u) : q \in Ptr /\ q # p
    BY <1>3, Parts DEF Held, Job
  <2>2. QED  BY <1>1, <1>4, <2>1
<1>6. QED  BY <1>1, <1>2, <1>3, <1>4, <1>5

LEMMA RegisterOrderly ==
    ASSUME OrderlyState, Moves, NEW id \in ID, NEW source \in ID, NEW kind \in Kind,
           NEW auto \in BOOLEAN, Register(id, source, kind, auto), Beside(id, KeyOf(source))
    PROVE  /\ StoreOrderly' /\ VersionsOrderly'
           /\ \A u \in Worker : \A p \in Held(u) : heap'[p] = heap[p]
<1>1. /\ heap'[store'[id]].id = id /\ heap'[store'[id]].source = source
      /\ \A i \in ID : i # id => /\ store'[i] = store[i]
                                 /\ store[i] # Nil => heap'[store[i]] = heap[store[i]]
      /\ \A u \in Worker : \A p \in Held(u) : heap'[p] = heap[p]
      /\ \A p \in Ptr : heap'[p].version \in {heap[p].version, 0}
  BY OrderlyParts, RegisterEffect
<1>2. VersionsOrderly'
  BY <1>1, VersionsKept
<1>3. StoreOrderly'
  <2> SUFFICES ASSUME NEW i \in ID, store'[i] # Nil
               PROVE  /\ heap'[store'[i]].id = i /\ heap'[store'[i]].source \in ID
                      /\ Beside(i, KeyOf(heap'[store'[i]].source))
    BY DEF StoreOrderly, Registered
  <2>1. CASE i = id
    BY <1>1, <2>1
  <2>2. CASE i # id
    BY <1>1, <2>2, OrderlyParts DEF StoreOrderly, Registered
  <2>3. QED  BY <2>1, <2>2
<1>4. QED  BY <1>1, <1>2, <1>3

LEMMA CreateAutoMirrorOrderly ==
    ASSUME OrderlyState, Moves, NEW w \in Request, UNCHANGED controllerVars, CreateAutoMirror(w)
    PROVE  OrderlyInv'
<1> DEFINE x == [job[w] EXCEPT !.pc = AfterNamespaces(job[w].nss), !.at = NoID]
<1>1. /\ job[w].pc = "create" /\ UNCHANGED clusterVars /\ job' = [job EXCEPT ![w] = x]
      /\ Register(job[w].at, SourceID(w), SourceKey(w).kind, TRUE)
  BY DEF CreateAutoMirror, NextNamespace
<1>2. /\ job[w] \in Job /\ JobOrderly(w) /\ JobSound(job[w]) /\ w \in Worker
      /\ \A p \in job[w].ptrs \cup ({job[w].cur} \ {Nil}) :
            heap[p].source = SourceID(w) /\ Beside(heap[p].id, SourceKey(w))
  BY <1>1, HeldFacts, WorkerFields, OrderlyParts, Parts
<1>3. /\ job[w].at \in ID /\ SourceID(w) \in ID /\ SourceKey(w).kind \in Kind
      /\ Beside(job[w].at, KeyOf(SourceID(w)))
  BY <1>1, <1>2, CallFacts, KeyFields DEF JobOrderly, JobSound
<1>4. /\ StoreOrderly' /\ VersionsOrderly'
      /\ \A u \in Worker : \A p \in Held(u) : heap'[p] = heap[p]
  BY <1>1, <1>3, RegisterOrderly
<1>5. /\ x.ver = job[w].ver /\ x.policy = job[w].policy /\ x.name = job[w].name
      /\ x.nss \subseteq job[w].nss /\ x.ptrs = job[w].ptrs /\ x.cur = job[w].cur
      /\ x.pc \in {"auto", "cleanup"}
  BY <1>1, <1>2 DEF Job, AfterNamespaces
<1> HIDE DEF x
<1>6. job'[w] = x /\ UNCHANGED stage
  BY <1>1, <1>2, OrderlyParts, Parts DEF EngineTypeOK, controllerVars
<1>7. \A p \in x.ptrs \cup ({x.cur} \ {Nil}) : heap'[p] = heap[p]
  BY <1>2, <1>4, <1>5 DEF Held
<1>8. JobOrderly(w)'
  BY <1>1, <1>2, <1>5, <1>6, <1>7, CallContinues
<1>9. LogOrderly' /\ Steady'
  BY <1>1, LogKept, SteadyKept DEF clusterVars, controllerVars
<1>10. QED  BY <1>1, <1>4, <1>8, <1>9, WorkStep

(* The mirror controller registers what it found, or forgets it.              *)
LEMMA MirrorStoreStep ==
    ASSUME OrderlyState, Moves, NEW w \in Request, UNCHANGED <<clusterVars, job, nsDrop>>,
           NEW s, stage' = [stage EXCEPT ![w] = s], stage[w].at # "execute",
           UNCHANGED <<queue, notFound>>, StageOrderly(w)', StoreOrderly', VersionsOrderly',
           \A u \in Worker : \A p \in Held(u) : heap'[p] = heap[p]
    PROVE  OrderlyInv'
<1>1. \A u \in Request : u # w => stage'[u] = stage[u]
  BY OrderlyParts, ControllerParts
<1>2. LogOrderly' /\ Steady'
  BY LogKept, SteadyKept DEF clusterVars
<1>3. ASSUME NEW u \in Worker PROVE JobOrderly(u)'
  <2>1. u \in Request /\ stage[u].at = "execute" => stage'[u].at = "execute"
    BY <1>1
  <2>2. QED  BY <2>1, JobKept
<1>4. ASSUME NEW u \in Request PROVE StageOrderly(u)'
  BY <1>1, StageKept
<1>5. NotFoundOrderly'
  BY OrderlyParts DEF NotFoundOrderly
<1>6. QED  BY <1>2, <1>3, <1>4, <1>5, OrderlyParts DEF OrderlyInv

LEMMA MirrorAdoptOrderly ==
    ASSUME OrderlyState, Moves, NEW w \in Request, MirrorAdopt(w) \/ MirrorOrphaned(w)
    PROVE  OrderlyInv'
<1>1. /\ stage[w].at \in {"adopt", "orphan"} /\ UNCHANGED <<queue, notFound, nsQueue, nsDrop>>
      /\ stage' = [stage EXCEPT ![w] = NoStage] /\ UNCHANGED <<clusterVars, job>>
      /\ \/ Register(w.id, stage[w].from, "Secret", TRUE)
         \/ Unregister(w.id)
  BY DEF MirrorAdopt, MirrorOrphaned, Finish, RegisterMirror, UnregisterMirror
<1>2. /\ stage[w].from \in ID /\ "Secret" \in Kind /\ w.id \in ID
      /\ Beside(w.id, KeyOf(stage[w].from))
  BY <1>1, OrderlyParts, OrderlyKeys, WorkerFields DEF StageOrderly
<1>3. StageOrderly(w)'
  BY <1>1, Finished DEF clusterVars
<1>4. CASE Register(w.id, stage[w].from, "Secret", TRUE)
  <2>1. /\ StoreOrderly' /\ VersionsOrderly'
        /\ \A u \in Worker : \A p \in Held(u) : heap'[p] = heap[p]
    BY <1>2, <1>4, RegisterOrderly
  <2>2. QED  BY <1>1, <1>3, <2>1, MirrorStoreStep
<1>5. CASE Unregister(w.id)
  <2>1. heap' = heap /\ store' = [store EXCEPT ![w.id] = Nil]
    BY <1>5 DEF Unregister
  <2>2. StoreOrderly' /\ VersionsOrderly'
    BY <2>1, OrderlyParts, Parts, StoreKept, VersionsKept
  <2>3. QED  BY <1>1, <1>3, <2>1, <2>2, MirrorStoreStep
<1>6. QED  BY <1>1, <1>4, <1>5

LEMMA MirrorRegisterOrderly ==
    ASSUME OrderlyState, Moves, NEW w \in Request, MirrorRegister(w)
    PROVE  OrderlyInv'
<1> DEFINE s == [stage[w] EXCEPT !.at = "count"]
           kind == log[stage[w].ver].key.kind
<1>1. /\ stage[w].at = "register" /\ UNCHANGED <<queue, notFound, nsQueue, nsDrop>>
      /\ UNCHANGED <<clusterVars, job>>
      /\ Register(w.id, stage[w].from, kind, stage[w].auto)
      /\ stage' = [stage EXCEPT ![w] = s]
  BY DEF MirrorRegister, At, RegisterMirror
<1>2. /\ stage[w] \in Stage /\ StageOrderly(w) /\ w.id \in ID
      /\ stage[w].from \in ID /\ stage[w].auto \in BOOLEAN
      /\ Beside(w.id, KeyOf(stage[w].from)) /\ log[stage[w].ver].key = KeyOf(stage[w].from)
  BY <1>1, OrderlyParts, ControllerParts, WorkerFields DEF StageOrderly, Stage
<1>3. kind \in Kind
  BY <1>2, OrderlyParts, OrderlyKeys, KeyFields
<1> HIDE DEF kind
<1>4. /\ StoreOrderly' /\ VersionsOrderly'
      /\ \A u \in Worker : \A p \in Held(u) : heap'[p] = heap[p]
  BY <1>1, <1>2, <1>3, RegisterOrderly
<1>5. s.at = "count" /\ s.ver = stage[w].ver /\ s.from = stage[w].from
  BY <1>2 DEF Stage
<1>6. stage'[w] = s /\ seen' = seen /\ log' = log
  BY <1>1, OrderlyParts, ControllerParts DEF clusterVars
<1> HIDE DEF s
<1>7. StageOrderly(w)'
  BY <1>1, <1>2, <1>5, <1>6 DEF StageOrderly
<1>8. QED  BY <1>1, <1>4, <1>7, MirrorStoreStep

(* What a call writes is a copy.                                              *)
LEMMA WriteEffect ==
    ASSUME OrderlyState, NEW w \in Request, WriteMirror(w)
    PROVE  \E e \in Entry : /\ Commit(e) /\ CopyEntry(e)
                            /\ e.key = KeyOf(heap[job[w].cur].id) /\ e.ver = job[w].ver
<1> DEFINE e == MirrorEntry(MirrorKey(w), log[job[w].dat].data, SourceID(w), job[w].ver,
                            heap[job[w].cur].auto)
<1>1. job[w].pc = "write" /\ Commit(e) /\ w \in Worker
  BY WorkerFields DEF WriteMirror
<1>2. /\ PayloadSound(job[w]) /\ job[w].cur \in Ptr /\ MirrorKey(w) \in Key /\ job[w].cur # Nil
  BY <1>1, OrderlyParts, InHand DEF PayloadSound
<1>3. /\ job[w].dat \in 1..Len(log) /\ log[job[w].dat].key = SourceKey(w)
      /\ job[w].ver <= job[w].dat
  BY <1>2 DEF PayloadSound, SourceKey
<1>4. /\ job[w].ver \in 1..Len(log) /\ job[w].ver <= seen[SourceKey(w)] /\ SourceID(w) \in ID
      /\ Beside(heap[job[w].cur].id, SourceKey(w))
  BY <1>1, <1>2, CallFacts, HeldFacts
<1>5. /\ e.key = MirrorKey(w) /\ e.live /\ e.by = "operator" /\ e.data = log[job[w].dat].data
      /\ e.policy = NoPolicy /\ ~e.helm /\ e.from = SourceID(w) /\ e.ver = job[w].ver
  BY DEF MirrorEntry
<1>6. e \in Entry
  <2>1. log[job[w].dat].data \in Nat /\ heap[job[w].cur].auto \in BOOLEAN
    BY <1>2, <1>3, OrderlyParts, Parts, EntryFields DEF Mirror
  <2>2. job[w].ver \in Nat
    BY <1>4
  <2>3. QED  BY <1>2, <1>4, <2>1, <2>2, MirrorEntryType
<1>7. MirrorKey(w) = KeyOf(heap[job[w].cur].id) /\ MirrorKey(w).id = heap[job[w].cur].id
  BY <1>2, OrderlyParts, OrderlyKeys DEF MirrorKey
<1> HIDE DEF e
<1>8. job[w].dat \in job[w].ver..Len(log)
  BY <1>3, <1>4
<1>9. CopyEntry(e)
  BY <1>3, <1>4, <1>5, <1>7, <1>8 DEF CopyEntry, SourceKey, SourceID
<1>10. QED  BY <1>1, <1>5, <1>6, <1>7, <1>9

LEMMA WriteMirrorOrderly ==
    ASSUME OrderlyState, Moves, NEW w \in Request, UNCHANGED controllerVars, WriteMirror(w)
    PROVE  OrderlyInv'
<1> DEFINE x == [job[w] EXCEPT !.pc = "mirrors", !.cur = Nil, !.dat = 0, !.got = 0]
<1>1. /\ job[w].pc = "write" /\ job' = [job EXCEPT ![w] = x]
      /\ UNCHANGED <<seen, phase, nsSeen, budget, store, heap>>
  BY DEF WriteMirror, NextMirror
<1>2. /\ job[w] \in Job /\ w \in Worker
      /\ \A p \in job[w].ptrs \cup ({job[w].cur} \ {Nil}) :
            heap[p].source = SourceID(w) /\ Beside(heap[p].id, SourceKey(w))
  BY <1>1, HeldFacts, WorkerFields
<1>3. /\ x.ver = job[w].ver /\ x.policy = job[w].policy /\ x.name = job[w].name
      /\ x.nss = job[w].nss /\ x.ptrs = job[w].ptrs /\ x.cur = Nil /\ x.pc = "mirrors"
  BY <1>2, NextMirrorFields
<1> HIDE DEF x
<1>4. job'[w] = x /\ UNCHANGED <<stage, nsDrop>>
  BY <1>1, <1>2, OrderlyParts, Parts DEF EngineTypeOK, controllerVars
<1>5. JobOrderly(w)'
  BY <1>1, <1>2, <1>3, <1>4, CallContinues
<1>6. LogOrderly'
  BY WriteEffect, LogGrows
<1>7. StoreOrderly' /\ VersionsOrderly' /\ Steady'
  BY <1>1, <1>4, StoreKept, VersionsKept, SteadyKept
<1>8. QED  BY <1>1, <1>5, <1>6, <1>7, WorkStep

LEMMA WorkOrderly ==
    ASSUME OrderlyState, Moves, NEW w \in Request, UNCHANGED controllerVars, Work(w)
    PROVE  OrderlyInv'
BY NamespacesOrderly, CreateAutoMirrorOrderly, CleanupOrderly, ForgetMirrorOrderly,
   MirrorStepsOrderly, SetVersionOrderly, WriteMirrorOrderly DEF Work

LEMMA ReconcileOrderly ==
    ASSUME OrderlyState, Moves, NEW w \in Request, ReconcileStep(w)
    PROVE  OrderlyInv'
<1>1. ~IngressFetch(w)
  BY OrderlyParts DEF Orderly, IngressFetch
<1>2. QED
  BY <1>1, StartOrderly, SourceFetchOrderly, SourceMissOrderly, SourceHitOrderly, ReturnOrderly,
     MirrorFetchOrderly, MirrorFetchSourceOrderly, MirrorAdoptOrderly, MirrorRegisterOrderly,
     MirrorCountOrderly, MirrorLoopOrderly, CertificateFetchOrderly, WorkOrderly
     DEF ReconcileStep

-----------------------------------------------------------------------------
(* Steps of the users, of the watch and of the rest of the operator.           *)

(* Nobody's state changes but the cluster's and the queues'.                  *)
LEMMA OutsideOrderly ==
    ASSUME OrderlyState, Moves, UNCHANGED <<engineVars, stage>>, LogOrderly', Steady',
           NotFoundOrderly',
           \A u \in Request : u \in queue' =>
              u \in queue \/ u.ctl = "certificate" \/ seen'[KeyOf(u.id)] # 0
    PROVE  OrderlyInv'
<1>1. UNCHANGED <<store, heap, job, stage>>
  BY DEF engineVars
<1>2. StoreOrderly' /\ VersionsOrderly'
  BY <1>1, StoreKept, VersionsKept
<1>3. ASSUME NEW u \in Worker PROVE JobOrderly(u)'
  BY <1>1, JobKept
<1>4. ASSUME NEW u \in Request PROVE StageOrderly(u)'
  BY <1>1, StageKept
<1>5. QED  BY <1>2, <1>3, <1>4, OrderlyParts DEF OrderlyInv

(* What a user commits is a revision of an original or of a copy.             *)
LEMMA UserEffect ==
    ASSUME OrderlyState, UserStep
    PROVE  /\ UNCHANGED <<seen, phase, nsSeen>> /\ \E d \in Disturbance : Spend(d) /\ d # "fault"
           /\ \E e \in Entry : Commit(e) /\ (OriginalEntry(e) \/ CopyEntry(e))
<1>1. /\ Volatile = {} /\ \A n \in Namespace : phase[n] = "active"
      /\ budget["delete"] = 0 /\ \A m \in Manifest : m.from = NoID
  BY OrderlyParts DEF Orderly, Steady
<1>2. ASSUME NEW m \in Manifest, Apply(m)
      PROVE  /\ UNCHANGED <<seen, phase, nsSeen>> /\ Spend("apply")
             /\ \E e \in Entry : Commit(e) /\ OriginalEntry(e)
  <2> DEFINE e == [key |-> m.key, live |-> TRUE, by |-> "user", data |-> Len(log) + 1,
                   policy |-> m.policy, helm |-> m.helm, from |-> m.from, ver |-> 0,
                   auto |-> FALSE]
  <2>1. Commit(e) /\ e \in Entry
    BY <1>2, OrderlyParts, Parts, ApplyEntry DEF Apply
  <2>2. OriginalEntry(e)
    BY <1>1 DEF OriginalEntry
  <2> HIDE DEF e
  <2>3. QED  BY <1>2, <2>1, <2>2 DEF Apply
<1>3. ASSUME NEW k \in Key, EditData(k)
      PROVE  /\ UNCHANGED <<seen, phase, nsSeen>> /\ (Spend("edit") \/ Spend("tamper"))
             /\ \E e \in Entry : Commit(e) /\ (OriginalEntry(e) \/ CopyEntry(e))
  <2> DEFINE o == log[head[k]]
             e == [o EXCEPT !.by = "user", !.data = Len(log) + 1]
  <2>1. /\ Live(head[k]) /\ Commit(e) /\ UNCHANGED <<seen, phase, nsSeen>>
        /\ Spend("edit") \/ Spend("tamper")
    BY <1>3 DEF EditData
  <2>2. o \in Entry /\ e \in Entry
    BY <2>1, OrderlyParts, Parts, EditEntry
  <2>3. head[k] \in 1..Len(log)
    BY <2>1, OrderlyParts, Parts DEF Live
  <2>4. OriginalEntry(o) \/ CopyEntry(o)
    BY <2>3, OrderlyParts DEF LogOrderly
  <2>5. /\ e.key = o.key /\ e.live = o.live /\ e.by = "user" /\ e.policy = o.policy
        /\ e.helm = o.helm /\ e.from = o.from /\ e.ver = o.ver
    BY <2>2 DEF Entry
  <2> HIDE DEF e, o
  <2>6. OriginalEntry(e) \/ CopyEntry(e)
    BY <2>4, <2>5 DEF OriginalEntry, CopyEntry
  <2>7. QED  BY <2>1, <2>2, <2>6
<1>4. \A k \in Key : ~Delete(k) /\ ~NamespacePurge(k)
  BY <1>1, KeyFields DEF Delete, NamespacePurge, Spend
<1>5. \A n \in Namespace : ~NamespaceTerminate(n) /\ ~NamespaceRemove(n) /\ ~NamespaceCreate(n)
  BY <1>1 DEF NamespaceTerminate, NamespaceRemove, NamespaceCreate
<1>6. {"apply", "edit", "tamper"} \subseteq Disturbance
  BY DEF Disturbance
<1>7. (\E m \in Manifest : Apply(m)) \/ (\E k \in Key : EditData(k))
  BY <1>4, <1>5 DEF UserStep
<1>8. QED  BY <1>2, <1>3, <1>6, <1>7

LEMMA UserOrderly ==
    ASSUME OrderlyState, Moves, UserStep, UNCHANGED <<engineVars, controllerVars>>
    PROVE  OrderlyInv'
<1>1. /\ UNCHANGED <<seen, phase, nsSeen>> /\ \E d \in Disturbance : Spend(d)
      /\ \E e \in Entry : Commit(e) /\ (OriginalEntry(e) \/ CopyEntry(e))
  BY UserEffect
<1>2. UNCHANGED <<queue, stage, notFound, nsDrop>>
  BY DEF controllerVars
<1>3. LogOrderly' /\ Steady'
  BY <1>1, <1>2, LogGrows, SteadyKept
<1>4. NotFoundOrderly'
  BY <1>2, OrderlyParts DEF NotFoundOrderly
<1>5. QED  BY <1>2, <1>3, <1>4, OutsideOrderly

(* A request that the predicates let pass is about an object of the cache.    *)
LEMMA NotifiedFacts ==
    ASSUME Orderly, NEW k \in Key, NEW old, NEW new, NEW u \in Notified(k, old, new)
    PROVE  u \in Request /\ KeyOf(u.id) = k
BY OrderlyKeys DEF Notified

LEMMA InformerOrderly ==
    ASSUME OrderlyState, Moves, NEW k \in Key, Informer(k) \/ Resync(k)
    PROVE  OrderlyInv'
<1>1. PICK r \in Nat : /\ queue' = queue \cup Notified(k, seen[k], r)
                       /\ seen'[k] # 0 /\ UNCHANGED <<log, head, phase, nsSeen>>
                       /\ UNCHANGED budget \/ Spend("event")
                       /\ UNCHANGED <<engineVars, stage, nsQueue, nsDrop>>
                       /\ notFound' \in {notFound, notFound \ {k.id}}
  <2>1. CASE Informer(k)
    <3>1. PICK r \in 1..Len(log) : Observe(k, r) /\ queue' = queue \cup Notified(k, seen[k], r)
      BY <2>1 DEF Informer
    <3>2. seen'[k] = r /\ r \in Nat /\ r # 0
      BY <3>1, OrderlyParts, Parts DEF Observe
    <3>3. QED  BY <2>1, <3>1, <3>2 DEF Informer, Observe, MarkFoundOnEvent, MarkFound
  <2>2. CASE Resync(k)
    <3>1. seen[k] \in Nat /\ seen[k] # 0 /\ seen' = seen
      BY <2>2, OrderlyParts, Parts DEF Resync, Live
    <3>2. QED  BY <2>2, <3>1 DEF Resync, MarkFoundOnEvent, MarkFound
  <2>3. QED  BY <2>1, <2>2
<1>2. \A u \in Request : u \in queue' => u \in queue \/ seen'[KeyOf(u.id)] # 0
  BY <1>1, OrderlyParts, NotifiedFacts
<1>3. LogOrderly' /\ Steady'
  BY <1>1, LogKept, SteadyKept DEF Disturbance
<1>4. NotFoundOrderly'
  BY <1>1, OrderlyParts DEF NotFoundOrderly
<1>5. QED  BY <1>1, <1>2, <1>3, <1>4, OutsideOrderly

LEMMA OthersOrderly ==
    ASSUME OrderlyState, Moves,
           \/ \E n \in Namespace : InformerNamespace(n) \/ NamespaceReconcile(n)
           \/ \E id \in ID : NamespaceForget(id) \/ NotFoundExpires(id)
           \/ \E w \in Request : CertificateEvent(w)
           \/ UNCHANGED allVars
    PROVE  OrderlyInv'
<1>1. /\ nsSeen = Namespace /\ nsDrop = {} /\ phase = [n \in Namespace |-> "active"]
  BY OrderlyParts DEF Steady
<1>2. \A n \in Namespace : ~InformerNamespace(n)
  BY <1>1 DEF InformerNamespace, ObserveNamespace
<1>3. \A id \in ID : ~NamespaceForget(id)
  BY <1>1 DEF NamespaceForget
<1>4. \A w \in Request : CertificateEvent(w) => w.ctl = "certificate"
  BY OrderlyParts DEF CertificateEvent, Orderly
<1>5. /\ UNCHANGED <<log, head, seen, phase, nsSeen, engineVars, stage, nsDrop>>
      /\ UNCHANGED budget \/ \E d \in Disturbance : Spend(d)
      /\ \A u \in queue' : u \in queue \/ u.ctl = "certificate"
      /\ notFound' \subseteq notFound
  <2>1. CASE \E n \in Namespace : NamespaceReconcile(n)
    BY <1>1, <2>1 DEF NamespaceReconcile, vars, clusterVars
  <2>2. CASE \E id \in ID : NotFoundExpires(id)
    BY <2>2 DEF NotFoundExpires, Disturbance
  <2>3. CASE \E w \in Request : CertificateEvent(w)
    BY <1>4, <2>3 DEF CertificateEvent, Disturbance
  <2>4. CASE UNCHANGED allVars
    BY <2>4 DEF allVars, vars, clusterVars, controllerVars
  <2>5. QED  BY <1>2, <1>3, <2>1, <2>2, <2>3, <2>4
<1>6. LogOrderly' /\ Steady'
  BY <1>5, LogKept, SteadyKept
<1>7. NotFoundOrderly'
  BY <1>5, OrderlyParts DEF NotFoundOrderly
<1>8. QED  BY <1>5, <1>6, <1>7, OutsideOrderly

LEMMA RestartOrderly ==
    ASSUME OrderlyState, Moves, OperatorRestart
    PROVE  OrderlyInv'
<1>1. /\ Spend("restart") /\ store' = [id \in ID |-> Nil] /\ heap' = [p \in Ptr |-> NoMirror]
      /\ job' = [w \in Worker |-> NoJob] /\ seen' = head
      /\ nsSeen' = {n \in Namespace : phase[n] # "gone"} /\ UNCHANGED <<log, head, phase>>
      /\ stage' = [w \in Request |-> NoStage] /\ notFound' = {} /\ nsDrop' = {}
  BY DEF OperatorRestart, Restart
<1>2. PICK others \in SUBSET {w \in Request : w.ctl \in {"certificate", "ingress"}} :
         queue' = others \cup UNION {Notified(k, 0, head[k]) : k \in Key}
  BY DEF OperatorRestart
<1>3. Steady'
  <2>1. phase = [n \in Namespace |-> "active"] /\ nsSeen = Namespace /\ nsDrop = {}
    BY OrderlyParts DEF Steady
  <2>2. UNCHANGED <<phase, nsSeen, nsDrop>>
    BY <1>1, <2>1
  <2>3. QED  BY <1>1, <2>2, SteadyKept DEF Disturbance
<1>4. LogOrderly'
  BY <1>1, LogKept
<1>5. StoreOrderly' /\ VersionsOrderly' /\ NotFoundOrderly'
  BY <1>1 DEF StoreOrderly, Registered, VersionsOrderly, NoMirror, NotFoundOrderly
<1>6. \A w \in Worker : JobOrderly(w)'
  BY <1>1 DEF JobOrderly, NoJob
<1>7. ASSUME NEW w \in Request PROVE StageOrderly(w)'
  <2>1. stage'[w].at = "idle" /\ stage'[w].left = 0
    BY <1>1 DEF NoStage
  <2>2. w \in queue' => w.ctl = "certificate" \/ seen'[KeyOf(w.id)] # 0
    <3>1. CASE w \in others
      BY <3>1, OrderlyParts DEF Orderly
    <3>2. CASE \E k \in Key : w \in Notified(k, 0, head[k])
      <4>1. PICK k \in Key : w \in Notified(k, 0, head[k])
        BY <3>2
      <4>2. Live(head[k])
        BY <4>1 DEF Notified, SourcePasses, MirrorPasses, Live
      <4>3. QED  BY <1>1, <4>1, <4>2, OrderlyParts, NotifiedFacts DEF Live
    <3>3. QED  BY <1>2, <3>1, <3>2
  <2>3. QED  BY <2>1, <2>2 DEF StageOrderly
<1>8. QED  BY <1>3, <1>4, <1>5, <1>6, <1>7, OrderlyParts DEF OrderlyInv

-----------------------------------------------------------------------------
(* The invariant.                                                             *)

LEMMA EveryStepMoves ==
    ASSUME EngineInv, ControllerInv, [ControllersNext]_allVars
    PROVE  Moves
BY ControllersNextKeeps, NextSafe, NextAdvances DEF Keeps, Moves

LEMMA OrderlyNext ==
    ASSUME OrderlyState, [ControllersNext]_allVars
    PROVE  OrderlyState'
<1>1. Moves
  BY OrderlyParts, EveryStepMoves
<1>2. OrderlyInv'
  BY <1>1, UserOrderly, InformerOrderly, OthersOrderly, ReconcileOrderly, RestartOrderly
     DEF ControllersNext, ControllersStep
<1>3. QED  BY <1>1, <1>2 DEF Moves, OrderlyState

LEMMA OrderlyStart ==
    ASSUME Orderly, ControllersInit
    PROVE  OrderlyState
<1>1. EngineInv /\ ControllerInv
  BY InitSafe, ControllersInitKeeps DEF ControllersInit
<1>2. /\ log = <<>> /\ phase = [n \in Namespace |-> "active"] /\ nsSeen = Namespace
      /\ budget = Budget /\ store = [id \in ID |-> Nil] /\ heap = [p \in Ptr |-> NoMirror]
      /\ job = [w \in Worker |-> NoJob] /\ queue = {} /\ stage = [w \in Request |-> NoStage]
      /\ notFound = {} /\ nsDrop = {}
  BY DEF ControllersInit, Init, ClusterInit, EngineInit, ControllerInit
<1>3. Steady
  <2>1. budget["delete"] = 0 /\ budget["fault"] \in Nat
    BY <1>2, ClusterAssumption DEF Orderly, Disturbance
  <2>2. QED  BY <1>2, <2>1 DEF Steady
<1>4. LogOrderly
  BY <1>2 DEF LogOrderly
<1>5. StoreOrderly /\ VersionsOrderly /\ NotFoundOrderly
  BY <1>2 DEF StoreOrderly, Registered, VersionsOrderly, NoMirror, NotFoundOrderly
<1>6. \A w \in Worker : JobOrderly(w)
  BY <1>2 DEF JobOrderly, NoJob
<1>7. \A w \in Request : StageOrderly(w)
  BY <1>2 DEF StageOrderly, NoStage
<1>8. QED  BY <1>1, <1>3, <1>4, <1>5, <1>6, <1>7 DEF OrderlyState, OrderlyInv
==============================================================================
