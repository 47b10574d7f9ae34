-------------------------- MODULE ConvergenceProofs --------------------------
(***************************************************************************)
(* In orderly circumstances somebody is always on the way to every target   *)
(* that is out of date, but for one target for each write that failed.      *)
(***************************************************************************)
EXTENDS OrderlyProofs

(* The copy of m in n is asked for, and there is something to copy.           *)
Asked(m, n) == Wanted(m, n) /\ head[m.key] # 0

Tended(m, n) == Promised(m, n) /\ Backed(m, n)

LEMMA AttendedIsTended ==
    ASSUME NEW m, NEW n
    PROVE  /\ Attended(m, n) = (Asked(m, n) => Tended(m, n))
           /\ Attended(m, n)' = (Asked(m, n)' => Tended(m, n)')
BY DEF Attended, Asked, Tended

-----------------------------------------------------------------------------
(* What is known of a target that is asked for.                              *)

LEMMA AskedFacts ==
    ASSUME OrderlyState, NEW m \in Manifest, NEW n \in Namespace, Asked(m, n)
    PROVE  LET k == m.key
               c == TargetKey(m, n)
           IN  /\ Orderly /\ OptedIn(m) /\ n # k.id.ns /\ k \in Original
               /\ k \in Key /\ k.id \in ID /\ k = KeyOf(k.id)
               /\ c \in Key /\ c.id \in ID /\ c = KeyOf(c.id) /\ c # k /\ c \notin Original
               /\ c.id.ns = n /\ c.id = [ns |-> n, name |-> k.id.name] /\ Beside(c.id, k)
               /\ head[k] \in 1..Len(log) /\ log[head[k]].key = k
               /\ seen[k] \in Nat /\ head[k] \in Nat /\ seen[k] <= head[k]
               /\ seen[c] \in Nat /\ head[c] \in Nat /\ seen[c] <= head[c]
               /\ Len(log) \in Nat /\ head[c] \in 0..Len(log)
<1> DEFINE k == m.key
           c == TargetKey(m, n)
<1>1. Orderly /\ OptedIn(m) /\ n # k.id.ns /\ head[k] # 0
  BY OrderlyParts DEF Asked, Wanted
<1>2. k \in Key /\ k.id \in ID /\ k \in Original /\ k = KeyOf(k.id)
  BY <1>1, ManifestFields, OrderlyKeys
<1>3. /\ c \in Key /\ c.id \in ID /\ c = KeyOf(c.id) /\ c # k /\ c \notin Original
      /\ c.id.ns = n /\ c.id = [ns |-> n, name |-> k.id.name] /\ Beside(c.id, k)
  BY <1>1, TargetFacts
<1>4. /\ head \in [Key -> 0..Len(log)] /\ seen \in [Key -> 0..Len(log)] /\ Len(log) \in Nat
      /\ CacheSound
  BY OrderlyParts, Parts
<1> HIDE DEF c, k
<1>5. /\ head[k] \in 0..Len(log) /\ head[c] \in 0..Len(log)
      /\ seen[k] \in 0..Len(log) /\ seen[c] \in 0..Len(log)
      /\ seen[k] <= head[k] /\ seen[c] <= head[c] /\ log[head[k]].key = k
  BY <1>1, <1>2, <1>3, <1>4 DEF CacheSound
<1>6. QED  BY <1>1, <1>2, <1>3, <1>4, <1>5 DEF c, k

(* The two Requests that look after it.                                       *)
LEMMA RequestFacts ==
    ASSUME OrderlyState, NEW m \in Manifest, NEW n \in Namespace, Asked(m, n)
    PROVE  /\ SourceRequest(m.key) \in Request /\ SourceRequest(m.key).ctl = "source"
           /\ SourceRequest(m.key).id = m.key.id /\ SourceRequest(m.key).kind = m.key.kind
           /\ MirrorRequest(TargetKey(m, n)) \in Request
           /\ MirrorRequest(TargetKey(m, n)).ctl = "mirror"
           /\ MirrorRequest(TargetKey(m, n)).id = TargetKey(m, n).id
           /\ MirrorRequest(TargetKey(m, n)).kind = TargetKey(m, n).kind
<1>1. Orderly /\ n # m.key.id.ns
  BY AskedFacts
<1>2. SourceRequest(m.key) \in Request /\ MirrorRequest(TargetKey(m, n)) \in Request
  BY <1>1, TargetFacts
<1>3. QED  BY <1>2 DEF SourceRequest, MirrorRequest

(* Whatever stands there is a copy, and marked as one.                         *)
LEMMA TargetIsCopy ==
    ASSUME OrderlyState, NEW m \in Manifest, NEW n \in Namespace, Asked(m, n),
           NEW r \in 1..Len(log), log[r].key = TargetKey(m, n)
    PROVE  CopyEntry(log[r]) /\ log[r].live /\ log[r].from # NoID /\ ~log[r].helm
<1>1. CopyEntry(log[r])
  BY AskedFacts, Revisions
<1>2. log[r].from \in ID
  <2> DEFINE v == log[r].ver
  <2>1. v \in 1..Len(log) /\ log[r].from = log[v].key.id
    BY <1>1 DEF CopyEntry
  <2>2. QED  BY <2>1, Revisions, KeyFields
<1>3. QED  BY <1>1, <1>2, ResourcesAssumption DEF CopyEntry

(* The Mirror registered for it is one of the original.                        *)
LEMMA RegisteredTarget ==
    ASSUME OrderlyState, NEW m \in Manifest, NEW n \in Namespace, Asked(m, n),
           Registered(TargetKey(m, n).id)
    PROVE  LET id == TargetKey(m, n).id
           IN  /\ store[id] \in Ptr /\ heap[store[id]].id = id
               /\ heap[store[id]].source = m.key.id
<1> DEFINE id == TargetKey(m, n).id
<1>1. id \in ID /\ Orderly /\ n # m.key.id.ns
  BY AskedFacts
<1>2. /\ heap[store[id]].id = id /\ heap[store[id]].source \in ID
      /\ Beside(id, KeyOf(heap[store[id]].source))
  BY <1>1, OrderlyParts DEF StoreOrderly
<1>3. KeyOf(heap[store[id]].source) = m.key
  BY <1>1, <1>2, OneTarget
<1>4. store[id] \in Ptr
  BY <1>1, OrderlyParts, Parts DEF Registered
<1>5. QED  BY <1>1, <1>2, <1>3, <1>4, OrderlyKeys

(* Nobody has a version that the cache has not reached.                        *)
LEMMA StaleIsNotCurrent ==
    ASSUME OrderlyState, NEW m \in Manifest, NEW n \in Namespace, Asked(m, n),
           seen[m.key] < head[m.key]
    PROVE  ~Current(m, n)
<1> SUFFICES ASSUME Current(m, n) PROVE FALSE
  OBVIOUS
<1> DEFINE p == store[TargetKey(m, n).id]
<1>1. p \in Ptr /\ heap[p].version = head[m.key]
  BY RegisteredTarget DEF Current
<1>2. /\ head[m.key] \in Nat /\ head[m.key] # 0 /\ log[head[m.key]].key = m.key
      /\ seen[m.key] \in Nat
  BY AskedFacts DEF Asked
<1>3. heap[p].version <= seen[log[heap[p].version].key]
  BY <1>1, <1>2, OrderlyParts DEF VersionsOrderly
<1>4. QED  BY <1>1, <1>2, <1>3

(* A call with the current revision is a call for this original.               *)
LEMMA CurrentCall ==
    ASSUME OrderlyState, NEW m \in Manifest, NEW n \in Namespace, Asked(m, n),
           NEW w \in Worker, job[w].pc # "idle", job[w].ver = head[m.key]
    PROVE  /\ SourceKey(w) = m.key /\ SourceID(w) = m.key.id
           /\ TargetID(w, n) = TargetKey(m, n).id
           /\ CanAutoMirrorToNamespace(job[w].policy, n)
           /\ CanReflectToNamespace(job[w].policy, n)
           /\ Live(seen[m.key])
<1>1. SourceKey(w) = m.key /\ SourceID(w) = m.key.id
  BY AskedFacts DEF SourceKey, SourceID
<1>2. PICK o \in Manifest : /\ o.key = SourceKey(w)
                            /\ job[w].policy \in {o.policy, MirrorView(o.policy)}
  BY CallFacts
<1>3. o = m
  <2>1. Orderly /\ o.key = m.key
    BY <1>1, <1>2, AskedFacts
  <2>2. QED  BY <2>1, OneOriginal
<1>4. CanAutoMirrorToNamespace(job[w].policy, n) /\ CanReflectToNamespace(job[w].policy, n)
  BY <1>2, <1>3, WantedEitherWay DEF Asked
<1>5. TargetID(w, n) = TargetKey(m, n).id
  <2>1. job[w].name = SourceID(w).name
    BY OrderlyParts DEF JobOrderly
  <2>2. QED  BY <1>1, <2>1, AskedFacts DEF TargetID
<1>6. seen[m.key] # 0
  <2>1. job[w].ver <= seen[SourceKey(w)]
    BY CallFacts
  <2>2. head[m.key] \in Nat /\ head[m.key] # 0 /\ seen[m.key] \in Nat
    BY AskedFacts DEF Asked
  <2>3. QED  BY <1>1, <2>1, <2>2
<1>7. Live(seen[m.key])
  <2>1. m.key.id \in ID /\ m.key = KeyOf(m.key.id)
    BY AskedFacts
  <2>2. QED  BY <1>6, <2>1, CacheAnswers
<1>8. QED  BY <1>1, <1>4, <1>5, <1>7

(* A call that handles a Mirror of the target handles a Mirror of this original. *)
LEMMA HeldTarget ==
    ASSUME OrderlyState, NEW m \in Manifest, NEW n \in Namespace, Asked(m, n),
           NEW w \in Worker, job[w].pc # "idle", NEW id, Beside(id, SourceKey(w)),
           id = TargetKey(m, n).id
    PROVE  SourceKey(w) = m.key
<1>1. Orderly /\ n # m.key.id.ns
  BY AskedFacts
<1>2. QED  BY <1>1, OneTarget
-----------------------------------------------------------------------------
(* Handing over.                                                             *)

LEMMA InHandIsOnTheWay ==
    ASSUME NEW m, NEW n, NEW w
    PROVE  /\ InTheHandOf(m, n, w) => OnTheWay(m, n, w)
           /\ InTheHandOf(m, n, w)' => OnTheWay(m, n, w)'
BY DEF InTheHandOf, OnTheWay

(* Whoever is on the way stays so, arrives, or hands over to somebody else.    *)
LEMMA Handover ==
    ASSUME NEW m, NEW n, Tended(m, n),
           Settled(m, n) => Settled(m, n)' \/ MirrorPending(m, n)',
           SourcePending(m) => \/ SourcePending(m)' \/ Current(m, n)
                               \/ \E w \in Worker : OnTheWay(m, n, w)',
           MirrorPending(m, n) => \/ MirrorPending(m, n)'
                                  \/ ~Current(m, n)' /\ (SourcePending(m)' \/ MirrorNext(m, n)'),
           MirrorNext(m, n) => MirrorNext(m, n)' \/ \E w \in Worker : OnTheWay(m, n, w)',
           \A w \in Worker : OnTheWay(m, n, w) =>
              OnTheWay(m, n, w)' \/ Settled(m, n)' \/ MirrorPending(m, n)',
           \A w \in Worker : InTheHandOf(m, n, w) =>
              InTheHandOf(m, n, w)' \/ Settled(m, n)' \/ MirrorPending(m, n)',
           Current(m, n)' => Current(m, n) \/ \E w \in Worker : InTheHandOf(m, n, w)'
    PROVE  Tended(m, n)'
<1>1. Backed(m, n)'
  BY DEF Tended, Backed
<1>2. Promised(m, n)'
  <2>1. CASE Settled(m, n)
    BY <2>1 DEF Promised
  <2>2. CASE MirrorPending(m, n)
    BY <2>2 DEF Promised
  <2>3. CASE MirrorNext(m, n)
    BY <2>3 DEF Promised
  <2>4. CASE \E w \in Worker : OnTheWay(m, n, w)
    BY <2>4 DEF Promised
  <2>5. CASE Current(m, n)
    <3>1. CASE \E w \in Worker : InTheHandOf(m, n, w)
      BY <3>1, InHandIsOnTheWay DEF Promised
    <3>2. QED  BY <2>1, <2>2, <2>5, <3>1 DEF Tended, Backed
  <2>6. CASE SourcePending(m) /\ ~Current(m, n)
    BY <2>6 DEF Promised
  <2>7. QED  BY <2>1, <2>2, <2>3, <2>4, <2>5, <2>6 DEF Tended, Promised
<1>3. QED  BY <1>1, <1>2 DEF Tended

(* A call that does not move, while the target does not get better of itself.  *)
LEMMA CallUnmoved ==
    ASSUME NEW m, NEW n, NEW u \in Worker, job'[u] = job[u],
           head'[m.key] = head[m.key], head'[TargetKey(m, n)] = head[TargetKey(m, n)],
           Current(m, n)' => Current(m, n), Behind(m, n) => Behind(m, n)',
           \A p \in Held(u) :
              /\ heap'[p].id = heap[p].id
              /\ heap[p].id = TargetKey(m, n).id /\ heap[p].version # head[m.key] =>
                    heap'[p].version # head[m.key]
    PROVE  /\ OnTheWay(m, n, u) => OnTheWay(m, n, u)'
           /\ InTheHandOf(m, n, u) => InTheHandOf(m, n, u)'
<1> DEFINE c == TargetKey(m, n)
<1>1. InTheHandOf(m, n, u) => InTheHandOf(m, n, u)'
  BY DEF InTheHandOf, Held
<1>2. ASSUME NEW p \in job[u].ptrs PROVE Due(m, n, p) => Due(m, n, p)'
  BY DEF Due, Held
<1>3. job[u].cur # Nil /\ Due(m, n, job[u].cur) => Due(m, n, job[u].cur)'
  BY DEF Due, Held
<1>4. ASSUME OnTheWay(m, n, u) PROVE OnTheWay(m, n, u)'
  <2>1. CASE InTheHandOf(m, n, u)
    BY <1>1, <2>1, InHandIsOnTheWay
  <2>2. CASE /\ job[u].pc \in {"mirrors", "check", "set", "get", "write"}
             /\ \E p \in job[u].ptrs : Due(m, n, p)
    BY <1>2, <1>4, <2>2 DEF OnTheWay
  <2>3. CASE job[u].pc = "check" /\ job[u].cur # Nil /\ Due(m, n, job[u].cur)
    BY <1>3, <1>4, <2>3 DEF OnTheWay
  <2>4. CASE job[u].pc \in {"auto", "conflict", "create", "cleanup", "forget"} /\ Behind(m, n)
    BY <1>4, <2>4 DEF OnTheWay
  <2>5. CASE /\ \/ job[u].pc \in {"auto", "conflict", "create"} /\ n \in job[u].nss
                \/ job[u].pc \in {"conflict", "create"} /\ job[u].at = c.id
             /\ ~Current(m, n)
    BY <1>4, <2>5 DEF OnTheWay
  <2>6. QED  BY <1>4, <2>1, <2>2, <2>3, <2>4, <2>5 DEF OnTheWay
<1>5. QED  BY <1>1, <1>4

(* Nothing happens to the server, the store and the Mirrors.                   *)
LEMMA TargetUnmoved ==
    ASSUME UNCHANGED <<log, head, store, heap>>, NEW m, NEW n
    PROVE  /\ Settled(m, n)' = Settled(m, n) /\ Current(m, n)' = Current(m, n)
           /\ Behind(m, n)' = Behind(m, n)
           /\ \A u \in Worker : job'[u] = job[u] =>
                 /\ OnTheWay(m, n, u) => OnTheWay(m, n, u)'
                 /\ InTheHandOf(m, n, u) => InTheHandOf(m, n, u)'
<1>1. /\ Settled(m, n)' = Settled(m, n) /\ Current(m, n)' = Current(m, n)
      /\ Behind(m, n)' = Behind(m, n)
  BY DEF Settled, Current, Behind, Registered
<1>2. QED  BY <1>1, CallUnmoved

(* What waits keeps waiting as long as nobody takes it up.                     *)
LEMMA SourceWaits ==
    ASSUME NEW m, SourcePending(m), head'[m.key] = head[m.key], seen'[m.key] = seen[m.key],
           LET w == SourceRequest(m.key)
           IN  /\ w \in queue => w \in queue'
               /\ stage'[w] = stage[w] \/ stage[w].at \notin {"fetch", "hit"}
    PROVE  SourcePending(m)'
BY DEF SourcePending

LEMMA MirrorWaits ==
    ASSUME NEW m, NEW n, MirrorPending(m, n), head'[m.key] = head[m.key],
           head'[TargetKey(m, n)] = head[TargetKey(m, n)],
           seen'[TargetKey(m, n)] = seen[TargetKey(m, n)],
           LET w == MirrorRequest(TargetKey(m, n))
           IN  /\ w \in queue => w \in queue'
               /\ stage'[w] = stage[w] \/ stage[w].at \notin {"fetch", "source", "register"}
    PROVE  MirrorPending(m, n)'
BY DEF MirrorPending

LEMMA MirrorNextWaits ==
    ASSUME NEW m, NEW n, MirrorNext(m, n), head'[m.key] = head[m.key],
           Behind(m, n)',
           LET w == MirrorRequest(TargetKey(m, n))
           IN  stage'[w] = stage[w] \/ stage[w].at \notin {"count", "loop"}
    PROVE  MirrorNext(m, n)'
BY DEF MirrorNext
-----------------------------------------------------------------------------
(* Steps of a Reconcile outside Execute.                                      *)

LEMMA StageMoves ==
    ASSUME OrderlyState, NEW m \in Manifest, NEW n \in Namespace, Asked(m, n), Tended(m, n),
           NEW w \in Request, UNCHANGED vars, NEW s, stage' = [stage EXCEPT ![w] = s],
           \A u \in Request : u # w /\ u \in queue => u \in queue',
           w = SourceRequest(m.key) /\ SourcePending(m) => SourcePending(m)',
           w = MirrorRequest(TargetKey(m, n)) =>
              /\ MirrorPending(m, n) => \/ MirrorPending(m, n)'
                                        \/ (~Current(m, n)' /\ SourcePending(m)')
              /\ MirrorNext(m, n) => MirrorNext(m, n)'
    PROVE  Tended(m, n)'
<1>1. UNCHANGED <<log, head, seen, store, heap, job>>
  BY DEF vars, clusterVars, engineVars
<1>2. /\ SourceRequest(m.key) \in Request /\ MirrorRequest(TargetKey(m, n)) \in Request
      /\ \A u \in Request : u # w => stage'[u] = stage[u]
  BY RequestFacts, OrderlyParts, ControllerParts
<1>3. /\ Settled(m, n)' = Settled(m, n) /\ Current(m, n)' = Current(m, n)
      /\ Behind(m, n)' = Behind(m, n)
      /\ \A u \in Worker : /\ OnTheWay(m, n, u) => OnTheWay(m, n, u)'
                           /\ InTheHandOf(m, n, u) => InTheHandOf(m, n, u)'
  BY <1>1, TargetUnmoved
<1>4. SourcePending(m) => SourcePending(m)'
  BY <1>1, <1>2, SourceWaits
<1>5. MirrorPending(m, n) => MirrorPending(m, n)' \/ (~Current(m, n)' /\ SourcePending(m)')
  BY <1>1, <1>2, MirrorWaits
<1>6. MirrorNext(m, n) => MirrorNext(m, n)'
  <2>1. MirrorNext(m, n) => Behind(m, n)'
    BY <1>3 DEF MirrorNext
  <2>2. QED  BY <1>1, <1>2, <2>1, MirrorNextWaits
<1>7. QED  BY <1>3, <1>4, <1>5, <1>6, Handover

LEMMA StartTended ==
    ASSUME OrderlyState, NEW m \in Manifest, NEW n \in Namespace, Asked(m, n), Tended(m, n),
           NEW w \in Request, SourceStart(w) \/ MirrorStart(w) \/ CertificateStart(w)
    PROVE  Tended(m, n)'
<1> DEFINE s == [stage[w] EXCEPT !.at = "fetch"]
           ws == SourceRequest(m.key)
           wm == MirrorRequest(TargetKey(m, n))
<1>1. /\ stage[w].at = "idle" /\ queue' = queue \ {w} /\ UNCHANGED vars
      /\ \/ stage' = [stage EXCEPT ![w] = stage[w]]
         \/ stage' = [stage EXCEPT ![w] = s]
      /\ w.ctl = "source" /\ w.id \notin notFound => stage' = [stage EXCEPT ![w] = s]
      /\ w.ctl = "mirror" => stage' = [stage EXCEPT ![w] = s]
  BY OrderlyParts, ControllerParts
     DEF SourceStart, MirrorStart, CertificateStart, At, IsNotFound
<1>2. /\ ws.ctl = "source" /\ ws.id = m.key.id /\ wm.ctl = "mirror"
  BY RequestFacts
<1>3. m.key.id \notin notFound
  BY OrderlyParts, AskedFacts DEF NotFoundOrderly
<1>4. s.at = "fetch"
  BY OrderlyParts, ControllerParts DEF Stage
<1>5. stage' = [stage EXCEPT ![w] = s] => stage'[w].at = "fetch"
  BY <1>4, OrderlyParts, ControllerParts
<1> HIDE DEF s
<1>6. w = ws => SourcePending(m)'
  BY <1>1, <1>2, <1>3, <1>5 DEF SourcePending
<1>7. w = wm => MirrorPending(m, n)' /\ ~MirrorNext(m, n)
  BY <1>1, <1>2, <1>5 DEF MirrorPending, MirrorNext
<1>8. QED  BY <1>1, <1>6, <1>7, StageMoves

LEMMA SourceFetchTended ==
    ASSUME OrderlyState, NEW m \in Manifest, NEW n \in Namespace, Asked(m, n), Tended(m, n),
           NEW w \in Request, SourceFetch(w)
    PROVE  Tended(m, n)'
<1> DEFINE r == CachedObject(w.id)
           s == [stage[w] EXCEPT !.at = "hit", !.ver = r]
           t == [stage[w] EXCEPT !.at = "miss"]
           ws == SourceRequest(m.key)
           wm == MirrorRequest(TargetKey(m, n))
<1>1. /\ w.ctl = "source" /\ stage[w].at = "fetch" /\ UNCHANGED <<vars, queue>>
      /\ stage' = [stage EXCEPT ![w] = IF IsSource(r) THEN s ELSE t]
  BY DEF SourceFetch
<1>2. ws.id = m.key.id /\ wm.ctl = "mirror"
  BY RequestFacts
<1>3. ASSUME w = ws PROVE SourcePending(m)'
  <2>1. /\ m.key.id \in ID /\ m.key = KeyOf(m.key.id) /\ OptedIn(m)
        /\ seen[m.key] \in Nat /\ head[m.key] \in Nat /\ seen[m.key] <= head[m.key]
    BY AskedFacts
  <2>2. seen[m.key] # 0
    BY <1>1, <1>2, <1>3, <2>1, OrderlyParts DEF StageOrderly
  <2>3. r = seen[m.key] /\ r \in 1..Len(log) /\ log[r].key = m.key
    BY <1>2, <1>3, <2>1, <2>2, CacheAnswers
  <2>4. IsSource(r)
    BY <2>1, <2>3, OptedInIsSource
  <2> HIDE DEF r
  <2>5. s.at = "hit" /\ s.ver = r
    BY OrderlyParts, ControllerParts DEF Stage
  <2>6. stage'[w] = s
    BY <1>1, <2>4, OrderlyParts, ControllerParts
  <2>7. UNCHANGED <<seen, head>>
    BY <1>1 DEF vars, clusterVars
  <2> HIDE DEF s
  <2>8. QED  BY <1>3, <2>1, <2>3, <2>5, <2>6, <2>7 DEF SourcePending
<1>4. QED  BY <1>1, <1>2, <1>3, StageMoves

LEMMA MirrorFetchTended ==
    ASSUME OrderlyState, NEW m \in Manifest, NEW n \in Namespace, Asked(m, n), Tended(m, n),
           NEW w \in Request, MirrorFetch(w)
    PROVE  Tended(m, n)'
<1> DEFINE r == CachedObject(w.id)
           s == [stage[w] EXCEPT !.at = "source", !.from = log[r].from, !.auto = log[r].auto]
           c == TargetKey(m, n)
           ws == SourceRequest(m.key)
           wm == MirrorRequest(c)
<1>1. /\ w.ctl = "mirror" /\ stage[w].at = "fetch" /\ UNCHANGED vars
      /\ queue' \in {queue, queue \cup {w}}
      /\ \/ stage' = [stage EXCEPT ![w] = NoStage]
         \/ stage' = [stage EXCEPT ![w] = s]
      /\ Live(r) /\ ~log[r].helm /\ log[r].from # NoID /\ log[r].key.kind = "Secret" =>
            stage' = [stage EXCEPT ![w] = s]
  BY DEF MirrorFetch, HasReflectsAnnotation, Finish, IsHelm
<1>2. ws.ctl = "source" /\ wm.ctl = "mirror" /\ wm.id = c.id
  BY RequestFacts
<1>3. ASSUME w = wm PROVE MirrorPending(m, n)' /\ ~MirrorNext(m, n)
  <2>1. c.id \in ID /\ c = KeyOf(c.id) /\ c \in Key
    BY AskedFacts
  <2>2. seen[c] # 0
    BY <1>1, <1>2, <1>3, <2>1, OrderlyParts DEF StageOrderly
  <2>3. r = seen[c] /\ r \in 1..Len(log) /\ log[r].key = c /\ Live(r)
    BY <1>2, <1>3, <2>1, <2>2, CacheAnswers
  <2>4. log[r].from # NoID /\ ~log[r].helm /\ c.kind = "Secret"
    BY <2>1, <2>3, TargetIsCopy, OrderlyParts, OrderlyKeys
  <2> HIDE DEF r
  <2>5. s.at = "source"
    BY OrderlyParts, ControllerParts DEF Stage
  <2>6. stage'[w] = s
    BY <1>1, <2>3, <2>4, OrderlyParts, ControllerParts
  <2> HIDE DEF s
  <2>7. QED  BY <1>1, <1>3, <2>5, <2>6 DEF MirrorPending, MirrorNext
<1>4. QED  BY <1>1, <1>2, <1>3, StageMoves

LEMMA MirrorFetchSourceTended ==
    ASSUME OrderlyState, NEW m \in Manifest, NEW n \in Namespace, Asked(m, n), Tended(m, n),
           NEW w \in Request, MirrorFetchSource(w)
    PROVE  Tended(m, n)'
<1> DEFINE r == CachedObject(stage[w].from)
           s == [stage[w] EXCEPT !.at = "register", !.ver = r]
           c == TargetKey(m, n)
           ws == SourceRequest(m.key)
           wm == MirrorRequest(c)
<1>1. /\ stage[w].at = "source" /\ UNCHANGED <<vars, queue>>
      /\ \E x : stage' = [stage EXCEPT ![w] = x]
      /\ IsSource(r) => stage' = [stage EXCEPT ![w] = s]
  BY DEF MirrorFetchSource, At, Finish
<1>2. UNCHANGED <<seen, head>>
  BY <1>1 DEF vars, clusterVars
<1>3. w = ws /\ SourcePending(m) => SourcePending(m)'
  BY <1>1, <1>2, SourceWaits
<1>4. ASSUME w = wm
      PROVE  /\ MirrorPending(m, n)' \/ (~Current(m, n)' /\ SourcePending(m)')
             /\ ~MirrorNext(m, n)
  <2>1. /\ m.key.id \in ID /\ m.key = KeyOf(m.key.id) /\ OptedIn(m) /\ Orderly
        /\ seen[m.key] \in Nat /\ head[m.key] \in Nat /\ seen[m.key] <= head[m.key]
        /\ n # m.key.id.ns
    BY AskedFacts
  <2>2. KeyOf(stage[w].from) = m.key /\ stage[w].from = m.key.id
    <3>1. stage[w].from \in ID /\ Beside(w.id, KeyOf(stage[w].from))
      BY <1>1, OrderlyParts DEF StageOrderly
    <3>2. KeyOf(stage[w].from) = m.key
      BY <1>4, <2>1, <3>1, RequestFacts, OneTarget
    <3>3. QED  BY <2>1, <3>1, <3>2, OrderlyKeys
  <2>3. seen[m.key] # 0
    BY <1>1, <2>2, OrderlyParts DEF StageOrderly
  <2>4. r = seen[m.key] /\ r \in 1..Len(log) /\ log[r].key = m.key
    BY <2>1, <2>2, <2>3, CacheAnswers
  <2>5. IsSource(r)
    BY <2>1, <2>4, OptedInIsSource
  <2> HIDE DEF r
  <2>6. s.at = "register" /\ s.ver = r
    BY OrderlyParts, ControllerParts DEF Stage
  <2>7. stage'[w] = s
    BY <1>1, <2>5, OrderlyParts, ControllerParts
  <2> HIDE DEF s
  <2>8. CASE seen[m.key] = head[m.key]
    BY <1>1, <1>2, <1>4, <2>4, <2>6, <2>7, <2>8 DEF MirrorPending, MirrorNext
  <2>9. CASE seen[m.key] < head[m.key]
    <3>1. ~Current(m, n)
      BY <2>9, StaleIsNotCurrent
    <3>2. ~Current(m, n)'
      BY <1>1, <3>1, TargetUnmoved DEF vars, clusterVars, engineVars
    <3>3. SourcePending(m)' /\ ~MirrorNext(m, n)
      BY <1>1, <1>2, <1>4, <2>9 DEF SourcePending, MirrorNext
    <3>4. QED  BY <3>2, <3>3
  <2>10. QED  BY <2>1, <2>8, <2>9
<1>5. QED  BY <1>1, <1>3, <1>4, StageMoves
(* Steps that are about no source and no mirror, or only forget.               *)
LEMMA ElsewhereTended ==
    ASSUME OrderlyState, NEW m \in Manifest, NEW n \in Namespace, Asked(m, n), Tended(m, n),
           NEW w \in Request, SourceMiss(w) \/ CertificateFetch(w)
    PROVE  Tended(m, n)'
<1> DEFINE ws == SourceRequest(m.key)
           wm == MirrorRequest(TargetKey(m, n))
<1>1. /\ stage[w].at = "miss" \/ w.ctl = "certificate"
      /\ \E x : stage' = [stage EXCEPT ![w] = x]
  BY DEF SourceMiss, CertificateFetch, Replicates, Finish
<1>2. UNCHANGED <<vars, queue>>
  BY DEF SourceMiss, CertificateFetch
<1>3. UNCHANGED <<seen, head, log, store, heap>>
  BY <1>2 DEF vars, clusterVars, engineVars
<1>4. ws.ctl = "source" /\ wm.ctl = "mirror"
  BY RequestFacts
<1>5. w = ws /\ SourcePending(m) => SourcePending(m)'
  BY <1>1, <1>2, <1>3, <1>4, SourceWaits
<1>6. w = wm /\ MirrorPending(m, n) => MirrorPending(m, n)'
  BY <1>1, <1>2, <1>3, <1>4, MirrorWaits
<1>7. w = wm => ~MirrorNext(m, n)
  BY <1>1, <1>4 DEF MirrorNext
<1>8. QED  BY <1>1, <1>2, <1>5, <1>6, <1>7, StageMoves

LEMMA MirrorCountTended ==
    ASSUME OrderlyState, NEW m \in Manifest, NEW n \in Namespace, Asked(m, n), Tended(m, n),
           NEW w \in Request, MirrorCount(w)
    PROVE  Tended(m, n)'
<1> DEFINE z == Cardinality(GetBySourceID(stage[w].from))
           s == [stage[w] EXCEPT !.at = "loop", !.left = z]
           c == TargetKey(m, n)
           ws == SourceRequest(m.key)
           wm == MirrorRequest(c)
<1>1. /\ stage[w].at = "count" /\ UNCHANGED <<vars, queue>>
      /\ \E x : stage' = [stage EXCEPT ![w] = x]
      /\ z # 0 => stage' = [stage EXCEPT ![w] = s]
  BY DEF MirrorCount
<1>2. UNCHANGED <<seen, head, log, store, heap>>
  BY <1>1 DEF vars, clusterVars, engineVars
<1>3. w = ws /\ SourcePending(m) => SourcePending(m)'
  BY <1>1, <1>2, SourceWaits
<1>4. w = wm /\ MirrorPending(m, n) => MirrorPending(m, n)'
  BY <1>1, <1>2, MirrorWaits
<1>5. ASSUME w = wm, MirrorNext(m, n) PROVE MirrorNext(m, n)'
  <2>1. Registered(c.id) /\ stage[w].ver = head[m.key] /\ Behind(m, n)
    BY <1>5 DEF MirrorNext, Behind
  <2>2. stage[w].from = m.key.id
    <3>1. stage[w].from \in ID /\ log[stage[w].ver].key = KeyOf(stage[w].from)
      BY <1>1, OrderlyParts DEF StageOrderly
    <3>2. log[head[m.key]].key = m.key /\ Orderly
      BY AskedFacts
    <3>3. QED  BY <2>1, <3>1, <3>2, OrderlyKeys
  <2>3. c.id \in GetBySourceID(stage[w].from)
    <3>1. c.id \in ID
      BY AskedFacts
    <3>2. QED  BY <2>1, <2>2, <3>1, RegisteredTarget DEF GetBySourceID
  <2>4. z # 0
    BY <2>3, MirrorsAreCounted, FS_EmptySet
  <2> HIDE DEF z
  <2>5. s.at = "loop" /\ s.ver = stage[w].ver
    BY OrderlyParts, ControllerParts DEF Stage
  <2>6. stage'[w] = s
    BY <1>1, <2>4, OrderlyParts, ControllerParts
  <2> HIDE DEF s
  <2>7. Behind(m, n)'
    BY <1>2, <2>1, TargetUnmoved
  <2>8. QED  BY <1>2, <1>5, <2>1, <2>5, <2>6, <2>7 DEF MirrorNext
<1>6. QED  BY <1>1, <1>3, <1>4, <1>5, StageMoves

-----------------------------------------------------------------------------
(* Calls of Execute and returns.                                              *)

(* Reconcile and call of w move on together; w had no call on the way, and     *)
(* what waited with it is in the new call.                                   *)
LEMMA CallMoves ==
    ASSUME OrderlyState, NEW m \in Manifest, NEW n \in Namespace, Asked(m, n), Tended(m, n),
           NEW w \in Request, UNCHANGED <<clusterVars, store, heap, queue>>,
           NEW x, job' = [job EXCEPT ![w] = x],
           NEW s, stage' = [stage EXCEPT ![w] = s],
           stage[w].at \in {"hit", "issued", "loop", "execute"},
           ~OnTheWay(m, n, w),
           stage[w].at # "execute" /\ stage[w].ver = head[m.key] =>
              (~Current(m, n) \/ Behind(m, n) => OnTheWay(m, n, w)')
    PROVE  Tended(m, n)'
<1> DEFINE ws == SourceRequest(m.key)
           wm == MirrorRequest(TargetKey(m, n))
<1>1. UNCHANGED <<log, head, seen, store, heap, queue>>
  BY DEF clusterVars
<1>2. /\ ws \in Request /\ wm \in Request /\ w \in Worker
      /\ \A u \in Request : u # w => stage'[u] = stage[u]
      /\ \A u \in Worker : u # w => job'[u] = job[u]
  BY RequestFacts, WorkerFields, OrderlyParts, ControllerParts, Parts DEF EngineTypeOK
<1>3. /\ Settled(m, n)' = Settled(m, n) /\ Current(m, n)' = Current(m, n)
      /\ Behind(m, n)' = Behind(m, n)
      /\ \A u \in Worker : u # w => /\ OnTheWay(m, n, u) => OnTheWay(m, n, u)'
                                    /\ InTheHandOf(m, n, u) => InTheHandOf(m, n, u)'
  BY <1>1, <1>2, TargetUnmoved
<1>4. /\ \A u \in Worker : OnTheWay(m, n, u) => OnTheWay(m, n, u)'
      /\ \A u \in Worker : InTheHandOf(m, n, u) => InTheHandOf(m, n, u)'
  BY <1>3, InHandIsOnTheWay
<1>5. SourcePending(m) => \/ SourcePending(m)' \/ Current(m, n)
                          \/ \E u \in Worker : OnTheWay(m, n, u)'
  <2>1. CASE w = ws /\ stage[w].at = "hit" /\ stage[w].ver = head[m.key]
    BY <1>2, <2>1
  <2>2. CASE ~(w = ws /\ stage[w].at = "hit" /\ stage[w].ver = head[m.key])
    BY <1>1, <1>2, <2>2 DEF SourcePending
  <2>3. QED  BY <2>1, <2>2
<1>6. MirrorPending(m, n) => MirrorPending(m, n)'
  BY <1>1, <1>2, MirrorWaits
<1>7. MirrorNext(m, n) => MirrorNext(m, n)' \/ \E u \in Worker : OnTheWay(m, n, u)'
  <2>1. CASE w = wm
    BY <1>2, <2>1 DEF MirrorNext
  <2>2. CASE w # wm
    <3>1. MirrorNext(m, n) => Behind(m, n)'
      BY <1>3 DEF MirrorNext
    <3>2. QED  BY <1>1, <1>2, <2>2, <3>1, MirrorNextWaits
  <2>3. QED  BY <2>1, <2>2
<1>8. QED  BY <1>3, <1>4, <1>5, <1>6, <1>7, Handover

LEMMA ExecuteTended ==
    ASSUME OrderlyState, NEW m \in Manifest, NEW n \in Namespace, Asked(m, n), Tended(m, n),
           NEW w \in Request, SourceHit(w) \/ CertificateExecute(w) \/ MirrorLoop(w)
    PROVE  Tended(m, n)'
<1> DEFINE v == stage[w].ver
<1>1. PICK policy, name :
        /\ Execute(w, v, policy, name) /\ UNCHANGED queue
        /\ stage[w].at \in {"hit", "issued", "loop"}
        /\ policy = CASE stage[w].at = "hit" -> log[v].policy
                      [] stage[w].at = "issued" -> stage[w].via
                      [] stage[w].at = "loop" -> MirrorView(log[v].policy)
        /\ \E s : stage' = [stage EXCEPT ![w] = s]
  <2>1. CASE SourceHit(w)
    BY <2>1 DEF SourceHit, At
  <2>2. CASE CertificateExecute(w)
    BY <2>2 DEF CertificateExecute, At
  <2>3. CASE MirrorLoop(w)
    BY <2>3 DEF MirrorLoop
  <2>4. QED  BY <2>1, <2>2, <2>3
<1> DEFINE nss == {i \in ListNamespaces \ {log[v].key.id.ns} : CanAutoMirrorToNamespace(policy, i)}
           x == [NoJob EXCEPT !.pc = AfterNamespaces(nss), !.nss = nss,
                              !.ver = v, !.policy = policy, !.name = name]
<1>2. /\ job[w].pc = "idle" /\ job' = [job EXCEPT ![w] = x]
      /\ UNCHANGED <<clusterVars, store, heap>>
  BY <1>1 DEF Execute
<1>3. ~OnTheWay(m, n, w)
  BY <1>2 DEF OnTheWay, InTheHandOf
<1>4. ASSUME v = head[m.key], ~Current(m, n) \/ Behind(m, n) PROVE OnTheWay(m, n, w)'
  <2>1. /\ n # m.key.id.ns /\ v \in 1..Len(log) /\ log[v].key = m.key /\ Wanted(m, n)
    BY <1>4, AskedFacts DEF Asked
  <2>2. policy \in {m.policy, MirrorView(m.policy)}
    <3>1. log[v].policy = m.policy
      BY <2>1, Revisions
    <3>2. stage[w].at = "issued" => stage[w].via = log[v].policy
      BY OrderlyParts DEF StageOrderly
    <3>3. QED  BY <1>1, <3>1, <3>2
  <2>3. n \in nss
    <3>1. CanAutoMirrorToNamespace(policy, n)
      BY <2>1, <2>2, WantedEitherWay
    <3>2. nsSeen = Namespace
      BY OrderlyParts DEF Steady
    <3>3. QED  BY <2>1, <3>1, <3>2 DEF ListNamespaces
  <2>4. x.pc = "auto" /\ x.nss = nss /\ x.ver = v
    BY <2>3 DEF NoJob, AfterNamespaces
  <2> HIDE DEF nss
  <2>5. job'[w] = x
    BY <1>2, WorkerFields, OrderlyParts, Parts DEF EngineTypeOK
  <2> HIDE DEF x
  <2>6. UNCHANGED <<log, head, store, heap>>
    BY <1>2 DEF clusterVars
  <2>7. Current(m, n)' = Current(m, n) /\ Behind(m, n)' = Behind(m, n)
    BY <2>6, TargetUnmoved
  <2>8. QED  BY <1>4, <2>3, <2>4, <2>5, <2>6, <2>7 DEF OnTheWay
<1> HIDE DEF x, v
<1>5. QED  BY <1>1, <1>2, <1>3, <1>4, CallMoves DEF v

LEMMA ReturnTended ==
    ASSUME OrderlyState, NEW m \in Manifest, NEW n \in Namespace, Asked(m, n), Tended(m, n),
           NEW w \in Request, SourceReturn(w) \/ MirrorReturn(w)
    PROVE  Tended(m, n)'
<1>1. /\ stage[w].at = "execute" /\ UNCHANGED queue /\ ExecuteReturns(w)
      /\ \E s : stage' = [stage EXCEPT ![w] = s]
  BY DEF SourceReturn, MirrorReturn, Finish, At
<1>2. /\ job[w].pc = "mirrors" /\ job[w].ptrs = {} /\ job' = [job EXCEPT ![w] = NoJob]
      /\ UNCHANGED <<clusterVars, store, heap>>
  BY <1>1 DEF ExecuteReturns
<1>3. ~OnTheWay(m, n, w)
  BY <1>2 DEF OnTheWay, InTheHandOf
<1>4. QED  BY <1>1, <1>2, <1>3, CallMoves
-----------------------------------------------------------------------------
(* Steps of Execute that only move the call.                                  *)

LEMMA LocalTended ==
    ASSUME OrderlyState, NEW m \in Manifest, NEW n \in Namespace, Asked(m, n), Tended(m, n),
           NEW w \in Request, UNCHANGED controllerVars,
           UNCHANGED <<log, head, seen, store, heap>>,
           NEW x, job' = [job EXCEPT ![w] = x],
           OnTheWay(m, n, w) => OnTheWay(m, n, w)' \/ Settled(m, n) \/ MirrorPending(m, n),
           InTheHandOf(m, n, w) => InTheHandOf(m, n, w)' \/ Settled(m, n) \/ MirrorPending(m, n)
    PROVE  Tended(m, n)'
<1>1. UNCHANGED <<queue, stage>>
  BY DEF controllerVars
<1>2. \A u \in Worker : u # w => job'[u] = job[u]
  BY OrderlyParts, Parts DEF EngineTypeOK
<1>3. /\ Settled(m, n)' = Settled(m, n) /\ Current(m, n)' = Current(m, n)
      /\ Behind(m, n)' = Behind(m, n)
      /\ \A u \in Worker : u # w => /\ OnTheWay(m, n, u) => OnTheWay(m, n, u)'
                                    /\ InTheHandOf(m, n, u) => InTheHandOf(m, n, u)'
  BY <1>2, TargetUnmoved
<1>4. SourcePending(m) => SourcePending(m)'
  BY <1>1, SourceWaits
<1>5. MirrorPending(m, n) => MirrorPending(m, n)'
  BY <1>1, MirrorWaits
<1>6. MirrorNext(m, n) => MirrorNext(m, n)'
  BY <1>1, <1>3 DEF MirrorNext
<1>7. QED  BY <1>3, <1>4, <1>5, <1>6, Handover

LEMMA CreateIfNotExistsTended ==
    ASSUME OrderlyState, NEW m \in Manifest, NEW n \in Namespace, Asked(m, n), Tended(m, n),
           NEW w \in Request, UNCHANGED controllerVars,
           NEW i \in Namespace, CreateAutoMirrorIfNotExists(w, i)
    PROVE  Tended(m, n)'
<1> DEFINE nss == job[w].nss \ {i}
           x == [job[w] EXCEPT !.nss = nss, !.pc = AfterNamespaces(nss)]
           y == [job[w] EXCEPT !.nss = nss, !.pc = "conflict", !.at = TargetID(w, i)]
           c == TargetKey(m, n)
<1>1. /\ job[w].pc = "auto" /\ i \in job[w].nss /\ UNCHANGED <<clusterVars, store, heap>>
      /\ job' = [job EXCEPT ![w] = IF Registered(TargetID(w, i)) THEN x ELSE y]
  BY DEF CreateAutoMirrorIfNotExists
<1>2. w \in Worker /\ job[w] \in Job /\ UNCHANGED <<log, head, seen, store, heap>>
  BY <1>1, WorkerFields, OrderlyParts, Parts DEF clusterVars
<1>3. /\ x.ver = job[w].ver /\ x.nss = nss /\ x.pc = AfterNamespaces(nss)
      /\ y.ver = job[w].ver /\ y.nss = nss /\ y.pc = "conflict" /\ y.at = TargetID(w, i)
  BY <1>2 DEF Job
<1>4. job'[w] = IF Registered(TargetID(w, i)) THEN x ELSE y
  BY <1>1, <1>2, OrderlyParts, Parts DEF EngineTypeOK
<1> HIDE DEF x, y
<1>5. Current(m, n)' = Current(m, n) /\ Behind(m, n)' = Behind(m, n)
  BY <1>2, TargetUnmoved
<1>6. ~InTheHandOf(m, n, w)
  BY <1>1 DEF InTheHandOf
<1>7. ASSUME OnTheWay(m, n, w) PROVE OnTheWay(m, n, w)'
  <2>1. job[w].ver = head[m.key]
    BY <1>7 DEF OnTheWay
  <2>2. CASE Behind(m, n)
    BY <1>2, <1>3, <1>4, <1>5, <2>1, <2>2 DEF OnTheWay, AfterNamespaces
  <2>3. CASE ~Behind(m, n)
    <3>1. n \in job[w].nss /\ ~Current(m, n)
      BY <1>1, <1>6, <1>7, <2>3 DEF OnTheWay
    <3>2. CASE n = i
      <4>1. TargetID(w, n) = c.id
        BY <1>1, <1>2, <2>1, CurrentCall
      <4>2. ~Registered(c.id)
        BY <2>3, <3>1 DEF Behind, Current
      <4>3. QED  BY <1>2, <1>3, <1>4, <1>5, <2>1, <3>1, <3>2, <4>1, <4>2 DEF OnTheWay
    <3>3. CASE n # i
      <4>1. n \in nss /\ AfterNamespaces(nss) = "auto"
        BY <3>1, <3>3 DEF AfterNamespaces
      <4>2. QED  BY <1>2, <1>3, <1>4, <1>5, <2>1, <3>1, <4>1 DEF OnTheWay
    <3>4. QED  BY <3>2, <3>3
  <2>4. QED  BY <2>2, <2>3
<1>8. QED  BY <1>1, <1>2, <1>6, <1>7, LocalTended

LEMMA CheckForConflictsTended ==
    ASSUME OrderlyState, NEW m \in Manifest, NEW n \in Namespace, Asked(m, n), Tended(m, n),
           NEW w \in Request, UNCHANGED controllerVars, CheckForConflicts(w)
    PROVE  Tended(m, n)'
<1> DEFINE x == [job[w] EXCEPT !.pc = AfterNamespaces(job[w].nss), !.at = NoID]
           y == [job[w] EXCEPT !.pc = "create"]
           c == TargetKey(m, n)
           t == [kind |-> SourceKey(w).kind, id |-> job[w].at]
<1>1. /\ job[w].pc = "conflict" /\ UNCHANGED <<clusterVars, store, heap>>
      /\ job' = [job EXCEPT ![w] = IF InTheWay(seen[t]) THEN x ELSE y]
  BY DEF CheckForConflicts, NextNamespace, Go
<1>2. w \in Worker /\ job[w] \in Job /\ UNCHANGED <<log, head, seen, store, heap>>
  BY <1>1, WorkerFields, OrderlyParts, Parts DEF clusterVars
<1>3. /\ x.ver = job[w].ver /\ x.nss = job[w].nss /\ x.pc = AfterNamespaces(job[w].nss)
      /\ y.ver = job[w].ver /\ y.nss = job[w].nss /\ y.pc = "create" /\ y.at = job[w].at
  BY <1>2 DEF Job
<1>4. job'[w] = IF InTheWay(seen[t]) THEN x ELSE y
  BY <1>1, <1>2, OrderlyParts, Parts DEF EngineTypeOK
<1> HIDE DEF x, y
<1>5. Current(m, n)' = Current(m, n) /\ Behind(m, n)' = Behind(m, n)
  BY <1>2, TargetUnmoved
<1>6. ~InTheHandOf(m, n, w)
  BY <1>1 DEF InTheHandOf
<1>7. ASSUME OnTheWay(m, n, w) PROVE OnTheWay(m, n, w)'
  <2>1. job[w].ver = head[m.key]
    BY <1>7 DEF OnTheWay
  <2>2. CASE Behind(m, n)
    BY <1>2, <1>3, <1>4, <1>5, <2>1, <2>2 DEF OnTheWay, AfterNamespaces
  <2>3. CASE n \in job[w].nss /\ ~Current(m, n)
    BY <1>2, <1>3, <1>4, <1>5, <2>1, <2>3 DEF OnTheWay, AfterNamespaces
  <2>4. CASE job[w].at = c.id /\ ~Current(m, n)
    <3>1. t = c
      <4>1. SourceKey(w) = m.key
        BY <1>1, <1>2, <2>1, CurrentCall
      <4>2. m.key.kind = "Secret" /\ c = KeyOf(c.id)
        BY AskedFacts, OrderlyKeys
      <4>3. QED  BY <2>4, <4>1, <4>2 DEF KeyOf
    <3>2. c \in Key /\ seen[c] \in 0..Len(log) /\ (seen[c] # 0 => log[seen[c]].key = c)
      BY AskedFacts, OrderlyParts, Parts DEF CacheSound
    <3>3. ~InTheWay(seen[t])
      <4>1. CASE seen[c] = 0
        BY <3>1, <4>1 DEF InTheWay, Live
      <4>2. CASE seen[c] # 0
        <5>1. seen[c] \in 1..Len(log) /\ log[seen[c]].key = c
          BY <3>2, <4>2
        <5>2. QED  BY <3>1, <5>1, TargetIsCopy DEF InTheWay
      <4>3. QED  BY <4>1, <4>2
    <3>4. QED  BY <1>2, <1>3, <1>4, <1>5, <2>1, <2>4, <3>3 DEF OnTheWay
  <2>5. QED  BY <1>1, <1>6, <1>7, <2>2, <2>3, <2>4 DEF OnTheWay
<1>8. QED  BY <1>1, <1>2, <1>6, <1>7, LocalTended

LEMMA ListMirrorsTended ==
    ASSUME OrderlyState, NEW m \in Manifest, NEW n \in Namespace, Asked(m, n), Tended(m, n),
           NEW w \in Request, UNCHANGED controllerVars, CleanupAutoMirrors(w) \/ ListMirrors(w)
    PROVE  Tended(m, n)'
<1> DEFINE ids == {id \in GetBySourceID(SourceID(w)) :
                     ~CanAutoMirrorToNamespace(job[w].policy, id.ns)}
           ptrs == {store[id] : id \in GetBySourceID(SourceID(w))}
           x == [job[w] EXCEPT !.pc = "forget", !.ids = ids]
           y == [job[w] EXCEPT !.pc = "mirrors", !.ptrs = ptrs]
           c == TargetKey(m, n)
<1>1. /\ UNCHANGED <<clusterVars, store, heap>>
      /\ \/ job[w].pc = "cleanup" /\ job' = [job EXCEPT ![w] = x]
         \/ job[w].pc = "forget" /\ job' = [job EXCEPT ![w] = y]
  BY DEF CleanupAutoMirrors, ListMirrors
<1>2. w \in Worker /\ job[w] \in Job /\ UNCHANGED <<log, head, seen, store, heap>>
  BY <1>1, WorkerFields, OrderlyParts, Parts DEF clusterVars
<1>3. /\ x.ver = job[w].ver /\ x.pc = "forget"
      /\ y.ver = job[w].ver /\ y.pc = "mirrors" /\ y.ptrs = ptrs
  BY <1>2 DEF Job
<1>4. \/ job[w].pc = "cleanup" /\ job'[w] = x
      \/ job[w].pc = "forget" /\ job'[w] = y
  BY <1>1, <1>2, OrderlyParts, Parts DEF EngineTypeOK
<1> HIDE DEF x, y
<1>5. ~InTheHandOf(m, n, w) /\ \E z : job' = [job EXCEPT ![w] = z]
  BY <1>1 DEF InTheHandOf
<1>6. ASSUME OnTheWay(m, n, w) PROVE OnTheWay(m, n, w)'
  <2>1. job[w].ver = head[m.key] /\ Behind(m, n)
    BY <1>1, <1>5, <1>6 DEF OnTheWay
  <2>2. CASE job[w].pc = "cleanup" /\ job'[w] = x
    <3>1. Behind(m, n)'
      BY <1>2, <2>1, TargetUnmoved
    <3>2. QED  BY <1>2, <1>3, <2>1, <2>2, <3>1 DEF OnTheWay
  <2>3. CASE job[w].pc = "forget" /\ job'[w] = y
    <3>1. SourceID(w) = m.key.id /\ c.id \in ID
      BY <1>2, <2>1, <2>3, CurrentCall, AskedFacts
    <3>2. /\ heap[store[c.id]].id = c.id /\ heap[store[c.id]].source = m.key.id
          /\ Registered(c.id) /\ heap[store[c.id]].version # head[m.key]
      BY <2>1, RegisteredTarget DEF Behind
    <3>3. store[c.id] \in ptrs
      BY <3>1, <3>2 DEF GetBySourceID
    <3>4. Due(m, n, store[c.id])'
      BY <1>2, <3>2 DEF Due
    <3>5. PICK p \in ptrs : p = store[c.id] /\ Due(m, n, p)'
      BY <1>2, <3>3, <3>4 DEF Due
    <3> HIDE DEF ptrs
    <3>6. QED  BY <1>2, <1>3, <2>1, <2>3, <3>5 DEF OnTheWay
  <2>4. QED  BY <1>4, <2>2, <2>3
<1>7. QED  BY <1>2, <1>5, <1>6, LocalTended
LEMMA ReadSourceTended ==
    ASSUME OrderlyState, NEW m \in Manifest, NEW n \in Namespace, Asked(m, n), Tended(m, n),
           NEW w \in Request, UNCHANGED controllerVars, NEW p \in Ptr, ReadSource(w, p)
    PROVE  Tended(m, n)'
<1> DEFINE r == seen[SourceKey(w)]
           x == [job[w] EXCEPT !.ptrs = job[w].ptrs \ {p}]
           y == [job[w] EXCEPT !.ptrs = job[w].ptrs \ {p}, !.pc = "check", !.cur = p, !.dat = r]
<1>1. /\ job[w].pc = "mirrors" /\ p \in job[w].ptrs /\ UNCHANGED <<clusterVars, store, heap>>
      /\ job' = [job EXCEPT ![w] = IF Live(r) THEN y ELSE x]
  BY DEF ReadSource
<1>2. w \in Worker /\ job[w] \in Job /\ UNCHANGED <<log, head, seen, store, heap>>
  BY <1>1, WorkerFields, OrderlyParts, Parts DEF clusterVars
<1>3. y.ver = job[w].ver /\ y.pc = "check" /\ y.ptrs = job[w].ptrs \ {p} /\ y.cur = p
  BY <1>2 DEF Job
<1>4. job'[w] = IF Live(r) THEN y ELSE x
  BY <1>1, <1>2, OrderlyParts, Parts DEF EngineTypeOK
<1> HIDE DEF x, y
<1>5. ~InTheHandOf(m, n, w)
  BY <1>1 DEF InTheHandOf
<1>6. ASSUME OnTheWay(m, n, w) PROVE OnTheWay(m, n, w)'
  <2>1. job[w].ver = head[m.key] /\ \E q \in job[w].ptrs : Due(m, n, q)
    BY <1>1, <1>5, <1>6 DEF OnTheWay
  <2>2. PICK q \in job[w].ptrs : Due(m, n, q)
    BY <2>1
  <2>3. Due(m, n, q)'
    BY <1>2, <2>2 DEF Due
  <2>4. job'[w] = y
    BY <1>1, <1>2, <1>4, <2>1, CurrentCall
  <2>5. CASE q = p
    <3>1. p # Nil
      BY EngineAssumption DEF Nil
    <3>2. Due(m, n, job[w].cur)'
      BY <1>3, <2>3, <2>4, <2>5 DEF Due
    <3>3. QED  BY <1>2, <1>3, <2>1, <2>4, <3>1, <3>2 DEF OnTheWay
  <2>6. CASE q # p
    BY <1>2, <1>3, <2>1, <2>3, <2>4, <2>6 DEF OnTheWay
  <2>7. QED  BY <2>5, <2>6
<1>7. QED  BY <1>1, <1>2, <1>5, <1>6, LocalTended

(* While a mirror is in hand, the ones that are left stay on the list.         *)
LEMMA MirrorInHand ==
    ASSUME OrderlyState, NEW m \in Manifest, NEW n \in Namespace, NEW w \in Worker,
           job[w].pc \in {"check", "set", "get", "write"}, UNCHANGED <<head, heap>>,
           job'[w].ver = job[w].ver, job'[w].ptrs = job[w].ptrs,
           job'[w].pc \in {"mirrors", "check", "set", "get", "write"}, OnTheWay(m, n, w)
    PROVE  \/ OnTheWay(m, n, w)'
           \/ job[w].pc = "check" /\ job[w].cur # Nil /\ Due(m, n, job[w].cur)
           \/ InTheHandOf(m, n, w)
<1>1. \A p : Due(m, n, p)' = Due(m, n, p)
  BY DEF Due
<1>2. QED  BY <1>1 DEF OnTheWay

LEMMA ReflectTended ==
    ASSUME OrderlyState, NEW m \in Manifest, NEW n \in Namespace, Asked(m, n), Tended(m, n),
           NEW w \in Request, UNCHANGED controllerVars, Reflect(w)
    PROVE  Tended(m, n)'
<1> DEFINE x == [job[w] EXCEPT !.pc = "mirrors", !.cur = Nil, !.dat = 0, !.got = 0]
           y == [job[w] EXCEPT !.pc = "set"]
           e == heap[job[w].cur]
           set == CanReflectToNamespace(job[w].policy, e.id.ns) /\ e.version # job[w].ver
<1>1. /\ job[w].pc = "check" /\ UNCHANGED <<clusterVars, store, heap>>
      /\ job' = [job EXCEPT ![w] = IF set THEN y ELSE x]
  BY DEF Reflect, NextMirror, Go
<1>2. w \in Worker /\ job[w] \in Job /\ UNCHANGED <<log, head, seen, store, heap>>
  BY <1>1, WorkerFields, OrderlyParts, Parts DEF clusterVars
<1>3. /\ x.ver = job[w].ver /\ x.pc = "mirrors" /\ x.ptrs = job[w].ptrs
      /\ y.ver = job[w].ver /\ y.pc = "set" /\ y.ptrs = job[w].ptrs /\ y.cur = job[w].cur
  BY <1>2, NextMirrorFields DEF Job
<1>4. job'[w] = IF set THEN y ELSE x
  BY <1>1, <1>2, OrderlyParts, Parts DEF EngineTypeOK
<1> HIDE DEF x, y
<1>5. ~InTheHandOf(m, n, w)
  BY <1>1 DEF InTheHandOf
<1>6. ASSUME OnTheWay(m, n, w) PROVE OnTheWay(m, n, w)'
  <2>1. CASE job[w].cur # Nil /\ Due(m, n, job[w].cur)
    <3>1. job[w].ver = head[m.key]
      BY <1>6 DEF OnTheWay
    <3>2. CanReflectToNamespace(job[w].policy, n)
      BY <1>1, <1>2, <3>1, CurrentCall
    <3>3. e.id = TargetKey(m, n).id /\ e.version # head[m.key] /\ e.id.ns = n
      <4>1. TargetKey(m, n).id.ns = n
        BY AskedFacts
      <4>2. QED  BY <2>1, <4>1 DEF Due
    <3>4. job'[w] = y
      BY <1>4, <3>1, <3>2, <3>3
    <3>5. InTheHandOf(m, n, w)'
      BY <1>2, <1>3, <2>1, <3>1, <3>3, <3>4 DEF InTheHandOf
    <3>6. QED  BY <3>5, InHandIsOnTheWay
  <2>2. CASE ~(job[w].cur # Nil /\ Due(m, n, job[w].cur))
    BY <1>1, <1>2, <1>3, <1>4, <1>5, <1>6, <2>2, MirrorInHand
  <2>3. QED  BY <2>1, <2>2
<1>7. QED  BY <1>1, <1>2, <1>5, <1>6, LocalTended

(* The key of the mirror in hand.                                              *)
LEMMA MirrorKeyIsTarget ==
    ASSUME OrderlyState, NEW m \in Manifest, NEW n \in Namespace, Asked(m, n), NEW w \in Worker,
           job[w].pc \in {"get", "write"}, InTheHandOf(m, n, w)
    PROVE  MirrorKey(w) = TargetKey(m, n)
<1>1. MirrorKey(w) \in Key /\ MirrorKey(w).id = TargetKey(m, n).id
  BY OrderlyParts, InHand DEF InTheHandOf, MirrorKey
<1>2. TargetKey(m, n) = KeyOf(TargetKey(m, n).id) /\ Orderly
  BY AskedFacts
<1>3. QED  BY <1>1, <1>2, OrderlyKeys

LEMMA GetMirrorTended ==
    ASSUME OrderlyState, NEW m \in Manifest, NEW n \in Namespace, Asked(m, n), Tended(m, n),
           NEW w \in Request, UNCHANGED controllerVars, GetMirror(w)
    PROVE  Tended(m, n)'
<1> DEFINE r == seen[MirrorKey(w)]
           got == IF Live(r) THEN r ELSE 0
           x == [job[w] EXCEPT !.pc = "mirrors", !.cur = Nil, !.dat = 0, !.got = 0]
           y == [job[w] EXCEPT !.pc = "write", !.got = got]
           c == TargetKey(m, n)
<1>1. /\ job[w].pc = "get" /\ UNCHANGED <<clusterVars, store, heap>>
      /\ job' = [job EXCEPT ![w] = IF Live(r) /\ log[r].ver = job[w].ver THEN x ELSE y]
  BY DEF GetMirror, NextMirror
<1>2. w \in Worker /\ job[w] \in Job /\ UNCHANGED <<log, head, seen, store, heap>>
  BY <1>1, WorkerFields, OrderlyParts, Parts DEF clusterVars
<1> HIDE DEF got
<1>3. /\ x.ver = job[w].ver /\ x.pc = "mirrors" /\ x.ptrs = job[w].ptrs
      /\ y.ver = job[w].ver /\ y.pc = "write" /\ y.ptrs = job[w].ptrs /\ y.cur = job[w].cur
      /\ y.got = got
  BY <1>2, NextMirrorFields DEF Job
<1>4. job'[w] = IF Live(r) /\ log[r].ver = job[w].ver THEN x ELSE y
  BY <1>1, <1>2, OrderlyParts, Parts DEF EngineTypeOK
<1> HIDE DEF x, y
<1>5. ASSUME InTheHandOf(m, n, w)
      PROVE  InTheHandOf(m, n, w)' \/ Settled(m, n) \/ MirrorPending(m, n)
  <2>1. r = seen[c]
    BY <1>1, <1>2, <1>5, MirrorKeyIsTarget
  <2>2. /\ seen[c] \in Nat /\ head[c] \in Nat /\ seen[c] <= head[c]
        /\ Live(seen[c]) = (seen[c] # 0)
    <3>1. c.id \in ID /\ c = KeyOf(c.id)
      BY AskedFacts
    <3>2. Live(seen[c]) = (seen[c] # 0)
      BY <3>1, CacheAnswers
    <3>3. seen[c] \in Nat /\ head[c] \in Nat /\ seen[c] <= head[c]
      BY AskedFacts
    <3>4. QED  BY <3>2, <3>3
  <2>3. CASE seen[c] < head[c]
    BY <2>3 DEF MirrorPending
  <2>4. CASE seen[c] = head[c]
    <3>1. job[w].ver = head[m.key] /\ job[w].cur # Nil /\ heap[job[w].cur].id = c.id
      BY <1>5 DEF InTheHandOf
    <3>2. CASE Live(r) /\ log[r].ver = job[w].ver
      BY <2>1, <2>2, <2>4, <3>1, <3>2 DEF Settled
    <3>3. CASE ~(Live(r) /\ log[r].ver = job[w].ver)
      <4>1. got = head[c]
        BY <2>1, <2>2, <2>4 DEF got
      <4>2. QED  BY <1>2, <1>3, <1>4, <3>1, <3>3, <4>1 DEF InTheHandOf
    <3>4. QED  BY <3>2, <3>3
  <2>5. QED  BY <2>2, <2>3, <2>4
<1>6. ASSUME OnTheWay(m, n, w)
      PROVE  OnTheWay(m, n, w)' \/ Settled(m, n) \/ MirrorPending(m, n)
  <2>1. OnTheWay(m, n, w)' \/ InTheHandOf(m, n, w)
    BY <1>1, <1>2, <1>3, <1>4, <1>6, MirrorInHand
  <2>2. QED  BY <1>5, <2>1, InHandIsOnTheWay
<1>7. QED  BY <1>1, <1>2, <1>5, <1>6, LocalTended

(* A write that is about to bring the current revision is not rejected, and     *)
(* only one that fails on its way is lost.                                    *)
LEMMA WriteDropped ==
    ASSUME OrderlyState, NEW m \in Manifest, NEW n \in Namespace, Asked(m, n), Tended(m, n),
           NEW w \in Request, UNCHANGED controllerVars, WriteRejected(w) \/ WriteFails(w),
           WriteFails(w) => heap[job[w].cur].id # TargetKey(m, n).id
    PROVE  Tended(m, n)'
<1> DEFINE x == [job[w] EXCEPT !.pc = "mirrors", !.cur = Nil, !.dat = 0, !.got = 0]
           c == TargetKey(m, n)
<1>1. /\ job[w].pc = "write" /\ UNCHANGED <<log, head, seen, store, heap>>
      /\ job' = [job EXCEPT ![w] = x]
  BY DEF WriteRejected, WriteFails, NextMirror, clusterVars
<1>2. w \in Worker /\ job[w] \in Job
  BY WorkerFields, OrderlyParts, Parts
<1>3. x.ver = job[w].ver /\ x.pc = "mirrors" /\ x.ptrs = job[w].ptrs
  BY <1>2, NextMirrorFields
<1>4. job'[w] = x
  BY <1>1, <1>2, OrderlyParts, Parts DEF EngineTypeOK
<1> HIDE DEF x
<1>5. ~InTheHandOf(m, n, w)
  <2> SUFFICES ASSUME InTheHandOf(m, n, w) PROVE FALSE
    OBVIOUS
  <2>1. job[w].got = head[c] /\ heap[job[w].cur].id = c.id
    BY <1>1 DEF InTheHandOf
  <2>2. WriteRejected(w)
    BY <2>1
  <2>3. ~Accepted(c, head[c])
    BY <1>1, <1>2, <2>1, <2>2, MirrorKeyIsTarget DEF WriteRejected
  <2>4. phase[c.id.ns] = "active"
    <3>1. c.id.ns = n
      BY AskedFacts
    <3>2. QED  BY <3>1, OrderlyParts DEF Steady
  <2>5. QED  BY <2>3, <2>4 DEF Accepted, Live
<1>6. OnTheWay(m, n, w) => OnTheWay(m, n, w)'
  BY <1>1, <1>2, <1>3, <1>4, <1>5, MirrorInHand
<1>7. QED  BY <1>1, <1>5, <1>6, LocalTended
-----------------------------------------------------------------------------
(* Steps that change the store or a Mirror.                                   *)

(* As long as the Mirror of the target does not get the current version.       *)
LEMMA StoreMoves ==
    ASSUME OrderlyState, NEW m \in Manifest, NEW n \in Namespace, Asked(m, n), Tended(m, n),
           NEW w \in Request, UNCHANGED <<clusterVars, queue>>,
           \A u \in Worker : u # w => job'[u] = job[u],
           \A u \in Request : u # w => stage'[u] = stage[u],
           stage'[w] = stage[w] \/ stage[w].at \in {"adopt", "orphan", "register"},
           w = MirrorRequest(TargetKey(m, n)) /\ stage[w].at = "register" /\ stage'[w] # stage[w] =>
              \/ ~MirrorPending(m, n) \/ MirrorPending(m, n)'
              \/ ~Current(m, n)' /\ MirrorNext(m, n)',
           Current(m, n)' => Current(m, n), Behind(m, n) => Behind(m, n)',
           \A u \in Worker : \A p \in Held(u) :
              /\ heap'[p].id = heap[p].id
              /\ heap[p].id = TargetKey(m, n).id /\ heap[p].version # head[m.key] =>
                    heap'[p].version # head[m.key],
           OnTheWay(m, n, w) => OnTheWay(m, n, w)',
           InTheHandOf(m, n, w) => InTheHandOf(m, n, w)'
    PROVE  Tended(m, n)'
<1> DEFINE wm == MirrorRequest(TargetKey(m, n))
<1>1. UNCHANGED <<log, head, seen>>
  BY DEF clusterVars
<1>2. SourceRequest(m.key) \in Request /\ wm \in Request
  BY RequestFacts
<1>3. ASSUME NEW u \in Worker
      PROVE  /\ OnTheWay(m, n, u) => OnTheWay(m, n, u)'
             /\ InTheHandOf(m, n, u) => InTheHandOf(m, n, u)'
  <2>1. CASE u # w
    BY <1>1, <2>1, CallUnmoved
  <2>2. QED  BY <2>1
<1>4. Settled(m, n)' = Settled(m, n)
  BY <1>1 DEF Settled
<1>5. SourcePending(m) => SourcePending(m)'
  BY <1>1, <1>2, SourceWaits
<1>6. MirrorPending(m, n) => \/ MirrorPending(m, n)'
                             \/ ~Current(m, n)' /\ MirrorNext(m, n)'
  <2>1. CASE w = wm /\ stage[w].at = "register" /\ stage'[w] # stage[w]
    BY <2>1
  <2>2. CASE ~(w = wm /\ stage[w].at = "register" /\ stage'[w] # stage[w])
    BY <1>1, <1>2, <2>2, MirrorWaits
  <2>3. QED  BY <2>1, <2>2
<1>7. MirrorNext(m, n) => MirrorNext(m, n)'
  <2>1. MirrorNext(m, n) => Behind(m, n)'
    BY DEF MirrorNext
  <2>2. QED  BY <1>1, <1>2, <2>1, MirrorNextWaits
<1>8. QED  BY <1>3, <1>4, <1>5, <1>6, <1>7, Handover

(* The registration of another ID leaves the Mirror of the target alone, that   *)
(* of its own gives it a Mirror that is due.                                  *)
LEMMA RegisterAtTarget ==
    ASSUME OrderlyState, NEW m \in Manifest, NEW n \in Namespace, Asked(m, n), UNCHANGED head,
           NEW id \in ID, NEW source \in ID, NEW kind \in Kind, NEW auto \in BOOLEAN,
           Register(id, source, kind, auto)
    PROVE  /\ Current(m, n)' => Current(m, n)
           /\ Behind(m, n) => Behind(m, n)'
           /\ id = TargetKey(m, n).id => Behind(m, n)' /\ ~Current(m, n)'
           /\ \A u \in Worker : \A p \in Held(u) : heap'[p] = heap[p]
<1> DEFINE c == TargetKey(m, n)
<1>1. /\ store'[id] # Nil /\ heap'[store'[id]].version = 0
      /\ \A i \in ID : i # id => /\ store'[i] = store[i]
                                 /\ store[i] # Nil => heap'[store[i]] = heap[store[i]]
      /\ \A u \in Worker : \A p \in Held(u) : heap'[p] = heap[p]
  BY OrderlyParts, RegisterEffect
<1>2. c.id \in ID /\ head[m.key] # 0
  BY AskedFacts DEF Asked
<1>3. CASE id = c.id
  <2>1. Behind(m, n)' /\ ~Current(m, n)'
    BY <1>1, <1>2, <1>3 DEF Behind, Current, Registered
  <2>2. QED  BY <1>1, <2>1
<1>4. CASE id # c.id
  <2>1. store'[c.id] = store[c.id] /\ (store[c.id] # Nil => heap'[store[c.id]] = heap[store[c.id]])
    BY <1>1, <1>2, <1>4
  <2>2. Behind(m, n)' = Behind(m, n) /\ Current(m, n)' = Current(m, n)
    BY <2>1 DEF Behind, Current, Registered
  <2>3. QED  BY <1>1, <1>4, <2>2
<1>5. QED  BY <1>3, <1>4

LEMMA UnregisterElsewhere ==
    ASSUME OrderlyState, NEW m \in Manifest, NEW n \in Namespace, Asked(m, n), UNCHANGED head,
           NEW id \in ID, id # TargetKey(m, n).id, Unregister(id)
    PROVE  Behind(m, n)' = Behind(m, n) /\ Current(m, n)' = Current(m, n)
<1> DEFINE c == TargetKey(m, n)
<1>1. store' = [store EXCEPT ![id] = Nil] /\ heap' = heap
  BY DEF Unregister
<1>2. c.id \in ID /\ store \in [ID -> Ptr \cup {Nil}]
  BY AskedFacts, OrderlyParts, Parts
<1>3. store'[c.id] = store[c.id]
  BY <1>1, <1>2
<1>4. QED  BY <1>1, <1>3 DEF Behind, Current, Registered

LEMMA CreateAutoMirrorTended ==
    ASSUME OrderlyState, NEW m \in Manifest, NEW n \in Namespace, Asked(m, n), Tended(m, n),
           NEW w \in Request, UNCHANGED controllerVars, CreateAutoMirror(w)
    PROVE  Tended(m, n)'
<1> DEFINE x == [job[w] EXCEPT !.pc = AfterNamespaces(job[w].nss), !.at = NoID]
           c == TargetKey(m, n)
<1>1. /\ job[w].pc = "create" /\ UNCHANGED clusterVars /\ job' = [job EXCEPT ![w] = x]
      /\ Register(job[w].at, SourceID(w), SourceKey(w).kind, TRUE)
  BY DEF CreateAutoMirror, NextNamespace
<1>2. w \in Worker /\ job[w] \in Job /\ UNCHANGED <<head, queue, stage>>
  BY <1>1, WorkerFields, OrderlyParts, Parts DEF clusterVars, controllerVars
<1>3. job[w].at \in ID /\ SourceID(w) \in ID /\ SourceKey(w).kind \in Kind
  BY <1>1, <1>2, CallFacts, KeyFields, OrderlyParts, Parts DEF JobSound
<1>4. /\ Current(m, n)' => Current(m, n)
      /\ Behind(m, n) => Behind(m, n)'
      /\ job[w].at = c.id => Behind(m, n)' /\ ~Current(m, n)'
      /\ \A u \in Worker : \A p \in Held(u) : heap'[p] = heap[p]
  BY <1>1, <1>2, <1>3, RegisterAtTarget
<1>5. x.ver = job[w].ver /\ x.nss = job[w].nss /\ x.pc = AfterNamespaces(job[w].nss)
  BY <1>2 DEF Job
<1>6. job'[w] = x /\ \A u \in Worker : u # w => job'[u] = job[u]
  BY <1>1, <1>2, OrderlyParts, Parts DEF EngineTypeOK
<1> HIDE DEF x
<1>7. ~InTheHandOf(m, n, w)
  BY <1>1 DEF InTheHandOf
<1>8. ASSUME OnTheWay(m, n, w) PROVE OnTheWay(m, n, w)'
  <2>1. job[w].ver = head[m.key]
    BY <1>8 DEF OnTheWay
  <2>2. CASE Behind(m, n)'
    BY <1>2, <1>5, <1>6, <2>1, <2>2 DEF OnTheWay, AfterNamespaces
  <2>3. CASE ~Behind(m, n)'
    <3>1. n \in job[w].nss /\ ~Current(m, n)
      BY <1>1, <1>4, <1>7, <1>8, <2>3 DEF OnTheWay
    <3>2. AfterNamespaces(job[w].nss) = "auto"
      BY <3>1 DEF AfterNamespaces
    <3>3. QED  BY <1>2, <1>4, <1>5, <1>6, <2>1, <3>1, <3>2 DEF OnTheWay
  <2>4. QED  BY <2>2, <2>3
<1>9. QED  BY <1>1, <1>2, <1>4, <1>6, <1>7, <1>8, StoreMoves

(* No call forgets a mirror that the policy of the original asks for.          *)
LEMMA ForgetMirrorTended ==
    ASSUME OrderlyState, NEW m \in Manifest, NEW n \in Namespace, Asked(m, n), Tended(m, n),
           NEW w \in Request, UNCHANGED controllerVars, NEW id \in ID, ForgetMirror(w, id)
    PROVE  Tended(m, n)'
<1> DEFINE x == [job[w] EXCEPT !.ids = job[w].ids \ {id}]
           c == TargetKey(m, n)
<1>1. /\ job[w].pc = "forget" /\ id \in job[w].ids /\ UNCHANGED clusterVars /\ Unregister(id)
      /\ job' = [job EXCEPT ![w] = x] /\ heap' = heap
  BY DEF ForgetMirror, Unregister
<1>2. w \in Worker /\ job[w] \in Job /\ UNCHANGED <<head, queue, stage>>
  BY <1>1, WorkerFields, OrderlyParts, Parts DEF clusterVars, controllerVars
<1>3. id # c.id
  <2> SUFFICES ASSUME id = c.id PROVE FALSE
    OBVIOUS
  <2>1. Beside(id, SourceKey(w)) /\ ~CanAutoMirrorToNamespace(job[w].policy, id.ns)
    BY <1>1, <1>2, OrderlyParts DEF JobOrderly
  <2>2. SourceKey(w) = m.key
    BY <1>1, <1>2, <2>1, HeldTarget
  <2>3. PICK o \in Manifest : /\ o.key = SourceKey(w)
                              /\ job[w].policy \in {o.policy, MirrorView(o.policy)}
    BY <1>1, <1>2, CallFacts
  <2>4. o = m
    BY <2>2, <2>3, OrderlyParts, OneOriginal
  <2>5. CanAutoMirrorToNamespace(job[w].policy, n)
    BY <2>3, <2>4, WantedEitherWay DEF Asked
  <2>6. id.ns = n
    BY AskedFacts
  <2>7. QED  BY <2>1, <2>5, <2>6
<1>4. Behind(m, n)' = Behind(m, n) /\ Current(m, n)' = Current(m, n)
  BY <1>1, <1>2, <1>3, UnregisterElsewhere
<1>5. x.ver = job[w].ver /\ x.pc = "forget"
  BY <1>1, <1>2 DEF Job
<1>6. job'[w] = x /\ \A u \in Worker : u # w => job'[u] = job[u]
  BY <1>1, <1>2, OrderlyParts, Parts DEF EngineTypeOK
<1> HIDE DEF x
<1>7. ~InTheHandOf(m, n, w)
  BY <1>1 DEF InTheHandOf
<1>8. OnTheWay(m, n, w) => OnTheWay(m, n, w)'
  BY <1>1, <1>2, <1>4, <1>5, <1>6, <1>7 DEF OnTheWay
<1>9. QED  BY <1>1, <1>2, <1>4, <1>6, <1>7, <1>8, StoreMoves

(* The version of the mirror in hand is set: the call that sets the current one *)
(* is about to write it.                                                      *)
LEMMA SetVersionTended ==
    ASSUME OrderlyState, NEW m \in Manifest, NEW n \in Namespace, Asked(m, n), Tended(m, n),
           NEW w \in Request, UNCHANGED controllerVars, SetVersion(w)
    PROVE  Tended(m, n)'
<1> DEFINE x == [job[w] EXCEPT !.pc = "get"]
           c == TargetKey(m, n)
           q == job[w].cur
<1>1. /\ job[w].pc = "set" /\ UNCHANGED <<clusterVars, store>> /\ job' = [job EXCEPT ![w] = x]
  BY DEF SetVersion, Go
<1>2. w \in Worker /\ job[w] \in Job /\ UNCHANGED <<head, queue, stage>>
  BY <1>1, WorkerFields, OrderlyParts, Parts DEF clusterVars, controllerVars
<1>3. /\ q \in Ptr /\ q # Nil /\ heap'[q].version = job[w].ver
      /\ \A p \in Ptr : /\ heap'[p].id = heap[p].id
                        /\ p # q => heap'[p] = heap[p]
  BY <1>2, OrderlyParts, SetVersionEffect, EngineAssumption DEF Nil
<1>4. /\ x.ver = job[w].ver /\ x.pc = "get" /\ x.cur = q /\ x.ptrs = job[w].ptrs
  BY <1>2 DEF Job
<1>5. job'[w] = x /\ \A u \in Worker : u # w => job'[u] = job[u]
  BY <1>1, <1>2, OrderlyParts, Parts DEF EngineTypeOK
<1> HIDE DEF x
<1>6. CASE job[w].ver = head[m.key] /\ heap[q].id = c.id
  <2>1. InTheHandOf(m, n, w)'
    BY <1>2, <1>3, <1>4, <1>5, <1>6 DEF InTheHandOf
  <2>2. QED  BY <1>2, <2>1, InHandIsOnTheWay DEF Tended, Promised, Backed
<1>7. CASE job[w].ver # head[m.key] \/ heap[q].id # c.id
  <2>1. \A p \in Ptr : heap[p].version # head[m.key] /\ heap[p].id = c.id =>
                          heap'[p].version # head[m.key]
    BY <1>3, <1>7
  <2>2. Current(m, n)' => Current(m, n)
    <3>1. Registered(c.id) => store[c.id] \in Ptr /\ heap[store[c.id]].id = c.id
      BY RegisteredTarget
    <3>2. QED  BY <1>1, <1>2, <2>1, <3>1 DEF Current, Registered
  <2>3. Behind(m, n) => Behind(m, n)'
    <3>1. Registered(c.id) => store[c.id] \in Ptr /\ heap[store[c.id]].id = c.id
      BY RegisteredTarget
    <3>2. QED  BY <1>1, <1>2, <2>1, <3>1 DEF Behind, Registered
  <2>4. ~(job[w].ver = head[m.key] /\ heap[q].id = c.id)
    BY <1>7
  <2>5. ~InTheHandOf(m, n, w)
    BY <2>4 DEF InTheHandOf
  <2>6. ASSUME OnTheWay(m, n, w) PROVE OnTheWay(m, n, w)'
    <3>1. job[w].ver = head[m.key] /\ \E p \in job[w].ptrs : Due(m, n, p)
      BY <1>1, <2>5, <2>6 DEF OnTheWay
    <3>2. PICK p \in job[w].ptrs : Due(m, n, p)
      BY <3>1
    <3>3. p \in Ptr
      BY <1>2 DEF Job
    <3>4. Due(m, n, p)'
      BY <1>2, <1>3, <2>1, <3>2, <3>3 DEF Due
    <3>5. QED  BY <1>2, <1>4, <1>5, <3>1, <3>4 DEF OnTheWay
  <2>7. \A u \in Worker : Held(u) \subseteq Ptr
    BY OrderlyParts, Parts DEF Held, Job
  <2>8. QED  BY <1>1, <1>2, <1>3, <1>5, <2>1, <2>2, <2>3, <2>5, <2>6, <2>7, StoreMoves
<1>8. QED  BY <1>6, <1>7

(* The mirror controller registers a Mirror without a version in its place.    *)
LEMMA MirrorRegisterTended ==
    ASSUME OrderlyState, NEW m \in Manifest, NEW n \in Namespace, Asked(m, n), Tended(m, n),
           NEW w \in Request, MirrorRegister(w)
    PROVE  Tended(m, n)'
<1> DEFINE s == [stage[w] EXCEPT !.at = "count"]
           kind == log[stage[w].ver].key.kind
           c == TargetKey(m, n)
           wm == MirrorRequest(c)
<1>1. /\ stage[w].at = "register" /\ UNCHANGED <<queue, clusterVars, job>>
      /\ Register(w.id, stage[w].from, kind, stage[w].auto)
      /\ stage' = [stage EXCEPT ![w] = s]
  BY DEF MirrorRegister, At, RegisterMirror
<1>2. /\ stage[w] \in Stage /\ w.id \in ID /\ UNCHANGED <<head, seen>>
      /\ stage[w].from \in ID /\ stage[w].auto \in BOOLEAN
      /\ log[stage[w].ver].key = KeyOf(stage[w].from)
  BY <1>1, OrderlyParts, ControllerParts, WorkerFields DEF StageOrderly, Stage, clusterVars
<1>3. kind \in Kind
  BY <1>2, OrderlyParts, OrderlyKeys, KeyFields
<1> HIDE DEF kind
<1>4. /\ Current(m, n)' => Current(m, n)
      /\ Behind(m, n) => Behind(m, n)'
      /\ w.id = c.id => Behind(m, n)' /\ ~Current(m, n)'
      /\ \A u \in Worker : \A p \in Held(u) : heap'[p] = heap[p]
  BY <1>1, <1>2, <1>3, RegisterAtTarget
<1>5. s.at = "count" /\ s.ver = stage[w].ver
  BY <1>2 DEF Stage
<1>6. stage'[w] = s /\ \A u \in Request : u # w => stage'[u] = stage[u]
  BY <1>1, OrderlyParts, ControllerParts
<1> HIDE DEF s
<1>7. ASSUME w = wm, MirrorPending(m, n)
      PROVE  MirrorPending(m, n)' \/ (~Current(m, n)' /\ MirrorNext(m, n)')
  <2>1. Behind(m, n)' /\ ~Current(m, n)'
    BY <1>4, <1>7, RequestFacts
  <2>2. CASE stage[w].ver = head[m.key]
    BY <1>2, <1>5, <1>6, <1>7, <2>1, <2>2 DEF MirrorNext
  <2>3. CASE stage[w].ver # head[m.key]
    BY <1>1, <1>2, <1>7, <2>3 DEF MirrorPending
  <2>4. QED  BY <2>2, <2>3
<1>8. w \in Worker
  BY WorkerFields
<1>9. /\ OnTheWay(m, n, w) => OnTheWay(m, n, w)'
      /\ InTheHandOf(m, n, w) => InTheHandOf(m, n, w)'
  BY <1>1, <1>2, <1>4, <1>8, CallUnmoved
<1>10. QED  BY <1>1, <1>2, <1>4, <1>6, <1>7, <1>9, StoreMoves

(* Only mirrors of what is no source are adopted or orphaned.                   *)
LEMMA MirrorAdoptTended ==
    ASSUME OrderlyState, NEW m \in Manifest, NEW n \in Namespace, Asked(m, n), Tended(m, n),
           NEW w \in Request, MirrorAdopt(w) \/ MirrorOrphaned(w)
    PROVE  Tended(m, n)'
<1> DEFINE c == TargetKey(m, n)
<1>1. /\ stage[w].at \in {"adopt", "orphan"} /\ UNCHANGED <<queue, clusterVars, job>>
      /\ stage' = [stage EXCEPT ![w] = NoStage]
      /\ \/ Register(w.id, stage[w].from, "Secret", TRUE)
         \/ Unregister(w.id)
  BY DEF MirrorAdopt, MirrorOrphaned, Finish, RegisterMirror, UnregisterMirror
<1>2. /\ stage[w].from \in ID /\ "Secret" \in Kind /\ w.id \in ID /\ w \in Worker
      /\ Beside(w.id, KeyOf(stage[w].from)) /\ UNCHANGED head
      /\ m.key.id # stage[w].from
  <2>1. StageOrderly(w) /\ Orderly
    BY OrderlyParts
  <2>2. OptedIn(m)
    BY AskedFacts
  <2>3. stage[w].from \in ID /\ Beside(w.id, KeyOf(stage[w].from)) /\ m.key.id # stage[w].from
    BY <1>1, <2>1, <2>2 DEF StageOrderly
  <2>4. "Secret" \in Kind /\ w.id \in ID /\ w \in Worker /\ UNCHANGED head
    BY <1>1, <2>1, OrderlyKeys, WorkerFields DEF clusterVars
  <2>5. QED  BY <2>3, <2>4
<1>3. w.id # c.id
  <2> SUFFICES ASSUME w.id = c.id PROVE FALSE
    OBVIOUS
  <2>1. Orderly /\ n # m.key.id.ns
    BY AskedFacts
  <2>2. KeyOf(stage[w].from) = m.key
    BY <1>2, <2>1, OneTarget
  <2>3. QED  BY <1>2, <2>1, <2>2, OrderlyKeys
<1>4. /\ Current(m, n)' => Current(m, n)
      /\ Behind(m, n) => Behind(m, n)'
      /\ \A u \in Worker : \A p \in Held(u) : heap'[p] = heap[p]
  <2>1. CASE Register(w.id, stage[w].from, "Secret", TRUE)
    BY <1>2, <2>1, RegisterAtTarget
  <2>2. CASE Unregister(w.id)
    BY <1>2, <1>3, <2>2, UnregisterElsewhere DEF Unregister
  <2>3. QED  BY <1>1, <2>1, <2>2
<1>5. \A u \in Request : u # w => stage'[u] = stage[u]
  BY <1>1, OrderlyParts, ControllerParts
<1>6. /\ OnTheWay(m, n, w) => OnTheWay(m, n, w)'
      /\ InTheHandOf(m, n, w) => InTheHandOf(m, n, w)'
  BY <1>1, <1>2, <1>4, CallUnmoved
<1>7. QED  BY <1>1, <1>4, <1>5, <1>6, StoreMoves

-----------------------------------------------------------------------------
(* Writes.                                                                    *)

(* A write to the target makes the mirror controller look at it again.         *)
LEMMA TargetWritten ==
    ASSUME OrderlyState, NEW m \in Manifest, NEW n \in Namespace, Asked(m, n),
           NEW e \in Entry, Commit(e), UNCHANGED seen, e.key = TargetKey(m, n)
    PROVE  Tended(m, n)'
<1>1. head'[TargetKey(m, n)] = Len(log) + 1
  BY OrderlyParts, Parts, CommitFacts
<1>2. seen[TargetKey(m, n)] <= Len(log) /\ seen[TargetKey(m, n)] \in Nat /\ Len(log) \in Nat
  <2>1. TargetKey(m, n) \in Key
    BY AskedFacts
  <2>2. QED  BY <2>1, OrderlyParts, Parts
<1>3. MirrorPending(m, n)'
  BY <1>1, <1>2 DEF MirrorPending
<1>4. QED  BY <1>3 DEF Tended, Promised, Backed

(* A write to the source makes the source controller look at it, and no Mirror *)
(* has its version yet.                                                       *)
LEMMA SourceWritten ==
    ASSUME OrderlyState, NEW m \in Manifest, NEW n \in Namespace,
           NEW e \in Entry, Commit(e), UNCHANGED <<seen, store, heap>>, e.key = m.key
    PROVE  Tended(m, n)'
<1>1. head'[m.key] = Len(log) + 1 /\ Len(log) \in Nat
  BY OrderlyParts, Parts, CommitFacts
<1>2. seen[m.key] \in 0..Len(log) /\ TargetKey(m, n).id \in ID
  BY ManifestFields, TargetFacts, OrderlyParts, Parts
<1>3. SourcePending(m)'
  BY <1>1, <1>2 DEF SourcePending
<1>4. ~Current(m, n)'
  <2> SUFFICES ASSUME Current(m, n)' PROVE FALSE
    OBVIOUS
  <2> DEFINE p == store[TargetKey(m, n).id]
  <2>1. p # Nil /\ heap[p].version = Len(log) + 1
    BY <1>1 DEF Current, Registered
  <2>2. p \in Ptr
    BY <1>2, <2>1, OrderlyParts, Parts
  <2>3. heap[p].version \in 0..Len(log)
    BY <1>1, <2>2, OrderlyParts DEF VersionsOrderly
  <2>4. QED  BY <1>1, <2>1, <2>3
<1>5. QED  BY <1>3, <1>4 DEF Tended, Promised, Backed

(* A write elsewhere changes nothing.                                          *)
LEMMA ElsewhereWritten ==
    ASSUME OrderlyState, NEW m \in Manifest, NEW n \in Namespace, Asked(m, n), Tended(m, n),
           NEW e \in Entry, Commit(e), UNCHANGED <<seen, store, heap, queue, stage>>,
           e.key # m.key, e.key # TargetKey(m, n),
           \A w \in Worker : job'[w] # job[w] =>
              /\ OnTheWay(m, n, w) => OnTheWay(m, n, w)'
              /\ InTheHandOf(m, n, w) => InTheHandOf(m, n, w)'
    PROVE  Tended(m, n)'
<1> DEFINE c == TargetKey(m, n)
<1>1. /\ head'[m.key] = head[m.key] /\ head'[c] = head[c]
      /\ \A i \in 1..Len(log) : log'[i] = log[i]
  <2>1. m.key \in Key /\ c \in Key
    BY AskedFacts
  <2>2. QED  BY <2>1, OrderlyParts, Parts, CommitFacts
<1>2. Current(m, n)' = Current(m, n) /\ Behind(m, n)' = Behind(m, n)
  BY <1>1 DEF Current, Behind, Registered
<1>3. Settled(m, n)' = Settled(m, n)
  <2>1. head[c] # 0 => log'[head[c]] = log[head[c]]
    <3>1. head[c] \in 0..Len(log) /\ Len(log) \in Nat
      BY AskedFacts
    <3>2. QED  BY <1>1, <3>1
  <2>2. QED  BY <1>1, <2>1 DEF Settled
<1>4. ASSUME NEW u \in Worker
      PROVE  /\ OnTheWay(m, n, u) => OnTheWay(m, n, u)'
             /\ InTheHandOf(m, n, u) => InTheHandOf(m, n, u)'
  <2>1. CASE job'[u] = job[u]
    BY <1>1, <1>2, <2>1, CallUnmoved
  <2>2. QED  BY <2>1
<1>5. SourcePending(m) => SourcePending(m)'
  BY <1>1, SourceWaits
<1>6. MirrorPending(m, n) => MirrorPending(m, n)'
  BY <1>1, MirrorWaits
<1>7. MirrorNext(m, n) => MirrorNext(m, n)'
  BY <1>1, <1>2 DEF MirrorNext
<1>8. QED  BY <1>2, <1>3, <1>4, <1>5, <1>6, <1>7, Handover

LEMMA WriteMirrorTended ==
    ASSUME OrderlyState, NEW m \in Manifest, NEW n \in Namespace, Asked(m, n), Tended(m, n),
           NEW w \in Request, UNCHANGED controllerVars, WriteMirror(w)
    PROVE  Tended(m, n)'
<1> DEFINE x == [job[w] EXCEPT !.pc = "mirrors", !.cur = Nil, !.dat = 0, !.got = 0]
           c == TargetKey(m, n)
<1>1. /\ job[w].pc = "write" /\ job' = [job EXCEPT ![w] = x]
      /\ UNCHANGED <<seen, store, heap, queue, stage>>
  BY DEF WriteMirror, NextMirror, controllerVars
<1>2. PICK e \in Entry : Commit(e) /\ CopyEntry(e) /\ e.key = KeyOf(heap[job[w].cur].id)
  BY WriteEffect
<1>3. e.key # m.key
  <2>1. PICK l : Beside(e.key.id, l)
    BY <1>2 DEF CopyEntry
  <2>2. QED  BY <2>1, AskedFacts, OneOriginal
<1>4. CASE e.key = c
  BY <1>1, <1>2, <1>4, TargetWritten
<1>5. CASE e.key # c
  <2>1. w \in Worker /\ job[w] \in Job
    BY WorkerFields, OrderlyParts, Parts
  <2>2. x.ver = job[w].ver /\ x.pc = "mirrors" /\ x.ptrs = job[w].ptrs
    BY <2>1, NextMirrorFields
  <2>3. job'[w] = x /\ \A u \in Worker : u # w => job'[u] = job[u]
    BY <1>1, <2>1, OrderlyParts, Parts DEF EngineTypeOK
  <2> HIDE DEF x
  <2>4. ~InTheHandOf(m, n, w)
    <3>1. c = KeyOf(c.id)
      BY AskedFacts
    <3>2. QED  BY <1>2, <1>5, <3>1 DEF InTheHandOf
  <2>5. head'[m.key] = head[m.key]
    <3>1. m.key \in Key
      BY AskedFacts
    <3>2. QED  BY <1>2, <1>3, <3>1, OrderlyParts, Parts, CommitFacts
  <2>6. ASSUME OnTheWay(m, n, w) PROVE OnTheWay(m, n, w)'
    <3>1. job[w].ver = head[m.key] /\ \E p \in job[w].ptrs : Due(m, n, p)
      BY <1>1, <2>4, <2>6 DEF OnTheWay
    <3>2. PICK p \in job[w].ptrs : Due(m, n, p)
      BY <3>1
    <3>3. Due(m, n, p)'
      BY <1>1, <2>5, <3>2 DEF Due
    <3>4. QED  BY <2>2, <2>3, <2>5, <3>1, <3>3 DEF OnTheWay
  <2>7. QED  BY <1>1, <1>2, <1>3, <1>5, <2>3, <2>4, <2>6, ElsewhereWritten
<1>6. QED  BY <1>4, <1>5

LEMMA UserAttended ==
    ASSUME OrderlyState, NEW m \in Manifest, NEW n \in Namespace, Attended(m, n),
           UserStep, UNCHANGED <<engineVars, controllerVars>>
    PROVE  Attended(m, n)'
<1>1. UNCHANGED <<seen, store, heap, job, queue, stage>>
  BY UserEffect DEF engineVars, controllerVars
<1>2. PICK e \in Entry : Commit(e)
  BY UserEffect
<1> SUFFICES ASSUME Asked(m, n)' PROVE Tended(m, n)'
  BY AttendedIsTended
<1>3. CASE e.key = m.key
  BY <1>1, <1>2, <1>3, SourceWritten
<1>4. CASE e.key # m.key
  <2>1. m.key \in Key /\ head'[m.key] = head[m.key]
    BY <1>2, <1>4, ManifestFields, OrderlyParts, Parts, CommitFacts
  <2>2. Asked(m, n) /\ Tended(m, n)
    BY <2>1, AttendedIsTended DEF Asked, Wanted, OptedIn
  <2>3. CASE e.key = TargetKey(m, n)
    BY <1>1, <1>2, <2>2, <2>3, TargetWritten
  <2>4. CASE e.key # TargetKey(m, n)
    BY <1>1, <1>2, <1>4, <2>2, <2>4, ElsewhereWritten
  <2>5. QED  BY <2>3, <2>4
<1>5. QED  BY <1>3, <1>4
-----------------------------------------------------------------------------
(* Events, restarts, and everything else.                                     *)

(* Every revision of a source and of its copies reaches the queues.             *)
LEMMA EveryEventCounts ==
    ASSUME OrderlyState, NEW m \in Manifest, NEW n \in Namespace, Asked(m, n),
           NEW old, NEW r \in 1..Len(log)
    PROVE  /\ log[r].key = m.key => SourceRequest(m.key) \in Notified(m.key, old, r)
           /\ log[r].key = TargetKey(m, n) =>
                 MirrorRequest(TargetKey(m, n)) \in Notified(TargetKey(m, n), old, r)
<1> DEFINE c == TargetKey(m, n)
<1>1. Live(r)
  BY Revisions DEF Live
<1>2. ASSUME log[r].key = m.key PROVE SourceRequest(m.key) \in Notified(m.key, old, r)
  <2>1. OptedIn(m)
    BY AskedFacts
  <2>2. log[r].policy.replicate
    BY <1>2, <2>1, Revisions DEF OptedIn
  <2>3. SourcePasses(old, r)
    BY <1>1, <2>2 DEF SourcePasses, HasReplicationAnnotation
  <2>4. QED  BY <2>3, RequestFacts DEF Notified
<1>3. ASSUME log[r].key = c PROVE MirrorRequest(c) \in Notified(c, old, r)
  <2>1. log[r].from # NoID
    BY <1>3, TargetIsCopy
  <2>2. MirrorPasses(old, r)
    BY <1>1, <2>1 DEF MirrorPasses, HasReflectsAnnotation
  <2>3. /\ MirrorRequest(c) \in Request /\ MirrorRequest(c).ctl = "mirror"
        /\ MirrorRequest(c).id = c.id /\ MirrorRequest(c).kind = c.kind
    BY RequestFacts
  <2>4. QED  BY <2>2, <2>3 DEF Notified
<1>4. QED  BY <1>2, <1>3

LEMMA InformerTended ==
    ASSUME OrderlyState, NEW m \in Manifest, NEW n \in Namespace, Asked(m, n), Tended(m, n),
           NEW k \in Key, Informer(k) \/ Resync(k)
    PROVE  Tended(m, n)'
<1> DEFINE c == TargetKey(m, n)
           ws == SourceRequest(m.key)
           wm == MirrorRequest(c)
<1>1. UNCHANGED <<log, head, store, heap, job, stage>>
  BY DEF Informer, Resync, Observe, engineVars
<1>2. PICK r \in 1..Len(log) : /\ log[r].key = k /\ queue' = queue \cup Notified(k, seen[k], r)
                               /\ seen' = [seen EXCEPT ![k] = r]
  <2>1. CASE Informer(k)
    BY <2>1 DEF Informer, Observe, NextEvent
  <2>2. CASE Resync(k)
    <3>1. Live(seen[k]) /\ queue' = queue \cup Notified(k, seen[k], seen[k]) /\ seen' = seen
      BY <2>2 DEF Resync
    <3>2. seen \in [Key -> 0..Len(log)] /\ CacheSound /\ Len(log) \in Nat
      BY OrderlyParts, Parts
    <3>3. seen[k] \in 1..Len(log) /\ log[seen[k]].key = k
      BY <3>1, <3>2 DEF Live, CacheSound
    <3>4. seen' = [seen EXCEPT ![k] = seen[k]]
      BY <3>1, <3>2
    <3>5. QED  BY <3>1, <3>3, <3>4
  <2>3. QED  BY <2>1, <2>2
<1>3. m.key \in Key /\ c \in Key
  BY AskedFacts
<1>4. /\ \A l \in Key : l # k => seen'[l] = seen[l]
      /\ queue \subseteq queue'
  BY <1>2, OrderlyParts, Parts
<1>5. k = m.key => ws \in queue'
  BY <1>2, EveryEventCounts
<1>6. k = c => wm \in queue'
  BY <1>2, EveryEventCounts
<1>7. SourcePending(m) => SourcePending(m)'
  BY <1>1, <1>3, <1>4, <1>5 DEF SourcePending
<1>8. MirrorPending(m, n) => MirrorPending(m, n)'
  BY <1>1, <1>3, <1>4, <1>6 DEF MirrorPending
<1>9. /\ Settled(m, n)' = Settled(m, n) /\ Current(m, n)' = Current(m, n)
      /\ Behind(m, n)' = Behind(m, n)
      /\ \A u \in Worker : /\ OnTheWay(m, n, u) => OnTheWay(m, n, u)'
                           /\ InTheHandOf(m, n, u) => InTheHandOf(m, n, u)'
  BY <1>1, TargetUnmoved
<1>10. MirrorNext(m, n) => MirrorNext(m, n)'
  BY <1>1, <1>9 DEF MirrorNext
<1>11. QED  BY <1>7, <1>8, <1>9, <1>10, Handover

LEMMA OthersTended ==
    ASSUME OrderlyState, NEW m \in Manifest, NEW n \in Namespace, Asked(m, n), Tended(m, n),
           \/ \E l \in Namespace : InformerNamespace(l) \/ NamespaceReconcile(l)
           \/ \E id \in ID : NamespaceForget(id) \/ NotFoundExpires(id)
           \/ \E w \in Request : CertificateEvent(w)
           \/ UNCHANGED allVars
    PROVE  Tended(m, n)'
<1>1. ~\E id \in ID : NamespaceForget(id)
  BY OrderlyParts DEF Steady, NamespaceForget
<1>2. UNCHANGED <<log, head, seen, store, heap, job, stage>> /\ queue \subseteq queue'
  BY <1>1 DEF InformerNamespace, ObserveNamespace, NamespaceReconcile, NotFoundExpires,
     CertificateEvent, allVars, vars, clusterVars, engineVars, controllerVars
<1>3. /\ Settled(m, n)' = Settled(m, n) /\ Current(m, n)' = Current(m, n)
      /\ Behind(m, n)' = Behind(m, n)
      /\ \A u \in Worker : /\ OnTheWay(m, n, u) => OnTheWay(m, n, u)'
                           /\ InTheHandOf(m, n, u) => InTheHandOf(m, n, u)'
  BY <1>2, TargetUnmoved
<1>4. /\ SourcePending(m) => SourcePending(m)'
      /\ MirrorPending(m, n) => MirrorPending(m, n)'
      /\ MirrorNext(m, n) => MirrorNext(m, n)'
  BY <1>2, <1>3 DEF SourcePending, MirrorPending, MirrorNext
<1>5. QED  BY <1>3, <1>4, Handover

(* After a restart every source is reconciled, and nothing is registered.       *)
LEMMA RestartAttends ==
    ASSUME OrderlyState, NEW m \in Manifest, NEW n \in Namespace, OperatorRestart
    PROVE  Attended(m, n)'
<1> SUFFICES ASSUME Asked(m, n)' PROVE Tended(m, n)'
  BY AttendedIsTended
<1>1. UNCHANGED <<log, head>> /\ store' = [id \in ID |-> Nil]
  BY DEF OperatorRestart, Restart
<1>2. Asked(m, n)
  BY <1>1 DEF Asked, Wanted, OptedIn
<1>3. m.key \in Key /\ TargetKey(m, n).id \in ID /\ head[m.key] \in 1..Len(log)
      /\ log[head[m.key]].key = m.key
  BY <1>2, AskedFacts
<1>4. SourceRequest(m.key) \in Notified(m.key, 0, head[m.key])
  BY <1>2, <1>3, EveryEventCounts
<1>5. SourceRequest(m.key) \in queue'
  BY <1>3, <1>4 DEF OperatorRestart
<1>6. SourcePending(m)'
  BY <1>5 DEF SourcePending
<1>7. ~Current(m, n)'
  BY <1>1, <1>3 DEF Current, Registered
<1>8. QED  BY <1>6, <1>7 DEF Tended, Promised, Backed

-----------------------------------------------------------------------------
(* Every step.                                                                *)

(* The write of worker w to the target of m in n is lost.                      *)
Lost(m, n, w) == WriteFails(w) /\ heap[job[w].cur].id = TargetKey(m, n).id

LEMMA WorkTended ==
    ASSUME OrderlyState, NEW m \in Manifest, NEW n \in Namespace, Asked(m, n), Tended(m, n),
           NEW w \in Request, UNCHANGED controllerVars, Work(w), ~Lost(m, n, w)
    PROVE  Tended(m, n)'
<1>1. CASE \E l \in Namespace : CreateAutoMirrorIfNotExists(w, l)
  BY <1>1, CreateIfNotExistsTended
<1>2. CASE CheckForConflicts(w)
  BY <1>2, CheckForConflictsTended
<1>3. CASE CreateAutoMirror(w)
  BY <1>3, CreateAutoMirrorTended
<1>4. CASE CleanupAutoMirrors(w) \/ ListMirrors(w)
  BY <1>4, ListMirrorsTended
<1>5. CASE \E id \in ID : ForgetMirror(w, id)
  BY <1>5, ForgetMirrorTended
<1>6. CASE \E p \in Ptr : ReadSource(w, p)
  BY <1>6, ReadSourceTended
<1>7. CASE Reflect(w)
  BY <1>7, ReflectTended
<1>8. CASE SetVersion(w)
  BY <1>8, SetVersionTended
<1>9. CASE GetMirror(w)
  BY <1>9, GetMirrorTended
<1>10. CASE WriteMirror(w)
  BY <1>10, WriteMirrorTended
<1>11. CASE WriteRejected(w) \/ WriteFails(w)
  BY <1>11, WriteDropped DEF Lost
<1>12. QED  BY <1>1, <1>2, <1>3, <1>4, <1>5, <1>6, <1>7, <1>8, <1>9, <1>10, <1>11 DEF Work

LEMMA ReconcileTended ==
    ASSUME OrderlyState, NEW m \in Manifest, NEW n \in Namespace, Asked(m, n), Tended(m, n),
           NEW w \in Request, ReconcileStep(w), ~Lost(m, n, w)
    PROVE  Tended(m, n)'
<1>1. CASE SourceStart(w) \/ MirrorStart(w) \/ CertificateStart(w)
  BY <1>1, StartTended
<1>2. CASE SourceFetch(w)
  BY <1>2, SourceFetchTended
<1>3. CASE SourceMiss(w) \/ CertificateFetch(w)
  BY <1>3, ElsewhereTended
<1>4. CASE SourceHit(w) \/ CertificateExecute(w) \/ MirrorLoop(w)
  BY <1>4, ExecuteTended
<1>5. CASE SourceReturn(w) \/ MirrorReturn(w)
  BY <1>5, ReturnTended
<1>6. CASE MirrorFetch(w)
  BY <1>6, MirrorFetchTended
<1>7. CASE MirrorFetchSource(w)
  BY <1>7, MirrorFetchSourceTended
<1>8. CASE MirrorAdopt(w) \/ MirrorOrphaned(w)
  BY <1>8, MirrorAdoptTended
<1>9. CASE MirrorRegister(w)
  BY <1>9, MirrorRegisterTended
<1>10. CASE MirrorCount(w)
  BY <1>10, MirrorCountTended
<1>11. CASE Work(w) /\ UNCHANGED controllerVars
  BY <1>11, WorkTended
<1>12. ~IngressFetch(w)
  BY OrderlyParts DEF Orderly, IngressFetch
<1>13. QED
  BY <1>1, <1>2, <1>3, <1>4, <1>5, <1>6, <1>7, <1>8, <1>9, <1>10, <1>11, <1>12 DEF ReconcileStep
(* Of the steps of a Reconcile only a write moves a head, and never that of an   *)
(* original.                                                                    *)
LEMMA OnlyWritesMove ==
    ASSUME NEW w \in Request, ReconcileStep(w), ~WriteMirror(w)
    PROVE  UNCHANGED head
<1>1. CASE Work(w)
  BY <1>1 DEF Work, CreateAutoMirrorIfNotExists, CheckForConflicts, CreateAutoMirror,
     CleanupAutoMirrors, ForgetMirror, ListMirrors, ReadSource, Reflect, SetVersion, GetMirror,
     WriteRejected, WriteFails, clusterVars
<1>2. CASE \/ SourceHit(w) \/ SourceReturn(w) \/ MirrorAdopt(w) \/ MirrorOrphaned(w)
           \/ MirrorRegister(w) \/ MirrorLoop(w) \/ MirrorReturn(w) \/ CertificateExecute(w)
  BY <1>2 DEF SourceHit, SourceReturn, MirrorAdopt, MirrorOrphaned, MirrorRegister, MirrorLoop,
     MirrorReturn, CertificateExecute, Execute, ExecuteReturns, RegisterMirror,
     UnregisterMirror, clusterVars
<1>3. CASE \/ SourceStart(w) \/ SourceFetch(w) \/ SourceMiss(w) \/ MirrorStart(w)
           \/ MirrorFetch(w) \/ MirrorFetchSource(w) \/ MirrorCount(w)
           \/ CertificateStart(w) \/ CertificateFetch(w) \/ IngressFetch(w)
  BY <1>3 DEF SourceStart, SourceFetch, SourceMiss, MirrorStart, MirrorFetch, MirrorFetchSource,
     MirrorCount, CertificateStart, CertificateFetch, IngressFetch, vars, clusterVars
<1>4. QED  BY <1>1, <1>2, <1>3 DEF ReconcileStep

LEMMA OriginalsStay ==
    ASSUME OrderlyState, NEW m \in Manifest, NEW w \in Request, ReconcileStep(w)
    PROVE  head'[m.key] = head[m.key]
<1>1. CASE WriteMirror(w)
  <2>1. PICK e \in Entry : Commit(e) /\ CopyEntry(e)
    BY <1>1, WriteEffect
  <2>2. e.key # m.key
    <3>1. PICK l : Beside(e.key.id, l)
      BY <2>1 DEF CopyEntry
    <3>2. QED  BY <3>1, OrderlyParts, ManifestFields, OneOriginal
  <2>3. m.key \in Key
    BY ManifestFields
  <2>4. QED  BY <2>1, <2>2, <2>3, OrderlyParts, Parts, CommitFacts
<1>2. CASE ~WriteMirror(w)
  BY <1>2, OnlyWritesMove
<1>3. QED  BY <1>1, <1>2

(* A target that is attended to stays so, unless a write to it is lost.          *)
LEMMA StepAttended ==
    ASSUME OrderlyState, NEW m \in Manifest, NEW n \in Namespace, Attended(m, n),
           [ControllersNext]_allVars, \A w \in Request : ~Lost(m, n, w)
    PROVE  Attended(m, n)'
<1>1. CASE UserStep /\ UNCHANGED <<engineVars, controllerVars>>
  BY <1>1, UserAttended
<1>2. CASE OperatorRestart
  BY <1>2, RestartAttends
<1>3. ASSUME head'[m.key] = head[m.key], Asked(m, n) /\ Tended(m, n) => Tended(m, n)'
      PROVE  Attended(m, n)'
  <2>1. Asked(m, n)' = Asked(m, n)
    BY <1>3 DEF Asked, Wanted, OptedIn
  <2>2. QED  BY <1>3, <2>1, AttendedIsTended
<1>4. CASE \E k \in Key : Informer(k) \/ Resync(k)
  <2>1. UNCHANGED head
    BY <1>4 DEF Informer, Resync, Observe
  <2>2. QED  BY <1>3, <1>4, <2>1, InformerTended
<1>5. CASE \/ \E l \in Namespace : InformerNamespace(l) \/ NamespaceReconcile(l)
           \/ \E id \in ID : NamespaceForget(id) \/ NotFoundExpires(id)
           \/ \E w \in Request : CertificateEvent(w)
           \/ UNCHANGED allVars
  <2>1. UNCHANGED head
    BY <1>5 DEF InformerNamespace, ObserveNamespace, NamespaceReconcile, NamespaceForget,
       UnregisterMirror, NotFoundExpires, CertificateEvent, allVars, vars, clusterVars
  <2>2. QED  BY <1>3, <1>5, <2>1, OthersTended
<1>6. CASE \E w \in Request : ReconcileStep(w)
  BY <1>3, <1>6, OriginalsStay, ReconcileTended
<1>7. QED  BY <1>1, <1>2, <1>4, <1>5, <1>6 DEF ControllersNext, ControllersStep

-----------------------------------------------------------------------------
(* Faults.                                                                    *)

(* A request fails in a step of its own; a restart too.                         *)
LEMMA BudgetStep ==
    ASSUME OrderlyState, [ControllersNext]_allVars
    PROVE  \/ UNCHANGED budget
           \/ \E d \in Disturbance \ {"fault", "restart"} : Spend(d)
           \/ Spend("fault") /\ \E w \in Request : WriteFails(w)
           \/ Spend("restart") /\ OperatorRestart
<1>1. CASE UserStep
  BY <1>1 DEF UserStep, Apply, EditData, Delete, NamespaceTerminate, NamespacePurge,
     NamespaceRemove, NamespaceCreate, Disturbance
<1>2. CASE OperatorRestart
  BY <1>2 DEF OperatorRestart, Restart
<1>3. CASE \/ \E k \in Key : Informer(k) \/ Resync(k)
           \/ \E l \in Namespace : InformerNamespace(l) \/ NamespaceReconcile(l)
           \/ \E id \in ID : NamespaceForget(id) \/ NotFoundExpires(id)
           \/ \E w \in Request : CertificateEvent(w)
           \/ UNCHANGED allVars
  BY <1>3 DEF Informer, Resync, Observe, InformerNamespace, ObserveNamespace,
     NamespaceReconcile, NamespaceForget, UnregisterMirror, NotFoundExpires, CertificateEvent,
     allVars, vars, clusterVars, Disturbance
<1>4. CASE \E w \in Request : ReconcileStep(w)
  <2>1. PICK w \in Request : ReconcileStep(w)
    BY <1>4
  <2>2. CASE Work(w)
    BY <2>2 DEF Work, CreateAutoMirrorIfNotExists, CheckForConflicts, CreateAutoMirror,
       CleanupAutoMirrors, ForgetMirror, ListMirrors, ReadSource, Reflect, SetVersion,
       GetMirror, WriteMirror, WriteRejected, WriteFails, clusterVars
  <2>3. CASE \/ SourceHit(w) \/ SourceReturn(w) \/ MirrorAdopt(w) \/ MirrorOrphaned(w)
             \/ MirrorRegister(w) \/ MirrorLoop(w) \/ MirrorReturn(w) \/ CertificateExecute(w)
    BY <2>3 DEF SourceHit, SourceReturn, MirrorAdopt, MirrorOrphaned, MirrorRegister,
       MirrorLoop, MirrorReturn, CertificateExecute, Execute, ExecuteReturns, RegisterMirror,
       UnregisterMirror, clusterVars
  <2>4. CASE \/ SourceStart(w) \/ SourceFetch(w) \/ SourceMiss(w) \/ MirrorStart(w)
             \/ MirrorFetch(w) \/ MirrorFetchSource(w) \/ MirrorCount(w)
             \/ CertificateStart(w) \/ CertificateFetch(w) \/ IngressFetch(w)
    BY <2>4 DEF SourceStart, SourceFetch, SourceMiss, MirrorStart, MirrorFetch,
       MirrorFetchSource, MirrorCount, CertificateStart, CertificateFetch, IngressFetch, vars,
       clusterVars
  <2>5. QED  BY <2>1, <2>2, <2>3, <2>4 DEF ReconcileStep
<1>5. QED  BY <1>1, <1>2, <1>3, <1>4 DEF ControllersNext, ControllersStep

LEMMA SpendFacts ==
    ASSUME OrderlyState, NEW d \in Disturbance, Spend(d)
    PROVE  /\ budget[d] \in Nat /\ budget[d] > 0 /\ budget'[d] = budget[d] - 1
           /\ \A o \in Disturbance : o # d => budget'[o] = budget[o]
BY OrderlyParts, Parts DEF Spend

(* Where the write that fails was going.                                       *)
LEMMA FailureFacts ==
    ASSUME OrderlyState, NEW w \in Request, WriteFails(w)
    PROVE  /\ heap[job[w].cur].id.ns \in Namespace
           /\ Spend("fault") /\ "fault" \in Disturbance
           /\ \A u \in Request : WriteFails(u) => u = w
<1>1. w \in Worker /\ job[w].pc = "write"
  BY WorkerFields DEF WriteFails
<1>2. heap[job[w].cur].id \in ID
  <2>1. JobSound(job[w])
    BY <1>1, OrderlyParts, Parts
  <2>2. QED  BY <1>1, <2>1 DEF JobSound, PayloadSound, Allocated
<1>3. ASSUME NEW u \in Request, WriteFails(u) PROVE u = w
  <2> SUFFICES ASSUME u # w PROVE FALSE
    OBVIOUS
  <2> DEFINE x == [job[w] EXCEPT !.pc = "mirrors", !.cur = Nil, !.dat = 0, !.got = 0]
             y == [job[u] EXCEPT !.pc = "mirrors", !.cur = Nil, !.dat = 0, !.got = 0]
  <2>1. /\ job' = [job EXCEPT ![w] = x] /\ job' = [job EXCEPT ![u] = y]
        /\ u \in Worker /\ job[w] \in Job /\ job \in [Worker -> Job]
    BY <1>1, <1>3, WorkerFields, OrderlyParts, Parts DEF WriteFails, NextMirror, EngineTypeOK
  <2>2. x.pc = "mirrors"
    BY <2>1, NextMirrorFields
  <2> HIDE DEF x, y
  <2>3. job'[w] = x /\ job'[w] = job[w]
    BY <1>1, <2>1
  <2>4. QED  BY <1>1, <2>2, <2>3
<1>4. QED  BY <1>2, <1>3 DEF ID, WriteFails, Disturbance
(* Every target outside lost is attended to.                                   *)
AllBut(lost) == \A m \in Manifest, n \in Namespace \ lost : Attended(m, n)

LEMMA NobodyLost ==
    ASSUME OrderlyState, [ControllersNext]_allVars, NEW lost, AllBut(lost),
           \A w \in Request : ~WriteFails(w)
    PROVE  AllBut(lost)'
<1>1. \A m, n, w : Lost(m, n, w) => WriteFails(w)
  BY DEF Lost
<1>2. QED  BY <1>1, StepAttended DEF AllBut

LEMMA OneMoreLost ==
    ASSUME OrderlyState, [ControllersNext]_allVars, NEW lost, AllBut(lost),
           NEW w \in Request, WriteFails(w), NEW l, l = heap[job[w].cur].id.ns
    PROVE  AllBut(lost \cup {l})'
<1>1. ASSUME NEW m \in Manifest, NEW n \in Namespace \ (lost \cup {l}) PROVE Attended(m, n)'
  <2>1. TargetKey(m, n).id.ns = n
    BY OrderlyParts, TargetFacts
  <2>2. ASSUME NEW u \in Request PROVE ~Lost(m, n, u)
    <3>1. WriteFails(u) => u = w
      BY FailureFacts
    <3>2. QED  BY <1>1, <2>1, <3>1 DEF Lost
  <2>3. Attended(m, n)
    BY DEF AllBut
  <2>4. QED  BY <2>2, <2>3, StepAttended
<1>2. QED  BY <1>1 DEF AllBut

LEMMA ConvergingStart ==
    ASSUME OrderlyState, ControllersInit
    PROVE  Converging
<1>1. AllBut({})
  <2>1. \A m \in Manifest : head[m.key] = 0
    BY ManifestFields DEF ControllersInit, Init, ClusterInit
  <2>2. QED  BY <2>1 DEF AllBut, Attended
<1>2. budget["fault"] = Budget["fault"] /\ Budget["fault"] \in Nat
  BY ClusterAssumption DEF ControllersInit, Init, ClusterInit, Disturbance
<1>3. QED  BY <1>1, <1>2, FS_EmptySet DEF Converging, AllBut, OrderlyState

LEMMA ConvergingNext ==
    ASSUME OrderlyState, Converging, [ControllersNext]_allVars
    PROVE  Converging'
<1>1. OrderlyState'
  BY OrderlyNext
<1>2. PICK lost \in SUBSET Namespace : /\ Cardinality(lost) <= Budget["fault"] - budget["fault"]
                                       /\ AllBut(lost)
  BY DEF Converging, AllBut
<1>3. /\ Budget["fault"] \in Nat /\ budget["fault"] \in Nat /\ budget'["fault"] \in Nat
      /\ "fault" \in Disturbance /\ "restart" \in Disturbance
  <2>1. "fault" \in Disturbance /\ "restart" \in Disturbance
    BY DEF Disturbance
  <2>2. budget \in [Disturbance -> Nat]
    BY OrderlyParts, Parts
  <2>3. budget' \in [Disturbance -> Nat]
    BY <1>1 DEF OrderlyState, EngineInv, EngineTypes, ClusterTypeOK
  <2>4. QED  BY <2>1, <2>2, <2>3, ClusterAssumption
<1>4. IsFiniteSet(lost) /\ Cardinality(lost) \in Nat
  BY <1>2, PolicyAssumption, FS_Subset, FS_CardinalityType
<1>5. CASE \A w \in Request : ~WriteFails(w)
  <2>1. AllBut(lost)'
    BY <1>2, <1>5, NobodyLost
  <2>2. budget'["fault"] = budget["fault"]
    BY <1>3, <1>5, BudgetStep, SpendFacts
  <2>3. QED  BY <1>1, <1>2, <2>1, <2>2 DEF Converging, AllBut, OrderlyState
<1>6. CASE \E w \in Request : WriteFails(w)
  <2>1. PICK w \in Request : WriteFails(w)
    BY <1>6
  <2>2. PICK l \in Namespace : l = heap[job[w].cur].id.ns
    BY <2>1, FailureFacts
  <2> DEFINE new == lost \cup {l}
  <2>3. AllBut(new)'
    BY <1>2, <2>1, <2>2, OneMoreLost
  <2>4. Cardinality(new) <= Cardinality(lost) + 1 /\ Cardinality(new) \in Nat
    <3>1. Cardinality(new) = IF l \in lost THEN Cardinality(lost) ELSE Cardinality(lost) + 1
      BY <1>4, FS_AddElement
    <3>2. QED  BY <1>4, <3>1
  <2>5. budget'["fault"] = budget["fault"] - 1
    BY <1>3, <2>1, FailureFacts, SpendFacts
  <2>6. new \in SUBSET Namespace
    BY <1>2, <2>2
  <2> HIDE DEF new
  <2>7. Cardinality(new) <= Budget["fault"] - budget'["fault"]
    BY <1>2, <1>3, <1>4, <2>4, <2>5
  <2>8. QED  BY <1>1, <2>3, <2>6, <2>7 DEF Converging, AllBut, OrderlyState
<1>7. QED  BY <1>5, <1>6

-----------------------------------------------------------------------------
(* At rest.                                                                   *)

(* When nobody is on the way, the target holds the current revision.            *)
LEMMA TendedAtRest ==
    ASSUME OrderlyState, NEW m \in Manifest, NEW n \in Namespace, Asked(m, n), Tended(m, n), Quiet
    PROVE  InSync(m.key, n)
<1> DEFINE c == TargetKey(m, n)
           h == head[c]
<1>1. /\ queue = {} /\ seen = head
      /\ \A w \in Request : stage[w].at = "idle"
  BY DEF Quiet
<1>2. SourceRequest(m.key) \in Request /\ MirrorRequest(c) \in Request
  BY RequestFacts
<1>3. /\ head[m.key] \in Nat /\ h \in Nat /\ h \in 0..Len(log) /\ Len(log) \in Nat
      /\ head[m.key] \in 1..Len(log) /\ log[head[m.key]].key = m.key
  BY AskedFacts
<1>4. ~SourcePending(m) /\ ~MirrorPending(m, n) /\ ~MirrorNext(m, n)
  BY <1>1, <1>2, <1>3 DEF SourcePending, MirrorPending, MirrorNext
<1>5. ASSUME NEW w \in Worker PROVE ~OnTheWay(m, n, w)
  <2>1. job[w].pc # "idle" => w \in Request /\ stage[w].at = "execute"
    BY OrderlyParts DEF JobOrderly
  <2>2. job[w].pc = "idle"
    BY <1>1, <2>1
  <2>3. QED  BY <2>2 DEF OnTheWay, InTheHandOf
<1>6. h # 0 /\ log[h].ver = head[m.key]
  BY <1>4, <1>5 DEF Tended, Promised, Settled
<1>7. h \in 1..Len(log)
  BY <1>3, <1>6
<1>8. log[h].key = c
  <2>1. c \in Key
    BY AskedFacts
  <2>2. QED  BY <1>6, <2>1, OrderlyParts, Parts DEF CacheSound
<1>9. CopyEntry(log[h]) /\ log[h].live
  BY <1>7, <1>8, TargetIsCopy
<1>10. log[h].from = m.key.id
  BY <1>3, <1>6, <1>9 DEF CopyEntry
<1>11. ASSUME log[h].by = "operator" PROVE log[h].data = log[head[m.key]].data
  <2>1. PICK d \in head[m.key]..Len(log) : log[d].key = m.key /\ log[h].data = log[d].data
    BY <1>3, <1>6, <1>9, <1>11 DEF CopyEntry
  <2>2. d \in 1..Len(log) /\ head[m.key] <= d
    BY <1>3, <2>1
  <2>3. d <= head[m.key]
    BY <2>1, <2>2, Revisions
  <2>4. d = head[m.key]
    BY <1>3, <2>2, <2>3
  <2>5. QED  BY <2>1, <2>4
<1>12. QED  BY <1>6, <1>9, <1>10, <1>11 DEF InSync, TargetKey, Live

(* So only what is lost is out of date.                                        *)
LEMMA OnlyLostOutOfSync ==
    ASSUME OrderlyState, NEW lost, AllBut(lost), Quiet, NEW k \in Key
    PROVE  OutOfSync(k) \subseteq lost
<1> SUFFICES ASSUME NEW n \in OutOfSync(k), n \notin lost PROVE FALSE
  OBVIOUS
<1> DEFINE r == head[k]
<1>1. /\ n \in Namespace /\ IsSource(r) /\ n # k.id.ns /\ ~InSync(k, n)
      /\ CanAutoMirrorToNamespace(log[r].policy, n) /\ CanReflectToNamespace(log[r].policy, n)
  BY DEF OutOfSync, Pushed, Permitted
<1>2. r \in 1..Len(log) /\ log[r].key = k
  <2>1. r # 0
    BY <1>1 DEF IsSource, Live
  <2>2. QED  BY <2>1, OrderlyParts, Parts DEF CacheSound
<1>3. k \in Original
  BY <1>1, <1>2, Revisions DEF IsSource
<1>4. PICK m \in Manifest : m.key = k
  BY <1>3 DEF Original
<1>5. log[r].policy = m.policy /\ OptedIn(m)
  BY <1>1, <1>2, <1>4, Revisions, OptedInIsSource
<1>6. Asked(m, n)
  BY <1>1, <1>2, <1>4, <1>5 DEF Asked, Wanted
<1>7. Tended(m, n)
  BY <1>1, <1>6, AttendedIsTended DEF AllBut
<1>8. QED  BY <1>1, <1>4, <1>6, <1>7, TendedAtRest

LEMMA AllSynced ==
    ASSUME OrderlyState, AllBut({})
    PROVE  SyncedWhenQuiet
BY OnlyLostOutOfSync DEF SyncedWhenQuiet

LEMMA ConvergingContains ==
    ASSUME OrderlyState, Converging
    PROVE  /\ FaultsContained
           /\ budget["fault"] = Budget["fault"] => SyncedWhenQuiet
<1>1. PICK lost \in SUBSET Namespace : /\ Cardinality(lost) <= Budget["fault"] - budget["fault"]
                                       /\ AllBut(lost)
  BY DEF Converging, AllBut
<1>2. IsFiniteSet(lost) /\ Cardinality(lost) \in Nat
  BY <1>1, PolicyAssumption, FS_Subset, FS_CardinalityType
<1>3. Budget["fault"] \in Nat /\ budget["fault"] \in Nat
  <2>1. "fault" \in Disturbance /\ budget \in [Disturbance -> Nat]
    BY OrderlyParts, Parts DEF Disturbance
  <2>2. QED  BY <2>1, ClusterAssumption
<1>4. ASSUME Quiet, NEW k \in Key
      PROVE  Cardinality(OutOfSync(k)) <= Budget["fault"] - budget["fault"]
  <2>1. OutOfSync(k) \in SUBSET lost
    BY <1>1, <1>4, OnlyLostOutOfSync
  <2>2. Cardinality(OutOfSync(k)) <= Cardinality(lost) /\ IsFiniteSet(OutOfSync(k))
    BY <1>2, <2>1, FS_Subset
  <2>3. Cardinality(OutOfSync(k)) \in Nat
    BY <2>2, FS_CardinalityType
  <2>4. QED  BY <1>1, <1>2, <1>3, <2>2, <2>3
<1>5. ASSUME budget["fault"] = Budget["fault"] PROVE SyncedWhenQuiet
  <2>1. Cardinality(lost) = 0
    BY <1>1, <1>2, <1>3, <1>5
  <2>2. lost = {}
    BY <1>2, <2>1, FS_EmptySet
  <2>3. QED  BY <1>1, <2>2, AllSynced
<1>6. QED  BY <1>4, <1>5 DEF FaultsContained

-----------------------------------------------------------------------------
(* Theorems. Orderly is said of the constants: it is the scope of them all.   *)

(* In orderly circumstances somebody is on the way to every target that is     *)
(* out of date, but for at most one target for each write that failed: a     *)
(* rejected write, a stale call, a version set before the write and a         *)
(* restart of the operator in the middle of anything leave nobody behind.     *)
THEOREM OperatorConverges ==
    ASSUME Orderly
    PROVE  ControllersSpec => [](OrderlyState /\ Converging)
<1>1. ControllersInit => OrderlyState /\ Converging
  BY OrderlyStart, ConvergingStart
<1>2. OrderlyState /\ Converging /\ [ControllersNext]_allVars => (OrderlyState /\ Converging)'
  BY OrderlyNext, ConvergingNext
<1>3. QED  BY <1>1, <1>2, PTL DEF ControllersSpec

(* A write that fails leaves at most its own target out of date: Execute goes   *)
(* on with the other mirrors, and what it wrote or lost harms no other one.    *)
THEOREM FailuresAreContained ==
    ASSUME Orderly
    PROVE  ControllersSpec => []FaultsContained
<1>1. OrderlyState /\ Converging => FaultsContained
  BY ConvergingContains
<1>2. QED  BY <1>1, OperatorConverges, PTL

(* As long as no write has failed, an operator with nothing left to do has       *)
(* brought the current revision of every source to every namespace that it is   *)
(* pushed to and allowed in, whatever its workers overtook each other with.     *)
THEOREM SyncedUntilAFailure ==
    ASSUME Orderly
    PROVE  ControllersSpec => [](budget["fault"] = Budget["fault"] => SyncedWhenQuiet)
<1>1. OrderlyState /\ Converging => (budget["fault"] = Budget["fault"] => SyncedWhenQuiet)
  BY ConvergingContains
<1>2. QED  BY <1>1, OperatorConverges, PTL

(* No write fails any more, and a restart is to come or has repaired all.       *)
Healing ==
    budget["fault"] = 0 /\ (budget["restart"] > 0 \/ AllBut({}))

LEMMA HealingNext ==
    ASSUME OrderlyState, Healing, [ControllersNext]_allVars
    PROVE  Healing'
<1>1. "fault" \in Disturbance /\ "restart" \in Disturbance
  BY DEF Disturbance
<1>2. ~Spend("fault")
  BY DEF Healing, Spend
<1>3. budget'["fault"] = 0
  BY <1>1, <1>2, BudgetStep, SpendFacts DEF Healing
<1>4. CASE OperatorRestart
  <2>1. AllBut({})'
    BY <1>4, RestartAttends DEF AllBut
  <2>2. QED  BY <1>3, <2>1 DEF Healing
<1>5. CASE ~OperatorRestart
  <2>1. budget'["restart"] = budget["restart"]
    BY <1>1, <1>2, <1>5, BudgetStep, SpendFacts
  <2>2. \A w \in Request : ~WriteFails(w)
    BY <1>2 DEF WriteFails
  <2>3. AllBut({}) => AllBut({})'
    BY <2>2, NobodyLost
  <2>4. QED  BY <1>3, <2>1, <2>3 DEF Healing
<1>6. QED  BY <1>4, <1>5

(* A restart after the last failed write repairs what the failures left: from    *)
(* the initial list every source is reconciled with an empty store, so no        *)
(* Mirror is taken for up to date that is not.                                  *)
THEOREM RestartRepairs ==
    ASSUME Orderly
    PROVE  ControllersSpec => RestartHeals
<1>1. OrderlyState /\ budget["fault"] = 0 /\ budget["restart"] > 0 => Healing
  BY DEF Healing
<1>2. OrderlyState /\ Healing /\ [ControllersNext]_allVars => Healing'
  BY HealingNext
<1>3. OrderlyState /\ Healing => (budget["restart"] = 0 => SyncedWhenQuiet)
  <2>1. budget["restart"] = 0 => ~(budget["restart"] > 0)
    OBVIOUS
  <2>2. QED  BY <2>1, AllSynced DEF Healing
<1>4. QED  BY <1>1, <1>2, <1>3, OperatorConverges, PTL DEF ControllersSpec, RestartHeals
==============================================================================
