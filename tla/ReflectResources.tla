--------------------------- MODULE ReflectResources ---------------------------
(***************************************************************************)
(* ReflectResourcesUseCase and the InMemoryMirrorStore it works on.        *)
(*                                                                         *)
(* Execute(source) is called concurrently by the workers of several        *)
(* controllers. Between two steps of one call any other call, the watch    *)
(* and the users may act; a step is at most one access to shared state:    *)
(* one locked operation of the store, one read of the informer cache, one  *)
(* unlocked read or write of a mirror's version, one API request.          *)
(*                                                                         *)
(* The store maps MirrorIDs to pointers. A call keeps the pointers it      *)
(* listed even when the store forgets or replaces them meanwhile, and sets *)
(* the version of whatever object it holds.                                *)
(***************************************************************************)
EXTENDS Cluster

CONSTANTS
    Worker,     \* the callers of Execute
    Ptr         \* addresses of Mirror objects

ASSUME EngineAssumption == Ptr \subseteq Nat \ {0}

Nil == 0

VARIABLES
    store,      \* store[id]: the Mirror registered for id, or Nil
    heap,       \* heap[p]: the Mirror object at address p
    job         \* job[w]: the call of Execute that worker w is in

engineVars == <<store, heap, job>>

Mirror == [id: ID \cup {NoID}, source: ID \cup {NoID}, kind: Kind \cup {"none"},
           version: Nat, auto: BOOLEAN]

NoMirror == [id |-> NoID, source |-> NoID, kind |-> "none", version |-> 0,
             auto |-> FALSE]

(* A call: the Source it was given (the revision ver it was read from, the *)
(* policy and the target name the converter gave it), what its loops have  *)
(* left to do (namespaces nss, MirrorIDs ids, Mirror pointers ptrs) and    *)
(* its locals: the target at of the auto mirror in hand, the mirror cur    *)
(* being reflected, the revision dat its payload was read from and the     *)
(* cached revision got of the target that it is about to replace.          *)
Job == [pc: {"idle", "auto", "conflict", "create", "cleanup", "forget",
             "mirrors", "check", "set", "get", "write"},
        ver: Nat, policy: Policy, name: Name \cup {NoID}, nss: SUBSET Namespace, ids: SUBSET ID,
        ptrs: SUBSET Ptr, at: ID \cup {NoID}, cur: Ptr \cup {Nil}, dat: Nat,
        got: Nat]

NoJob == [pc |-> "idle", ver |-> 0, policy |-> NoPolicy, name |-> NoID,
          nss |-> {}, ids |-> {}, ptrs |-> {}, at |-> NoID, cur |-> Nil, dat |-> 0, got |-> 0]

EngineTypeOK ==
    /\ store \in [ID -> Ptr \cup {Nil}]
    /\ heap \in [Ptr -> Mirror]
    /\ job \in [Worker -> Job]

EngineInit ==
    /\ store = [id \in ID |-> Nil]
    /\ heap = [p \in Ptr |-> NoMirror]
    /\ job = [w \in Worker |-> NoJob]

-----------------------------------------------------------------------------
(* InMemoryMirrorStore.                                                    *)

Registered(id) == store[id] # Nil

(* Mutant: the index has the name of the source only.                       *)
GetBySourceName(source) ==
    {id \in ID : Registered(id) /\ heap[store[id]].source.name = source.name}

GetBySourceID(source) ==
    {id \in ID : Registered(id) /\ heap[store[id]].source = source}

ListByNamespace(n) == {id \in ID : id.ns = n /\ Registered(id)}

(* The addresses nothing refers to any more.                               *)
Fresh == {p \in Ptr : /\ \A id \in ID : store[id] # p
                      /\ \A w \in Worker : p \notin job[w].ptrs /\ p # job[w].cur}

(* RegisterMirror and Create: a new Mirror object, version "", takes the   *)
(* place of what was registered for its ID.                                *)
Register(id, source, kind, auto) ==
    \E p \in Fresh :
        /\ \A q \in Fresh : p <= q
        /\ heap' = [heap EXCEPT ![p] = [id |-> id, source |-> source,
                       kind |-> kind, version |-> 0, auto |-> auto]]
        /\ store' = [store EXCEPT ![id] = p]

(* UnregisterMirror and Delete. The object in the cluster stays.           *)
Unregister(id) ==
    /\ store' = [store EXCEPT ![id] = Nil]
    /\ heap' = heap

-----------------------------------------------------------------------------
(* Execute.                                                                *)

SourceKey(w) == log[job[w].ver].key
SourceID(w) == SourceKey(w).id
TargetID(w, n) == [ns |-> n, name |-> job[w].name]

Go(w, label) == job' = [job EXCEPT ![w].pc = label]

(* The mirror in hand is finished: Execute continues with the next one,     *)
(* whatever the result was.                                                *)
NextMirror(w) ==
    job' = [job EXCEPT ![w] = [@ EXCEPT !.pc = "mirrors", !.cur = Nil,
                                        !.dat = 0, !.got = 0]]

(* Where a call goes on once its loop over the namespaces has nss left.     *)
AfterNamespaces(nss) == IF nss = {} THEN "cleanup" ELSE "auto"

(* NamespaceListerAdapter.List answers from the cache.                      *)
ListNamespaces == nsSeen

(* Execute is entered with the Source made from revision v. Every converter *)
(* sets allowed, so the IsAllowed branch is never taken.                   *)
(* handleAutoMirrors lists the namespaces once and goes through those that *)
(* get an automatic mirror, in no particular order.                        *)
Execute(w, v, policy, name) ==
    /\ job[w].pc = "idle"
    /\ LET nss == {n \in ListNamespaces \ {log[v].key.id.ns} :
                      CanAutoMirrorToNamespace(policy, n)}
       IN  job' = [job EXCEPT ![w] = [NoJob EXCEPT
                     !.pc = AfterNamespaces(nss), !.nss = nss,
                     !.ver = v, !.policy = policy, !.name = name]]
    /\ UNCHANGED <<clusterVars, store, heap>>

(* createAutoMirrorIfNotExists: mirrorRepo.Get decides.                     *)
CreateAutoMirrorIfNotExists(w, n) ==
    /\ job[w].pc = "auto" /\ n \in job[w].nss
    /\ LET nss == job[w].nss \ {n}
       IN  job' = [job EXCEPT ![w] = IF Registered(TargetID(w, n))
                     THEN [@ EXCEPT !.nss = nss, !.pc = AfterNamespaces(nss)]
                     ELSE [@ EXCEPT !.nss = nss, !.pc = "conflict",
                                    !.at = TargetID(w, n)]]
    /\ UNCHANGED <<clusterVars, store, heap>>

(* The automatic mirror in hand is done with.                               *)
NextNamespace(w) ==
    job' = [job EXCEPT ![w] = [@ EXCEPT !.pc = AfterNamespaces(job[w].nss), !.at = NoID]]

(* IsHelmSecret and IsHelmConfigMap.                                        *)
IsHelm(r) == log[r].helm

(* An object is in the way unless Helm or replicated-from marks it.         *)
InTheWay(r) == Live(r) /\ ~IsHelm(r) /\ log[r].from = NoID

CheckForConflicts(w) ==
    /\ job[w].pc = "conflict"
    /\ IF InTheWay(seen[[kind |-> SourceKey(w).kind, id |-> job[w].at]])
       THEN NextNamespace(w)
       ELSE Go(w, "create")
    /\ UNCHANGED <<clusterVars, store, heap>>

CreateAutoMirror(w) ==
    /\ job[w].pc = "create"
    /\ Register(job[w].at, SourceID(w), SourceKey(w).kind, TRUE)
    /\ NextNamespace(w)
    /\ UNCHANGED clusterVars

(* cleanupAutoMirrorsWhenNoLongerAllowed drops from the store, one by one,  *)
(* the mirrors of this source (auto or not) whose namespace gets no        *)
(* automatic mirror.                                                       *)
CleanupAutoMirrors(w) ==
    /\ job[w].pc = "cleanup"
    /\ job' = [job EXCEPT ![w] = [@ EXCEPT !.pc = "forget",
                 !.ids = {id \in GetBySourceID(SourceID(w)) :
                            ~CanAutoMirrorToNamespace(job[w].policy, id.ns)}]]
    /\ UNCHANGED <<clusterVars, store, heap>>

ForgetMirror(w, id) ==
    /\ job[w].pc = "forget" /\ id \in job[w].ids
    /\ Unregister(id)
    /\ job' = [job EXCEPT ![w].ids = @ \ {id}]
    /\ UNCHANGED clusterVars

ListMirrors(w) ==
    /\ job[w].pc = "forget" /\ job[w].ids = {}
    /\ job' = [job EXCEPT ![w] = [@ EXCEPT !.pc = "mirrors",
                 !.ptrs = {store[id] : id \in GetBySourceID(SourceID(w))}]]
    /\ UNCHANGED <<clusterVars, store, heap>>

(* reflectToMirror reads the payload afresh from the cache.                 *)
ReadSource(w, p) ==
    /\ job[w].pc = "mirrors" /\ p \in job[w].ptrs
    /\ LET r == seen[SourceKey(w)]
           left == job[w].ptrs \ {p}
       IN  job' = [job EXCEPT ![w] = IF Live(r)
                     THEN [@ EXCEPT !.ptrs = left, !.pc = "check", !.cur = p, !.dat = r]
                     ELSE [@ EXCEPT !.ptrs = left]]
    /\ UNCHANGED <<clusterVars, store, heap>>

(* Mutant: Reflect does not ask CanReflectToNamespace.                      *)
ReflectUnchecked(w) ==
    /\ job[w].pc = "check"
    /\ IF heap[job[w].cur].version # job[w].ver THEN Go(w, "set") ELSE NextMirror(w)
    /\ UNCHANGED <<clusterVars, store, heap>>

(* ReflectionService.Reflect: the checks ...                                *)
Reflect(w) ==
    /\ job[w].pc = "check"
    /\ LET m == heap[job[w].cur]
       IN  IF /\ CanReflectToNamespace(job[w].policy, m.id.ns)
              /\ m.version # job[w].ver
           THEN Go(w, "set")
           ELSE NextMirror(w)
    /\ UNCHANGED <<clusterVars, store, heap>>

(* ... and SetVersion, before anything is written.                          *)
SetVersion(w) ==
    /\ job[w].pc = "set"
    /\ heap' = [heap EXCEPT ![job[w].cur].version = job[w].ver]
    /\ Go(w, "get")
    /\ UNCHANGED <<clusterVars, store>>

MirrorKey(w) == [kind |-> heap[job[w].cur].kind, id |-> heap[job[w].cur].id]

(* updateMirrorData reads the target from the cache. Nothing is written      *)
(* when it carries the version already.                                    *)
GetMirror(w) ==
    /\ job[w].pc = "get"
    /\ LET r == seen[MirrorKey(w)]
       IN  IF Live(r) /\ log[r].ver = job[w].ver
           THEN NextMirror(w)
           ELSE job' = [job EXCEPT ![w] = [@ EXCEPT !.pc = "write",
                          !.got = IF Live(r) THEN r ELSE 0]]
    /\ UNCHANGED <<clusterVars, store, heap>>

(* The API server accepts a Create when the object does not exist and the   *)
(* namespace is active, an Update when the object is still the revision    *)
(* that was read.                                                          *)
Accepted(k, got) ==
    IF got = 0 THEN ~Live(head[k]) /\ phase[k.id.ns] = "active"
               ELSE head[k] = got

WriteMirror(w) ==
    /\ job[w].pc = "write"
    /\ Len(log) < MaxRevision
    /\ Accepted(MirrorKey(w), job[w].got)
    /\ Commit(MirrorEntry(MirrorKey(w), log[job[w].dat].data, SourceID(w),
                          job[w].ver, heap[job[w].cur].auto))
    /\ NextMirror(w)
    /\ UNCHANGED <<seen, phase, nsSeen, budget, store, heap>>

(* A rejected write (AlreadyExists, Conflict, NotFound, Forbidden) is an     *)
(* error, and Execute goes on with the next mirror.                        *)
WriteRejected(w) ==
    /\ job[w].pc = "write"
    /\ ~Accepted(MirrorKey(w), job[w].got)
    /\ NextMirror(w)
    /\ UNCHANGED <<clusterVars, store, heap>>

(* Mutant: a failed request ends Execute instead of continuing.             *)
WriteFailureAborts(w) ==
    /\ job[w].pc = "write"
    /\ Spend("fault")
    /\ job' = [job EXCEPT ![w] = [@ EXCEPT !.pc = "mirrors", !.ptrs = {},
                                  !.cur = Nil, !.dat = 0, !.got = 0]]
    /\ UNCHANGED <<log, head, seen, phase, nsSeen, store, heap>>

(* So is a request that fails on its way.                                   *)
WriteFails(w) ==
    /\ job[w].pc = "write"
    /\ Spend("fault")
    /\ NextMirror(w)
    /\ UNCHANGED <<log, head, seen, phase, nsSeen, store, heap>>

ExecuteReturns(w) ==
    /\ job[w].pc = "mirrors" /\ job[w].ptrs = {}
    /\ job' = [job EXCEPT ![w] = NoJob]
    /\ UNCHANGED <<clusterVars, store, heap>>

(* A step inside Execute.                                                   *)
Work(w) ==
    \/ \E n \in Namespace : CreateAutoMirrorIfNotExists(w, n)
    \/ CheckForConflicts(w)
    \/ CreateAutoMirror(w)
    \/ CleanupAutoMirrors(w)
    \/ \E id \in ID : ForgetMirror(w, id)
    \/ ListMirrors(w)
    \/ \E p \in Ptr : ReadSource(w, p)
    \/ Reflect(w)
    \/ SetVersion(w)
    \/ GetMirror(w)
    \/ WriteMirror(w)
    \/ WriteRejected(w)
    \/ WriteFails(w)

-----------------------------------------------------------------------------
(* The engine by itself: calls of Execute and of the store come from        *)
(* anywhere, at any time. The controllers are one such environment.        *)

(* What a caller owes Execute: the Source is one that the converters make   *)
(* of v, and v is a live revision that the cache has reached.              *)
IsSourceOf(policy, v) ==
    /\ v \in 1..Len(log) /\ log[v].live
    /\ v <= seen[log[v].key]
    /\ policy \in Sources(log[v])

RegisterMirror(id, source, kind, auto) ==
    /\ Register(id, source, kind, auto)
    /\ UNCHANGED <<clusterVars, job>>

UnregisterMirror(id) ==
    /\ Unregister(id)
    /\ UNCHANGED <<clusterVars, job>>

(* The process stops and starts again: only the cluster survives, and the   *)
(* new informers begin with a full list.                                   *)
Restart ==
    /\ Spend("restart")
    /\ store' = [id \in ID |-> Nil]
    /\ heap' = [p \in Ptr |-> NoMirror]
    /\ job' = [w \in Worker |-> NoJob]
    /\ seen' = head
    /\ nsSeen' = {n \in Namespace : phase[n] # "gone"}
    /\ UNCHANGED <<log, head, phase>>

(* Something happens to the parts of the operator that are not modelled here. *)
Elsewhere ==
    /\ \E d \in {"expire", "event", "rule"} : Spend(d)
    /\ UNCHANGED <<log, head, seen, phase, nsSeen, store, heap, job>>

vars == <<clusterVars, engineVars>>

Init == ClusterInit /\ EngineInit

Next ==
    \/ UserStep /\ UNCHANGED engineVars
    \/ \E k \in Key, r \in 1..Len(log) : Observe(k, r) /\ UNCHANGED engineVars
    \/ \E n \in Namespace : ObserveNamespace(n) /\ UNCHANGED engineVars
    \/ \E w \in Worker : Work(w) \/ ExecuteReturns(w)
    \/ \E w \in Worker, v \in 1..Len(log) :
          \E policy \in Sources(log[v]), name \in Name :
             IsSourceOf(policy, v) /\ Execute(w, v, policy, name)
    \/ \E id \in ID, source \in ID, kind \in Kind, auto \in BOOLEAN :
          RegisterMirror(id, source, kind, auto)
    \/ \E id \in ID : UnregisterMirror(id)
    \/ Restart
    \/ Elsewhere

Spec == Init /\ [][Next]_vars

-----------------------------------------------------------------------------
(* Why the engine keeps MirrorContract: the inductive invariant.             *)

EngineTypes == ClusterTypeOK /\ EngineTypeOK

(* head and seen name revisions of their own key, and the cache is never     *)
(* ahead of the server.                                                    *)
CacheSound ==
    \A k \in Key : /\ head[k] # 0 => log[head[k]].key = k
                   /\ seen[k] # 0 => log[seen[k]].key = k
                   /\ seen[k] <= head[k]

(* A Mirror object that somebody can reach.                                  *)
Allocated(p) == heap[p].id \in ID /\ heap[p].kind \in Kind

StoreSound == \A id \in ID : store[id] # Nil => Allocated(store[id])

(* The Source of a call is that of a live revision the cache has reached ...  *)
SourceSound(j) == IsSourceOf(j.policy, j.ver) /\ j.name \in Name

(* ... and its payload a live revision of the same object, not older.        *)
PayloadSound(j) ==
    /\ j.cur # Nil
    /\ j.dat \in 1..Len(log) /\ log[j.dat].live
    /\ log[j.dat].key = log[j.ver].key
    /\ j.ver <= j.dat

JobSound(j) ==
    /\ j.pc # "idle" => SourceSound(j)
    /\ j.pc \in {"conflict", "create"} => j.at \in ID
    /\ \A p \in j.ptrs : Allocated(p)
    /\ j.cur # Nil => Allocated(j.cur)
    /\ j.pc \in {"check", "set", "get", "write"} => PayloadSound(j)
    /\ j.pc \in {"set", "get", "write"} =>
          CanReflectToNamespace(j.policy, heap[j.cur].id.ns)

JobsSound == \A w \in Worker : JobSound(job[w])

EngineInv == EngineTypes /\ CacheSound /\ StoreSound /\ JobsSound

(* The log is one of MirrorContract.                                        *)
Contract == INSTANCE MirrorContract WITH log <- log
==============================================================================
