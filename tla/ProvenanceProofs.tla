--------------------------- MODULE ProvenanceProofs ---------------------------
(***************************************************************************)
(* The operator copies nothing without a reason, with rules and without,    *)
(* whatever the cluster does.                                               *)
(***************************************************************************)
EXTENDS ClusterRulesProofs

ReasonState(R) == EngineInv /\ ControllerInv /\ Reasoned(R)

LEMMA ReasonParts ==
    ASSUME NEW R, ReasonState(R)
    PROVE  /\ EngineInv /\ ControllerInv /\ LogReasoned(R) /\ HeapReasoned(R)
           /\ \A w \in Worker : JobReasoned(R, job[w])
           /\ \A w \in Request : StageReasoned(R, w, stage[w])
BY DEF ReasonState, Reasoned

-----------------------------------------------------------------------------
(* Reasons.                                                                  *)

(* A reason stays one: the log is never rewritten.                           *)
LEMMA ReasonStays ==
    ASSUME NEW R, EngineInv, EngineInv', Advances, NEW source, NEW id, Reason(R, source, id)
    PROVE  Reason(R, source, id)'
<1>1. Len(log) \in Nat /\ Len(log') \in Nat /\ Len(log) <= Len(log')
      /\ \A i \in 1..Len(log) : i \in 1..Len(log') /\ log'[i] = log[i]
  BY Parts DEF Advances, EngineInv, EngineTypes, ClusterTypeOK
<1>2. AnnotationsAsk(source, id) => AnnotationsAsk(source, id)'
  BY <1>1 DEF AnnotationsAsk
<1>3. AUserAsks(source, id) => AUserAsks(source, id)'
  BY <1>1 DEF AUserAsks
<1>4. ARuleAsks(R, source, id) => ARuleAsks(R, source, id)'
  BY DEF ARuleAsks
<1>5. QED  BY <1>2, <1>3, <1>4 DEF Reason

LEMMA RevisionStays ==
    ASSUME EngineInv, EngineInv', Advances, NEW v \in 1..Len(log)
    PROVE  v \in 1..Len(log') /\ log'[v] = log[v]
BY Parts DEF Advances, EngineInv, EngineTypes, ClusterTypeOK

(* The list of namespaces that a rule makes matches those and no others.     *)
LEMMA ListedMatches ==
    ASSUME NEW nss \in SUBSET Namespace, NEW n \in Namespace
    PROVE  /\ Matches(NewAllowedNamespaces(Listed(nss)), n) <=> n \in nss
           /\ IsEmpty(NewAllowedNamespaces(Listed(nss))) <=> nss = {}
<1> DEFINE items == Listed(nss)
           allowed == NewAllowedNamespaces(items)
<1>1. items \in Seq(nss) /\ \A x \in nss : \E i \in DOMAIN items : items[i] = x
  BY ListedFacts
<1> HIDE DEF items
<1>2. {items[i] : i \in DOMAIN items} = nss
  BY <1>1
<1>3. Stops(items) = {}
  <2>1. Star \notin nss /\ \A x \in nss : x \notin Malformed
    BY PolicyAssumption
  <2>2. QED  BY <1>1, <2>1 DEF Stops
<1>4. allowed.patterns = nss /\ allowed.isAll = FALSE
  BY <1>2, <1>3 DEF NewAllowedNamespaces
<1> HIDE DEF allowed
<1>5. \A x \in nss : Hits[x] = {x}
  BY PolicyAssumption
<1>6. /\ Matches(allowed, n) <=> n \in nss
      /\ IsEmpty(allowed) <=> nss = {}
  BY <1>4, <1>5 DEF Matches, IsEmpty
<1>7. QED  BY <1>6 DEF allowed, items

(* A rule pushes to its targets and nowhere else.                            *)
LEMMA RulePushes ==
    ASSUME NEW nss \in SUBSET Namespace, NEW n \in Namespace,
           CanAutoMirrorToNamespace(RulePolicy(nss), n)
    PROVE  n \in nss
<1> DEFINE allowed == NewAllowedNamespaces(Listed(nss))
<1>1. nss # {} /\ (IsEmpty(allowed) \/ Matches(allowed, n))
  BY DEF CanAutoMirrorToNamespace, RulePolicy
<1>2. QED  BY <1>1, ListedMatches

LEMMA TargetsAreAsked ==
    ASSUME NEW spec, NEW k, Covers(spec, k), NEW nss, NEW n \in TargetNamespaces(spec, nss)
    PROVE  Asks(spec, k, n)
BY DEF TargetNamespaces, Asks

-----------------------------------------------------------------------------
(* What a step leaves alone stays reasoned.                                  *)

(* A step of the operator or around it.                                      *)
Moves == EngineInv' /\ ControllerInv' /\ Advances

LEMMA LogStays ==
    ASSUME NEW R, ReasonState(R), Moves, UNCHANGED log
    PROVE  LogReasoned(R)'
<1>1. EngineInv /\ EngineInv' /\ Advances /\ LogReasoned(R)
  BY ReasonParts DEF Moves
<1> SUFFICES ASSUME NEW i \in 1..Len(log)
             PROVE  /\ log[i].from # NoID => Reason(R, log[i].from, log[i].key.id)'
                    /\ log[i].by = "operator" => /\ log[i].ver \in 1..Len(log)
                                                 /\ log[i].from = log[log[i].ver].key.id
  BY DEF LogReasoned
<1>2. log[i].from # NoID => Reason(R, log[i].from, log[i].key.id)
  BY <1>1 DEF LogReasoned
<1>3. log[i].from # NoID => Reason(R, log[i].from, log[i].key.id)'
  BY <1>1, <1>2, ReasonStays
<1>4. QED  BY <1>1, <1>3 DEF LogReasoned

LEMMA LogGrows ==
    ASSUME NEW R, ReasonState(R), Moves, NEW e \in Entry, Commit(e),
           e.from # NoID => Reason(R, e.from, e.key.id)',
           e.by = "operator" => e.ver \in 1..Len(log) /\ e.from = log[e.ver].key.id
    PROVE  LogReasoned(R)'
<1>1. EngineInv /\ EngineInv' /\ Advances /\ LogReasoned(R) /\ ClusterTypeOK /\ Len(log) \in Nat
  BY ReasonParts, Parts DEF Moves
<1>2. Len(log') = Len(log) + 1 /\ log'[Len(log) + 1] = e
  BY <1>1, CommitFacts
<1> SUFFICES ASSUME NEW i \in 1..Len(log')
             PROVE  /\ log'[i].from # NoID => Reason(R, log[i].from, log[i].key.id)'
                    /\ log'[i].by = "operator" => /\ log'[i].ver \in 1..Len(log')
                                                  /\ log'[i].from = log'[log'[i].ver].key.id
  BY DEF LogReasoned
<1>3. CASE i = Len(log) + 1
  <2>1. log'[i].by = "operator" => log'[e.ver] = log[e.ver] /\ e.ver \in 1..Len(log')
    BY <1>1, <1>2, <1>3, RevisionStays
  <2>2. QED  BY <1>2, <1>3, <2>1
<1>4. CASE i \in 1..Len(log)
  <2>1. log'[i] = log[i]
    BY <1>1, <1>4, RevisionStays
  <2>2. log[i].from # NoID => Reason(R, log[i].from, log[i].key.id)
    BY <1>1, <1>4 DEF LogReasoned
  <2>3. log[i].from # NoID => Reason(R, log[i].from, log[i].key.id)'
    BY <1>1, <2>1, <2>2, ReasonStays
  <2>4. log[i].by = "operator" =>
           /\ log[i].ver \in 1..Len(log')
           /\ log[i].from = log'[log[i].ver].key.id
    BY <1>1, <1>4, RevisionStays DEF LogReasoned
  <2>5. QED  BY <2>1, <2>3, <2>4
<1>5. QED  BY <1>1, <1>2, <1>3, <1>4

LEMMA HeapStays ==
    ASSUME NEW R, ReasonState(R), Moves,
           \A p \in Ptr : heap'[p].id = heap[p].id /\ heap'[p].source = heap[p].source
    PROVE  HeapReasoned(R)'
<1>1. EngineInv /\ EngineInv' /\ Advances /\ HeapReasoned(R)
  BY ReasonParts DEF Moves
<1> SUFFICES ASSUME NEW p \in Ptr, heap[p].id # NoID
             PROVE  Reason(R, heap[p].source, heap[p].id)'
  BY DEF HeapReasoned
<1>2. Reason(R, heap[p].source, heap[p].id)
  BY <1>1 DEF HeapReasoned
<1>3. QED  BY <1>1, <1>2, ReasonStays

(* A call that is where it was, or a new one that had its reasons before.     *)
LEMMA JobStays ==
    ASSUME NEW R, ReasonState(R), Moves, NEW j \in Job, JobReasoned(R, j),
           j.pc # "idle" => j.ver \in 1..Len(log),
           \A p \in Ptr : Holds(j, p) => heap'[p].source = heap[p].source
    PROVE  JobReasoned(R, j)'
<1>1. EngineInv /\ EngineInv' /\ Advances
  BY ReasonParts DEF Moves
<1> SUFFICES ASSUME j.pc # "idle" PROVE JobReasoned(R, j)'
  BY DEF JobReasoned
<1> DEFINE source == log[j.ver].key.id
<1>2. log'[j.ver] = log[j.ver]
  BY <1>1, RevisionStays
<1>3. \A n \in j.nss : Reason(R, source, [ns |-> n, name |-> j.name])
  BY DEF JobReasoned
<1>4. j.pc \in {"conflict", "create"} => Reason(R, source, j.at)
  BY DEF JobReasoned
<1>5. \A p \in Ptr : p \in j.ptrs \/ p = j.cur => heap'[p].source = source
  BY DEF JobReasoned, Holds
<1>6. \A n \in j.nss : Reason(R, log[j.ver].key.id, [ns |-> n, name |-> j.name])'
  BY <1>1, <1>2, <1>3, ReasonStays
<1>7. j.pc \in {"conflict", "create"} => Reason(R, log[j.ver].key.id, j.at)'
  BY <1>1, <1>2, <1>4, ReasonStays
<1>8. QED  BY <1>2, <1>5, <1>6, <1>7 DEF JobReasoned

LEMMA JobsStay ==
    ASSUME NEW R, ReasonState(R), Moves, UNCHANGED job,
           \A w \in Worker : \A p \in Ptr :
              Holds(job[w], p) => heap'[p].source = heap[p].source
    PROVE  \A w \in Worker : JobReasoned(R, job[w])'
<1> SUFFICES ASSUME NEW w \in Worker PROVE JobReasoned(R, job[w])'
  OBVIOUS
<1>1. job[w] \in Job /\ JobReasoned(R, job[w]) /\ EngineInv
  BY ReasonParts, Parts
<1>2. job[w].pc # "idle" => job[w].ver \in 1..Len(log)
  BY <1>1, SourceFacts
<1>3. QED  BY <1>1, <1>2, JobStays

(* The call of w moves on.                                                   *)
LEMMA JobMoves ==
    ASSUME NEW R, ReasonState(R), Moves, NEW w \in Worker, NEW x \in Job, JobReasoned(R, x),
           x.pc # "idle" => x.ver \in 1..Len(log), job' = [job EXCEPT ![w] = x],
           \A u \in Worker : \A p \in Ptr :
              Holds(job'[u], p) => heap'[p].source = heap[p].source
    PROVE  \A u \in Worker : JobReasoned(R, job[u])'
<1> SUFFICES ASSUME NEW u \in Worker PROVE JobReasoned(R, job[u])'
  OBVIOUS
<1>1. /\ job \in [Worker -> Job] /\ job[u] \in Job /\ JobReasoned(R, job[u]) /\ EngineInv
      /\ job'[w] = x /\ (u # w => job'[u] = job[u])
  BY ReasonParts, Parts DEF EngineTypeOK
<1>2. CASE u = w
  BY <1>1, <1>2, JobStays
<1>3. CASE u # w
  <2>1. job[u].pc # "idle" => job[u].ver \in 1..Len(log)
    BY <1>1, SourceFacts
  <2>2. QED  BY <1>1, <1>3, <2>1, JobStays
<1>4. QED  BY <1>2, <1>3

LEMMA StageStays ==
    ASSUME NEW R, ReasonState(R), Moves, NEW w \in Request, NEW s \in Stage, StageReasoned(R, w, s),
           s.at \in {"hit", "issued", "register", "count"} \/ s.left > 0 =>
              s.ver \in 1..Len(log)
    PROVE  StageReasoned(R, w, s)'
<1>1. EngineInv /\ EngineInv' /\ Advances
  BY ReasonParts DEF Moves
<1>2. s.at \in {"hit", "issued", "register", "count"} \/ s.left > 0 => log'[s.ver] = log[s.ver]
  BY <1>1, RevisionStays
<1>3. s.at \in {"source", "adopt", "register"} => Reason(R, s.from, w.id)'
  BY <1>1, ReasonStays DEF StageReasoned
<1>4. QED  BY <1>2, <1>3 DEF StageReasoned

LEMMA StageVersions ==
    ASSUME NEW R, ReasonState(R), NEW w \in Request
    PROVE  /\ stage[w] \in Stage /\ StageReasoned(R, w, stage[w]) /\ StageSound(stage[w])
           /\ \/ stage[w].at \in {"hit", "issued", "register", "count"}
              \/ stage[w].left > 0
              => stage[w].ver \in 1..Len(log)
<1>1. stage[w] \in Stage /\ StageReasoned(R, w, stage[w]) /\ StageSound(stage[w])
  BY ReasonParts, ControllerParts
<1>2. QED  BY <1>1 DEF StageSound, IsSourceOf

LEMMA StagesStay ==
    ASSUME NEW R, ReasonState(R), Moves, UNCHANGED stage
    PROVE  \A w \in Request : StageReasoned(R, w, stage[w])'
<1> SUFFICES ASSUME NEW w \in Request PROVE StageReasoned(R, w, stage[w])'
  OBVIOUS
<1>1. QED  BY StageVersions, StageStays

(* The Reconcile of w moves on.                                              *)
LEMMA StageMoves ==
    ASSUME NEW R, ReasonState(R), Moves, NEW w \in Request, NEW s \in Stage, StageReasoned(R, w, s),
           s.at \in {"hit", "issued", "register", "count"} \/ s.left > 0 =>
              s.ver \in 1..Len(log),
           stage' = [stage EXCEPT ![w] = s]
    PROVE  \A u \in Request : StageReasoned(R, u, stage[u])'
<1> SUFFICES ASSUME NEW u \in Request PROVE StageReasoned(R, u, stage[u])'
  OBVIOUS
<1>1. stage \in [Request -> Stage]
  BY ReasonParts, ControllerParts
<1>2. CASE u = w
  BY <1>1, <1>2, StageStays
<1>3. CASE u # w
  BY <1>1, <1>3, StageVersions, StageStays
<1>4. QED  BY <1>2, <1>3

-----------------------------------------------------------------------------
(* Calls of Execute.                                                         *)

CallsReasoned(R) ==
    LogReasoned(R) /\ HeapReasoned(R) /\ \A w \in Worker : JobReasoned(R, job[w])

LEMMA CallFields ==
    ASSUME NEW R, ReasonState(R), NEW w \in Worker
    PROVE  /\ job[w] \in Job /\ JobReasoned(R, job[w]) /\ EngineInv /\ job \in [Worker -> Job]
           /\ job[w].pc # "idle" =>
                 /\ job[w].ver \in 1..Len(log) /\ SourceID(w) = log[job[w].ver].key.id
                 /\ SourceID(w) \in ID /\ SourceKey(w) \in Key
                 /\ \A p \in Ptr : Holds(job[w], p) => heap[p].source = SourceID(w)
<1>1. /\ job[w] \in Job /\ JobReasoned(R, job[w]) /\ EngineInv /\ job \in [Worker -> Job]
  BY ReasonParts, Parts DEF EngineTypeOK
<1>2. job[w].pc # "idle" =>
         /\ job[w].ver \in 1..Len(log) /\ SourceID(w) = log[job[w].ver].key.id
         /\ SourceID(w) \in ID /\ SourceKey(w) \in Key
  BY <1>1, SourceFacts DEF SourceID, SourceKey
<1>3. job[w].pc # "idle" => \A p \in Ptr : Holds(job[w], p) => heap[p].source = SourceID(w)
  BY <1>1, <1>2 DEF JobReasoned, Holds
<1>4. QED  BY <1>1, <1>2, <1>3

(* A step that touches nothing but the call of w, and keeps it on its way.    *)
LEMMA CallMoves ==
    ASSUME NEW R, ReasonState(R), Moves, NEW w \in Worker, UNCHANGED <<log, heap>>,
           NEW x, job' = [job EXCEPT ![w] = x], job[w].pc # "idle",
           x.ver = job[w].ver, x.name = job[w].name, x.nss \subseteq job[w].nss,
           x.pc \in {"conflict", "create"} => Reason(R, SourceID(w), x.at),
           \A p \in Ptr : Holds(x, p) => heap[p].source = SourceID(w)
    PROVE  CallsReasoned(R)'
<1>1. LogReasoned(R)' /\ HeapReasoned(R)'
  BY LogStays, HeapStays
<1>2. x \in Job
  <2>1. job' \in [Worker -> Job] /\ job'[w] = x
    BY CallFields DEF Moves, EngineInv, EngineTypes, EngineTypeOK
  <2>2. QED  BY <2>1
<1>3. JobReasoned(R, x)
  <2>1. \A n \in x.nss : Reason(R, SourceID(w), [ns |-> n, name |-> x.name])
    BY CallFields DEF JobReasoned
  <2>2. QED  BY <2>1, CallFields DEF JobReasoned, Holds
<1>4. \A u \in Worker : JobReasoned(R, job[u])'
  BY <1>2, <1>3, CallFields, JobMoves
<1>5. QED  BY <1>1, <1>4 DEF CallsReasoned

LEMMA NamespacesReasoned ==
    ASSUME NEW R, ReasonState(R), Moves, NEW w \in Worker, NEW n \in Namespace,
           CreateAutoMirrorIfNotExists(w, n)
    PROVE  CallsReasoned(R)'
<1> DEFINE nss == job[w].nss \ {n}
           x == [job[w] EXCEPT !.nss = nss, !.pc = AfterNamespaces(nss)]
           y == [job[w] EXCEPT !.nss = nss, !.pc = "conflict", !.at = TargetID(w, n)]
<1>1. /\ job[w].pc = "auto" /\ n \in job[w].nss /\ UNCHANGED <<log, heap>>
      /\ job' = [job EXCEPT ![w] = x] \/ job' = [job EXCEPT ![w] = y]
  BY DEF CreateAutoMirrorIfNotExists, clusterVars
<1>2. /\ x.ver = job[w].ver /\ x.name = job[w].name /\ x.nss = nss /\ x.ptrs = job[w].ptrs
      /\ x.cur = job[w].cur /\ x.pc \in {"auto", "cleanup"}
  BY CallFields DEF Job, AfterNamespaces
<1>3. /\ y.ver = job[w].ver /\ y.name = job[w].name /\ y.nss = nss /\ y.ptrs = job[w].ptrs
      /\ y.cur = job[w].cur /\ y.pc = "conflict" /\ y.at = TargetID(w, n)
  BY CallFields DEF Job
<1>4. Reason(R, SourceID(w), TargetID(w, n))
  BY <1>1, CallFields DEF JobReasoned, TargetID
<1>5. nss \subseteq job[w].nss
  OBVIOUS
<1> HIDE DEF x, y, nss
<1>6. \A p \in Ptr : Holds(x, p) \/ Holds(y, p) => heap[p].source = SourceID(w)
  BY <1>1, <1>2, <1>3, CallFields DEF Holds
<1>7. CASE job' = [job EXCEPT ![w] = x]
  BY <1>1, <1>2, <1>5, <1>6, <1>7, CallMoves
<1>8. CASE job' = [job EXCEPT ![w] = y]
  BY <1>1, <1>3, <1>4, <1>5, <1>6, <1>8, CallMoves
<1>9. QED  BY <1>1, <1>7, <1>8

LEMMA NextNamespaceFields ==
    ASSUME NEW j \in Job
    PROVE  LET x == [j EXCEPT !.pc = AfterNamespaces(j.nss), !.at = NoID]
           IN  /\ x.ver = j.ver /\ x.name = j.name /\ x.nss = j.nss /\ x.ptrs = j.ptrs
               /\ x.cur = j.cur /\ x.pc \in {"auto", "cleanup"}
BY DEF Job, AfterNamespaces

LEMMA ConflictReasoned ==
    ASSUME NEW R, ReasonState(R), Moves, NEW w \in Worker, CheckForConflicts(w)
    PROVE  CallsReasoned(R)'
<1> DEFINE x == [job[w] EXCEPT !.pc = AfterNamespaces(job[w].nss), !.at = NoID]
           y == [job[w] EXCEPT !.pc = "create"]
<1>1. /\ job[w].pc = "conflict" /\ UNCHANGED <<log, heap>>
      /\ job' = [job EXCEPT ![w] = x] \/ job' = [job EXCEPT ![w] = y]
  BY DEF CheckForConflicts, NextNamespace, Go, clusterVars
<1>2. /\ x.ver = job[w].ver /\ x.name = job[w].name /\ x.nss = job[w].nss
      /\ x.ptrs = job[w].ptrs /\ x.cur = job[w].cur /\ x.pc \in {"auto", "cleanup"}
  BY CallFields, NextNamespaceFields
<1>3. /\ y.ver = job[w].ver /\ y.name = job[w].name /\ y.nss = job[w].nss
      /\ y.ptrs = job[w].ptrs /\ y.cur = job[w].cur /\ y.at = job[w].at
  BY CallFields DEF Job
<1>4. Reason(R, SourceID(w), job[w].at)
  BY <1>1, CallFields DEF JobReasoned
<1> HIDE DEF x, y
<1>5. \A p \in Ptr : Holds(x, p) \/ Holds(y, p) => heap[p].source = SourceID(w)
  BY <1>1, <1>2, <1>3, CallFields DEF Holds
<1>6. CASE job' = [job EXCEPT ![w] = x]
  BY <1>1, <1>2, <1>5, <1>6, CallMoves
<1>7. CASE job' = [job EXCEPT ![w] = y]
  BY <1>1, <1>3, <1>4, <1>5, <1>7, CallMoves
<1>8. QED  BY <1>1, <1>6, <1>7

LEMMA CleanupReasoned ==
    ASSUME NEW R, ReasonState(R), Moves, NEW w \in Worker,
           CleanupAutoMirrors(w) \/ \E id \in ID : ForgetMirror(w, id)
    PROVE  CallsReasoned(R)'
<1>1. PICK ids, pc :
         /\ pc = "forget" /\ job[w].pc # "idle" /\ UNCHANGED <<log, heap>>
         /\ job' = [job EXCEPT ![w] = [job[w] EXCEPT !.pc = pc, !.ids = ids]]
  <2>1. CASE CleanupAutoMirrors(w)
    BY <2>1 DEF CleanupAutoMirrors, clusterVars
  <2>2. ASSUME NEW id \in ID, ForgetMirror(w, id)
        PROVE  /\ job[w].pc # "idle" /\ UNCHANGED <<log, heap>>
               /\ job' = [job EXCEPT ![w] =
                            [job[w] EXCEPT !.pc = "forget", !.ids = job[w].ids \ {id}]]
    <3>1. /\ job[w].pc = "forget" /\ UNCHANGED <<log, heap>>
          /\ job' = [job EXCEPT ![w] = [job[w] EXCEPT !.ids = job[w].ids \ {id}]]
      BY <2>2 DEF ForgetMirror, Unregister, clusterVars
    <3>2. [job[w] EXCEPT !.ids = job[w].ids \ {id}]
             = [job[w] EXCEPT !.pc = "forget", !.ids = job[w].ids \ {id}]
      BY <3>1, CallFields DEF Job
    <3>3. QED  BY <3>1, <3>2
  <2>3. QED  BY <2>1, <2>2
<1> DEFINE x == [job[w] EXCEPT !.pc = pc, !.ids = ids]
<1>2. /\ x.ver = job[w].ver /\ x.name = job[w].name /\ x.nss = job[w].nss
      /\ x.ptrs = job[w].ptrs /\ x.cur = job[w].cur /\ x.pc = "forget"
  BY <1>1, CallFields DEF Job
<1>3. job' = [job EXCEPT ![w] = x]
  BY <1>1
<1> HIDE DEF x
<1>4. \A p \in Ptr : Holds(x, p) => heap[p].source = SourceID(w)
  BY <1>1, <1>2, CallFields DEF Holds
<1>5. QED  BY <1>1, <1>2, <1>3, <1>4, CallMoves

(* What is registered for the source of the call are mirrors of that source.  *)
LEMMA ListMirrorsReasoned ==
    ASSUME NEW R, ReasonState(R), Moves, NEW w \in Worker, ListMirrors(w)
    PROVE  CallsReasoned(R)'
<1> DEFINE ptrs == {store[id] : id \in GetBySourceID(SourceID(w))}
           x == [job[w] EXCEPT !.pc = "mirrors", !.ptrs = ptrs]
<1>1. /\ job[w].pc = "forget" /\ UNCHANGED <<log, heap>> /\ job' = [job EXCEPT ![w] = x]
  BY DEF ListMirrors, clusterVars
<1>2. \A p \in ptrs : heap[p].source = SourceID(w)
  BY DEF GetBySourceID
<1>3. /\ x.ver = job[w].ver /\ x.name = job[w].name /\ x.nss = job[w].nss
      /\ x.ptrs = ptrs /\ x.cur = job[w].cur /\ x.pc = "mirrors"
  BY CallFields DEF Job
<1> HIDE DEF x, ptrs
<1>4. \A p \in Ptr : Holds(x, p) => heap[p].source = SourceID(w)
  BY <1>1, <1>2, <1>3, CallFields DEF Holds
<1>5. QED  BY <1>1, <1>3, <1>4, CallMoves

(* The mirrors in hand are among those that were listed.                     *)
LEMMA HandMoves ==
    ASSUME NEW R, ReasonState(R), Moves, NEW w \in Worker, UNCHANGED <<log, heap>>,
           NEW x, job' = [job EXCEPT ![w] = x], job[w].pc # "idle",
           x.ver = job[w].ver, x.name = job[w].name, x.nss = job[w].nss,
           x.pc \in {"mirrors", "check", "set", "get", "write"},
           x.ptrs \subseteq job[w].ptrs, x.cur \in {job[w].cur, Nil} \cup job[w].ptrs
    PROVE  CallsReasoned(R)'
<1>1. \A p \in Ptr : Holds(x, p) => heap[p].source = SourceID(w)
  <2>1. Nil \notin Ptr
    BY EngineAssumption DEF Nil
  <2>2. QED  BY <2>1, CallFields DEF Holds
<1>2. QED  BY <1>1, CallMoves

LEMMA ReadSourceReasoned ==
    ASSUME NEW R, ReasonState(R), Moves, NEW w \in Worker, NEW p \in Ptr, ReadSource(w, p)
    PROVE  CallsReasoned(R)'
<1> DEFINE r == seen[SourceKey(w)]
           left == job[w].ptrs \ {p}
           x == [job[w] EXCEPT !.ptrs = left, !.pc = "check", !.cur = p, !.dat = r]
           y == [job[w] EXCEPT !.ptrs = left]
<1>1. /\ job[w].pc = "mirrors" /\ p \in job[w].ptrs /\ UNCHANGED <<log, heap>>
      /\ job' = [job EXCEPT ![w] = x] \/ job' = [job EXCEPT ![w] = y]
  BY DEF ReadSource, clusterVars
<1>2. /\ x.ver = job[w].ver /\ x.name = job[w].name /\ x.nss = job[w].nss
      /\ x.ptrs = left /\ x.cur = p /\ x.pc = "check"
  BY CallFields DEF Job
<1>3. /\ y.ver = job[w].ver /\ y.name = job[w].name /\ y.nss = job[w].nss
      /\ y.ptrs = left /\ y.cur = job[w].cur /\ y.pc = job[w].pc
  BY CallFields DEF Job
<1>4. left \subseteq job[w].ptrs
  OBVIOUS
<1> HIDE DEF x, y, left
<1>5. QED  BY <1>1, <1>2, <1>3, <1>4, HandMoves

LEMMA NextMirrorMoves ==
    ASSUME NEW R, ReasonState(R), Moves, NEW w \in Worker, UNCHANGED <<log, heap>>,
           job[w].pc # "idle", NextMirror(w)
    PROVE  CallsReasoned(R)'
<1> DEFINE x == [job[w] EXCEPT !.pc = "mirrors", !.cur = Nil, !.dat = 0, !.got = 0]
<1>1. job' = [job EXCEPT ![w] = x]
  BY DEF NextMirror
<1>2. /\ x.ver = job[w].ver /\ x.name = job[w].name /\ x.nss = job[w].nss
      /\ x.ptrs = job[w].ptrs /\ x.cur = Nil /\ x.pc = "mirrors"
  BY CallFields DEF Job
<1> HIDE DEF x
<1>3. QED  BY <1>1, <1>2, HandMoves

LEMMA HandReasoned ==
    ASSUME NEW R, ReasonState(R), Moves, NEW w \in Worker,
           Reflect(w) \/ GetMirror(w) \/ WriteRejected(w) \/ WriteFails(w)
    PROVE  CallsReasoned(R)'
<1> DEFINE got == IF Live(seen[MirrorKey(w)]) THEN seen[MirrorKey(w)] ELSE 0
           x == [job[w] EXCEPT !.pc = "set"]
           y == [job[w] EXCEPT !.pc = "write", !.got = got]
<1>1. /\ job[w].pc # "idle" /\ UNCHANGED <<log, heap>>
      /\ NextMirror(w) \/ job' = [job EXCEPT ![w] = x] \/ job' = [job EXCEPT ![w] = y]
  BY DEF Reflect, GetMirror, WriteRejected, WriteFails, Go, clusterVars
<1>2. /\ x.ver = job[w].ver /\ x.name = job[w].name /\ x.nss = job[w].nss
      /\ x.ptrs = job[w].ptrs /\ x.cur = job[w].cur /\ x.pc = "set"
  BY CallFields DEF Job
<1>3. /\ y.ver = job[w].ver /\ y.name = job[w].name /\ y.nss = job[w].nss
      /\ y.ptrs = job[w].ptrs /\ y.cur = job[w].cur /\ y.pc = "write"
  BY CallFields DEF Job
<1> HIDE DEF x, y
<1>4. QED  BY <1>1, <1>2, <1>3, NextMirrorMoves, HandMoves

(* The version of a Mirror object is not one of its reasons.                 *)
LEMMA SetVersionReasoned ==
    ASSUME NEW R, ReasonState(R), Moves, NEW w \in Worker, SetVersion(w)
    PROVE  CallsReasoned(R)'
<1> DEFINE x == [job[w] EXCEPT !.pc = "get"]
           m == [heap[job[w].cur] EXCEPT !.version = job[w].ver]
<1>1. /\ job[w].pc = "set" /\ UNCHANGED log /\ job' = [job EXCEPT ![w] = x]
      /\ heap' = [heap EXCEPT ![job[w].cur] = m]
  BY DEF SetVersion, Go, clusterVars
<1>2. /\ x.ver = job[w].ver /\ x.name = job[w].name /\ x.nss = job[w].nss
      /\ x.ptrs = job[w].ptrs /\ x.cur = job[w].cur /\ x.pc = "get"
  BY CallFields DEF Job
<1>3. x \in Job
  BY CallFields DEF Job
<1>4. \A p \in Ptr : heap'[p].id = heap[p].id /\ heap'[p].source = heap[p].source
  <2>1. heap \in [Ptr -> Mirror] /\ job[w].cur \in Ptr
    BY <1>1, ReasonParts, Parts, InHand
  <2>2. m.id = heap[job[w].cur].id /\ m.source = heap[job[w].cur].source
    BY <2>1 DEF Mirror
  <2> HIDE DEF m
  <2>3. QED  BY <1>1, <2>1, <2>2
<1> HIDE DEF x, m
<1>5. LogReasoned(R)' /\ HeapReasoned(R)'
  BY <1>1, <1>4, LogStays, HeapStays
<1>6. JobReasoned(R, x)
  BY <1>1, <1>2, CallFields DEF JobReasoned
<1>7. \A u \in Worker : JobReasoned(R, job[u])'
  BY <1>1, <1>2, <1>3, <1>4, <1>6, CallFields, JobMoves
<1>8. QED  BY <1>5, <1>7 DEF CallsReasoned

(* A registration with a reason, which takes an address nobody holds.        *)
LEMMA RegisterReasoned ==
    ASSUME NEW R, ReasonState(R), Moves, NEW id \in ID, NEW source \in ID, NEW kind, NEW auto,
           Register(id, source, kind, auto), Reason(R, source, id)
    PROVE  /\ HeapReasoned(R)'
           /\ \A u \in Worker : \A p \in Ptr : Holds(job[u], p) => heap'[p] = heap[p]
<1> DEFINE m == [id |-> id, source |-> source, kind |-> kind, version |-> 0, auto |-> auto]
<1>1. PICK q \in Fresh : heap' = [heap EXCEPT ![q] = m]
  BY DEF Register
<1>2. /\ EngineInv /\ EngineInv' /\ Advances /\ HeapReasoned(R) /\ heap \in [Ptr -> Mirror]
      /\ m.id = id /\ m.source = source
  BY ReasonParts, Parts DEF Moves
<1> HIDE DEF m
<1>3. \A u \in Worker : \A p \in Ptr : Holds(job[u], p) => heap'[p] = heap[p]
  BY <1>1, <1>2 DEF Fresh, Holds
<1>4. ASSUME NEW p \in Ptr, heap'[p].id # NoID
      PROVE  Reason(R, heap[p].source, heap[p].id)'
  <2>1. CASE p = q
    <3>1. heap'[p].source = source /\ heap'[p].id = id
      BY <1>1, <1>2, <2>1
    <3>2. QED  BY <1>2, <3>1, ReasonStays
  <2>2. CASE p # q
    <3>1. heap'[p] = heap[p]
      BY <1>1, <1>2, <2>2
    <3>2. Reason(R, heap[p].source, heap[p].id)
      BY <1>2, <1>4, <3>1 DEF HeapReasoned
    <3>3. QED  BY <1>2, <3>1, <3>2, ReasonStays
  <2>3. QED  BY <2>1, <2>2
<1>5. QED  BY <1>3, <1>4 DEF HeapReasoned

LEMMA CreateAutoMirrorReasoned ==
    ASSUME NEW R, ReasonState(R), Moves, NEW w \in Worker, CreateAutoMirror(w)
    PROVE  CallsReasoned(R)'
<1> DEFINE x == [job[w] EXCEPT !.pc = AfterNamespaces(job[w].nss), !.at = NoID]
<1>1. /\ job[w].pc = "create" /\ UNCHANGED log /\ job' = [job EXCEPT ![w] = x]
      /\ Register(job[w].at, SourceID(w), SourceKey(w).kind, TRUE)
  BY DEF CreateAutoMirror, NextNamespace, clusterVars
<1>2. /\ x.ver = job[w].ver /\ x.name = job[w].name /\ x.nss = job[w].nss
      /\ x.ptrs = job[w].ptrs /\ x.cur = job[w].cur /\ x.pc \in {"auto", "cleanup"}
  BY CallFields, NextNamespaceFields
<1> HIDE DEF x
<1>3. job[w].at \in ID /\ SourceID(w) \in ID /\ Reason(R, SourceID(w), job[w].at)
  BY <1>1, CallFields, Parts DEF JobSound, JobReasoned
<1>4. /\ HeapReasoned(R)'
      /\ \A u \in Worker : \A p \in Ptr : Holds(job[u], p) => heap'[p] = heap[p]
  BY <1>1, <1>3, RegisterReasoned
<1>5. job \in [Worker -> Job] /\ x \in Job
  <2>1. job' \in [Worker -> Job] /\ job'[w] = x
    BY <1>1, CallFields DEF Moves, EngineInv, EngineTypes, EngineTypeOK
  <2>2. QED  BY <2>1, CallFields
<1>6. \A u \in Worker : \A p \in Ptr : Holds(job'[u], p) => heap'[p] = heap[p]
  BY <1>1, <1>2, <1>4, <1>5 DEF Holds
<1>7. JobReasoned(R, x)
  BY <1>1, <1>2, CallFields DEF JobReasoned
<1>8. \A u \in Worker : JobReasoned(R, job[u])'
  BY <1>1, <1>2, <1>5, <1>6, <1>7, CallFields, JobMoves
<1>9. QED  BY <1>1, <1>4, <1>8, LogStays DEF CallsReasoned

(* The copy goes where the mirror in hand is for, under the name of its        *)
(* source.                                                                   *)
LEMMA WrittenEntry ==
    ASSUME EngineInv, NEW w \in Worker, WriteMirror(w)
    PROVE  \E e \in Entry : /\ Commit(e) /\ e.key.id = heap[job[w].cur].id
                            /\ e.from = SourceID(w) /\ e.ver = job[w].ver
                            /\ e.policy = NoPolicy
<1> DEFINE f == MirrorEntry(MirrorKey(w), log[job[w].dat].data, SourceID(w),
                            job[w].ver, heap[job[w].cur].auto)
<1>1. Commit(f) /\ job[w].pc = "write"
  BY DEF WriteMirror
<1>2. /\ f.key.id = heap[job[w].cur].id /\ f.from = SourceID(w) /\ f.ver = job[w].ver
      /\ f.policy = NoPolicy
  BY DEF MirrorEntry, MirrorKey
<1>3. /\ MirrorKey(w) \in Key /\ SourceID(w) \in ID /\ job[w].ver \in Nat
      /\ log[job[w].dat].data \in Nat /\ heap[job[w].cur].auto \in BOOLEAN
  BY <1>1, InHand, SourceFacts, Parts, EntryFields DEF PayloadSound, Mirror
<1>4. f \in Entry
  BY <1>3, MirrorEntryType
<1> HIDE DEF f
<1>5. QED  BY <1>1, <1>2, <1>4

LEMMA WriteMirrorReasoned ==
    ASSUME NEW R, ReasonState(R), Moves, NEW w \in Worker, WriteMirror(w)
    PROVE  CallsReasoned(R)'
<1> DEFINE x == [job[w] EXCEPT !.pc = "mirrors", !.cur = Nil, !.dat = 0, !.got = 0]
<1>1. /\ job[w].pc = "write" /\ job' = [job EXCEPT ![w] = x] /\ UNCHANGED heap
  BY DEF WriteMirror, NextMirror
<1>2. PICK e \in Entry : /\ Commit(e) /\ e.key.id = heap[job[w].cur].id
                         /\ e.from = SourceID(w) /\ e.ver = job[w].ver
  BY ReasonParts, WrittenEntry
<1>3. Reason(R, e.from, e.key.id)
  <2>1. job[w].cur \in Ptr /\ heap[job[w].cur].id \in ID
    BY <1>1, ReasonParts, InHand DEF Allocated
  <2>2. heap[job[w].cur].source = SourceID(w)
    BY <1>1, <2>1, CallFields DEF Holds
  <2>3. heap[job[w].cur].id # NoID
    BY <2>1, ResourcesAssumption
  <2>4. QED  BY <1>2, <2>1, <2>2, <2>3, ReasonParts DEF HeapReasoned
<1>4. /\ x.ver = job[w].ver /\ x.name = job[w].name /\ x.nss = job[w].nss
      /\ x.ptrs = job[w].ptrs /\ x.cur = Nil /\ x.pc = "mirrors" /\ x \in Job
  <2>1. job[w] \in Job
    BY CallFields
  <2>2. QED  BY <2>1 DEF Job
<1> HIDE DEF x
<1>5. Reason(R, e.from, e.key.id)'
  BY <1>3, ReasonParts, ReasonStays DEF Moves
<1>6. e.ver \in 1..Len(log) /\ e.from = log[e.ver].key.id
  BY <1>1, <1>2, CallFields
<1>7. LogReasoned(R)' /\ HeapReasoned(R)'
  BY <1>1, <1>2, <1>5, <1>6, LogGrows, HeapStays
<1>8. JobReasoned(R, x)
  <2>1. Nil \notin Ptr
    BY EngineAssumption DEF Nil
  <2>2. QED  BY <1>1, <1>4, <2>1, CallFields DEF JobReasoned
<1>9. \A u \in Worker : JobReasoned(R, job[u])'
  BY <1>1, <1>4, <1>8, CallFields, JobMoves
<1>10. QED  BY <1>7, <1>9 DEF CallsReasoned

LEMMA WorkReasoned ==
    ASSUME NEW R, ReasonState(R), Moves, NEW w \in Worker, Work(w)
    PROVE  CallsReasoned(R)'
BY NamespacesReasoned, ConflictReasoned, CreateAutoMirrorReasoned, CleanupReasoned,
   ListMirrorsReasoned, ReadSourceReasoned, HandReasoned, SetVersionReasoned,
   WriteMirrorReasoned DEF Work

LEMMA ReturnReasoned ==
    ASSUME NEW R, ReasonState(R), Moves, NEW w \in Worker, ExecuteReturns(w)
    PROVE  CallsReasoned(R)'
<1>1. job' = [job EXCEPT ![w] = NoJob] /\ UNCHANGED <<log, heap>>
  BY DEF ExecuteReturns, clusterVars
<1>2. NoJob \in Job /\ NoJob.pc = "idle" /\ JobReasoned(R, NoJob)
  BY NoJobSound DEF NoJob, JobReasoned
<1>3. \A u \in Worker : JobReasoned(R, job[u])'
  BY <1>1, <1>2, JobMoves
<1>4. QED  BY <1>1, <1>3, LogStays, HeapStays DEF CallsReasoned

(* A call is entered: it is about to register what its Source pushes.         *)
LEMMA ExecuteReasoned ==
    ASSUME NEW R, ReasonState(R), Moves, NEW w \in Worker, NEW v \in 1..Len(log),
           NEW policy, NEW name, Execute(w, v, policy, name),
           \A n \in Namespace :
              n # log[v].key.id.ns /\ CanAutoMirrorToNamespace(policy, n) =>
                 Reason(R, log[v].key.id, [ns |-> n, name |-> name])
    PROVE  CallsReasoned(R)'
<1> DEFINE nss == {n \in ListNamespaces \ {log[v].key.id.ns} : CanAutoMirrorToNamespace(policy, n)}
           x == [NoJob EXCEPT !.pc = AfterNamespaces(nss), !.nss = nss,
                              !.ver = v, !.policy = policy, !.name = name]
<1>1. job' = [job EXCEPT ![w] = x] /\ UNCHANGED <<log, heap>>
  BY DEF Execute, clusterVars
<1>2. \A n \in nss : Reason(R, log[v].key.id, [ns |-> n, name |-> name])
  <2>1. ListNamespaces \subseteq Namespace
    BY ReasonParts, Parts DEF ListNamespaces, ClusterTypeOK
  <2>2. QED  BY <2>1
<1> HIDE DEF nss
<1>3. /\ x.pc \in {"auto", "cleanup"} /\ x.ver = v /\ x.name = name /\ x.nss = nss
      /\ x.ptrs = {} /\ x.cur = Nil
  BY DEF NoJob, AfterNamespaces
<1> HIDE DEF x
<1>4. x \in Job
  <2>1. job' \in [Worker -> Job] /\ job'[w] = x
    BY <1>1, CallFields DEF Moves, EngineInv, EngineTypes, EngineTypeOK
  <2>2. QED  BY <2>1
<1>5. JobReasoned(R, x)
  <2>1. Nil \notin Ptr
    BY EngineAssumption DEF Nil
  <2>2. QED  BY <1>2, <1>3, <2>1 DEF JobReasoned
<1>6. \A u \in Worker : JobReasoned(R, job[u])'
  BY <1>1, <1>3, <1>4, <1>5, JobMoves
<1>7. QED  BY <1>1, <1>6, LogStays, HeapStays DEF CallsReasoned

(* A Source with the annotations of its object, and its own name.             *)
LEMMA OwnNameReasoned ==
    ASSUME NEW R, ReasonState(R), Moves, NEW w \in Worker, NEW v \in 1..Len(log),
           NEW policy \in OwnPolicies(log[v]), Execute(w, v, policy, log[v].key.id.name)
    PROVE  CallsReasoned(R)'
<1> SUFFICES ASSUME NEW n \in Namespace, n # log[v].key.id.ns,
                    CanAutoMirrorToNamespace(policy, n)
             PROVE  Reason(R, log[v].key.id, [ns |-> n, name |-> log[v].key.id.name])
  BY ExecuteReasoned
<1>1. AnnotationsAsk(log[v].key.id, [ns |-> n, name |-> log[v].key.id.name])
  BY DEF AnnotationsAsk
<1>2. QED  BY <1>1 DEF Reason

-----------------------------------------------------------------------------
(* Reconciles.                                                               *)

LEMMA StageNext ==
    ASSUME NEW R, ReasonState(R), Moves, UNCHANGED log, NEW w \in Request, NEW s,
           stage' = [stage EXCEPT ![w] = s], StageReasoned(R, w, s)
    PROVE  \A u \in Request : StageReasoned(R, u, stage[u])'
<1>1. stage \in [Request -> Stage] /\ stage' \in [Request -> Stage]
      /\ StageSound(stage[w])'
  BY ReasonParts, ControllerParts DEF Moves, ControllerInv, ControllerTypeOK
<1>2. stage'[w] = s /\ s \in Stage
  BY <1>1
<1>3. s.at \in {"hit", "issued", "register", "count"} \/ s.left > 0 => s.ver \in 1..Len(log)
  BY <1>1, <1>2 DEF StageSound, IsSourceOf
<1>4. QED  BY <1>2, <1>3, StageMoves

(* A step of a Reconcile that touches nothing else, or only forgets a mirror. *)
LEMMA StageOnly ==
    ASSUME NEW R, ReasonState(R), Moves, UNCHANGED <<log, heap, job>>, NEW w \in Request, NEW s,
           stage' = [stage EXCEPT ![w] = s], StageReasoned(R, w, s)
    PROVE  Reasoned(R)'
<1>1. LogReasoned(R)' /\ HeapReasoned(R)'
  BY LogStays, HeapStays
<1>2. \A u \in Worker : JobReasoned(R, job[u])'
  BY JobsStay
<1>3. \A u \in Request : StageReasoned(R, u, stage[u])'
  BY StageNext
<1>4. QED  BY <1>1, <1>2, <1>3 DEF Reasoned

LEMMA NoStageReasoned == \A R, w : StageReasoned(R, w, NoStage)
BY DEF NoStage, StageReasoned

(* Places that need no reason of their own.                                  *)
LEMMA AtReasoned ==
    ASSUME NEW R, NEW w \in Request, NEW s \in Stage, StageReasoned(R, w, s),
           NEW where \in {"fetch", "miss", "orphan", "adopt", "count", "loop", "execute"},
           where = "count" => s.at = "register",
           where = "adopt" => s.at = "source"
    PROVE  StageReasoned(R, w, [s EXCEPT !.at = where])
<1> DEFINE x == [s EXCEPT !.at = where]
<1>1. x.at = where /\ x.from = s.from /\ x.left = s.left /\ x.ver = s.ver /\ x.via = s.via
  BY DEF Stage
<1> HIDE DEF x
<1>2. StageReasoned(R, w, x)
  BY <1>1 DEF StageReasoned
<1>3. QED  BY <1>2 DEF x

(* What is cached for an ID is an object of that ID.                          *)
LEMMA CachedID ==
    ASSUME EngineInv, NEW id \in ID
    PROVE  /\ \A kind : Live(Cached(kind, id)) => /\ Cached(kind, id) \in 1..Len(log)
                                                 /\ log[Cached(kind, id)].key.id = id
                                                 /\ log[Cached(kind, id)].key.kind = kind
           /\ Live(CachedObject(id)) => /\ CachedObject(id) \in 1..Len(log)
                                        /\ log[CachedObject(id)].key.id = id
<1>1. ASSUME NEW kind, Live(Cached(kind, id))
      PROVE  /\ Cached(kind, id) \in 1..Len(log)
             /\ log[Cached(kind, id)].key.id = id /\ log[Cached(kind, id)].key.kind = kind
  <2>1. kind \in Kind /\ Cached(kind, id) = seen[[kind |-> kind, id |-> id]]
    BY <1>1 DEF Cached, Live
  <2>2. [kind |-> kind, id |-> id] \in Key
    BY <2>1 DEF Key
  <2>3. QED  BY <1>1, <2>1, <2>2, Parts DEF CacheSound, Live
<1>2. CachedObject(id) = Cached("Secret", id) \/ CachedObject(id) = Cached("ConfigMap", id)
  BY DEF CachedObject
<1>3. QED  BY <1>1, <1>2

LEMMA StartReasoned ==
    ASSUME NEW R, ReasonState(R), Moves, NEW w \in Request,
           SourceStart(w) \/ MirrorStart(w) \/ CertificateStart(w) \/ SourceMiss(w)
    PROVE  Reasoned(R)'
<1>1. /\ UNCHANGED <<log, heap, job>>
      /\ \/ stage' = stage
         \/ stage' = [stage EXCEPT ![w] = [stage[w] EXCEPT !.at = "fetch"]]
         \/ stage' = [stage EXCEPT ![w] = NoStage]
  BY DEF SourceStart, MirrorStart, CertificateStart, SourceMiss, At, Finish, vars, clusterVars,
     engineVars
<1>2. CASE stage' = stage
  BY <1>1, <1>2, LogStays, HeapStays, JobsStay, StagesStay DEF Reasoned
<1>3. StageReasoned(R, w, [stage[w] EXCEPT !.at = "fetch"])
  BY StageVersions, AtReasoned
<1>4. QED  BY <1>1, <1>2, <1>3, NoStageReasoned, StageOnly

LEMMA SourceFetchReasoned ==
    ASSUME NEW R, ReasonState(R), Moves, NEW w \in Request, SourceFetch(w)
    PROVE  Reasoned(R)'
<1> DEFINE r == CachedObject(w.id)
           s == [stage[w] EXCEPT !.at = "hit", !.ver = r]
<1>1. /\ UNCHANGED <<log, heap, job>> /\ stage[w].at = "fetch"
      /\ \/ Live(r) /\ stage' = [stage EXCEPT ![w] = s]
         \/ stage' = [stage EXCEPT ![w] = [stage[w] EXCEPT !.at = "miss"]]
  BY DEF SourceFetch, IsSource, vars, clusterVars, engineVars
<1>2. StageReasoned(R, w, [stage[w] EXCEPT !.at = "miss"])
  BY StageVersions, AtReasoned
<1>3. Live(r) => log[r].key.id = w.id
  BY ReasonParts, WorkerFields, CachedID
<1>4. s.at = "hit" /\ s.ver = r /\ s.left = 0
  BY <1>1, StageVersions DEF Stage, StageSound
<1> HIDE DEF s, r
<1>5. Live(r) => StageReasoned(R, w, s)
  BY <1>3, <1>4 DEF StageReasoned
<1>6. QED  BY <1>1, <1>2, <1>5, StageOnly

LEMMA MirrorFetchReasoned ==
    ASSUME NEW R, ReasonState(R), Moves, NEW w \in Request, MirrorFetch(w)
    PROVE  Reasoned(R)'
<1> DEFINE r == CachedObject(w.id)
           s == [stage[w] EXCEPT !.at = "source", !.from = log[r].from, !.auto = log[r].auto]
<1>1. /\ UNCHANGED <<log, heap, job>> /\ stage[w].at = "fetch"
      /\ \/ Live(r) /\ log[r].from # NoID /\ stage' = [stage EXCEPT ![w] = s]
         \/ stage' = [stage EXCEPT ![w] = NoStage]
  BY DEF MirrorFetch, HasReflectsAnnotation, Finish, vars, clusterVars, engineVars
<1>2. Live(r) => r \in 1..Len(log) /\ log[r].key.id = w.id
  BY ReasonParts, WorkerFields, CachedID
<1>3. Live(r) /\ log[r].from # NoID => Reason(R, log[r].from, w.id)
  BY <1>2, ReasonParts DEF LogReasoned
<1>4. s.at = "source" /\ s.from = log[r].from /\ s.left = 0
  BY <1>1, StageVersions DEF Stage, StageSound
<1> HIDE DEF s, r
<1>5. Live(r) /\ log[r].from # NoID => StageReasoned(R, w, s)
  BY <1>3, <1>4 DEF StageReasoned
<1>6. QED  BY <1>1, <1>5, NoStageReasoned, StageOnly

LEMMA MirrorFetchSourceReasoned ==
    ASSUME NEW R, ReasonState(R), Moves, NEW w \in Request, MirrorFetchSource(w)
    PROVE  Reasoned(R)'
<1> DEFINE r == CachedObject(stage[w].from)
           s == [stage[w] EXCEPT !.at = "register", !.ver = r]
<1>1. /\ UNCHANGED <<log, heap, job>> /\ stage[w].at = "source"
      /\ \/ Live(r) /\ stage' = [stage EXCEPT ![w] = s]
         \/ stage' = [stage EXCEPT ![w] = [stage[w] EXCEPT !.at = "adopt"]]
         \/ stage' = [stage EXCEPT ![w] = [stage[w] EXCEPT !.at = "orphan"]]
         \/ stage' = [stage EXCEPT ![w] = NoStage]
  BY DEF MirrorFetchSource, IsSource, At, Finish, vars, clusterVars, engineVars
<1>2. /\ StageReasoned(R, w, [stage[w] EXCEPT !.at = "adopt"])
      /\ StageReasoned(R, w, [stage[w] EXCEPT !.at = "orphan"])
  BY <1>1, StageVersions, AtReasoned
<1>3. Live(r) => log[r].key.id = stage[w].from
  BY <1>1, ReasonParts, StageVersions, CachedID DEF StageSound
<1>4. Reason(R, stage[w].from, w.id)
  BY <1>1, StageVersions DEF StageReasoned
<1>5. s.at = "register" /\ s.from = stage[w].from /\ s.ver = r
  BY StageVersions DEF Stage
<1> HIDE DEF s, r
<1>6. Live(r) => StageReasoned(R, w, s)
  BY <1>3, <1>4, <1>5 DEF StageReasoned
<1>7. QED  BY <1>1, <1>2, <1>6, NoStageReasoned, StageOnly

(* A mirror is registered with the source that its annotation names.          *)
LEMMA MirrorRegisterReasoned ==
    ASSUME NEW R, ReasonState(R), Moves, NEW w \in Request, MirrorAdopt(w) \/ MirrorRegister(w)
    PROVE  Reasoned(R)'
<1>1. PICK kind, auto, s :
         /\ RegisterMirror(w.id, stage[w].from, kind, auto)
         /\ stage[w].at \in {"adopt", "register"} /\ stage' = [stage EXCEPT ![w] = s]
         /\ StageReasoned(R, w, s)
  <2>1. CASE MirrorAdopt(w)
    BY <2>1, NoStageReasoned DEF MirrorAdopt, Finish
  <2>2. CASE MirrorRegister(w)
    <3> DEFINE s == [stage[w] EXCEPT !.at = "count"]
    <3>1. stage[w].at = "register" /\ stage' = [stage EXCEPT ![w] = s]
          /\ RegisterMirror(w.id, stage[w].from, log[stage[w].ver].key.kind, stage[w].auto)
      BY <2>2 DEF MirrorRegister, At
    <3>2. StageReasoned(R, w, s)
      BY <3>1, StageVersions, AtReasoned
    <3> HIDE DEF s
    <3>3. QED  BY <3>1, <3>2
  <2>3. QED  BY <2>1, <2>2
<1>2. /\ w.id \in ID /\ stage[w].from \in ID /\ Reason(R, stage[w].from, w.id)
  BY <1>1, WorkerFields, StageVersions DEF StageSound, StageReasoned
<1>3. Register(w.id, stage[w].from, kind, auto) /\ UNCHANGED <<log, job>>
  BY <1>1 DEF RegisterMirror, clusterVars
<1>4. /\ HeapReasoned(R)'
      /\ \A u \in Worker : \A p \in Ptr : Holds(job[u], p) => heap'[p] = heap[p]
  BY <1>2, <1>3, RegisterReasoned
<1>5. LogReasoned(R)' /\ \A u \in Worker : JobReasoned(R, job[u])'
  BY <1>3, <1>4, LogStays, JobsStay
<1>6. \A u \in Request : StageReasoned(R, u, stage[u])'
  BY <1>1, <1>3, StageNext
<1>7. QED  BY <1>4, <1>5, <1>6 DEF Reasoned

LEMMA MirrorOrphanedReasoned ==
    ASSUME NEW R, ReasonState(R), Moves, NEW w \in Request, MirrorOrphaned(w)
    PROVE  Reasoned(R)'
<1>1. UNCHANGED <<log, heap, job>> /\ stage' = [stage EXCEPT ![w] = NoStage]
  BY DEF MirrorOrphaned, UnregisterMirror, Unregister, Finish, clusterVars
<1>2. QED  BY <1>1, NoStageReasoned, StageOnly

LEMMA MirrorCountReasoned ==
    ASSUME NEW R, ReasonState(R), Moves, NEW w \in Request, MirrorCount(w)
    PROVE  Reasoned(R)'
<1> DEFINE n == Cardinality(GetBySourceID(stage[w].from))
           s == [stage[w] EXCEPT !.at = "loop", !.left = n]
<1>1. /\ UNCHANGED <<log, heap, job>> /\ stage[w].at = "count"
      /\ stage' = [stage EXCEPT ![w] = s] \/ stage' = [stage EXCEPT ![w] = NoStage]
  BY DEF MirrorCount, vars, clusterVars, engineVars
<1>2. s.at = "loop" /\ s.from = stage[w].from /\ s.ver = stage[w].ver
  BY StageVersions DEF Stage
<1> HIDE DEF s
<1>3. StageReasoned(R, w, s)
  BY <1>1, <1>2, StageVersions DEF StageReasoned
<1>4. QED  BY <1>1, <1>3, NoStageReasoned, StageOnly

(* A Reconcile calls Execute with the Source that it has read.                *)
LEMMA SourceHitReasoned ==
    ASSUME NEW R, ReasonState(R), Moves, NEW w \in Request,
           SourceHit(w) \/ CertificateExecute(w) \/ MirrorLoop(w)
    PROVE  Reasoned(R)'
<1> DEFINE v == stage[w].ver
           s == [stage[w] EXCEPT !.at = "execute"]
           t == [stage[w] EXCEPT !.at = "execute", !.left = stage[w].left - 1]
<1>1. /\ w \in Worker /\ stage[w] \in Stage /\ StageReasoned(R, w, stage[w])
      /\ StageSound(stage[w])
  BY WorkerFields, StageVersions
<1>2. CASE SourceHit(w) \/ CertificateExecute(w)
  <2>1. /\ stage' = [stage EXCEPT ![w] = s]
        /\ \/ stage[w].at = "hit" /\ Execute(w, v, log[v].policy, w.id.name)
           \/ stage[w].at = "issued" /\ Execute(w, v, stage[w].via, w.id.name)
    BY <1>2 DEF SourceHit, CertificateExecute, At
  <2>2. v \in 1..Len(log) /\ log[v].key.id = w.id
    BY <1>1, <2>1, StageVersions DEF StageReasoned
  <2>3. \E policy \in OwnPolicies(log[v]) : Execute(w, v, policy, log[v].key.id.name)
    BY <1>1, <2>1, <2>2 DEF StageReasoned, OwnPolicies
  <2>4. StageReasoned(R, w, s)
    BY <1>1, AtReasoned
  <2> HIDE DEF v, s
  <2>5. CallsReasoned(R)' /\ UNCHANGED log
    BY <1>1, <2>2, <2>3, OwnNameReasoned DEF Execute, clusterVars
  <2>6. \A u \in Request : StageReasoned(R, u, stage[u])'
    BY <2>1, <2>4, <2>5, StageNext
  <2>7. QED  BY <2>5, <2>6 DEF CallsReasoned, Reasoned
<1>3. CASE MirrorLoop(w)
  <2>1. /\ stage[w].at = "loop" /\ stage' = [stage EXCEPT ![w] = t]
        /\ Execute(w, v, MirrorView(log[v].policy), stage[w].from.name)
    BY <1>3 DEF MirrorLoop
  <2>2. stage[w].left \in Nat /\ stage[w].left > 0
    BY <1>1, <2>1 DEF StageSound, Stage
  <2>3. v \in 1..Len(log) /\ log[v].key.id = stage[w].from
    BY <1>1, <2>2, StageVersions DEF StageReasoned
  <2>4. t.at = "execute" /\ t.from = stage[w].from /\ t.ver = v
    BY <1>1 DEF Stage
  <2>5. MirrorView(log[v].policy) \in OwnPolicies(log[v])
    BY DEF OwnPolicies
  <2> HIDE DEF v, t
  <2>6. StageReasoned(R, w, t)
    BY <2>3, <2>4 DEF StageReasoned
  <2>7. CallsReasoned(R)' /\ UNCHANGED log
    BY <1>1, <2>1, <2>3, <2>5, OwnNameReasoned DEF Execute, clusterVars
  <2>8. \A u \in Request : StageReasoned(R, u, stage[u])'
    BY <2>1, <2>6, <2>7, StageNext
  <2>9. QED  BY <2>7, <2>8 DEF CallsReasoned, Reasoned
<1>4. QED  BY <1>2, <1>3

LEMMA ReconcileReturns ==
    ASSUME NEW R, ReasonState(R), Moves, NEW w \in Request, SourceReturn(w) \/ MirrorReturn(w)
    PROVE  Reasoned(R)'
<1> DEFINE s == [stage[w] EXCEPT !.at = "loop"]
<1>1. /\ ExecuteReturns(w)
      /\ stage' = [stage EXCEPT ![w] = NoStage] \/ stage' = [stage EXCEPT ![w] = s]
  BY DEF SourceReturn, MirrorReturn, Finish, At
<1>2. CallsReasoned(R)' /\ UNCHANGED log
  BY <1>1, WorkerFields, ReturnReasoned DEF ExecuteReturns, clusterVars
<1>3. StageReasoned(R, w, s)
  BY StageVersions, AtReasoned
<1> HIDE DEF s
<1>4. \A u \in Request : StageReasoned(R, u, stage[u])'
  BY <1>1, <1>2, <1>3, NoStageReasoned, StageNext
<1>5. QED  BY <1>2, <1>4 DEF CallsReasoned, Reasoned

(* The Secret of a Certificate or an Ingress.                                 *)
LEMMA ReplicatesReasoned ==
    ASSUME NEW R, ReasonState(R), Moves, NEW w \in Request, NEW r,
           NEW policy \in OwnPolicies(log[r]),
           stage[w].at = "fetch", log[r].key.id = w.id, Replicates(w, r, policy),
           UNCHANGED <<log, heap, job>>
    PROVE  Reasoned(R)'
<1> DEFINE s == [stage[w] EXCEPT !.at = "issued", !.ver = r, !.via = policy]
<1>1. stage' = [stage EXCEPT ![w] = s] \/ stage' = [stage EXCEPT ![w] = NoStage]
  BY DEF Replicates
<1>2. s.at = "issued" /\ s.ver = r /\ s.via = policy /\ s.left = 0
  BY StageVersions DEF Stage, StageSound
<1> HIDE DEF s
<1>3. StageReasoned(R, w, s)
  BY <1>2 DEF StageReasoned
<1>4. QED  BY <1>1, <1>3, NoStageReasoned, StageOnly

LEMMA CertificateFetchReasoned ==
    ASSUME NEW R, ReasonState(R), Moves, NEW w \in Request, CertificateFetch(w) \/ IngressFetch(w)
    PROVE  Reasoned(R)'
<1> DEFINE r == Cached("Secret", w.id)
<1>1. /\ stage[w].at = "fetch" /\ UNCHANGED <<log, heap, job>>
      /\ \/ Live(r) /\ Replicates(w, r, log[r].policy)
         \/ /\ Live(r)
            /\ \E t \in Template : \E policy \in Merged(log[r].policy, t) : Replicates(w, r, policy)
         \/ stage' = [stage EXCEPT ![w] = NoStage]
  BY DEF CertificateFetch, IngressFetch, Finish, vars, clusterVars, engineVars
<1>2. Live(r) => log[r].key.id = w.id /\ log[r].key.kind = "Secret"
  BY ReasonParts, WorkerFields, CachedID
<1> HIDE DEF r
<1>3. CASE stage' = [stage EXCEPT ![w] = NoStage]
  BY <1>1, <1>3, NoStageReasoned, StageOnly
<1>4. CASE Live(r) /\ \E policy \in OwnPolicies(log[r]) : Replicates(w, r, policy)
  BY <1>1, <1>2, <1>4, ReplicatesReasoned
<1>5. Live(r) => /\ log[r].policy \in OwnPolicies(log[r])
                 /\ \A t \in Template : Merged(log[r].policy, t) \subseteq OwnPolicies(log[r])
  BY <1>2 DEF OwnPolicies, IngressPolicies
<1>6. QED  BY <1>1, <1>3, <1>4, <1>5

LEMMA ReconcileReasoned ==
    ASSUME NEW R, ReasonState(R), Moves, NEW w \in Request, ReconcileStep(w)
    PROVE  Reasoned(R)'
<1>1. CASE Work(w) /\ UNCHANGED controllerVars
  <2>1. CallsReasoned(R)' /\ UNCHANGED stage
    BY <1>1, WorkerFields, WorkReasoned DEF controllerVars
  <2>2. QED  BY <2>1, StagesStay DEF CallsReasoned, Reasoned
<1>2. QED
  BY <1>1, StartReasoned, SourceFetchReasoned, SourceHitReasoned, ReconcileReturns,
     MirrorFetchReasoned, MirrorFetchSourceReasoned, MirrorRegisterReasoned,
     MirrorOrphanedReasoned, MirrorCountReasoned, CertificateFetchReasoned
     DEF ReconcileStep
-----------------------------------------------------------------------------
(* What happens around the reconciles.                                       *)

(* What a user commits is new, or an edit of a revision of the same object.   *)
NewEntry(e) ==
    e.ver = 0 /\ \E m \in Manifest : e.key = m.key /\ e.policy = m.policy /\ e.from = m.from

EditOf(o, e) == e.key = o.key /\ e.from = o.from /\ e.ver = o.ver /\ e.policy = o.policy

LEMMA UserEntries ==
    ASSUME EngineInv, UserStep
    PROVE  \/ UNCHANGED log
           \/ \E e \in Entry :
                /\ Commit(e) /\ e.by = "user"
                /\ NewEntry(e) \/ \E i \in 1..Len(log) : EditOf(log[i], e)
<1> DEFINE Goal == \E e \in Entry : /\ Commit(e) /\ e.by = "user"
                                    /\ NewEntry(e) \/ \E i \in 1..Len(log) : EditOf(log[i], e)
<1>1. ASSUME NEW m \in Manifest, Apply(m) PROVE Goal
  <2> DEFINE e == [key |-> m.key, live |-> TRUE, by |-> "user", data |-> Len(log) + 1,
                   policy |-> m.policy, helm |-> m.helm, from |-> m.from, ver |-> 0,
                   auto |-> FALSE]
  <2>1. e \in Entry /\ e.by = "user" /\ NewEntry(e)
    BY Parts, ApplyEntry DEF NewEntry
  <2>2. Commit(e)
    BY <1>1 DEF Apply
  <2> HIDE DEF e
  <2>3. QED  BY <2>1, <2>2
<1>2. ASSUME NEW k \in Key, EditData(k) \/ Delete(k) \/ NamespacePurge(k) PROVE Goal
  <2>1. PICK e \in Entry : /\ Live(head[k]) /\ Commit(e) /\ e.by = "user"
                           /\ EditOf(log[head[k]], e)
    <3> DEFINE edit == [log[head[k]] EXCEPT !.by = "user", !.data = Len(log) + 1]
               drop == [log[head[k]] EXCEPT !.by = "user", !.live = FALSE]
    <3>1. Live(head[k]) /\ (Commit(edit) \/ Commit(drop))
      BY <1>2 DEF EditData, Delete, NamespacePurge
    <3>2. edit \in Entry /\ drop \in Entry /\ log[head[k]] \in Entry
      BY <3>1, Parts, EditEntry
    <3>3. /\ edit.by = "user" /\ EditOf(log[head[k]], edit)
          /\ drop.by = "user" /\ EditOf(log[head[k]], drop)
      BY <3>2 DEF Entry, EditOf
    <3> HIDE DEF edit, drop
    <3>4. QED  BY <3>1, <3>2, <3>3
  <2>2. head[k] \in 1..Len(log)
    BY <2>1, Parts DEF Live
  <2>3. QED  BY <2>1, <2>2
<1>3. ASSUME NEW n \in Namespace,
             NamespaceTerminate(n) \/ NamespaceRemove(n) \/ NamespaceCreate(n)
      PROVE  UNCHANGED log
  BY <1>3 DEF NamespaceTerminate, NamespaceRemove, NamespaceCreate
<1>4. QED  BY <1>1, <1>2, <1>3 DEF UserStep

LEMMA UserReasoned ==
    ASSUME NEW R, ReasonState(R), Moves, UserStep, UNCHANGED <<engineVars, controllerVars>>
    PROVE  Reasoned(R)'
<1>1. UNCHANGED <<heap, job, stage>>
  BY DEF engineVars, controllerVars
<1>2. HeapReasoned(R)' /\ \A w \in Worker : JobReasoned(R, job[w])'
  BY <1>1, HeapStays, JobsStay
<1>3. \A w \in Request : StageReasoned(R, w, stage[w])'
  BY <1>1, StagesStay
<1>4. LogReasoned(R)'
  <2>1. CASE UNCHANGED log
    BY <2>1, LogStays
  <2>2. ASSUME NEW e \in Entry, Commit(e), e.by = "user",
               NewEntry(e) \/ \E i \in 1..Len(log) : EditOf(log[i], e)
        PROVE  LogReasoned(R)'
    <3>1. EngineInv /\ EngineInv' /\ Advances /\ LogReasoned(R) /\ ClusterTypeOK /\ Len(log) \in Nat
      BY ReasonParts, Parts DEF Moves
    <3>2. Len(log') = Len(log) + 1 /\ log'[Len(log) + 1] = e
      BY <2>2, <3>1, CommitFacts
    <3>3. e.from # NoID => Reason(R, e.from, e.key.id)'
      <4>1. CASE NewEntry(e)
        <5>1. Len(log) + 1 \in 1..Len(log')
          BY <3>1, <3>2
        <5>2. AUserAsks(e.from, e.key.id)'
          BY <2>2, <3>2, <4>1, <5>1 DEF AUserAsks, NewEntry
        <5>3. QED  BY <5>2 DEF Reason
      <4>2. CASE \E i \in 1..Len(log) : EditOf(log[i], e)
        <5>1. e.from # NoID => Reason(R, e.from, e.key.id)
          BY <3>1, <4>2 DEF LogReasoned, EditOf
        <5>2. QED  BY <3>1, <5>1, ReasonStays
      <4>3. QED  BY <2>2, <4>1, <4>2
    <3>4. QED  BY <2>2, <3>3, LogGrows
  <2>3. QED  BY <2>1, <2>2, ReasonParts, UserEntries
<1>5. QED  BY <1>2, <1>3, <1>4 DEF Reasoned

(* Whatever is no call, no reconcile and no write.                            *)
LEMMA OthersReasoned ==
    ASSUME NEW R, ReasonState(R), Moves, UNCHANGED <<log, heap, job, stage>>
    PROVE  Reasoned(R)'
BY LogStays, HeapStays, JobsStay, StagesStay DEF Reasoned

LEMMA EventsReasoned ==
    ASSUME NEW R, ReasonState(R), Moves,
           \/ \E k \in Key : Informer(k) \/ Resync(k)
           \/ \E n \in Namespace : InformerNamespace(n) \/ NamespaceReconcile(n)
           \/ \E id \in ID : NamespaceForget(id) \/ NotFoundExpires(id)
           \/ \E w \in Request : CertificateEvent(w)
    PROVE  Reasoned(R)'
<1>1. UNCHANGED <<log, heap, job, stage>>
  BY DEF Informer, Observe, Resync, InformerNamespace, ObserveNamespace, NamespaceReconcile,
     NamespaceForget, UnregisterMirror, Unregister, NotFoundExpires, CertificateEvent,
     vars, clusterVars, engineVars
<1>2. QED  BY <1>1, OthersReasoned

LEMMA RestartReasoned ==
    ASSUME NEW R, ReasonState(R), Moves, OperatorRestart
    PROVE  Reasoned(R)'
<1>1. /\ heap' = [p \in Ptr |-> NoMirror] /\ job' = [w \in Worker |-> NoJob]
      /\ stage' = [w \in Request |-> NoStage] /\ UNCHANGED log
  BY DEF OperatorRestart, Restart
<1>2. LogReasoned(R)' /\ HeapReasoned(R)'
  BY <1>1, LogStays DEF HeapReasoned, NoMirror
<1>3. \A w \in Worker : JobReasoned(R, job[w])'
  BY <1>1 DEF JobReasoned, NoJob
<1>4. \A w \in Request : StageReasoned(R, w, stage[w])'
  BY <1>1 DEF StageReasoned, NoStage
<1>5. QED  BY <1>2, <1>3, <1>4 DEF Reasoned

LEMMA StepReasoned ==
    ASSUME NEW R, ReasonState(R), Moves, ControllersStep
    PROVE  Reasoned(R)'
BY UserReasoned, EventsReasoned, ReconcileReasoned DEF ControllersStep

LEMMA StutterReasoned ==
    ASSUME NEW R, ReasonState(R), Moves, UNCHANGED allVars
    PROVE  Reasoned(R)'
<1>1. UNCHANGED <<log, heap, job, stage>>
  BY DEF allVars, vars, clusterVars, engineVars, controllerVars
<1>2. QED  BY <1>1, OthersReasoned

-----------------------------------------------------------------------------
(* Theorems of the operator without rules.                                   *)

LEMMA InitReasoned ==
    ASSUME NEW R, ControllersInit
    PROVE  Reasoned(R)
<1>1. /\ log = <<>> /\ heap = [p \in Ptr |-> NoMirror] /\ job = [w \in Worker |-> NoJob]
      /\ stage = [w \in Request |-> NoStage]
  BY DEF ControllersInit, Init, ClusterInit, EngineInit, ControllerInit
<1>2. LogReasoned(R) /\ HeapReasoned(R)
  BY <1>1 DEF LogReasoned, HeapReasoned, NoMirror
<1>3. \A w \in Worker : JobReasoned(R, job[w])
  BY <1>1 DEF JobReasoned, NoJob
<1>4. \A w \in Request : StageReasoned(R, w, stage[w])
  BY <1>1, NoStageReasoned
<1>5. QED  BY <1>2, <1>3, <1>4 DEF Reasoned

(* The sources of copies are objects.                                        *)
LEMMA ReasonsOfCopies ==
    ASSUME NEW R, EngineInv, Reasoned(R), NEW i \in 1..Len(log), log[i].by = "operator"
    PROVE  Reason(R, log[i].from, log[i].key.id)
<1>1. log[i].ver \in 1..Len(log) /\ log[i].from = log[log[i].ver].key.id
  BY DEF Reasoned, LogReasoned
<1>2. log[i].from \in ID
  BY <1>1, Parts, EntryFields, KeyFields
<1>3. log[i].from # NoID
  BY <1>2, ResourcesAssumption
<1>4. QED  BY <1>3 DEF Reasoned, LogReasoned

LEMMA ReasonInvariant == ControllersSpec => []ReasonState({})
<1>1. ControllersInit => ReasonState({})
  BY InitSafe, ControllersInitKeeps, InitReasoned DEF ControllersInit, ReasonState
<1>2. ReasonState({}) /\ [ControllersNext]_allVars => ReasonState({})'
  <2> SUFFICES ASSUME ReasonState({}), [ControllersNext]_allVars PROVE ReasonState({})'
    OBVIOUS
  <2>1. Moves
    BY ReasonParts, ControllersNextKeeps, NextSafe, NextAdvances DEF Keeps, Moves
  <2>2. Reasoned({})'
    BY <2>1, StepReasoned, RestartReasoned, StutterReasoned DEF ControllersNext
  <2>3. QED  BY <2>1, <2>2 DEF Moves, ReasonState
<1>3. QED  BY <1>1, <1>2, PTL DEF ControllersSpec

(* Whatever the operator writes, it writes where some revision of the source *)
(* pushed it, with the annotations of the object or those an Ingress adds,   *)
(* or where a user has put an object that names the source: for any          *)
(* manifests, policies, workers, failures, restarts and orders of events.    *)
THEOREM OperatorHasReasons == ControllersSpec => []CopiesHaveReasons
<1>1. ReasonState({}) => CopiesHaveReasons
  BY ReasonsOfCopies DEF ReasonState, CopiesHaveReasons
<1>2. QED  BY <1>1, ReasonInvariant, PTL

-----------------------------------------------------------------------------
(* With rules: what is stored, and the webhook that every write passes.       *)

LEMMA AdmittedParts ==
    ASSUME NEW R, RulesInv, AllAdmitted(R), NEW r \in RuleName
    PROVE  /\ Admitted(R, ruleSeen[r]) /\ Admitted(R, sync[r].rule) /\ Admitted(R, Stored(r))
           /\ \A i \in 1..Len(ruleLag[r]) : Admitted(R, ruleLag[r][i])
<1>1. /\ Admitted(R, ruleSeen[r]) /\ Admitted(R, sync[r].rule)
      /\ \A i \in 1..Len(ruleLag[r]) : Admitted(R, ruleLag[r][i])
  BY DEF AllAdmitted
<1>2. Stored(r) = ruleSeen[r] \/ \E i \in 1..Len(ruleLag[r]) : Stored(r) = ruleLag[r][i]
  BY RuleParts DEF Stored
<1>3. QED  BY <1>1, <1>2

LEMMA WriteAdmitted ==
    ASSUME NEW R, RulesInv, AllAdmitted(R), NEW r \in RuleName,
           NEW object \in RuleObject \cup {NoRule}, Admitted(R, object), Write(r, object)
    PROVE  \A q \in RuleName : \A i \in 1..Len(ruleLag'[q]) : Admitted(R, ruleLag'[q][i])
<1> SUFFICES ASSUME NEW q \in RuleName, NEW i \in 1..Len(ruleLag'[q])
             PROVE  Admitted(R, ruleLag'[q][i])
  OBVIOUS
<1>1. /\ ruleLag'[r] = Append(ruleLag[r], object) /\ (q # r => ruleLag'[q] = ruleLag[q])
      /\ ruleLag[r] \in Seq(RuleObject \cup {NoRule})
  BY RuleParts DEF Write
<1>2. CASE q # r
  BY <1>1, <1>2, AdmittedParts
<1>3. CASE q = r /\ i = Len(ruleLag[r]) + 1
  BY <1>1, <1>3
<1>4. CASE q = r /\ i \in 1..Len(ruleLag[r])
  BY <1>1, <1>4, AdmittedParts
<1>5. QED  BY <1>1, <1>2, <1>3, <1>4

(* Every rule that a reconcile works for is the one that it read.             *)
LEMMA SyncAdmitted ==
    ASSUME NEW R, RulesInv, AllAdmitted(R), NEW r \in RuleName, NEW s, Admitted(R, s.rule),
           sync' = [sync EXCEPT ![r] = s]
    PROVE  \A q \in RuleName : Admitted(R, sync'[q].rule)
BY RuleParts, AdmittedParts

LEMMA UserRuleAdmitted ==
    ASSUME NEW R, RulesInv, AllAdmitted(R), NEW r \in RuleName,
           RuleDelete(r) \/ \E spec \in Rule \cap R : RuleApply(r, spec)
    PROVE  AllAdmitted(R)'
<1>1. PICK object \in RuleObject \cup {NoRule} :
         /\ Admitted(R, object) /\ Write(r, object) /\ UNCHANGED ruleSeen
         /\ sync' = [sync EXCEPT ![r].fresh = FALSE]
  <2>1. CASE RuleDelete(r)
    BY <2>1 DEF RuleDelete, Admitted
  <2>2. ASSUME NEW spec \in Rule \cap R, RuleApply(r, spec)
        PROVE  \E object \in RuleObject \cup {NoRule} :
                  /\ Admitted(R, object) /\ Write(r, object) /\ UNCHANGED ruleSeen
                  /\ sync' = [sync EXCEPT ![r].fresh = FALSE]
    <3> DEFINE old == Stored(r)
               status == IF old = NoRule THEN NoStatus ELSE old.status
               object == [generation |-> old.generation + 1, spec |-> spec, status |-> status]
    <3>1. /\ Write(r, object) /\ UNCHANGED ruleSeen
          /\ sync' = [sync EXCEPT ![r].fresh = FALSE]
      BY <2>2 DEF RuleApply
    <3>2. old \in RuleObject \cup {NoRule} /\ NoStatus \in Status
      BY StoredType DEF NoStatus, Status
    <3>3. old.generation \in Nat /\ status \in Status
      BY <3>2 DEF RuleObject, NoRule
    <3> HIDE DEF old, status
    <3>4. object \in RuleObject /\ Admitted(R, object)
      BY <3>1, <3>3 DEF RuleObject, Admitted
    <3> HIDE DEF object
    <3>5. QED  BY <3>1, <3>4
  <2>3. QED  BY <2>1, <2>2
<1>2. \A q \in RuleName : sync'[q].rule = sync[q].rule
  BY <1>1, RuleParts DEF Sync
<1>3. QED  BY <1>1, <1>2, WriteAdmitted, AdmittedParts DEF AllAdmitted

LEMMA RuleEventAdmitted ==
    ASSUME NEW R, RulesInv, AllAdmitted(R), NEW r \in RuleName, RuleEvent(r)
    PROVE  AllAdmitted(R)'
<1>1. /\ ruleLag[r] # <<>> /\ ruleSeen' = [ruleSeen EXCEPT ![r] = Head(ruleLag[r])]
      /\ ruleLag' = [ruleLag EXCEPT ![r] = Tail(ruleLag[r])] /\ UNCHANGED sync
  BY DEF RuleEvent
<1>2. ruleLag[r] \in Seq(RuleObject \cup {NoRule})
  BY RuleParts
<1>3. ASSUME NEW q \in RuleName
      PROVE  Admitted(R, ruleSeen'[q]) /\ \A i \in 1..Len(ruleLag'[q]) : Admitted(R, ruleLag'[q][i])
  <2>1. CASE q # r
    BY <1>1, <2>1, RuleParts, AdmittedParts
  <2>2. CASE q = r
    <3>1. ruleSeen'[r] = ruleLag[r][1] /\ 1 \in 1..Len(ruleLag[r])
      BY <1>1, <1>2, RuleParts
    <3>2. \A i \in 1..Len(ruleLag'[r]) : /\ i + 1 \in 1..Len(ruleLag[r])
                                         /\ ruleLag'[r][i] = ruleLag[r][i + 1]
      BY <1>1, <1>2, RuleParts
    <3>3. QED  BY <2>2, <3>1, <3>2, AdmittedParts
  <2>3. QED  BY <2>1, <2>2
<1>4. QED  BY <1>1, <1>3, AdmittedParts DEF AllAdmitted

(* A reconcile works for the rule that it read, until it ends.                *)
LEMMA RuleKeptBySync ==
    ASSUME RulesInv, NEW r \in RuleName,
           \/ DetermineTargets(r) \/ \E type \in Kind : ListResources(r, type)
           \/ \E v \in 1..Len(log) : AddAndExecute(r, v)
           \/ ExecuteDone(r) \/ UpdateRuleStatus(r)
    PROVE  \A q \in RuleName : sync'[q].rule \in {sync[q].rule, NoRule}
<1>1. sync \in [RuleName -> Sync] /\ sync[r] \in Sync /\ NoSync.rule = NoRule
  BY RuleParts DEF NoSync
<1>2. ASSUME NEW s, s.rule \in {sync[r].rule, NoRule}, sync' = [sync EXCEPT ![r] = s]
      PROVE  \A q \in RuleName : sync'[q].rule \in {sync[q].rule, NoRule}
  BY <1>1, <1>2
<1>3. CASE DetermineTargets(r)
  <2> DEFINE s == [sync[r] EXCEPT !.at = "process",
                     !.targets = TargetNamespaces(sync[r].rule.spec, ListNamespaces),
                     !.types = ProcessedTypes(sync[r].rule.spec)]
  <2>1. sync' = [sync EXCEPT ![r] = s] \/ sync' = [sync EXCEPT ![r] = NoSync]
    BY <1>3 DEF DetermineTargets
  <2>2. s.rule = sync[r].rule
    BY <1>1 DEF Sync
  <2> HIDE DEF s
  <2>3. QED  BY <1>1, <1>2, <2>1, <2>2
<1>4. ASSUME NEW type \in Kind, ListResources(r, type)
      PROVE  \A q \in RuleName : sync'[q].rule \in {sync[q].rule, NoRule}
  <2> DEFINE s == [sync[r] EXCEPT !.types = sync[r].types \ {type},
                                  !.todo = Listing(sync[r].rule.spec, type)]
  <2>1. sync' = [sync EXCEPT ![r] = s]
    BY <1>4 DEF ListResources
  <2>2. s.rule = sync[r].rule
    BY <1>1 DEF Sync
  <2> HIDE DEF s
  <2>3. QED  BY <1>2, <2>1, <2>2
<1>5. ASSUME NEW v \in 1..Len(log), AddAndExecute(r, v)
      PROVE  \A q \in RuleName : sync'[q].rule \in {sync[q].rule, NoRule}
  <2> DEFINE s == [sync[r] EXCEPT !.at = "execute", !.todo = sync[r].todo \ {v}]
  <2>1. sync' = [sync EXCEPT ![r] = s]
    BY <1>5 DEF AddAndExecute
  <2>2. s.rule = sync[r].rule
    BY <1>1 DEF Sync
  <2> HIDE DEF s
  <2>3. QED  BY <1>2, <2>1, <2>2
<1>6. CASE ExecuteDone(r)
  <2> DEFINE s == [sync[r] EXCEPT !.at = "process",
                                  !.done = sync[r].done \cup {SourceKey(r)}]
  <2>1. sync' = [sync EXCEPT ![r] = s]
    BY <1>6 DEF ExecuteDone
  <2>2. s.rule = sync[r].rule
    BY <1>1 DEF Sync
  <2> HIDE DEF s
  <2>3. QED  BY <1>2, <2>1, <2>2
<1>7. CASE UpdateRuleStatus(r)
  BY <1>1, <1>2, <1>7 DEF UpdateRuleStatus
<1>8. QED  BY <1>3, <1>4, <1>5, <1>6, <1>7

LEMMA RuleStepAdmitted ==
    ASSUME NEW R, RulesInv, AllAdmitted(R), NEW r \in RuleName, RuleStep(r)
    PROVE  AllAdmitted(R)'
<1>1. UNCHANGED ruleSeen
  BY DEF RuleStep, RuleStart, DetermineTargets, ListResources, AddAndExecute, ExecuteDone,
     UpdateRuleStatus, ruleVars
<1>2. \A q \in RuleName : Admitted(R, sync'[q].rule)
  <2>1. CASE RuleStart(r)
    <3> DEFINE s == [NoSync EXCEPT !.at = "targets", !.rule = ruleSeen[r],
                                   !.fresh = ruleLag[r] = <<>>]
    <3>1. UNCHANGED sync \/ sync' = [sync EXCEPT ![r] = s]
      BY <2>1 DEF RuleStart
    <3>2. s.rule = ruleSeen[r]
      BY DEF NoSync
    <3> HIDE DEF s
    <3>3. QED  BY <3>1, <3>2, AdmittedParts, SyncAdmitted
  <2>2. CASE \/ DetermineTargets(r) \/ \E type \in Kind : ListResources(r, type)
             \/ \E v \in 1..Len(log) : AddAndExecute(r, v)
             \/ ExecuteDone(r) \/ UpdateRuleStatus(r)
    BY <2>2, RuleKeptBySync, AdmittedParts DEF Admitted
  <2>3. CASE UNCHANGED ruleVars
    BY <2>3, AdmittedParts DEF ruleVars
  <2>4. QED  BY <2>1, <2>2, <2>3 DEF RuleStep
<1>3. \A q \in RuleName : \A i \in 1..Len(ruleLag'[q]) : Admitted(R, ruleLag'[q][i])
  <2>1. CASE UNCHANGED ruleLag
    BY <2>1, AdmittedParts
  <2>2. CASE UpdateRuleStatus(r)
    <3> DEFINE status(second) == [observed |-> sync[r].rule.generation, synced |-> sync[r].done,
                                  targets |-> sync[r].targets, second |-> second]
    <3>1. PICK second \in {0, 1} :
             \/ Write(r, [sync[r].rule EXCEPT !.status = status(second)])
             \/ UNCHANGED ruleLag
      BY <2>2 DEF UpdateRuleStatus
    <3>2. /\ sync[r].rule \in RuleObject /\ sync[r].done \subseteq Key
          /\ sync[r].targets \subseteq Namespace
      BY <2>2, RuleParts DEF Sync, SyncSound, UpdateRuleStatus
    <3>3. status(second) \in Status
      BY <3>2 DEF RuleObject, Status
    <3> HIDE DEF status
    <3>4. /\ [sync[r].rule EXCEPT !.status = status(second)] \in RuleObject
          /\ [sync[r].rule EXCEPT !.status = status(second)].spec = sync[r].rule.spec
          /\ sync[r].rule # NoRule
      BY <2>2, <3>2, <3>3, RuleParts DEF RuleObject, UpdateRuleStatus, SyncSound
    <3>5. Admitted(R, [sync[r].rule EXCEPT !.status = status(second)])
      BY <3>4, AdmittedParts DEF Admitted
    <3>6. QED  BY <3>1, <3>4, <3>5, WriteAdmitted, AdmittedParts
  <2>3. QED
    BY <2>1, <2>2 DEF RuleStep, RuleStart, DetermineTargets, ListResources, AddAndExecute,
       ExecuteDone, ruleVars
<1>4. QED  BY <1>1, <1>2, <1>3, AdmittedParts DEF AllAdmitted

(* No spec is ever struck off the history.                                   *)
LEMMA SpecsGrow ==
    ASSUME [RulesNext]_rulesVars
    PROVE  \/ UNCHANGED ruleSpecs
           \/ \E spec \in Admissible : /\ ruleSpecs' = ruleSpecs \cup {spec}
                                       /\ \E r \in RuleName : RuleApply(r, spec)
<1>1. ASSUME NEW r \in RuleName, NEW spec \in Rule, RuleApply(r, spec)
      PROVE  spec \in Admissible /\ ruleSpecs' = ruleSpecs \cup {spec}
  BY <1>1 DEF RuleApply, Admissible
<1>2. QED
  BY <1>1 DEF RulesNext, RuleDelete, RuleEvent, RuleResync, RuleStep, RuleStart,
     DetermineTargets, ListResources, AddAndExecute, ExecuteDone, UpdateRuleStatus,
     RulesRestart, rulesVars, ruleVars

LEMMA AdmittedStep ==
    ASSUME NEW R, RulesInv, AllAdmitted(R), [RulesNext]_rulesVars, ruleSpecs' \subseteq R
    PROVE  AllAdmitted(R)'
<1>1. CASE UNCHANGED <<ruleSeen, ruleLag, sync>>
  BY <1>1, AdmittedParts DEF AllAdmitted
<1>2. CASE RulesRestart
  <2>1. /\ ruleSeen' = [r \in RuleName |-> Stored(r)] /\ ruleLag' = [r \in RuleName |-> <<>>]
        /\ sync' = [r \in RuleName |-> NoSync]
    BY <1>2 DEF RulesRestart
  <2>2. Admitted(R, NoSync.rule)
    BY DEF NoSync, Admitted
  <2>3. ASSUME NEW r \in RuleName
        PROVE  /\ Admitted(R, ruleSeen'[r]) /\ Admitted(R, sync'[r].rule)
               /\ \A i \in 1..Len(ruleLag'[r]) : Admitted(R, ruleLag'[r][i])
    <3>1. ruleSeen'[r] = Stored(r) /\ sync'[r] = NoSync /\ ruleLag'[r] = <<>>
      BY <2>1
    <3>2. 1..Len(ruleLag'[r]) = {}
      BY <3>1
    <3>3. QED  BY <2>2, <3>1, <3>2, AdmittedParts
  <2>4. QED  BY <2>3 DEF AllAdmitted, Admitted
<1>3. CASE \E r \in RuleName : RuleResync(r)
  BY <1>1, <1>3 DEF RuleResync
<1>4. ASSUME NEW r \in RuleName, NEW spec \in Rule, RuleApply(r, spec)
      PROVE  AllAdmitted(R)'
  <2>1. spec \in R
    BY <1>4 DEF RuleApply
  <2>2. QED  BY <1>4, <2>1, UserRuleAdmitted
<1>5. CASE \E r \in RuleName : RuleDelete(r)
  BY <1>5, UserRuleAdmitted
<1>6. CASE \E r \in RuleName : RuleEvent(r)
  BY <1>6, RuleEventAdmitted
<1>7. CASE \E r \in RuleName : RuleStep(r)
  BY <1>7, RuleStepAdmitted
<1>8. CASE UNCHANGED ruleVars
  BY <1>1, <1>8 DEF ruleVars
<1>9. QED
  BY <1>2, <1>3, <1>4, <1>5, <1>6, <1>7, <1>8 DEF RulesNext, rulesVars

LEMMA AdmittedNext ==
    ASSUME RulesInv, RulesAdmitted, [RulesNext]_rulesVars
    PROVE  RulesAdmitted'
<1>1. PICK R : R = ruleSpecs'
  OBVIOUS
<1>2. ruleSpecs \subseteq R /\ R \subseteq Admissible
  BY <1>1, SpecsGrow DEF RulesAdmitted
<1>3. AllAdmitted(R)
  BY <1>2 DEF RulesAdmitted, AllAdmitted, Admitted
<1>4. AllAdmitted(R)'
  BY <1>1, <1>3, AdmittedStep
<1>5. QED  BY <1>1, <1>2, <1>4 DEF RulesAdmitted

-----------------------------------------------------------------------------
(* With rules: the reasons.                                                  *)

(* Execute is called with a Source that is allowed everywhere, but pushed only *)
(* to the targets of the rule.                                               *)
LEMMA AddAndExecuteReasoned ==
    ASSUME NEW R, ReasonState(R), Moves, RulesInv, R = ruleSpecs, RulesAdmitted,
           NEW r \in RuleName, NEW v \in 1..Len(log), AddAndExecute(r, v)
    PROVE  Reasoned(R)'
<1> DEFINE spec == sync[r].rule.spec
           k == log[v].key
           name == TransformTargetName(spec, k.id.name)
<1>1. /\ sync[r].at = "process" /\ v \in sync[r].todo /\ UNCHANGED <<log, stage>>
      /\ Execute(r, v, RulePolicy(sync[r].targets), name)
  BY DEF AddAndExecute, Execute, clusterVars, controllerVars
<1>2. /\ sync[r] \in Sync /\ SyncSound(sync[r]) /\ Admitted(R, sync[r].rule)
  BY RuleParts DEF RulesAdmitted, AllAdmitted
<1>3. spec \in R
  BY <1>1, <1>2 DEF Sync, SyncSound, RuleObject, Admitted
<1>4. k \in Key /\ k.kind \in Kind /\ k = [kind |-> k.kind, id |-> k.id]
  BY ReasonParts, Parts, EntryFields DEF Key
<1>5. ASSUME NEW n \in Namespace, n # k.id.ns,
             CanAutoMirrorToNamespace(RulePolicy(sync[r].targets), n)
      PROVE  Reason(R, k.id, [ns |-> n, name |-> name])
  <2>1. n \in sync[r].targets
    BY <1>2, <1>5, RulePushes DEF Sync
  <2>2. \E nss \in SUBSET Namespace : n \in TargetNamespaces(spec, nss)
    BY <1>1, <1>2, <2>1 DEF SyncSound
  <2>3. Covers(spec, k)
    BY <1>1, <1>2 DEF SyncSound
  <2>4. Asks(spec, [kind |-> k.kind, id |-> k.id], n)
    BY <1>4, <2>2, <2>3, TargetsAreAsked
  <2>5. ARuleAsks(R, k.id, [ns |-> n, name |-> name])
    BY <1>3, <1>4, <1>5, <2>4 DEF ARuleAsks
  <2>6. QED  BY <2>5 DEF Reason
<1> HIDE DEF name
<1>6. CallsReasoned(R)'
  BY <1>1, <1>5, RuleIsWorker, ExecuteReasoned
<1>7. QED  BY <1>1, <1>6, StagesStay DEF CallsReasoned, Reasoned

LEMMA RuleStepReasoned ==
    ASSUME NEW R, ReasonState(R), Moves, RulesInv, R = ruleSpecs, RulesAdmitted,
           NEW r \in RuleName, RuleStep(r)
    PROVE  Reasoned(R)'
<1>1. CASE Work(r) /\ UNCHANGED <<controllerVars, ruleVars>>
  <2>1. CallsReasoned(R)' /\ UNCHANGED stage
    BY <1>1, RuleIsWorker, WorkReasoned DEF controllerVars
  <2>2. QED  BY <2>1, StagesStay DEF CallsReasoned, Reasoned
<1>2. CASE ExecuteDone(r)
  <2>1. CallsReasoned(R)' /\ UNCHANGED stage
    BY <1>2, RuleIsWorker, ReturnReasoned DEF ExecuteDone, controllerVars
  <2>2. QED  BY <2>1, StagesStay DEF CallsReasoned, Reasoned
<1>3. CASE \/ RuleStart(r) \/ DetermineTargets(r) \/ \E type \in Kind : ListResources(r, type)
           \/ UpdateRuleStatus(r)
  BY <1>3, StutterReasoned DEF RuleStart, DetermineTargets, ListResources, UpdateRuleStatus
<1>4. QED  BY <1>1, <1>2, <1>3, AddAndExecuteReasoned DEF RuleStep

LEMMA RulesStepReasoned ==
    ASSUME NEW R, ReasonState(R), Moves, RulesInv, R = ruleSpecs, RulesAdmitted,
           [RulesNext]_rulesVars
    PROVE  Reasoned(R)'
<1>1. CASE \/ UNCHANGED rulesVars
           \/ \E r \in RuleName : RuleEvent(r)
  BY <1>1, StutterReasoned DEF RuleEvent, rulesVars
<1>2. CASE \E r \in RuleName : \/ RuleDelete(r) \/ RuleResync(r)
                               \/ \E spec \in Rule : RuleApply(r, spec)
  <2>1. UNCHANGED <<log, heap, job, stage>>
    BY <1>2 DEF RuleDelete, RuleResync, RuleApply, engineVars, controllerVars
  <2>2. QED  BY <2>1, OthersReasoned
<1>3. CASE RulesRestart
  BY <1>3, RestartReasoned DEF RulesRestart
<1>4. QED  BY <1>1, <1>2, <1>3, StepReasoned, RuleStepReasoned DEF RulesNext

-----------------------------------------------------------------------------
(* The reasons stay when more rules are stored.                              *)
LEMMA MoreReasons ==
    ASSUME NEW R, NEW S, R \subseteq S, Reasoned(R)'
    PROVE  Reasoned(S)'
<1>1. \A source, id : Reason(R, source, id)' => Reason(S, source, id)'
  BY DEF Reason, ARuleAsks
<1>2. LogReasoned(S)'
  BY <1>1 DEF Reasoned, LogReasoned
<1>3. HeapReasoned(S)'
  BY <1>1 DEF Reasoned, HeapReasoned
<1>4. \A w \in Worker : JobReasoned(S, job[w])'
  BY <1>1 DEF Reasoned, JobReasoned
<1>5. \A w \in Request : StageReasoned(S, w, stage[w])'
  BY <1>1 DEF Reasoned, StageReasoned
<1>6. QED  BY <1>2, <1>3, <1>4, <1>5 DEF Reasoned

RulesReasonState == ReasonState(ruleSpecs) /\ RulesInv /\ RulesAdmitted

LEMMA RulesReasonNext ==
    ASSUME RulesReasonState, [RulesNext]_rulesVars
    PROVE  RulesReasonState'
<1>1. PICK R : R = ruleSpecs
  OBVIOUS
<1>2. PICK S : S = ruleSpecs'
  OBVIOUS
<1>3. /\ ReasonState(R) /\ RulesInv /\ RulesAdmitted /\ EngineInv /\ ControllerInv
  BY <1>1 DEF RulesReasonState, ReasonState
<1>4. Moves /\ RulesInv'
  BY <1>3, RulesNextKeeps, NextSafe, NextAdvances DEF RulesKeep, Keeps, Moves
<1>5. Reasoned(R)' /\ RulesAdmitted'
  BY <1>1, <1>3, <1>4, RulesStepReasoned, AdmittedNext
<1>6. R \subseteq S
  BY <1>1, <1>2, SpecsGrow
<1>7. Reasoned(S)'
  BY <1>5, <1>6, MoreReasons
<1>8. Reasoned(ruleSpecs)'
  BY <1>2, <1>7
<1>9. QED  BY <1>4, <1>5, <1>8 DEF Moves, ReasonState, RulesReasonState

LEMMA RulesReasonInit == RulesInit => RulesReasonState
<1> SUFFICES ASSUME RulesInit PROVE RulesReasonState
  OBVIOUS
<1>1. EngineInv /\ ControllerInv /\ RulesInv /\ Reasoned(ruleSpecs)
  BY RulesInitKeeps, InitReasoned DEF RulesInit
<1>2. RulesAdmitted
  BY DEF RulesInit, RuleInit, NoSync, Admitted, AllAdmitted, RulesAdmitted
<1>3. QED  BY <1>1, <1>2 DEF ReasonState, RulesReasonState

LEMMA RulesReasonInvariant == RulesSpec => []RulesReasonState
BY RulesReasonInit, RulesReasonNext, PTL DEF RulesSpec

(* With the ClusterReplicationRule controller running beside the others on   *)
(* one store, every copy goes where a revision of the source pushed it, where *)
(* a user asked for it, or where a rule that has been stored asks for it,     *)
(* under the name that the rule gives it: though the Sources of a rule are    *)
(* allowed everywhere, Execute writes every mirror that anybody has           *)
(* registered, and the rule may be changed or deleted by then. That is for    *)
(* any rules, manifests, failures and restarts.                              *)
THEOREM RulesHaveReasons == RulesSpec => []CopiesAreAskedFor
<1>1. RulesReasonState => CopiesAreAskedFor
  BY ReasonsOfCopies DEF RulesReasonState, ReasonState, CopiesAreAskedFor
<1>2. QED  BY <1>1, RulesReasonInvariant, PTL

-----------------------------------------------------------------------------
(* Where rules are the only reason there is.                                  *)

(* No revision asks for anything by itself.                                  *)
NothingAsked ==
    \A i \in 1..Len(log) : ~log[i].policy.replicate /\ (log[i].ver = 0 => log[i].from = NoID)

LEMMA LogSteps ==
    ASSUME [Next]_vars
    PROVE  UNCHANGED log \/ UserStep \/ \E w \in Worker : WriteMirror(w)
<1>1. ASSUME NEW w \in Worker, Work(w)
      PROVE  UNCHANGED log \/ WriteMirror(w)
  BY <1>1 DEF Work, CreateAutoMirrorIfNotExists, CheckForConflicts, CreateAutoMirror,
     CleanupAutoMirrors, ForgetMirror, ListMirrors, ReadSource, Reflect, SetVersion, GetMirror,
     WriteRejected, WriteFails, clusterVars
<1>2. QED
  BY <1>1 DEF Next, Observe, ObserveNamespace, ExecuteReturns, Execute, RegisterMirror,
     UnregisterMirror, Restart, Elsewhere, vars, clusterVars

LEMMA NothingAskedNext ==
    ASSUME RulesAlone, EngineInv, NothingAsked, [Next]_vars
    PROVE  NothingAsked'
<1>1. ClusterTypeOK /\ Len(log) \in Nat
  BY Parts
<1>2. CASE UNCHANGED log
  BY <1>2 DEF NothingAsked
<1>3. ASSUME NEW e \in Entry, Commit(e), ~e.policy.replicate, e.ver = 0 => e.from = NoID
      PROVE  NothingAsked'
  <2>1. /\ Len(log') = Len(log) + 1 /\ \A i \in 1..Len(log) : log'[i] = log[i]
        /\ log'[Len(log) + 1] = e
    BY <1>1, <1>3, CommitFacts
  <2>2. QED  BY <1>1, <1>3, <2>1 DEF NothingAsked
<1>4. ASSUME NEW e \in Entry, Commit(e), NewEntry(e) \/ \E i \in 1..Len(log) : EditOf(log[i], e)
      PROVE  NothingAsked'
  <2>1. ~e.policy.replicate /\ (e.ver = 0 => e.from = NoID)
    BY <1>4 DEF NewEntry, EditOf, RulesAlone, NothingAsked
  <2>2. QED  BY <1>3, <1>4, <2>1
<1>5. ASSUME NEW w \in Worker, WriteMirror(w)
      PROVE  NothingAsked'
  <2>1. PICK e \in Entry : Commit(e) /\ e.ver = job[w].ver /\ e.policy = NoPolicy
    BY <1>5, WrittenEntry
  <2>2. job[w].ver # 0
    BY <1>5, SourceFacts DEF WriteMirror
  <2>3. ~NoPolicy.replicate
    BY DEF NoPolicy
  <2>4. QED  BY <1>3, <2>1, <2>2, <2>3
<1>6. QED  BY <1>2, <1>4, <1>5, UserEntries, LogSteps

(* Then the only reason is a rule.                                           *)
LEMMA RuleIsTheReason ==
    ASSUME RulesAlone, NothingAsked, NEW R, NEW source \in ID, NEW id, Reason(R, source, id)
    PROVE  ARuleAsks(R, source, id)
<1>1. ~AnnotationsAsk(source, id)
  <2> SUFFICES ASSUME NEW i \in 1..Len(log), NEW policy \in OwnPolicies(log[i]),
                      CanAutoMirrorToNamespace(policy, id.ns)
               PROVE  FALSE
    BY DEF AnnotationsAsk
  <2>1. IngressPolicies(log[i]) = {}
    BY DEF IngressPolicies, RulesAlone
  <2>2. policy = log[i].policy \/ policy = MirrorView(log[i].policy)
    BY <2>1 DEF OwnPolicies
  <2>3. ~policy.replicate
    BY <2>2 DEF NothingAsked, MirrorView
  <2>4. QED  BY <2>3 DEF CanAutoMirrorToNamespace
<1>2. ~AUserAsks(source, id)
  BY ResourcesAssumption DEF AUserAsks, NothingAsked
<1>3. QED  BY <1>1, <1>2 DEF Reason

-----------------------------------------------------------------------------
(* The registry.                                                             *)

(* The ways in which the store and its objects change.                       *)
LEMMA StoreSteps ==
    ASSUME EngineInv, [Next]_vars
    PROVE  \/ UNCHANGED <<store, heap>>
           \/ \E id \in ID, source \in ID, kind \in Kind, auto \in BOOLEAN :
                 Register(id, source, kind, auto)
           \/ \E id \in ID : Unregister(id)
           \/ \E w \in Worker : SetVersion(w)
           \/ Restart
<1>1. ASSUME NEW w \in Worker, CreateAutoMirror(w)
      PROVE  \E id \in ID, source \in ID, kind \in Kind, auto \in BOOLEAN :
                Register(id, source, kind, auto)
  <2>1. job[w].pc = "create" /\ Register(job[w].at, SourceID(w), SourceKey(w).kind, TRUE)
    BY <1>1 DEF CreateAutoMirror
  <2>2. job[w].at \in ID /\ SourceID(w) \in ID /\ SourceKey(w).kind \in Kind
    BY <2>1, Parts, SourceFacts DEF JobSound
  <2>3. QED  BY <2>1, <2>2
<1>2. ASSUME NEW w \in Worker, Work(w)
      PROVE  \/ UNCHANGED <<store, heap>> \/ CreateAutoMirror(w) \/ SetVersion(w)
             \/ \E id \in ID : Unregister(id)
  BY <1>2 DEF Work, CreateAutoMirrorIfNotExists, CheckForConflicts, CleanupAutoMirrors,
     ForgetMirror, ListMirrors, ReadSource, Reflect, GetMirror, WriteMirror, WriteRejected,
     WriteFails
<1>3. QED
  BY <1>1, <1>2 DEF Next, ExecuteReturns, Execute, RegisterMirror, UnregisterMirror, Elsewhere,
     vars, engineVars

(* SetVersion leaves the ID, the source and the kind of every Mirror alone.   *)
LEMMA SetVersionFields ==
    ASSUME EngineInv, NEW w \in Worker, SetVersion(w)
    PROVE  /\ job[w].cur \in Ptr /\ UNCHANGED store
           /\ \A p \in Ptr : /\ heap'[p].id = heap[p].id /\ heap'[p].source = heap[p].source
                             /\ heap'[p].kind = heap[p].kind /\ heap'[p].auto = heap[p].auto
                             /\ heap'[p].version =
                                   IF p = job[w].cur THEN job[w].ver ELSE heap[p].version
<1> DEFINE m == [heap[job[w].cur] EXCEPT !.version = job[w].ver]
<1>1. /\ job[w].pc = "set" /\ UNCHANGED store /\ heap' = [heap EXCEPT ![job[w].cur] = m]
  BY DEF SetVersion
<1>2. heap \in [Ptr -> Mirror] /\ job[w].cur \in Ptr
  BY <1>1, Parts, InHand
<1>3. /\ m.id = heap[job[w].cur].id /\ m.source = heap[job[w].cur].source
      /\ m.kind = heap[job[w].cur].kind /\ m.auto = heap[job[w].cur].auto
      /\ m.version = job[w].ver
  BY <1>2 DEF Mirror
<1> HIDE DEF m
<1>4. QED  BY <1>1, <1>2, <1>3

(* A registration puts one new object in the place of one ID.                 *)
LEMMA Registration ==
    ASSUME EngineInv, NEW id \in ID, NEW source \in ID, NEW kind \in Kind,
           NEW auto \in BOOLEAN, Register(id, source, kind, auto)
    PROVE  \E q \in Fresh :
              /\ q \in Ptr /\ store'[id] = q /\ heap'[q].id = id /\ heap'[q].source = source
              /\ heap'[q].kind = kind /\ heap'[q].auto = auto /\ heap'[q].version = 0
              /\ \A i \in ID : i # id => store'[i] = store[i]
              /\ \A p \in Ptr : p # q => heap'[p] = heap[p]
<1> DEFINE m == [id |-> id, source |-> source, kind |-> kind, version |-> 0, auto |-> auto]
<1>1. PICK q \in Fresh : heap' = [heap EXCEPT ![q] = m] /\ store' = [store EXCEPT ![id] = q]
  BY DEF Register
<1>2. /\ m.id = id /\ m.source = source /\ m.kind = kind /\ m.auto = auto /\ m.version = 0
  OBVIOUS
<1> HIDE DEF m
<1>3. q \in Ptr /\ store \in [ID -> Ptr \cup {Nil}] /\ heap \in [Ptr -> Mirror]
  BY Parts DEF Fresh, EngineTypeOK
<1>4. QED  BY <1>1, <1>2, <1>3

LEMMA RegistrySoundNext ==
    ASSUME EngineInv, RegistrySound, [Next]_vars
    PROVE  RegistrySound'
<1>1. store \in [ID -> Ptr \cup {Nil}] /\ heap \in [Ptr -> Mirror]
  BY Parts DEF EngineTypeOK
<1>2. CASE UNCHANGED <<store, heap>>
  BY <1>2 DEF RegistrySound, Registered
<1>3. ASSUME NEW id \in ID, NEW source \in ID, NEW kind \in Kind, NEW auto \in BOOLEAN,
             Register(id, source, kind, auto)
      PROVE  RegistrySound'
  <2>1. PICK q \in Fresh :
           /\ q \in Ptr /\ store'[id] = q /\ heap'[q].id = id /\ heap'[q].source = source
           /\ \A i \in ID : i # id => store'[i] = store[i]
           /\ \A p \in Ptr : p # q => heap'[p] = heap[p]
    BY <1>3, Registration
  <2>2. \A i \in ID : store[i] # q
    BY DEF Fresh
  <2>3. \A p \in Ptr : heap'[p].id # NoID => heap'[p].source \in ID
    BY <2>1 DEF RegistrySound
  <2>4. \A i \in ID : store'[i] # Nil => heap'[store'[i]].id = i
    BY <1>1, <2>1, <2>2 DEF RegistrySound, Registered
  <2>5. QED  BY <2>3, <2>4 DEF RegistrySound, Registered
<1>4. ASSUME NEW id \in ID, Unregister(id)
      PROVE  RegistrySound'
  BY <1>1, <1>4 DEF Unregister, RegistrySound, Registered
<1>5. ASSUME NEW w \in Worker, SetVersion(w)
      PROVE  RegistrySound'
  BY <1>1, <1>5, SetVersionFields DEF RegistrySound, Registered
<1>6. CASE Restart
  BY <1>6 DEF Restart, NoMirror, RegistrySound, Registered
<1>7. QED  BY <1>2, <1>3, <1>4, <1>5, <1>6, StoreSteps

LEMMA LogClaimedNext ==
    ASSUME EngineInv, LogClaimed, [Next]_vars
    PROVE  LogClaimed'
<1>1. ClusterTypeOK /\ Len(log) \in Nat
  BY Parts
<1>2. CASE UNCHANGED log
  BY <1>2 DEF LogClaimed
<1>3. ASSUME NEW e \in Entry, Commit(e), e.policy \in PoliciesAt(e.key.id),
             e.ver = 0 /\ e.from # NoID =>
                \E m \in Manifest : m.key.id = e.key.id /\ m.from = e.from
      PROVE  LogClaimed'
  <2>1. /\ Len(log') = Len(log) + 1 /\ \A i \in 1..Len(log) : log'[i] = log[i]
        /\ log'[Len(log) + 1] = e
    BY <1>1, <1>3, CommitFacts
  <2>2. \A i \in 1..Len(log') : i = Len(log) + 1 \/ i \in 1..Len(log)
    BY <1>1, <2>1
  <2>3. QED  BY <1>3, <2>1, <2>2 DEF LogClaimed
<1>4. ASSUME NEW e \in Entry, Commit(e), NewEntry(e)
      PROVE  LogClaimed'
  <2>1. PICK m \in Manifest : e.key = m.key /\ e.policy = m.policy /\ e.from = m.from
    BY <1>4 DEF NewEntry
  <2>2. e.policy \in PoliciesAt(e.key.id)
    BY <2>1 DEF PoliciesAt
  <2>3. QED  BY <1>3, <1>4, <2>1, <2>2
<1>5. ASSUME NEW e \in Entry, Commit(e), NEW i \in 1..Len(log), EditOf(log[i], e)
      PROVE  LogClaimed'
  BY <1>3, <1>5 DEF EditOf, LogClaimed
<1>6. ASSUME NEW w \in Worker, WriteMirror(w)
      PROVE  LogClaimed'
  <2>1. PICK e \in Entry : Commit(e) /\ e.ver = job[w].ver /\ e.policy = NoPolicy
    BY <1>6, WrittenEntry
  <2>2. job[w].ver # 0
    BY <1>6, SourceFacts DEF WriteMirror
  <2>3. e.policy \in PoliciesAt(e.key.id)
    BY <2>1 DEF PoliciesAt
  <2>4. QED  BY <1>3, <2>1, <2>2, <2>3
<1>7. QED  BY <1>2, <1>4, <1>5, <1>6, UserEntries, LogSteps

(* A reason is a claim.                                                      *)
LEMMA ReasonIsClaim ==
    ASSUME LogClaimed, NEW R \in SUBSET Admissible, NEW source \in ID, NEW id,
           Reason(R, source, id)
    PROVE  Claims(source, id)
<1>1. CASE AnnotationsAsk(source, id)
  <2>1. PICK i \in 1..Len(log) :
           /\ log[i].key.id = source
           /\ \E policy \in OwnPolicies(log[i]) : CanAutoMirrorToNamespace(policy, id.ns)
    BY <1>1 DEF AnnotationsAsk
  <2> DEFINE own == log[i].policy
  <2>2. own \in PoliciesAt(source)
    BY <2>1 DEF LogClaimed
  <2>3. OwnPolicies(log[i]) \subseteq
           {own, MirrorView(own)} \cup UNION {Merged(own, t) : t \in Template}
    BY DEF OwnPolicies, IngressPolicies
  <2>4. id.name = source.name /\ id.ns # source.ns
    BY <1>1 DEF AnnotationsAsk
  <2> HIDE DEF own
  <2>5. QED  BY <2>1, <2>2, <2>3, <2>4 DEF Claims
<1>2. CASE ARuleAsks(R, source, id)
  BY <1>2 DEF ARuleAsks, Claims
<1>3. CASE AUserAsks(source, id)
  <2>1. PICK i \in 1..Len(log) : log[i].key.id = id /\ log[i].from = source /\ log[i].ver = 0
    BY <1>3 DEF AUserAsks
  <2>2. source # NoID
    BY ResourcesAssumption
  <2>3. QED  BY <2>1, <2>2 DEF LogClaimed, Claims
<1>4. QED  BY <1>1, <1>2, <1>3 DEF Reason

(* Two reasons at one ID are of one source.                                  *)
LEMMA OneReason ==
    ASSUME Uncontested, LogClaimed, NEW R \in SUBSET Admissible, NEW a \in ID, NEW b \in ID,
           NEW id \in ID, Reason(R, a, id), Reason(R, b, id)
    PROVE  a = b
BY ReasonIsClaim DEF Uncontested

LEMMA RegistryIsExact ==
    ASSUME Uncontested, NEW R \in SUBSET Admissible, EngineInv, Reasoned(R), LogClaimed,
           RegistrySound
    PROVE  RegistryExact /\ RegistryAgrees
<1>1. ASSUME NEW id \in ID, NEW i \in 1..Len(log), Registered(id), log[i].key.id = id,
             log[i].from # NoID
      PROVE  heap[store[id]].source = log[i].from
  <2> DEFINE p == store[id]
  <2>1. p \in Ptr /\ heap[p].id = id
    BY <1>1, Parts DEF Registered, EngineTypeOK, RegistrySound
  <2>2. heap[p].source \in ID /\ Reason(R, heap[p].source, id)
    BY <2>1, ResourcesAssumption DEF RegistrySound, Reasoned, HeapReasoned
  <2>3. log[i].from \in ID /\ Reason(R, log[i].from, id)
    BY <1>1, Parts, EntryFields DEF Reasoned, LogReasoned
  <2>4. QED  BY <2>2, <2>3, OneReason
<1>2. ASSUME NEW id \in ID, Registered(id), Live(Cached("Secret", id)),
             log[Cached("Secret", id)].by = "operator"
      PROVE  heap[store[id]].source = log[Cached("Secret", id)].from
  <2> DEFINE h == Cached("Secret", id)
  <2>1. h \in 1..Len(log) /\ log[h].key.id = id
    BY <1>2, CachedID
  <2>2. log[h].from \in ID
    <3>1. log[h].ver \in 1..Len(log) /\ log[h].from = log[log[h].ver].key.id
      BY <1>2, <2>1 DEF Reasoned, LogReasoned
    <3>2. QED  BY <3>1, Parts, EntryFields, KeyFields
  <2>3. log[h].from # NoID
    BY <2>2, ResourcesAssumption
  <2>4. QED  BY <1>1, <1>2, <2>1, <2>3
<1>3. RegistryExact
  BY <1>1 DEF RegistryExact
<1>4. RegistryAgrees
  BY <1>2 DEF RegistryAgrees
<1>5. QED  BY <1>3, <1>4

LEMMA RegistryInvariant == Spec => [](LogClaimed /\ RegistrySound)
<1>1. Init => LogClaimed /\ RegistrySound
  BY DEF Init, ClusterInit, EngineInit, NoMirror, LogClaimed, RegistrySound, Registered
<1>2. EngineInv /\ LogClaimed /\ RegistrySound /\ [Next]_vars => (LogClaimed /\ RegistrySound)'
  BY LogClaimedNext, RegistrySoundNext
<1>3. QED  BY <1>1, <1>2, EngineIsSound, PTL DEF Spec

(* Where no two sources are after one ID, the store never attributes a mirror *)
(* to another source than the annotation in the cluster does: not only at     *)
(* rest, and whatever is applied, edited, deleted or restarted between a      *)
(* registration, the write and the event that registers the mirror again.    *)
THEOREM OperatorRegistryIsRight ==
    ASSUME Uncontested
    PROVE  ControllersSpec => [](RegistryExact /\ RegistryAgrees)
<1>1. ReasonState({}) /\ LogClaimed /\ RegistrySound => RegistryExact /\ RegistryAgrees
  BY RegistryIsExact DEF ReasonState
<1>2. QED  BY <1>1, ReasonInvariant, ControllersImplementEngine, RegistryInvariant, PTL

(* The same with rules, which register mirrors under names of their own and   *)
(* are changed while their calls are under way.                              *)
THEOREM RulesRegistryIsRight ==
    ASSUME Uncontested
    PROVE  RulesSpec => [](RegistryExact /\ RegistryAgrees)
<1>1. RulesReasonState /\ LogClaimed /\ RegistrySound => RegistryExact /\ RegistryAgrees
  BY RegistryIsExact DEF RulesReasonState, ReasonState, RulesAdmitted
<1>2. QED  BY <1>1, RulesReasonInvariant, RulesImplementEngine, RegistryInvariant, PTL
==============================================================================
