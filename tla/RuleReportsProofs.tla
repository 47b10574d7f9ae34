--------------------------- MODULE RuleReportsProofs ---------------------------
(***************************************************************************)
(* How far the status of a ClusterReplicationRule can be believed, in the  *)
(* circumstances that RuleReports calls Trusted.                           *)
(***************************************************************************)
EXTENDS RuleReports, ProvenanceProofs

(* What is known of every state before anything is said of reports.          *)
Grounds == RulesReasonState /\ NothingAsked /\ LogClaimed /\ RegistrySound

LEMMA GroundParts ==
    ASSUME Grounds
    PROVE  /\ RulesReasonState /\ ReasonState(ruleSpecs) /\ EngineInv /\ ControllerInv /\ RulesInv
           /\ ruleSpecs \subseteq Admissible /\ AllAdmitted(ruleSpecs)
           /\ LogReasoned(ruleSpecs) /\ HeapReasoned(ruleSpecs)
           /\ NothingAsked /\ LogClaimed /\ RegistrySound
           /\ \A w \in Worker : JobReasoned(ruleSpecs, job[w])
BY DEF Grounds, RulesReasonState, ReasonState, Reasoned, RulesAdmitted

LEMMA GroundsInvariant ==
    ASSUME RulesAlone
    PROVE  RulesSpec => []Grounds
<1>1. RulesInit => NothingAsked
  BY DEF RulesInit, ControllersInit, Init, ClusterInit, NothingAsked
<1>2. NothingAsked /\ RulesReasonState /\ [RulesNext]_rulesVars => NothingAsked'
  <2> SUFFICES ASSUME NothingAsked, RulesReasonState, [RulesNext]_rulesVars
               PROVE  NothingAsked'
    OBVIOUS
  <2>1. EngineInv /\ ControllerInv /\ RulesInv
    BY DEF RulesReasonState, ReasonState
  <2>2. QED  BY <2>1, RulesNextKeeps, NothingAskedNext DEF RulesKeep, Keeps
<1>3. RulesSpec => []NothingAsked
  BY <1>1, <1>2, RulesReasonInvariant, PTL DEF RulesSpec
<1>4. QED
  BY <1>3, RulesReasonInvariant, RulesImplementEngine, RegistryInvariant, PTL DEF Grounds

-----------------------------------------------------------------------------
(* Whose a target is.                                                        *)

LEMMA TrustedParts ==
    ASSUME Trusted
    PROVE  /\ RulesAlone /\ Uncontested /\ Volatile = {}
           /\ \A r, s \in RuleName : r = s
           /\ \A a, b \in Kind : a = b
           /\ \A m \in Manifest : ~m.policy.replicate /\ m.from = NoID
           /\ \A m \in Manifest, source \in ID : ~ARuleAsks(Admissible, source, m.key.id)
           /\ Budget["delete"] = 0
BY DEF Trusted, RulesAlone

LEMMA AskedByRule ==
    ASSUME Trusted, Grounds, NEW source \in ID, NEW id, Reason(ruleSpecs, source, id)
    PROVE  ARuleAsks(Admissible, source, id)
<1>1. ARuleAsks(ruleSpecs, source, id)
  BY TrustedParts, GroundParts, RuleIsTheReason
<1>2. QED  BY <1>1, GroundParts DEF ARuleAsks

LEMMA OneAsks ==
    ASSUME Trusted, NEW a \in ID, NEW b \in ID, NEW id \in ID,
           ARuleAsks(Admissible, a, id), ARuleAsks(Admissible, b, id)
    PROVE  a = b
BY TrustedParts DEF Uncontested, Claims

(* Whatever lies at a target is a copy that was written, and of its source.    *)
LEMMA AtTarget ==
    ASSUME NEW lost, Trusted, Grounds, LogKnown, NEW source \in ID, NEW i \in 1..Len(log),
           ARuleAsks(Admissible, source, log[i].key.id)
    PROVE  log[i].from = source /\ Written(lost, source, log[i].key)
<1>1. log[i] \in Entry /\ log[i].key \in Key /\ log[i].key.id \in ID
  BY GroundParts, Parts, EntryFields, KeyFields
<1>2. log[i].from # NoID
  BY TrustedParts DEF LogKnown
<1>3. log[i].from \in ID
  BY <1>1, <1>2, EntryFields
<1>4. ARuleAsks(Admissible, log[i].from, log[i].key.id)
  BY <1>2, <1>3, GroundParts, AskedByRule DEF LogReasoned
<1>5. log[i].from = source
  BY <1>1, <1>3, <1>4, OneAsks
<1>6. QED  BY <1>2, <1>5 DEF LogKnown, Written

(* So is what is registered for it.                                          *)
LEMMA RegisteredAtTarget ==
    ASSUME Trusted, Grounds, NEW source \in ID, NEW id \in ID, ARuleAsks(Admissible, source, id),
           Registered(id)
    PROVE  store[id] \in Ptr /\ heap[store[id]].id = id /\ heap[store[id]].source = source
<1>1. store[id] \in Ptr /\ heap[store[id]].id = id
  BY GroundParts, Parts DEF Registered, RegistrySound
<1>2. /\ heap[store[id]].source \in ID /\ Reason(ruleSpecs, heap[store[id]].source, id)
  BY <1>1, GroundParts, ResourcesAssumption DEF RegistrySound, HeapReasoned
<1>3. QED  BY <1>1, <1>2, AskedByRule, OneAsks

LEMMA WrittenStays ==
    ASSUME NEW lost, EngineInv, EngineInv', Advances, NEW source, NEW c, Written(lost, source, c)
    PROVE  Written(lost, source, c)'
BY RevisionStays DEF Written

-----------------------------------------------------------------------------
(* The log.                                                                  *)

(* What may be committed where nothing goes away.                            *)
Kept(o, e) == e.key = o.key /\ e.from = o.from /\ e.auto = o.auto

Applied(e) == \E m \in Manifest : e.key = m.key /\ e.from = m.from

CopyBy(w, e) ==
    /\ job[w].pc = "write" /\ e.key = MirrorKey(w) /\ e.by = "operator"
    /\ e.from = SourceID(w) /\ e.auto = heap[job[w].cur].auto

LEMMA CalmWrite ==
    ASSUME EngineInv, NEW w \in Worker, WriteMirror(w)
    PROVE  \E e \in Entry : Commit(e) /\ e.live /\ CopyBy(w, e)
<1> DEFINE f == MirrorEntry(MirrorKey(w), log[job[w].dat].data, SourceID(w),
                            job[w].ver, heap[job[w].cur].auto)
<1>1. Commit(f) /\ job[w].pc = "write"
  BY DEF WriteMirror
<1>2. f.live /\ CopyBy(w, f)
  BY <1>1 DEF MirrorEntry, CopyBy
<1>3. /\ MirrorKey(w) \in Key /\ SourceID(w) \in ID /\ job[w].ver \in Nat
      /\ log[job[w].dat].data \in Nat /\ heap[job[w].cur].auto \in BOOLEAN
  BY <1>1, InHand, SourceFacts, Parts, EntryFields DEF PayloadSound, Mirror
<1>4. f \in Entry
  BY <1>3, MirrorEntryType
<1> HIDE DEF f
<1>5. QED  BY <1>1, <1>2, <1>4

LEMMA CalmUser ==
    ASSUME EngineInv, Calm, UserStep
    PROVE  \/ UNCHANGED log
           \/ \E e \in Entry : /\ Commit(e) /\ e.live
                               /\ Applied(e) \/ \E i \in 1..Len(log) : Kept(log[i], e)
<1> DEFINE Goal == \E e \in Entry : /\ Commit(e) /\ e.live
                                    /\ Applied(e) \/ \E i \in 1..Len(log) : Kept(log[i], e)
<1>1. ASSUME NEW m \in Manifest, Apply(m) PROVE Goal
  <2> DEFINE e == [key |-> m.key, live |-> TRUE, by |-> "user", data |-> Len(log) + 1,
                   policy |-> m.policy, helm |-> m.helm, from |-> m.from, ver |-> 0,
                   auto |-> FALSE]
  <2>1. e \in Entry /\ e.live /\ Applied(e)
    BY Parts, ApplyEntry DEF Applied
  <2>2. Commit(e)
    BY <1>1 DEF Apply
  <2> HIDE DEF e
  <2>3. QED  BY <2>1, <2>2
<1>2. ASSUME NEW k \in Key, EditData(k) PROVE Goal
  <2> DEFINE e == [log[head[k]] EXCEPT !.by = "user", !.data = Len(log) + 1]
  <2>1. Live(head[k]) /\ Commit(e)
    BY <1>2 DEF EditData
  <2>2. e \in Entry /\ log[head[k]] \in Entry
    BY <2>1, Parts, EditEntry
  <2>3. head[k] \in 1..Len(log) /\ e.live /\ Kept(log[head[k]], e)
    BY <2>1, <2>2, Parts DEF Entry, Kept, Live
  <2> HIDE DEF e
  <2>4. QED  BY <2>1, <2>2, <2>3
<1>3. ASSUME NEW k \in Key PROVE ~Delete(k) /\ ~NamespacePurge(k)
  BY KeyFields DEF Delete, NamespacePurge, Spend, Calm
<1>4. ASSUME NEW n \in Namespace,
             NamespaceTerminate(n) \/ NamespaceRemove(n) \/ NamespaceCreate(n)
      PROVE  UNCHANGED log
  BY <1>4 DEF NamespaceTerminate, NamespaceRemove, NamespaceCreate
<1>5. QED  BY <1>1, <1>2, <1>3, <1>4 DEF UserStep

LEMMA CalmLog ==
    ASSUME EngineInv, Calm, [Next]_vars
    PROVE  \/ UNCHANGED log
           \/ \E e \in Entry : /\ Commit(e) /\ e.live
                               /\ \/ Applied(e) \/ \E i \in 1..Len(log) : Kept(log[i], e)
                                  \/ \E w \in Worker : CopyBy(w, e)
BY CalmUser, CalmWrite, LogSteps

LEMMA BudgetSteps ==
    ASSUME [Next]_vars
    PROVE  UNCHANGED budget \/ \E d \in Disturbance : Spend(d)
<1>1. ASSUME NEW w \in Worker, Work(w)
      PROVE  UNCHANGED budget \/ \E d \in Disturbance : Spend(d)
  BY <1>1 DEF Work, CreateAutoMirrorIfNotExists, CheckForConflicts, CreateAutoMirror,
     CleanupAutoMirrors, ForgetMirror, ListMirrors, ReadSource, Reflect, SetVersion, GetMirror,
     WriteMirror, WriteRejected, WriteFails, clusterVars, Disturbance
<1>2. ASSUME UserStep
      PROVE  UNCHANGED budget \/ \E d \in Disturbance : Spend(d)
  BY <1>2 DEF UserStep, Apply, EditData, Delete, NamespaceTerminate, NamespacePurge,
     NamespaceRemove, NamespaceCreate, Disturbance
<1>3. QED
  BY <1>1, <1>2 DEF Next, Observe, ObserveNamespace, ExecuteReturns, Execute, RegisterMirror,
     UnregisterMirror, Restart, Elsewhere, vars, clusterVars, Disturbance

LEMMA PhaseSteps ==
    ASSUME Trusted, EngineInv, Calm, [Next]_vars
    PROVE  UNCHANGED <<phase, nsSeen>>
<1>1. ASSUME NEW n \in Namespace
      PROVE  ~NamespaceTerminate(n) /\ ~NamespaceRemove(n) /\ ~NamespaceCreate(n)
             /\ ~ObserveNamespace(n)
  BY TrustedParts DEF NamespaceTerminate, NamespaceRemove, NamespaceCreate, ObserveNamespace,
     Calm
<1>2. CASE UserStep
  BY <1>1, <1>2 DEF UserStep, Apply, EditData, Delete, NamespacePurge
<1>3. ASSUME NEW w \in Worker, Work(w)
      PROVE  UNCHANGED <<phase, nsSeen>>
  BY <1>3 DEF Work, CreateAutoMirrorIfNotExists, CheckForConflicts, CreateAutoMirror,
     CleanupAutoMirrors, ForgetMirror, ListMirrors, ReadSource, Reflect, SetVersion, GetMirror,
     WriteMirror, WriteRejected, WriteFails, clusterVars
<1>4. CASE Restart
  BY <1>4 DEF Restart, Calm
<1>5. QED
  BY <1>1, <1>2, <1>3, <1>4 DEF Next, Observe, ExecuteReturns, Execute, RegisterMirror,
     UnregisterMirror, Elsewhere, vars, clusterVars

LEMMA CalmNext ==
    ASSUME Trusted, EngineInv, Calm, [Next]_vars
    PROVE  Calm'
<1>1. UNCHANGED <<phase, nsSeen>>
  BY PhaseSteps
<1>2. budget'["delete"] = 0
  BY BudgetSteps, Parts DEF Spend, Calm, Disturbance
<1>3. \A i \in 1..Len(log') : log'[i].live
  <2>1. CASE UNCHANGED log
    BY <2>1 DEF Calm
  <2>2. ASSUME NEW e \in Entry, Commit(e), e.live
        PROVE  \A i \in 1..Len(log') : log'[i].live
    <3>1. /\ Len(log') = Len(log) + 1 /\ \A i \in 1..Len(log) : log'[i] = log[i]
          /\ log'[Len(log) + 1] = e /\ Len(log) \in Nat
      BY <2>2, Parts, CommitFacts
    <3>2. QED  BY <2>2, <3>1 DEF Calm
  <2>3. QED  BY <2>1, <2>2, CalmLog
<1>4. QED  BY <1>1, <1>2, <1>3 DEF Calm

LEMMA LogKnownNext ==
    ASSUME Trusted, EngineInv, EngineInv', Advances, Calm, LogKnown, [Next]_vars
    PROVE  LogKnown'
<1>1. ASSUME NEW i \in 1..Len(log)
      PROVE  /\ log'[i] = log[i]
             /\ IF log[i].from = NoID THEN \E m \in Manifest : m.key = log[i].key
                                      ELSE Written({}, log[i].from, log[i].key)'
  <2>1. log'[i] = log[i]
    BY RevisionStays
  <2>2. CASE log[i].from # NoID
    <3>1. Written({}, log[i].from, log[i].key)
      BY <2>2 DEF LogKnown
    <3>2. QED  BY <2>1, <2>2, <3>1, WrittenStays
  <2>3. QED  BY <2>1, <2>2 DEF LogKnown
<1>2. CASE UNCHANGED log
  BY <1>1, <1>2 DEF LogKnown
<1>3. ASSUME NEW e \in Entry, Commit(e),
             IF e.from = NoID THEN \E m \in Manifest : m.key = e.key
                              ELSE Written({}, e.from, e.key)'
      PROVE  LogKnown'
  <2>1. /\ Len(log') = Len(log) + 1 /\ \A i \in 1..Len(log) : log'[i] = log[i]
        /\ log'[Len(log) + 1] = e /\ Len(log) \in Nat
    BY <1>3, Parts, CommitFacts
  <2>2. \A i \in 1..Len(log') : i = Len(log) + 1 \/ i \in 1..Len(log)
    BY <2>1
  <2>3. QED  BY <1>1, <1>3, <2>1, <2>2 DEF LogKnown
<1>4. ASSUME NEW e \in Entry, Commit(e), Applied(e)
      PROVE  LogKnown'
  BY <1>3, <1>4, TrustedParts DEF Applied
<1>5. ASSUME NEW e \in Entry, Commit(e), NEW i \in 1..Len(log), Kept(log[i], e)
      PROVE  LogKnown'
  BY <1>1, <1>3, <1>5 DEF Kept
<1>6. ASSUME NEW e \in Entry, Commit(e), NEW w \in Worker, CopyBy(w, e)
      PROVE  LogKnown'
  <2>1. e.from \in ID /\ e.from # NoID
    BY <1>6, SourceFacts, ResourcesAssumption DEF CopyBy
  <2>2. Written({}, e.from, e.key)'
    <3>1. log'[Len(log) + 1] = e /\ Len(log) + 1 \in 1..Len(log')
      BY <1>6, Parts, CommitFacts
    <3>2. QED  BY <1>6, <3>1 DEF Written, CopyBy
  <2>3. QED  BY <1>3, <1>6, <2>1, <2>2
<1>7. QED  BY <1>2, <1>4, <1>5, <1>6, CalmLog
-----------------------------------------------------------------------------
(* The other controllers.                                                    *)

LEMMA IdleParts ==
    ASSUME OthersIdle
    PROVE  /\ nsDrop = {} /\ \A w \in Worker \ RuleName : job[w].pc = "idle"
           /\ \A w \in Request : /\ Harmless(stage[w]) /\ job[w].pc = "idle"
                                 /\ w \in Worker \ RuleName
<1>1. \A w \in Request : w \in Worker \ RuleName
  BY RequestAssumption, RuleAssumption
<1>2. nsDrop = {} /\ \A w \in Worker \ RuleName : job[w].pc = "idle"
  BY DEF OthersIdle
<1>3. \A w \in Request : Harmless(stage[w])
  BY DEF OthersIdle
<1>4. QED  BY <1>1, <1>2, <1>3

LEMMA IdleMakesNoCalls ==
    ASSUME NEW w, job[w].pc = "idle"
    PROVE  ~Work(w) /\ ~ExecuteReturns(w)
BY DEF Work, ExecuteReturns, CreateAutoMirrorIfNotExists, CheckForConflicts, CreateAutoMirror,
   CleanupAutoMirrors, ForgetMirror, ListMirrors, ReadSource, Reflect, SetVersion, GetMirror,
   WriteMirror, WriteRejected, WriteFails

(* Nothing is a source of its own.                                           *)
LEMMA NoSources ==
    ASSUME Grounds, NEW id \in ID
    PROVE  /\ ~IsSource(CachedObject(id))
           /\ Live(Cached("Secret", id)) => ~log[Cached("Secret", id)].policy.replicate
BY GroundParts, CachedID DEF NothingAsked, IsSource

LEMMA HarmlessAt ==
    ASSUME NEW s \in Stage, NEW where \in {"fetch", "miss", "adopt"},
           where = "adopt" => s.auto
    PROVE  Harmless([s EXCEPT !.at = where])
BY DEF Stage, Harmless

LEMMA NoStageHarmless == Harmless(NoStage)
BY DEF NoStage, Harmless

(* A Reconcile that moves on, while the others stay.                         *)
LEMMA StagesHarmless ==
    ASSUME ControllerInv, OthersIdle, NEW w \in Request, NEW s, Harmless(s),
           stage' = [stage EXCEPT ![w] = s], UNCHANGED <<job, nsDrop>>
    PROVE  OthersIdle'
<1>1. \A u \in Request : Harmless(stage'[u])
  BY IdleParts, ControllerParts
<1>2. QED  BY <1>1, IdleParts DEF OthersIdle

LEMMA StagesUntouched ==
    ASSUME OthersIdle, UNCHANGED stage, nsDrop' = {},
           \A w \in Worker \ RuleName : job'[w] = job[w]
    PROVE  OthersIdle'
BY DEF OthersIdle

(* The steps that are left to a Reconcile.                                   *)
LEMMA ReconcileIdle ==
    ASSUME Grounds, OthersIdle, NEW w \in Request, ReconcileStep(w)
    PROVE  \/ SourceStart(w) \/ SourceFetch(w) \/ SourceMiss(w) \/ MirrorStart(w)
           \/ MirrorFetch(w) \/ MirrorFetchSource(w) \/ MirrorAdopt(w)
           \/ CertificateStart(w) \/ CertificateFetch(w) \/ IngressFetch(w)
<1>1. Harmless(stage[w]) /\ ~Work(w)
  BY IdleParts, IdleMakesNoCalls
<1>2. /\ ~SourceHit(w) /\ ~SourceReturn(w) /\ ~MirrorOrphaned(w) /\ ~MirrorRegister(w)
      /\ ~MirrorCount(w) /\ ~MirrorLoop(w) /\ ~MirrorReturn(w) /\ ~CertificateExecute(w)
  BY <1>1 DEF Harmless, SourceHit, SourceReturn, MirrorOrphaned, MirrorRegister, MirrorCount,
     MirrorLoop, MirrorReturn, CertificateExecute
<1>3. QED  BY <1>1, <1>2 DEF ReconcileStep

LEMMA ReconcileHarmless ==
    ASSUME Trusted, Grounds, OthersIdle, AllAutomatic, NEW w \in Request, ReconcileStep(w)
    PROVE  OthersIdle' /\ (UNCHANGED <<clusterVars, engineVars>> \/ MirrorAdopt(w))
<1>1. /\ stage[w] \in Stage /\ Harmless(stage[w]) /\ w.id \in ID /\ ControllerInv
      /\ StageSound(stage[w])
  BY GroundParts, ControllerParts, IdleParts, WorkerFields
<1>2. CASE SourceStart(w) \/ MirrorStart(w) \/ CertificateStart(w) \/ SourceMiss(w)
  <2>1. /\ UNCHANGED <<clusterVars, engineVars, nsDrop>>
        /\ \/ stage' = stage
           \/ stage' = [stage EXCEPT ![w] = [stage[w] EXCEPT !.at = "fetch"]]
           \/ stage' = [stage EXCEPT ![w] = NoStage]
    BY <1>2 DEF SourceStart, MirrorStart, CertificateStart, SourceMiss, At, Finish, vars
  <2>2. Harmless([stage[w] EXCEPT !.at = "fetch"])
    BY <1>1, HarmlessAt
  <2>3. UNCHANGED job
    BY <2>1 DEF engineVars
  <2>4. CASE stage' = stage
    BY <2>1, <2>3, <2>4, StagesUntouched, IdleParts
  <2>5. QED  BY <1>1, <2>1, <2>2, <2>3, <2>4, StagesHarmless, NoStageHarmless
<1>3. CASE SourceFetch(w)
  <2>1. /\ UNCHANGED <<clusterVars, engineVars, nsDrop>>
        /\ stage' = [stage EXCEPT ![w] = [stage[w] EXCEPT !.at = "miss"]]
    BY <1>1, <1>3, NoSources DEF SourceFetch, vars
  <2>2. Harmless([stage[w] EXCEPT !.at = "miss"])
    BY <1>1, HarmlessAt
  <2>3. UNCHANGED job
    BY <2>1 DEF engineVars
  <2>4. QED  BY <1>1, <2>1, <2>2, <2>3, StagesHarmless
<1>4. CASE MirrorFetch(w)
  <2> DEFINE r == CachedObject(w.id)
             s == [stage[w] EXCEPT !.at = "source", !.from = log[r].from, !.auto = log[r].auto]
  <2>1. /\ UNCHANGED <<clusterVars, engineVars, nsDrop>>
        /\ \/ Live(r) /\ log[r].from # NoID /\ stage' = [stage EXCEPT ![w] = s]
           \/ stage' = [stage EXCEPT ![w] = NoStage]
    BY <1>4 DEF MirrorFetch, HasReflectsAnnotation, Finish, vars
  <2>2. Live(r) => r \in 1..Len(log)
    BY <1>1, GroundParts, CachedID
  <2>3. s.at = "source" /\ s.auto = log[r].auto
    BY <1>1 DEF Stage
  <2> HIDE DEF r, s
  <2>4. Live(r) /\ log[r].from # NoID => Harmless(s)
    BY <2>2, <2>3 DEF AllAutomatic, Harmless
  <2>5. UNCHANGED job
    BY <2>1 DEF engineVars
  <2>6. QED  BY <1>1, <2>1, <2>4, <2>5, StagesHarmless, NoStageHarmless
<1>5. CASE MirrorFetchSource(w)
  <2>1. stage[w].from \in ID /\ stage[w].auto
    BY <1>1, <1>5 DEF MirrorFetchSource, StageSound, Harmless
  <2>2. /\ UNCHANGED <<clusterVars, engineVars, nsDrop>>
        /\ \/ stage' = [stage EXCEPT ![w] = [stage[w] EXCEPT !.at = "adopt"]]
           \/ stage' = [stage EXCEPT ![w] = NoStage]
    BY <1>5, <2>1, NoSources DEF MirrorFetchSource, At, Finish, vars
  <2>3. Harmless([stage[w] EXCEPT !.at = "adopt"])
    BY <1>1, <2>1, HarmlessAt
  <2>4. UNCHANGED job
    BY <2>2 DEF engineVars
  <2>5. QED  BY <1>1, <2>2, <2>3, <2>4, StagesHarmless, NoStageHarmless
<1>6. CASE MirrorAdopt(w)
  <2>1. stage' = [stage EXCEPT ![w] = NoStage] /\ UNCHANGED <<job, nsDrop>>
    BY <1>6 DEF MirrorAdopt, RegisterMirror, Finish
  <2>2. QED  BY <1>1, <1>6, <2>1, StagesHarmless, NoStageHarmless
<1>7. CASE CertificateFetch(w) \/ IngressFetch(w)
  <2>1. /\ UNCHANGED <<clusterVars, engineVars, nsDrop>>
        /\ stage' = [stage EXCEPT ![w] = NoStage]
    BY <1>1, <1>7, NoSources, TrustedParts DEF CertificateFetch, IngressFetch, Replicates, Finish,
       vars, RulesAlone
  <2>2. UNCHANGED job
    BY <2>1 DEF engineVars
  <2>3. QED  BY <1>1, <2>1, <2>2, StagesHarmless, NoStageHarmless
<1>8. QED  BY <1>2, <1>3, <1>4, <1>5, <1>6, <1>7, ReconcileIdle

LEMMA OthersHarmless ==
    ASSUME Trusted, Grounds, Calm, OthersIdle, AllAutomatic, ControllersStep
    PROVE  /\ OthersIdle'
           /\ UNCHANGED engineVars \/ \E w \in Request : MirrorAdopt(w)
<1>1. CASE UserStep /\ UNCHANGED <<engineVars, controllerVars>>
  BY <1>1, StagesUntouched, IdleParts DEF engineVars, controllerVars
<1>2. CASE \/ \E k \in Key : Informer(k) \/ Resync(k)
           \/ \E id \in ID : NotFoundExpires(id)
           \/ \E w \in Request : CertificateEvent(w)
  <2>1. UNCHANGED <<engineVars, stage, nsDrop>>
    BY <1>2 DEF Informer, Resync, NotFoundExpires, CertificateEvent
  <2>2. QED  BY <2>1, StagesUntouched, IdleParts DEF engineVars
<1>3. ASSUME NEW n \in Namespace, InformerNamespace(n) \/ NamespaceReconcile(n)
      PROVE  OthersIdle' /\ UNCHANGED engineVars
  <2>1. nsDrop' = {} /\ UNCHANGED <<engineVars, stage>>
    BY <1>3, IdleParts DEF InformerNamespace, NamespaceReconcile, Calm, vars
  <2>2. QED  BY <2>1, StagesUntouched, IdleParts DEF engineVars
<1>4. ASSUME NEW id \in ID PROVE ~NamespaceForget(id)
  BY IdleParts DEF NamespaceForget
<1>5. ASSUME NEW w \in Request, ReconcileStep(w)
      PROVE  OthersIdle' /\ (UNCHANGED engineVars \/ MirrorAdopt(w))
  BY <1>5, ReconcileHarmless
<1>6. QED  BY <1>1, <1>2, <1>3, <1>4, <1>5 DEF ControllersStep
-----------------------------------------------------------------------------
(* Every mirror is automatic.                                                *)

(* What a call does to Mirror objects: it makes automatic ones and sets       *)
(* versions.                                                                 *)
LEMMA WorkHeap ==
    ASSUME EngineInv, NEW w \in Worker, Work(w)
    PROVE  \/ UNCHANGED heap \/ SetVersion(w)
           \/ \E id \in ID, source \in ID, kind \in Kind : Register(id, source, kind, TRUE)
<1>1. CASE CreateAutoMirror(w)
  <2>1. job[w].pc = "create" /\ Register(job[w].at, SourceID(w), SourceKey(w).kind, TRUE)
    BY <1>1 DEF CreateAutoMirror
  <2>2. job[w].at \in ID /\ SourceID(w) \in ID /\ SourceKey(w).kind \in Kind
    BY <2>1, Parts, SourceFacts DEF JobSound
  <2>3. QED  BY <2>1, <2>2
<1>2. CASE ~CreateAutoMirror(w)
  BY <1>2 DEF Work, CreateAutoMirrorIfNotExists, CheckForConflicts, CleanupAutoMirrors,
     ForgetMirror, Unregister, ListMirrors, ReadSource, Reflect, GetMirror, WriteMirror,
     WriteRejected, WriteFails
<1>3. QED  BY <1>1, <1>2

LEMMA AdoptHeap ==
    ASSUME Grounds, NEW w \in Request, MirrorAdopt(w)
    PROVE  /\ w.id \in ID /\ stage[w].from \in ID /\ "Secret" \in Kind
           /\ Register(w.id, stage[w].from, "Secret", TRUE) /\ UNCHANGED <<clusterVars, job>>
<1>1. stage[w].at = "adopt" /\ RegisterMirror(w.id, stage[w].from, "Secret", TRUE)
  BY DEF MirrorAdopt
<1>2. StageSound(stage[w]) /\ w.id \in ID
  BY GroundParts, ControllerParts, WorkerFields
<1>3. QED  BY <1>1, <1>2 DEF StageSound, RegisterMirror

LEMMA AutoRegistration ==
    ASSUME EngineInv, NEW id \in ID, NEW source \in ID, NEW kind \in Kind,
           Register(id, source, kind, TRUE)
    PROVE  \E q \in Fresh :
              /\ q \in Ptr /\ store'[id] = q /\ heap'[q].auto = TRUE /\ heap'[q].version = 0
              /\ \A i \in ID : i # id => store'[i] = store[i]
              /\ \A p \in Ptr : p # q => heap'[p] = heap[p]
<1> DEFINE m == [id |-> id, source |-> source, kind |-> kind, version |-> 0, auto |-> TRUE]
<1>1. PICK q \in Fresh : heap' = [heap EXCEPT ![q] = m] /\ store' = [store EXCEPT ![id] = q]
  BY DEF Register
<1>2. m.auto = TRUE /\ m.version = 0
  OBVIOUS
<1> HIDE DEF m
<1>3. q \in Ptr /\ store \in [ID -> Ptr \cup {Nil}] /\ heap \in [Ptr -> Mirror]
  BY Parts DEF Fresh, EngineTypeOK
<1>4. QED  BY <1>1, <1>2, <1>3

LEMMA HeapAutomatic ==
    ASSUME EngineInv, AllAutomatic,
           \/ UNCHANGED heap \/ \E w \in Worker : SetVersion(w)
           \/ \E id \in ID, source \in ID, kind \in Kind : Register(id, source, kind, TRUE)
    PROVE  \A p \in Ptr : heap'[p].id # NoID => heap'[p].auto
<1>1. ASSUME NEW id \in ID, NEW source \in ID, NEW kind \in Kind,
             Register(id, source, kind, TRUE)
      PROVE  \A p \in Ptr : heap'[p].id # NoID => heap'[p].auto
  <2>1. PICK q \in Fresh : /\ q \in Ptr /\ heap'[q].auto = TRUE
                           /\ \A p \in Ptr : p # q => heap'[p] = heap[p]
    BY <1>1, AutoRegistration
  <2>2. QED  BY <2>1 DEF AllAutomatic
<1>2. ASSUME NEW w \in Worker, SetVersion(w)
      PROVE  \A p \in Ptr : heap'[p].id # NoID => heap'[p].auto
  BY <1>2, SetVersionFields DEF AllAutomatic
<1>3. QED  BY <1>1, <1>2 DEF AllAutomatic

LEMMA LogAutomatic ==
    ASSUME Trusted, EngineInv, Calm, AllAutomatic, [Next]_vars
    PROVE  \A i \in 1..Len(log') : log'[i].from # NoID => log'[i].auto
<1>1. CASE UNCHANGED log
  BY <1>1 DEF AllAutomatic
<1>2. ASSUME NEW e \in Entry, Commit(e), e.from # NoID => e.auto
      PROVE  \A i \in 1..Len(log') : log'[i].from # NoID => log'[i].auto
  <2>1. /\ Len(log') = Len(log) + 1 /\ \A i \in 1..Len(log) : log'[i] = log[i]
        /\ log'[Len(log) + 1] = e /\ Len(log) \in Nat
    BY <1>2, Parts, CommitFacts
  <2>2. QED  BY <1>2, <2>1 DEF AllAutomatic
<1>3. ASSUME NEW e \in Entry, Applied(e) PROVE e.from = NoID
  BY <1>3, TrustedParts DEF Applied
<1>4. ASSUME NEW e \in Entry, NEW i \in 1..Len(log), Kept(log[i], e)
      PROVE  e.from # NoID => e.auto
  BY <1>4 DEF Kept, AllAutomatic
<1>5. ASSUME NEW e \in Entry, NEW w \in Worker, CopyBy(w, e) PROVE e.auto
  <2>1. job[w].cur \in Ptr /\ heap[job[w].cur].id # NoID
    BY <1>5, InHand, ResourcesAssumption DEF CopyBy, Allocated
  <2>2. QED  BY <1>5, <2>1 DEF CopyBy, AllAutomatic
<1>6. QED  BY <1>1, <1>2, <1>3, <1>4, <1>5, CalmLog

-----------------------------------------------------------------------------
(* Versions.                                                                 *)

AtWork(r, p) == job[r].cur = p /\ job[r].pc \in {"get", "write"}

(* What is recorded stays backed unless a call lets go of it.                 *)
LEMMA VersionsStay ==
    ASSUME NEW lost, EngineInv, EngineInv', Advances, VersionsKnown(lost),
           \A p \in Ptr : heap'[p].id # NoID /\ heap'[p].version # 0 =>
              /\ heap'[p].id = heap[p].id /\ heap'[p].source = heap[p].source
              /\ heap'[p].kind = heap[p].kind /\ heap'[p].version = heap[p].version,
           \A r \in RuleName : \A p \in Ptr : AtWork(r, p) =>
              \/ AtWork(r, p)'
              \/ Written(lost, heap[p].source, [kind |-> heap[p].kind, id |-> heap[p].id])'
    PROVE  VersionsKnown(lost)'
<1> SUFFICES ASSUME NEW p \in Ptr, heap'[p].id # NoID, heap'[p].version # 0
             PROVE  \/ Written(lost, heap[p].source, [kind |-> heap[p].kind, id |-> heap[p].id])'
                    \/ \E r \in RuleName : AtWork(r, p)'
  BY DEF VersionsKnown, AtWork
<1>1. /\ heap'[p].id = heap[p].id /\ heap'[p].source = heap[p].source
      /\ heap'[p].kind = heap[p].kind /\ heap'[p].version = heap[p].version
  OBVIOUS
<1>2. CASE Written(lost, heap[p].source, [kind |-> heap[p].kind, id |-> heap[p].id])
  BY <1>1, <1>2, WrittenStays
<1>3. CASE \E r \in RuleName : AtWork(r, p)
  BY <1>3
<1>4. QED  BY <1>1, <1>2, <1>3 DEF VersionsKnown, AtWork

(* A new object has no version.                                              *)
LEMMA RegisterVersions ==
    ASSUME EngineInv, NEW id \in ID, NEW source \in ID, NEW kind \in Kind,
           Register(id, source, kind, TRUE)
    PROVE  /\ \A p \in Ptr : heap'[p].version # 0 => heap'[p] = heap[p]
           /\ \A i \in ID : Registered(i) => Registered(i)'
           /\ Registered(id)'
           /\ \A u \in Worker : \A p \in Ptr : Holds(job[u], p) => heap'[p] = heap[p]
<1>1. PICK q \in Fresh :
         /\ q \in Ptr /\ store'[id] = q /\ heap'[q].version = 0
         /\ \A i \in ID : i # id => store'[i] = store[i]
         /\ \A p \in Ptr : p # q => heap'[p] = heap[p]
  BY AutoRegistration
<1>2. q # Nil
  BY <1>1, EngineAssumption DEF Nil
<1>3. \A u \in Worker : \A p \in Ptr : Holds(job[u], p) => p # q
  BY DEF Fresh, Holds
<1>4. QED  BY <1>1, <1>2, <1>3 DEF Registered
-----------------------------------------------------------------------------
(* The calls of a rule.                                                      *)

(* The invariant, for given lost keys.                                       *)
Standing(lost) == Trusted /\ ReportsBut(lost)

LEMMA ReportParts ==
    ASSUME NEW lost, Standing(lost)
    PROVE  /\ Trusted /\ Calm /\ LogKnown /\ OthersIdle /\ AllAutomatic /\ VersionsKnown(lost)
           /\ \A r \in RuleName : /\ CallReports(lost, r) /\ SyncReports(lost, sync[r])
                                  /\ StatusReports(lost, Stored(r))
BY DEF Standing, ReportsBut

LEMMA CallFacts ==
    ASSUME NEW lost, Grounds, Standing(lost), NEW r \in RuleName, job[r].pc # "idle"
    PROVE  /\ r \in Worker /\ job \in [Worker -> Job] /\ job[r] \in Job
           /\ sync[r] \in Sync /\ sync[r].at = "execute"
           /\ job[r].ver \in 1..Len(log) /\ SourceID(r) \in ID /\ SourceKey(r) \in Key
           /\ SourceKey(r) = [kind |-> SourceKey(r).kind, id |-> SourceID(r)]
           /\ job[r].policy = RulePolicy(sync[r].targets)
           /\ sync[r].targets \in SUBSET Namespace
           /\ Covers(sync[r].rule.spec, SourceKey(r))
           /\ job[r].name = TransformTargetName(sync[r].rule.spec, SourceID(r).name)
           /\ \A p \in Ptr : Holds(job[r], p) => heap[p].source = SourceID(r)
<1>1. /\ r \in Worker /\ job \in [Worker -> Job] /\ job[r] \in Job /\ sync[r] \in Sync
      /\ job[r].ver \in 1..Len(log) /\ SourceID(r) \in ID /\ SourceKey(r) \in Key
      /\ \A p \in Ptr : Holds(job[r], p) => heap[p].source = SourceID(r)
  BY RuleIsWorker, GroundParts, RuleParts, CallFields
<1>2. SourceKey(r) = [kind |-> SourceKey(r).kind, id |-> SourceID(r)]
  BY <1>1 DEF SourceID, Key
<1>3. sync[r].targets \in SUBSET Namespace
  BY <1>1 DEF Sync
<1>4. /\ sync[r].at = "execute" /\ job[r].policy = RulePolicy(sync[r].targets)
      /\ Covers(sync[r].rule.spec, SourceKey(r))
      /\ job[r].name = TransformTargetName(sync[r].rule.spec, SourceID(r).name)
  BY ReportParts DEF CallReports
<1>5. QED  BY <1>1, <1>2, <1>3, <1>4

(* The call aims where its rule asks for copies.                             *)
LEMMA AimFacts ==
    ASSUME NEW lost, Grounds, Standing(lost), NEW r \in RuleName, job[r].pc # "idle",
           NEW n \in Aims(sync[r])
    PROVE  /\ n \in Namespace /\ n \in sync[r].targets /\ TargetID(r, n) \in ID
           /\ TargetID(r, n).ns = n
           /\ ARuleAsks(Admissible, SourceID(r), TargetID(r, n))
           /\ Got(lost, r, TargetID(r, n)) \/ Ahead(r, TargetID(r, n))
<1> DEFINE spec == sync[r].rule.spec
           k == SourceKey(r)
<1>1. /\ n \in sync[r].targets /\ n # spec.ns /\ n \in Namespace
  BY CallFacts DEF Aims
<1>2. /\ sync[r] \in Sync /\ SyncSound(sync[r]) /\ Admitted(ruleSpecs, sync[r].rule)
  BY GroundParts, RuleParts, AdmittedParts
<1>3. spec \in Admissible
  BY <1>2, GroundParts, CallFacts DEF Sync, SyncSound, RuleObject, Admitted
<1>4. \E nss \in SUBSET Namespace : n \in TargetNamespaces(spec, nss)
  BY <1>1, <1>2, CallFacts DEF SyncSound
<1>5. Asks(spec, [kind |-> k.kind, id |-> SourceID(r)], n)
  BY <1>4, CallFacts, TargetsAreAsked
<1>6. k.kind \in Kind /\ SourceID(r).ns = spec.ns
  BY CallFacts, KeyFields DEF Covers, SourceID
<1>7. TargetID(r, n) = [ns |-> n, name |-> job[r].name]
  BY DEF TargetID
<1>8. ARuleAsks(Admissible, SourceID(r), TargetID(r, n))
  BY <1>1, <1>3, <1>5, <1>6, <1>7, CallFacts DEF ARuleAsks
<1>9. TargetID(r, n) \in ID
  BY <1>1, GroundParts, RuleIsWorker, SourceFacts
<1>10. Got(lost, r, TargetID(r, n)) \/ Ahead(r, TargetID(r, n))
  BY ReportParts DEF CallReports
<1>11. QED  BY <1>1, <1>7, <1>8, <1>9, <1>10

LEMMA GotStays ==
    ASSUME NEW lost, Grounds, Standing(lost), Grounds', Advances, NEW r \in RuleName,
           job[r].pc # "idle", job'[r].ver = job[r].ver, NEW id, Got(lost, r, id)
    PROVE  Got(lost, r, id)'
<1>1. EngineInv /\ EngineInv' /\ job[r].ver \in 1..Len(log)
  BY GroundParts, CallFacts DEF Grounds, RulesReasonState, ReasonState
<1>2. log'[job'[r].ver] = log[job[r].ver]
  BY <1>1, RevisionStays
<1>3. QED  BY <1>1, <1>2, WrittenStays DEF Got, SourceID, SourceKey

(* A step of the call of rule r.                                             *)
Going(lost, r) ==
    /\ Grounds /\ Standing(lost) /\ Grounds' /\ Advances
    /\ job[r].pc # "idle" /\ UNCHANGED sync

LEMMA GoingParts ==
    ASSUME NEW lost, NEW r \in RuleName, Going(lost, r)
    PROVE  /\ Grounds /\ Standing(lost) /\ Grounds' /\ Advances /\ UNCHANGED sync
           /\ EngineInv /\ EngineInv' /\ Trusted /\ Calm /\ LogKnown /\ VersionsKnown(lost)
           /\ r \in Worker /\ job \in [Worker -> Job] /\ job[r] \in Job /\ JobSound(job[r])
           /\ job[r].ver \in 1..Len(log) /\ SourceID(r) \in ID /\ SourceKey(r) \in Key
           /\ job[r].policy = RulePolicy(sync[r].targets) /\ CallReports(lost, r)
           /\ sync[r].targets \in SUBSET Namespace
<1>1. Grounds /\ Standing(lost) /\ Grounds' /\ Advances /\ UNCHANGED sync /\ job[r].pc # "idle"
  BY DEF Going
<1>2. EngineInv /\ EngineInv'
  BY <1>1, GroundParts DEF Grounds, RulesReasonState, ReasonState
<1>3. Trusted /\ Calm /\ LogKnown /\ VersionsKnown(lost) /\ CallReports(lost, r)
  BY <1>1, ReportParts
<1>4. r \in Worker /\ JobSound(job[r])
  BY <1>2, RuleIsWorker, Parts
<1>5. QED  BY <1>1, <1>2, <1>3, <1>4, CallFacts

(* The IDs that it aims at.                                                  *)
IsTarget(r, id) ==
    /\ id \in ID /\ id = TargetID(r, id.ns) /\ id.ns \in sync[r].targets
    /\ ARuleAsks(Admissible, SourceID(r), id)

(* No target of the call gets lost.                                          *)
Forward(lost, r) ==
    \A id \in ID : IsTarget(r, id) /\ Ahead(r, id) => Got(lost, r, id)' \/ Ahead(r, id)'

LEMMA CallGoesOn ==
    ASSUME NEW lost, NEW r \in RuleName, Going(lost, r), NEW x,
           job' = [job EXCEPT ![r] = x], x.pc # "idle", x.ver = job[r].ver,
           x.policy = job[r].policy, x.name = job[r].name, Forward(lost, r),
           x.pc = "forget" => \A id \in x.ids : id.ns \notin sync[r].targets,
           x.pc = "write" /\ x.got # 0 =>
              x.got \in 1..Len(log') /\ log'[x.got].key = MirrorKey(r)'
    PROVE  CallReports(lost, r)'
<1>1. /\ job'[r] = x /\ job[r].ver \in 1..Len(log) /\ job[r].pc # "idle"
      /\ Grounds /\ Standing(lost) /\ Grounds' /\ Advances /\ EngineInv /\ EngineInv'
  BY GoingParts DEF Going
<1>2. SourceKey(r)' = SourceKey(r) /\ SourceID(r)' = SourceID(r)
  BY <1>1, RevisionStays DEF SourceKey, SourceID
<1>3. \A n : TargetID(r, n)' = TargetID(r, n)
  BY <1>1 DEF TargetID
<1>4. ASSUME NEW n \in Aims(sync[r])
      PROVE  (Got(lost, r, TargetID(r, n)) \/ Ahead(r, TargetID(r, n)))'
  <2>1. PICK id : id = TargetID(r, n)
    OBVIOUS
  <2>2. IsTarget(r, id) /\ (Got(lost, r, id) \/ Ahead(r, id))
    BY <1>1, <2>1, AimFacts DEF IsTarget
  <2>3. TargetID(r, n)' = id
    BY <1>3, <2>1
  <2>4. Got(lost, r, id) => Got(lost, r, id)'
    BY <1>1, GotStays
  <2>5. Got(lost, r, id)' \/ Ahead(r, id)'
    BY <2>2, <2>4 DEF Forward, IsTarget
  <2>6. QED  BY <2>3, <2>5 
<1>5. /\ sync'[r].at = "execute" /\ x.policy = RulePolicy(sync'[r].targets)
      /\ Covers(sync'[r].rule.spec, SourceKey(r)')
      /\ x.name = TransformTargetName(sync'[r].rule.spec, SourceID(r)'.name)
      /\ sync'[r] = sync[r]
  BY <1>1, <1>2, CallFacts DEF Going
<1>6. QED  BY <1>1, <1>4, <1>5 DEF CallReports
(* A step that leaves Mirror objects alone and has none at work.               *)
LEMMA VersionsSame ==
    ASSUME NEW lost, NEW r \in RuleName, Going(lost, r), NEW x, job' = [job EXCEPT ![r] = x],
           job[r].pc \notin {"get", "write"}, UNCHANGED heap
    PROVE  VersionsKnown(lost)'
<1>1. \A s \in RuleName : \A p \in Ptr : AtWork(s, p) => AtWork(s, p)'
  BY GoingParts, RuleIsWorker DEF AtWork
<1>2. EngineInv /\ EngineInv' /\ Advances /\ VersionsKnown(lost)
  BY GoingParts
<1>3. QED  BY <1>1, <1>2, VersionsStay

-----------------------------------------------------------------------------
(* Registering.                                                              *)

LEMMA AutoGoesOn ==
    ASSUME NEW lost, NEW r \in RuleName, Going(lost, r), NEW n \in Namespace,
           CreateAutoMirrorIfNotExists(r, n)
    PROVE  CallReports(lost, r)' /\ VersionsKnown(lost)'
<1> DEFINE nss == job[r].nss \ {n}
           x == [job[r] EXCEPT !.nss = nss, !.pc = AfterNamespaces(nss)]
           y == [job[r] EXCEPT !.nss = nss, !.pc = "conflict", !.at = TargetID(r, n)]
<1>1. /\ job[r].pc = "auto" /\ UNCHANGED <<store, heap>>
      /\ job' = [job EXCEPT ![r] = IF Registered(TargetID(r, n)) THEN x ELSE y]
  BY DEF CreateAutoMirrorIfNotExists
<1>2. job[r] \in Job /\ job \in [Worker -> Job] /\ r \in Worker
  BY GoingParts
<1>3. /\ x.pc = AfterNamespaces(nss) /\ x.nss = nss /\ x.ver = job[r].ver
      /\ x.policy = job[r].policy /\ x.name = job[r].name
  BY <1>2 DEF Job
<1>4. /\ y.pc = "conflict" /\ y.nss = nss /\ y.ver = job[r].ver /\ y.at = TargetID(r, n)
      /\ y.policy = job[r].policy /\ y.name = job[r].name
  BY <1>2 DEF Job
<1>5. nss = job[r].nss \ {n}
  OBVIOUS
<1> HIDE DEF x, y, nss
<1>6. CASE Registered(TargetID(r, n))
  <2>1. job' = [job EXCEPT ![r] = x] /\ job'[r] = x
    BY <1>1, <1>2, <1>6
  <2>2. x.pc \in {"auto", "cleanup"} /\ (nss # {} => x.pc = "auto")
    BY <1>3 DEF AfterNamespaces
  <2>3. Forward(lost, r)
    <3> SUFFICES ASSUME NEW id \in ID, IsTarget(r, id), Ahead(r, id)
                 PROVE  Ahead(r, id)'
      BY DEF Forward
    <3>1. id.ns \in job[r].nss \/ Registered(id)
      BY <1>1 DEF Ahead
    <3>2. CASE Registered(id)
      BY <1>1, <2>1, <2>2, <3>2 DEF Ahead, Registered
    <3>3. CASE id.ns \in nss
      BY <1>3, <2>1, <2>2, <3>3 DEF Ahead
    <3>4. id.ns = n => id = TargetID(r, n)
      BY DEF IsTarget
    <3>5. QED  BY <1>5, <1>6, <3>1, <3>2, <3>3, <3>4
  <2>4. CallReports(lost, r)'
    BY <1>3, <2>1, <2>2, <2>3, CallGoesOn
  <2>5. QED  BY <1>1, <2>1, <2>4, VersionsSame
<1>7. CASE ~Registered(TargetID(r, n))
  <2>1. job' = [job EXCEPT ![r] = y] /\ job'[r] = y
    BY <1>1, <1>2, <1>7
  <2>2. Forward(lost, r)
    <3> SUFFICES ASSUME NEW id \in ID, IsTarget(r, id), Ahead(r, id)
                 PROVE  Ahead(r, id)'
      BY DEF Forward
    <3>1. id.ns \in job[r].nss \/ Registered(id)
      BY <1>1 DEF Ahead
    <3>2. CASE Registered(id)
      BY <1>1, <1>4, <2>1, <3>2 DEF Ahead, Registered
    <3>3. CASE id.ns \in nss
      BY <1>4, <2>1, <3>3 DEF Ahead
    <3>4. CASE id.ns = n
      <4>1. id = y.at
        BY <1>4, <3>4 DEF IsTarget
      <4>2. QED  BY <1>4, <2>1, <4>1 DEF Ahead
    <3>5. QED  BY <1>5, <3>1, <3>2, <3>3, <3>4
  <2>3. CallReports(lost, r)'
    BY <1>4, <2>1, <2>2, CallGoesOn
  <2>4. QED  BY <1>1, <2>1, <2>3, VersionsSame
<1>8. QED  BY <1>6, <1>7

(* Nothing is in the way at a target: what lies there are copies.              *)
LEMMA NothingInTheWay ==
    ASSUME NEW lost, NEW r \in RuleName, Going(lost, r), job[r].pc = "conflict"
    PROVE  ~InTheWay(seen[[kind |-> SourceKey(r).kind, id |-> job[r].at]])
<1> DEFINE k == [kind |-> SourceKey(r).kind, id |-> job[r].at]
<1>1. job[r].at \in ID /\ k \in Key /\ k.id = job[r].at
  BY GoingParts, KeyFields DEF JobSound, Key
<1>2. Reason(ruleSpecs, SourceID(r), job[r].at)
  BY GoingParts, GroundParts DEF JobReasoned, SourceID, SourceKey
<1>3. ARuleAsks(Admissible, SourceID(r), job[r].at)
  BY <1>1, <1>2, GoingParts, AskedByRule
<1>4. ASSUME seen[k] # 0 PROVE log[seen[k]].from \in ID
  <2>1. seen[k] \in 1..Len(log) /\ log[seen[k]].key = k
    BY <1>1, <1>4, GoingParts, Parts DEF CacheSound
  <2>2. ARuleAsks(Admissible, SourceID(r), log[seen[k]].key.id)
    BY <1>1, <1>3, <2>1
  <2>3. QED  BY <2>1, <2>2, GoingParts, AtTarget
<1> HIDE DEF k
<1>5. ~InTheWay(seen[k])
  BY <1>4, ResourcesAssumption DEF InTheWay, Live
<1>6. QED  BY <1>5 DEF k
LEMMA ConflictGoesOn ==
    ASSUME NEW lost, NEW r \in RuleName, Going(lost, r), CheckForConflicts(r)
    PROVE  CallReports(lost, r)' /\ VersionsKnown(lost)'
<1> DEFINE x == [job[r] EXCEPT !.pc = "create"]
<1>1. job[r].pc = "conflict" /\ UNCHANGED <<store, heap>> /\ job' = [job EXCEPT ![r] = x]
  <2>1. job[r].pc = "conflict"
    BY DEF CheckForConflicts
  <2>2. QED  BY <2>1, NothingInTheWay DEF CheckForConflicts, Go
<1>2. job[r] \in Job /\ job \in [Worker -> Job] /\ r \in Worker
  BY GoingParts
<1>3. /\ x.pc = "create" /\ x.nss = job[r].nss /\ x.ver = job[r].ver /\ x.at = job[r].at
      /\ x.policy = job[r].policy /\ x.name = job[r].name
  BY <1>2 DEF Job
<1> HIDE DEF x
<1>4. job'[r] = x
  BY <1>1, <1>2
<1>5. Forward(lost, r)
  BY <1>1, <1>3, <1>4 DEF Forward, Ahead, Registered
<1>6. CallReports(lost, r)'
  BY <1>1, <1>3, <1>5, CallGoesOn
<1>7. QED  BY <1>1, <1>6, VersionsSame

LEMMA CreateGoesOn ==
    ASSUME NEW lost, NEW r \in RuleName, Going(lost, r), CreateAutoMirror(r)
    PROVE  CallReports(lost, r)' /\ VersionsKnown(lost)'
<1> DEFINE nss == job[r].nss
           x == [job[r] EXCEPT !.pc = AfterNamespaces(nss), !.at = NoID]
<1>1. /\ job[r].pc = "create" /\ job' = [job EXCEPT ![r] = x]
      /\ Register(job[r].at, SourceID(r), SourceKey(r).kind, TRUE)
  BY DEF CreateAutoMirror, NextNamespace
<1>2. /\ job[r] \in Job /\ job \in [Worker -> Job] /\ r \in Worker /\ EngineInv /\ EngineInv'
      /\ Advances /\ VersionsKnown(lost)
  BY GoingParts
<1>3. /\ x.pc = AfterNamespaces(nss) /\ x.nss = nss /\ x.ver = job[r].ver
      /\ x.policy = job[r].policy /\ x.name = job[r].name
  BY <1>2 DEF Job
<1> HIDE DEF x
<1>4. job'[r] = x
  BY <1>1, <1>2
<1>5. x.pc \in {"auto", "cleanup"} /\ (nss # {} => x.pc = "auto")
  BY <1>3 DEF AfterNamespaces
<1>6. job[r].at \in ID /\ SourceKey(r).kind \in Kind /\ SourceID(r) \in ID
  BY <1>1, GoingParts, KeyFields DEF JobSound
<1>7. /\ \A p \in Ptr : heap'[p].version # 0 => heap'[p] = heap[p]
      /\ \A i \in ID : Registered(i) => Registered(i)'
      /\ store'[job[r].at] # Nil
  BY <1>1, <1>2, <1>6, RegisterVersions DEF Registered
<1>8. Forward(lost, r)
  <2> SUFFICES ASSUME NEW id \in ID, IsTarget(r, id), Ahead(r, id)
               PROVE  Ahead(r, id)'
    BY DEF Forward
  <2>1. id.ns \in nss \/ id = job[r].at \/ Registered(id)
    BY <1>1 DEF Ahead
  <2>2. CASE id.ns \in nss
    BY <1>3, <1>4, <1>5, <2>2 DEF Ahead
  <2>3. CASE id = job[r].at \/ Registered(id)
    <3>1. Registered(id)'
      BY <1>7, <2>3 DEF Registered
    <3>2. QED  BY <1>4, <1>5, <3>1 DEF Ahead
  <2>4. QED  BY <2>1, <2>2, <2>3
<1>9. CallReports(lost, r)'
  BY <1>1, <1>3, <1>5, <1>8, CallGoesOn
<1>10. \A s \in RuleName : \A p \in Ptr : AtWork(s, p) => AtWork(s, p)'
  BY <1>1, <1>2, RuleIsWorker DEF AtWork
<1>11. VersionsKnown(lost)'
  BY <1>2, <1>7, <1>10, VersionsStay
<1>12. QED  BY <1>9, <1>11

-----------------------------------------------------------------------------
(* Forgetting and listing.                                                   *)

(* A rule gets automatic mirrors into its targets, and only there.             *)
LEMMA RulePushesTo ==
    ASSUME NEW nss \in SUBSET Namespace, NEW n \in Namespace
    PROVE  CanAutoMirrorToNamespace(RulePolicy(nss), n) <=> n \in nss
<1> DEFINE allowed == NewAllowedNamespaces(Listed(nss))
<1>1. (Matches(allowed, n) <=> n \in nss) /\ (IsEmpty(allowed) <=> nss = {})
  BY ListedMatches
<1>2. n \in nss => CanAutoMirrorToNamespace(RulePolicy(nss), n)
  BY <1>1 DEF CanAutoMirrorToNamespace, RulePolicy
<1>3. QED  BY <1>2, RulePushes

LEMMA CleanupGoesOn ==
    ASSUME NEW lost, NEW r \in RuleName, Going(lost, r), CleanupAutoMirrors(r)
    PROVE  CallReports(lost, r)' /\ VersionsKnown(lost)'
<1> DEFINE ids == {id \in GetBySourceID(SourceID(r)) :
                      ~CanAutoMirrorToNamespace(job[r].policy, id.ns)}
           x == [job[r] EXCEPT !.pc = "forget", !.ids = ids]
<1>1. job[r].pc = "cleanup" /\ UNCHANGED <<store, heap>> /\ job' = [job EXCEPT ![r] = x]
  BY DEF CleanupAutoMirrors
<1>2. job[r] \in Job /\ job \in [Worker -> Job] /\ r \in Worker
  BY GoingParts
<1>3. /\ x.pc = "forget" /\ x.ids = ids /\ x.ver = job[r].ver
      /\ x.policy = job[r].policy /\ x.name = job[r].name
  BY <1>2 DEF Job
<1>4. \A id \in ids : id.ns \notin sync[r].targets
  <2> SUFFICES ASSUME NEW id \in ids, id.ns \in sync[r].targets PROVE FALSE
    OBVIOUS
  <2>1. id \in ID /\ ~CanAutoMirrorToNamespace(job[r].policy, id.ns)
    BY DEF GetBySourceID
  <2>2. QED  BY <2>1, GoingParts, RulePushesTo
<1> HIDE DEF x, ids
<1>5. job'[r] = x
  BY <1>1, <1>2
<1>6. Forward(lost, r)
  BY <1>1, <1>3, <1>5 DEF Forward, Ahead, Registered
<1>7. CallReports(lost, r)'
  BY <1>1, <1>3, <1>4, <1>6, CallGoesOn
<1>8. QED  BY <1>1, <1>7, VersionsSame

LEMMA ForgetGoesOn ==
    ASSUME NEW lost, NEW r \in RuleName, Going(lost, r), NEW gone \in ID, ForgetMirror(r, gone)
    PROVE  CallReports(lost, r)' /\ VersionsKnown(lost)'
<1> DEFINE x == [job[r] EXCEPT !.ids = @ \ {gone}]
<1>1. /\ job[r].pc = "forget" /\ gone \in job[r].ids /\ UNCHANGED heap
      /\ store' = [store EXCEPT ![gone] = Nil] /\ job' = [job EXCEPT ![r] = x]
  BY DEF ForgetMirror, Unregister
<1>2. /\ job[r] \in Job /\ job \in [Worker -> Job] /\ r \in Worker
      /\ store \in [ID -> Ptr \cup {Nil}]
  BY GoingParts, Parts
<1>3. /\ x.pc = "forget" /\ x.ids = job[r].ids \ {gone} /\ x.ver = job[r].ver
      /\ x.policy = job[r].policy /\ x.name = job[r].name
  BY <1>1, <1>2 DEF Job
<1> HIDE DEF x
<1>4. \A id \in job[r].ids : id.ns \notin sync[r].targets
  BY <1>1, GoingParts DEF CallReports
<1>5. job'[r] = x
  BY <1>1, <1>2
<1>6. Forward(lost, r)
  <2> SUFFICES ASSUME NEW id \in ID, IsTarget(r, id), Ahead(r, id)
               PROVE  Ahead(r, id)'
    BY DEF Forward
  <2>1. Registered(id) /\ id # gone
    BY <1>1, <1>4 DEF Ahead, IsTarget
  <2>2. Registered(id)'
    BY <1>1, <1>2, <2>1 DEF Registered
  <2>3. QED  BY <1>3, <1>5, <2>2 DEF Ahead
<1>7. CallReports(lost, r)'
  BY <1>1, <1>3, <1>4, <1>6, CallGoesOn
<1>8. QED  BY <1>1, <1>7, VersionsSame

LEMMA ListGoesOn ==
    ASSUME NEW lost, NEW r \in RuleName, Going(lost, r), ListMirrors(r)
    PROVE  CallReports(lost, r)' /\ VersionsKnown(lost)'
<1> DEFINE ptrs == {store[id] : id \in GetBySourceID(SourceID(r))}
           x == [job[r] EXCEPT !.pc = "mirrors", !.ptrs = ptrs]
<1>1. job[r].pc = "forget" /\ UNCHANGED <<store, heap>> /\ job' = [job EXCEPT ![r] = x]
  BY DEF ListMirrors
<1>2. job[r] \in Job /\ job \in [Worker -> Job] /\ r \in Worker
  BY GoingParts
<1>3. /\ x.pc = "mirrors" /\ x.ptrs = ptrs /\ x.ver = job[r].ver
      /\ x.policy = job[r].policy /\ x.name = job[r].name
  BY <1>2 DEF Job
<1>4. ASSUME NEW id \in ID, IsTarget(r, id), Registered(id)
      PROVE  store[id] \in ptrs /\ heap[store[id]].id = id
  <2>1. heap[store[id]].id = id /\ heap[store[id]].source = SourceID(r)
    BY <1>4, GoingParts, RegisteredAtTarget DEF IsTarget
  <2>2. QED  BY <1>4, <2>1 DEF GetBySourceID
<1> HIDE DEF x, ptrs
<1>5. job'[r] = x
  BY <1>1, <1>2
<1>6. Forward(lost, r)
  <2> SUFFICES ASSUME NEW id \in ID, IsTarget(r, id), Ahead(r, id)
               PROVE  Ahead(r, id)'
    BY DEF Forward
  <2>1. Registered(id)
    BY <1>1 DEF Ahead
  <2>2. store[id] \in x.ptrs /\ heap'[store[id]].id = id
    BY <1>1, <1>3, <1>4, <2>1
  <2>3. QED  BY <1>3, <1>5, <2>2 DEF Ahead
<1>7. CallReports(lost, r)'
  BY <1>1, <1>3, <1>6, CallGoesOn
<1>8. QED  BY <1>1, <1>7, VersionsSame
-----------------------------------------------------------------------------
(* Writing.                                                                  *)

(* The mirror in hand is one that a rule asks for, and whatever lies at its    *)
(* key is a copy that was written.                                           *)
LEMMA MirrorInHand ==
    ASSUME NEW lost, NEW r \in RuleName, Going(lost, r),
           job[r].pc \in {"check", "set", "get", "write"}
    PROVE  /\ job[r].cur \in Ptr /\ heap[job[r].cur].id \in ID /\ MirrorKey(r) \in Key
           /\ heap[job[r].cur].source = SourceID(r)
           /\ MirrorKey(r) = [kind |-> SourceKey(r).kind, id |-> heap[job[r].cur].id]
           /\ \A i \in 1..Len(log) : log[i].key = MirrorKey(r) => Got(lost, r, heap[job[r].cur].id)
<1> DEFINE m == heap[job[r].cur]
<1>1. job[r].cur \in Ptr /\ m.id \in ID /\ m.kind \in Kind /\ MirrorKey(r) \in Key
  BY GoingParts, InHand DEF Allocated
<1>2. m.source = SourceID(r)
  BY <1>1, GoingParts, CallFacts DEF Going, Holds
<1>3. m.kind = SourceKey(r).kind
  BY <1>1, GoingParts, KeyFields, TrustedParts
<1>4. ARuleAsks(Admissible, SourceID(r), m.id)
  <2>1. Reason(ruleSpecs, SourceID(r), m.id)
    BY <1>1, <1>2, GoingParts, GroundParts, ResourcesAssumption DEF HeapReasoned
  <2>2. QED  BY <2>1, GoingParts, AskedByRule
<1>5. MirrorKey(r) = [kind |-> SourceKey(r).kind, id |-> m.id] /\ MirrorKey(r).id = m.id
  BY <1>3 DEF MirrorKey
<1>6. \A i \in 1..Len(log) : log[i].key = MirrorKey(r) => Got(lost, r, m.id)
  <2> SUFFICES ASSUME NEW i \in 1..Len(log), log[i].key = MirrorKey(r)
               PROVE  Got(lost, r, m.id)
    OBVIOUS
  <2>1. ARuleAsks(Admissible, SourceID(r), log[i].key.id)
    BY <1>4, <1>5
  <2>2. Written(lost, SourceID(r), log[i].key)
    BY <2>1, GoingParts, AtTarget
  <2>3. QED  BY <1>5, <2>2 DEF Got
<1>7. QED  BY <1>1, <1>2, <1>5, <1>6

LEMMA ReadGoesOn ==
    ASSUME NEW lost, NEW r \in RuleName, Going(lost, r), NEW p \in Ptr, ReadSource(r, p)
    PROVE  CallReports(lost, r)' /\ VersionsKnown(lost)'
<1> DEFINE left == job[r].ptrs \ {p}
           x == [job[r] EXCEPT !.ptrs = left, !.pc = "check", !.cur = p,
                               !.dat = seen[SourceKey(r)]]
<1>1. /\ job[r] \in Job /\ job \in [Worker -> Job] /\ r \in Worker
      /\ job[r].pc = "mirrors" /\ p \in job[r].ptrs /\ UNCHANGED <<store, heap>>
  BY GoingParts DEF ReadSource
<1>2. Live(seen[SourceKey(r)])
  <2>1. /\ job[r].ver \in 1..Len(log) /\ job[r].ver <= seen[SourceKey(r)]
        /\ seen[SourceKey(r)] \in 0..Len(log)
    BY <1>1, GoingParts, SourceFacts, Parts
  <2>2. QED  BY <2>1, GoingParts DEF Live, Calm
<1>3. job' = [job EXCEPT ![r] = x]
  BY <1>2 DEF ReadSource
<1>4. /\ x.pc = "check" /\ x.ptrs = left /\ x.cur = p /\ x.ver = job[r].ver
      /\ x.policy = job[r].policy /\ x.name = job[r].name
  BY <1>1 DEF Job
<1>5. left = job[r].ptrs \ {p}
  OBVIOUS
<1> HIDE DEF x, left
<1>6. job'[r] = x
  BY <1>1, <1>3
<1>7. Forward(lost, r)
  BY <1>1, <1>4, <1>5, <1>6 DEF Forward, Ahead
<1>8. CallReports(lost, r)'
  BY <1>3, <1>4, <1>7, CallGoesOn
<1>9. QED  BY <1>1, <1>3, <1>8, VersionsSame

(* The mirror in hand has been written: the call goes on with the next one.    *)
LEMMA NextGoesOn ==
    ASSUME NEW lost, NEW r \in RuleName, Going(lost, r), job[r].pc \in {"check", "get", "write"},
           NextMirror(r), UNCHANGED heap, NEW done, done = heap[job[r].cur].id, Got(lost, r, done)'
    PROVE  CallReports(lost, r)' /\ VersionsKnown(lost)'
<1> DEFINE x == [job[r] EXCEPT !.pc = "mirrors", !.cur = Nil, !.dat = 0, !.got = 0]
<1>1. job' = [job EXCEPT ![r] = x]
  BY DEF NextMirror
<1>2. job[r] \in Job /\ job \in [Worker -> Job] /\ r \in Worker
  BY GoingParts
<1>3. /\ x.pc = "mirrors" /\ x.ptrs = job[r].ptrs /\ x.ver = job[r].ver
      /\ x.policy = job[r].policy /\ x.name = job[r].name
  BY <1>2 DEF Job
<1> HIDE DEF x
<1>4. job'[r] = x
  BY <1>1, <1>2
<1>5. Forward(lost, r)
  <2> SUFFICES ASSUME NEW id \in ID, IsTarget(r, id), Ahead(r, id), id # done
               PROVE  Ahead(r, id)'
    BY DEF Forward
  <2>1. \E p \in job[r].ptrs : heap[p].id = id
    BY DEF Ahead
  <2>2. QED  BY <1>3, <1>4, <2>1 DEF Ahead
<1>6. CallReports(lost, r)'
  BY <1>1, <1>3, <1>5, CallGoesOn
<1>7. ASSUME NEW s \in RuleName, NEW p \in Ptr, AtWork(s, p)
      PROVE  Written(lost, heap[p].source, [kind |-> heap[p].kind, id |-> heap[p].id])'
  <2>1. s = r /\ p = job[r].cur
    BY <1>7, GoingParts, TrustedParts DEF AtWork
  <2>2. heap[p].source = SourceID(r) /\ MirrorKey(r) = [kind |-> SourceKey(r).kind, id |-> done]
    BY <2>1, MirrorInHand
  <2>3. SourceKey(r)' = SourceKey(r) /\ SourceID(r)' = SourceID(r)
    BY <1>3, <1>4, GoingParts, RevisionStays DEF SourceKey, SourceID
  <2>4. [kind |-> heap[p].kind, id |-> heap[p].id] = [kind |-> SourceKey(r).kind, id |-> done]
    BY <2>1, <2>2 DEF MirrorKey
  <2>5. QED  BY <2>2, <2>3, <2>4 DEF Got
<1>8. EngineInv /\ EngineInv' /\ Advances /\ VersionsKnown(lost)
  BY GoingParts
<1>9. VersionsKnown(lost)'
  BY <1>7, <1>8, VersionsStay
<1>10. QED  BY <1>6, <1>9

(* A rule lets its sources be replicated everywhere.                         *)
LEMMA RuleReflects ==
    ASSUME NEW nss, NEW n
    PROVE  CanReflectToNamespace(RulePolicy(nss), n)
<1> DEFINE items == <<Star>>
<1>1. Stops(items) = {1}
  BY DEF Stops
<1>2. (CHOOSE i \in Stops(items) : \A j \in Stops(items) : i <= j) = 1
  BY <1>1
<1>3. NewAllowedNamespaces(items).isAll = TRUE
  BY <1>1, <1>2 DEF NewAllowedNamespaces
<1>4. Matches(NewAllowedNamespaces(items), n)
  BY <1>3 DEF Matches
<1>5. QED  BY <1>4 DEF CanReflectToNamespace, RulePolicy
LEMMA ReflectGoesOn ==
    ASSUME NEW lost, NEW r \in RuleName, Going(lost, r), Reflect(r)
    PROVE  CallReports(lost, r)' /\ VersionsKnown(lost)'
<1> DEFINE m == heap[job[r].cur]
           x == [job[r] EXCEPT !.pc = "set"]
<1>1. /\ job[r] \in Job /\ job \in [Worker -> Job] /\ r \in Worker
      /\ job[r].pc = "check" /\ UNCHANGED <<store, heap>>
  BY GoingParts DEF Reflect
<1>2. CanReflectToNamespace(job[r].policy, m.id.ns)
  BY GoingParts, RuleReflects
<1>3. CASE m.version # job[r].ver
  <2>1. job' = [job EXCEPT ![r] = x]
    BY <1>2, <1>3 DEF Reflect, Go
  <2>2. /\ x.pc = "set" /\ x.ptrs = job[r].ptrs /\ x.cur = job[r].cur /\ x.ver = job[r].ver
        /\ x.policy = job[r].policy /\ x.name = job[r].name
    BY <1>1 DEF Job
  <2> HIDE DEF x
  <2>3. job'[r] = x
    BY <1>1, <2>1
  <2>4. Forward(lost, r)
    BY <1>1, <2>2, <2>3 DEF Forward, Ahead
  <2>5. CallReports(lost, r)'
    BY <2>1, <2>2, <2>4, CallGoesOn
  <2>6. QED  BY <1>1, <2>1, <2>5, VersionsSame
<1>4. CASE m.version = job[r].ver
  <2>1. NextMirror(r)
    BY <1>4 DEF Reflect
  <2>2. /\ job[r].cur \in Ptr /\ m.id # NoID /\ m.version # 0
        /\ MirrorKey(r) = [kind |-> m.kind, id |-> m.id]
        /\ MirrorKey(r) = [kind |-> SourceKey(r).kind, id |-> m.id]
        /\ m.source = SourceID(r)
    BY <1>1, <1>4, MirrorInHand, GoingParts, ResourcesAssumption DEF MirrorKey
  <2>3. \A s \in RuleName : job[s].pc = "check"
    BY <1>1, GoingParts, TrustedParts
  <2>4. Written(lost, m.source, [kind |-> m.kind, id |-> m.id])
    BY <2>2, <2>3, GoingParts DEF VersionsKnown
  <2>5. PICK done : done = m.id
    OBVIOUS
  <2>6. Got(lost, r, done)
    BY <2>2, <2>4, <2>5 DEF Got
  <2>7. job'[r].ver = job[r].ver
    BY <1>1, <2>1 DEF NextMirror, Job
  <2>8. Got(lost, r, done)'
    BY <2>6, <2>7, GoingParts, GotStays DEF Going
  <2>9. QED  BY <1>1, <2>1, <2>5, <2>8, NextGoesOn
<1>5. QED  BY <1>3, <1>4

LEMMA SetVersionGoesOn ==
    ASSUME NEW lost, NEW r \in RuleName, Going(lost, r), SetVersion(r)
    PROVE  CallReports(lost, r)' /\ VersionsKnown(lost)'
<1> DEFINE x == [job[r] EXCEPT !.pc = "get"]
<1>1. /\ job[r] \in Job /\ job \in [Worker -> Job] /\ r \in Worker /\ EngineInv /\ EngineInv'
      /\ Advances /\ VersionsKnown(lost) /\ job[r].pc = "set" /\ job' = [job EXCEPT ![r] = x]
      /\ job[r].cur \in Ptr /\ \A p \in job[r].ptrs : p \in Ptr
  BY GoingParts, InHand DEF SetVersion, Go, Job
<1>2. \A p \in Ptr : /\ heap'[p].id = heap[p].id /\ heap'[p].source = heap[p].source
                     /\ heap'[p].kind = heap[p].kind
                     /\ p # job[r].cur => heap'[p].version = heap[p].version
  BY <1>1, SetVersionFields
<1>3. /\ x.pc = "get" /\ x.ptrs = job[r].ptrs /\ x.cur = job[r].cur /\ x.ver = job[r].ver
      /\ x.policy = job[r].policy /\ x.name = job[r].name
  BY <1>1 DEF Job
<1> HIDE DEF x
<1>4. job'[r] = x
  BY <1>1
<1>5. Forward(lost, r)
  <2> SUFFICES ASSUME NEW id \in ID, IsTarget(r, id), Ahead(r, id)
               PROVE  Ahead(r, id)'
    BY DEF Forward
  <2>1. heap[job[r].cur].id = id \/ \E p \in job[r].ptrs : heap[p].id = id
    BY <1>1 DEF Ahead
  <2>2. heap'[x.cur].id = id \/ \E p \in x.ptrs : heap'[p].id = id
    BY <1>1, <1>2, <1>3, <2>1
  <2>3. QED  BY <1>3, <1>4, <2>2 DEF Ahead
<1>6. CallReports(lost, r)'
  BY <1>1, <1>3, <1>5, CallGoesOn
<1>7. \A s \in RuleName : job[s].pc = "set"
  BY <1>1, GoingParts, TrustedParts
<1>8. VersionsKnown(lost)'
  <2> SUFFICES ASSUME NEW p \in Ptr, heap'[p].id # NoID, heap'[p].version # 0,
                      p # job[r].cur
               PROVE  Written(lost, heap[p].source, [kind |-> heap[p].kind, id |-> heap[p].id])'
    BY <1>2, <1>3, <1>4 DEF VersionsKnown
  <2>1. heap[p].id # NoID /\ heap[p].version # 0
    BY <1>2
  <2>2. Written(lost, heap[p].source, [kind |-> heap[p].kind, id |-> heap[p].id])
    BY <1>1, <1>7, <2>1 DEF VersionsKnown
  <2>3. heap'[p].source = heap[p].source /\ heap'[p].kind = heap[p].kind
        /\ heap'[p].id = heap[p].id
    BY <1>2
  <2>4. QED  BY <1>1, <2>2, <2>3, WrittenStays
<1>9. QED  BY <1>6, <1>8

LEMMA GetGoesOn ==
    ASSUME NEW lost, NEW r \in RuleName, Going(lost, r), GetMirror(r)
    PROVE  CallReports(lost, r)' /\ VersionsKnown(lost)'
<1> DEFINE v == seen[MirrorKey(r)]
           got == IF Live(v) THEN v ELSE 0
           x == [job[r] EXCEPT !.pc = "write", !.got = got]
<1>1. /\ job[r] \in Job /\ job \in [Worker -> Job] /\ r \in Worker
      /\ job[r].pc = "get" /\ UNCHANGED <<clusterVars, store, heap>>
  BY GoingParts DEF GetMirror
<1>2. v \in 0..Len(log) /\ (v # 0 => log[v].key = MirrorKey(r))
  BY <1>1, MirrorInHand, GoingParts, Parts DEF CacheSound
<1>3. CASE Live(v) /\ log[v].ver = job[r].ver
  <2>1. NextMirror(r)
    BY <1>3 DEF GetMirror
  <2>2. PICK done : done = heap[job[r].cur].id
    OBVIOUS
  <2>3. Got(lost, r, done)
    BY <1>1, <1>2, <1>3, <2>2, MirrorInHand DEF Live
  <2>4. job'[r].ver = job[r].ver
    BY <1>1, <2>1 DEF NextMirror, Job
  <2>5. Got(lost, r, done)'
    BY <2>3, <2>4, GoingParts, GotStays DEF Going
  <2>6. QED  BY <1>1, <2>1, <2>2, <2>5, NextGoesOn
<1>4. CASE ~(Live(v) /\ log[v].ver = job[r].ver)
  <2>1. job' = [job EXCEPT ![r] = x]
    BY <1>4 DEF GetMirror
  <2>2. /\ x.pc = "write" /\ x.ptrs = job[r].ptrs /\ x.cur = job[r].cur /\ x.ver = job[r].ver
        /\ x.policy = job[r].policy /\ x.name = job[r].name /\ x.got = got
    BY <1>1 DEF Job
  <2>3. got # 0 => got \in 1..Len(log) /\ log[got].key = MirrorKey(r)
    BY <1>2
  <2> HIDE DEF x, got
  <2>4. job'[r] = x
    BY <1>1, <2>1
  <2>5. Forward(lost, r)
    BY <1>1, <2>2, <2>4 DEF Forward, Ahead
  <2>6. MirrorKey(r)' = MirrorKey(r) /\ UNCHANGED log
    BY <1>1, <2>2, <2>4 DEF MirrorKey, clusterVars
  <2>7. CallReports(lost, r)'
    BY <2>1, <2>2, <2>3, <2>5, <2>6, CallGoesOn
  <2>8. \A s \in RuleName : \A p \in Ptr : AtWork(s, p) => AtWork(s, p)'
    BY <1>1, <2>1, <2>2, <2>4, RuleIsWorker DEF AtWork
  <2>9. VersionsKnown(lost)'
    BY <1>1, <2>8, GoingParts, VersionsStay
  <2>10. QED  BY <2>7, <2>9
<1>5. QED  BY <1>3, <1>4

LEMMA WriteGoesOn ==
    ASSUME NEW lost, NEW r \in RuleName, Going(lost, r), WriteMirror(r)
    PROVE  CallReports(lost, r)' /\ VersionsKnown(lost)'
<1>1. /\ job[r] \in Job /\ job \in [Worker -> Job] /\ r \in Worker /\ EngineInv
      /\ job[r].pc = "write" /\ NextMirror(r) /\ UNCHANGED heap
  BY GoingParts DEF WriteMirror
<1>2. PICK e \in Entry : Commit(e) /\ CopyBy(r, e)
  BY <1>1, CalmWrite
<1>3. PICK done : done = heap[job[r].cur].id
  OBVIOUS
<1>4. /\ e.key = [kind |-> SourceKey(r).kind, id |-> done] /\ e.by = "operator"
      /\ e.from = SourceID(r)
  BY <1>1, <1>2, <1>3, MirrorInHand DEF CopyBy
<1>5. Len(log) + 1 \in 1..Len(log') /\ log'[Len(log) + 1] = e
  BY <1>1, <1>2, Parts, CommitFacts
<1>6. job'[r].ver = job[r].ver
  BY <1>1 DEF NextMirror, Job
<1>7. SourceKey(r)' = SourceKey(r) /\ SourceID(r)' = SourceID(r)
  BY <1>6, GoingParts, RevisionStays DEF SourceKey, SourceID
<1>8. Got(lost, r, done)'
  BY <1>4, <1>5, <1>7 DEF Got, Written
<1>9. QED  BY <1>1, <1>3, <1>8, NextGoesOn

(* A write is rejected only for a copy that is there.                          *)
LEMMA RejectedGoesOn ==
    ASSUME NEW lost, NEW r \in RuleName, Going(lost, r), WriteRejected(r)
    PROVE  CallReports(lost, r)' /\ VersionsKnown(lost)'
<1>1. /\ job[r] \in Job /\ job \in [Worker -> Job] /\ r \in Worker
      /\ job[r].pc = "write" /\ NextMirror(r) /\ UNCHANGED heap
      /\ ~Accepted(MirrorKey(r), job[r].got)
  BY GoingParts DEF WriteRejected
<1>2. /\ MirrorKey(r) \in Key /\ head[MirrorKey(r)] \in 0..Len(log)
      /\ head[MirrorKey(r)] # 0 => log[head[MirrorKey(r)]].key = MirrorKey(r)
  BY <1>1, MirrorInHand, GoingParts, Parts DEF CacheSound
<1>3. \E i \in 1..Len(log) : log[i].key = MirrorKey(r)
  <2>1. CASE job[r].got # 0
    BY <1>1, <2>1, GoingParts DEF CallReports
  <2>2. CASE job[r].got = 0
    <3>1. phase[MirrorKey(r).id.ns] = "active"
      BY <1>2, KeyFields, GoingParts DEF Calm
    <3>2. QED  BY <1>1, <1>2, <2>2, <3>1 DEF Accepted, Live
  <2>3. QED  BY <2>1, <2>2
<1>4. PICK done : done = heap[job[r].cur].id
  OBVIOUS
<1>5. Got(lost, r, done)
  BY <1>1, <1>3, <1>4, MirrorInHand
<1>6. job'[r].ver = job[r].ver
  BY <1>1 DEF NextMirror, Job
<1>7. Got(lost, r, done)'
  BY <1>5, <1>6, GoingParts, GotStays DEF Going
<1>8. QED  BY <1>1, <1>4, <1>7, NextGoesOn

(* A write fails: the target counts as lost.                                   *)
LEMMA FailGoesOn ==
    ASSUME NEW lost, NEW r \in RuleName, Going(lost, r), WriteFails(r), MirrorKey(r) \in lost
    PROVE  CallReports(lost, r)' /\ VersionsKnown(lost)'
<1>1. /\ job[r] \in Job /\ job \in [Worker -> Job] /\ r \in Worker
      /\ job[r].pc = "write" /\ NextMirror(r) /\ UNCHANGED heap
  BY GoingParts DEF WriteFails
<1>2. PICK done : done = heap[job[r].cur].id
  OBVIOUS
<1>3. [kind |-> SourceKey(r).kind, id |-> done] \in lost
  BY <1>1, <1>2, MirrorInHand
<1>4. job'[r].ver = job[r].ver
  BY <1>1 DEF NextMirror, Job
<1>5. SourceKey(r)' = SourceKey(r)
  BY <1>4, GoingParts, RevisionStays DEF SourceKey
<1>6. Got(lost, r, done)'
  BY <1>3, <1>5 DEF Got, Written
<1>7. QED  BY <1>1, <1>2, <1>6, NextGoesOn

LEMMA WorkGoesOn ==
    ASSUME NEW lost, NEW r \in RuleName, Grounds, Standing(lost), Grounds', Advances,
           UNCHANGED sync, Work(r), WriteFails(r) => MirrorKey(r) \in lost
    PROVE  CallReports(lost, r)' /\ VersionsKnown(lost)'
<1>1. job[r].pc # "idle"
  BY IdleMakesNoCalls
<1>2. Going(lost, r)
  BY <1>1 DEF Going
<1>3. QED
  BY <1>2, AutoGoesOn, ConflictGoesOn, CreateGoesOn, CleanupGoesOn, ForgetGoesOn,
     ListGoesOn, ReadGoesOn, ReflectGoesOn, SetVersionGoesOn, GetGoesOn, WriteGoesOn,
     RejectedGoesOn, FailGoesOn DEF Work
-----------------------------------------------------------------------------
(* What a step does not touch.                                               *)

(* A call that others leave alone.                                           *)
LEMMA CallStays ==
    ASSUME NEW lost, Grounds, Standing(lost), Grounds', Advances, NEW r \in RuleName,
           job'[r] = job[r],
           sync'[r].at = sync[r].at, sync'[r].rule = sync[r].rule,
           sync'[r].targets = sync[r].targets,
           \A p \in Ptr : Holds(job[r], p) => heap'[p] = heap[p],
           \A id \in ID : Registered(id) => Registered(id)'
    PROVE  CallReports(lost, r)'
<1>1. EngineInv /\ EngineInv' /\ CallReports(lost, r) /\ r \in Worker /\ job[r] \in Job
  BY GroundParts, ReportParts, RuleIsWorker, Parts DEF Grounds, RulesReasonState, ReasonState
<1>2. CASE job[r].pc = "idle"
  BY <1>1, <1>2 DEF CallReports
<1>3. CASE job[r].pc # "idle"
  <2>1. /\ job[r].ver \in 1..Len(log) /\ sync[r].at = "execute"
        /\ \A p \in job[r].ptrs : p \in Ptr
        /\ job[r].pc \in {"check", "set", "get", "write"} => job[r].cur \in Ptr
    BY <1>1, <1>3, CallFacts, InHand DEF Job
  <2>2. SourceKey(r)' = SourceKey(r) /\ SourceID(r)' = SourceID(r)
    BY <1>1, <2>1, RevisionStays DEF SourceKey, SourceID
  <2>3. \A n : TargetID(r, n)' = TargetID(r, n)
    BY DEF TargetID
  <2>4. Aims(sync'[r]) = Aims(sync[r])
    BY DEF Aims
  <2>5. ASSUME NEW n \in Aims(sync[r])
        PROVE  (Got(lost, r, TargetID(r, n)) \/ Ahead(r, TargetID(r, n)))'
    <3>1. PICK id : id = TargetID(r, n)
      OBVIOUS
    <3>2. id \in ID /\ (Got(lost, r, id) \/ Ahead(r, id)) /\ TargetID(r, n)' = id
      BY <1>3, <2>3, <3>1, AimFacts
    <3>3. Got(lost, r, id) => Got(lost, r, id)'
      BY <1>3, GotStays
    <3>4. ASSUME Ahead(r, id) PROVE Ahead(r, id)'
      <4>1. CASE Registered(id)
        BY <3>2, <3>4, <4>1, <2>1 DEF Ahead, Holds
      <4>2. CASE ~Registered(id)
        BY <3>4, <4>2, <2>1 DEF Ahead, Holds
      <4>3. QED  BY <4>1, <4>2
    <3>5. QED  BY <3>2, <3>3, <3>4
  <2>6. job[r].pc = "write" => MirrorKey(r)' = MirrorKey(r)
    BY <2>1 DEF MirrorKey, Holds
  <2>7. job[r].pc = "write" /\ job[r].got # 0 =>
           job[r].got \in 1..Len(log') /\ log'[job[r].got].key = MirrorKey(r)'
    BY <1>1, <2>6, RevisionStays DEF CallReports
  <2>8. /\ job'[r].policy = RulePolicy(sync'[r].targets)
        /\ Covers(sync'[r].rule.spec, SourceKey(r)')
        /\ job'[r].name = TransformTargetName(sync'[r].rule.spec, SourceID(r)'.name)
    BY <1>3, <2>2, CallFacts
  <2>9. job[r].pc = "forget" => \A id \in job[r].ids : id.ns \notin sync[r].targets
    BY <1>1 DEF CallReports
  <2>10. QED  BY <1>3, <2>1, <2>4, <2>5, <2>7, <2>8, <2>9 DEF CallReports
<1>4. QED  BY <1>2, <1>3

LEMMA NoCallReports ==
    ASSUME NEW lost, NEW r, job'[r].pc = "idle", sync'[r].at # "execute"
    PROVE  CallReports(lost, r)'
BY DEF CallReports

LEMMA BacksStays ==
    ASSUME NEW lost, EngineInv, EngineInv', Advances, NEW spec, NEW done, NEW targets,
           Backs(lost, spec, done, targets)
    PROVE  Backs(lost, spec, done, targets)'
<1>1. ASSUME NEW k, NEW c, Copied(k, c) PROVE Copied(k, c)'
  <2>1. Written({}, k.id, c)
    BY <1>1 DEF Copied, Written
  <2>2. Written({}, k.id, c)'
    BY <2>1, WrittenStays
  <2>3. QED  BY <2>2 DEF Copied, Written
<1>2. QED  BY <1>1 DEF Backs

LEMMA SyncReportsStay ==
    ASSUME NEW lost, EngineInv, EngineInv', Advances, NEW old, NEW new, SyncReports(lost, old),
           new.at = old.at, new.rule = old.rule, new.targets = old.targets,
           new.done = old.done
    PROVE  SyncReports(lost, new)'
<1>1. Backs(lost, new.rule.spec, new.done, new.targets) =>
         Backs(lost, new.rule.spec, new.done, new.targets)'
  BY BacksStays
<1>2. QED  BY <1>1 DEF SyncReports

LEMMA StatusStays ==
    ASSUME NEW lost, EngineInv, EngineInv', Advances, NEW rule, StatusReports(lost, rule)
    PROVE  StatusReports(lost, rule)'
BY BacksStays DEF StatusReports
-----------------------------------------------------------------------------
(* The steps around a call.                                                  *)

(* What is left to be shown of a step.                                       *)
Told(lost) ==
    /\ OthersIdle /\ (\A p \in Ptr : heap[p].id # NoID => heap[p].auto) /\ VersionsKnown(lost)
    /\ \A r \in RuleName : /\ CallReports(lost, r) /\ SyncReports(lost, sync[r])
                            /\ StatusReports(lost, Stored(r))

Moving(lost) ==
    /\ Grounds /\ Standing(lost) /\ Grounds' /\ [Next]_vars
    /\ \A r \in RuleName : WriteFails(r) => MirrorKey(r) \in lost

LEMMA MovingParts ==
    ASSUME NEW lost, Moving(lost)
    PROVE  /\ Grounds /\ Standing(lost) /\ Grounds' /\ [Next]_vars /\ Advances
           /\ EngineInv /\ EngineInv' /\ RulesInv /\ Trusted /\ Calm /\ OthersIdle
           /\ AllAutomatic /\ VersionsKnown(lost) /\ job \in [Worker -> Job]
           /\ \A r, s \in RuleName : r = s
           /\ \A r \in RuleName : /\ CallReports(lost, r) /\ SyncReports(lost, sync[r])
                                  /\ StatusReports(lost, Stored(r)) /\ r \in Worker
                                  /\ sync[r] \in Sync /\ SyncSound(sync[r])
<1>1. Grounds /\ Standing(lost) /\ Grounds' /\ [Next]_vars
  BY DEF Moving
<1>2. EngineInv /\ EngineInv' /\ RulesInv
  BY <1>1, GroundParts DEF Grounds, RulesReasonState, ReasonState
<1>3. Advances /\ job \in [Worker -> Job]
  BY <1>1, <1>2, NextAdvances, Parts DEF EngineTypeOK
<1>4. \A r \in RuleName : r \in Worker /\ sync[r] \in Sync /\ SyncSound(sync[r])
  BY <1>2, RuleIsWorker, RuleParts
<1>5. /\ Trusted /\ Calm /\ OthersIdle /\ AllAutomatic /\ VersionsKnown(lost)
      /\ \A r \in RuleName : /\ CallReports(lost, r) /\ SyncReports(lost, sync[r])
                              /\ StatusReports(lost, Stored(r))
  BY <1>1, ReportParts
<1>6. \A r, s \in RuleName : r = s
  BY <1>5, TrustedParts
<1>7. QED  BY <1>1, <1>2, <1>3, <1>4, <1>5, <1>6

(* The objects that are registered, and the calls, stay as they are.           *)
LEMMA EngineStays ==
    ASSUME NEW lost, Moving(lost), UNCHANGED <<store, heap>>,
           \A r \in RuleName : \A p \in Ptr : AtWork(r, p) => AtWork(r, p)'
    PROVE  /\ VersionsKnown(lost)' /\ \A p \in Ptr : heap'[p].id # NoID => heap'[p].auto
           /\ \A id \in ID : Registered(id) => Registered(id)'
<1>1. VersionsKnown(lost)'
  BY MovingParts, VersionsStay
<1>2. \A p \in Ptr : heap'[p].id # NoID => heap'[p].auto
  BY MovingParts DEF AllAutomatic
<1>3. QED  BY <1>1, <1>2 DEF Registered

(* So do the reports.                                                        *)
LEMMA ReportsStay ==
    ASSUME NEW lost, Moving(lost), NEW r \in RuleName, sync'[r].at = sync[r].at,
           sync'[r].rule = sync[r].rule, sync'[r].targets = sync[r].targets,
           sync'[r].done = sync[r].done
    PROVE  SyncReports(lost, sync[r])'
<1>1. EngineInv /\ EngineInv' /\ Advances /\ SyncReports(lost, sync[r])
  BY MovingParts
<1>2. \A new : new.at = sync[r].at /\ new.rule = sync[r].rule /\ new.targets = sync[r].targets
               /\ new.done = sync[r].done => SyncReports(lost, new)'
  BY <1>1, SyncReportsStay
<1>3. QED  BY <1>2

LEMMA StoredStays ==
    ASSUME NEW lost, Moving(lost), NEW r \in RuleName, Stored(r)' = Stored(r)
    PROVE  StatusReports(lost, Stored(r))'
<1>1. EngineInv /\ EngineInv' /\ Advances /\ StatusReports(lost, Stored(r))
  BY MovingParts
<1>2. \A rule : rule = Stored(r) => StatusReports(lost, rule)'
  BY <1>1, StatusStays
<1>3. QED  BY <1>2

LEMMA ControllersTell ==
    ASSUME NEW lost, Moving(lost), ControllersStep, UNCHANGED ruleVars
    PROVE  Told(lost)'
<1>1. /\ OthersIdle' /\ (UNCHANGED engineVars \/ \E w \in Request : MirrorAdopt(w))
      /\ UNCHANGED <<sync, ruleSeen, ruleLag>>
  BY MovingParts, OthersHarmless DEF ruleVars
<1>2. \A r \in RuleName : SyncReports(lost, sync[r])' /\ StatusReports(lost, Stored(r))'
  <2> SUFFICES ASSUME NEW r \in RuleName
               PROVE  SyncReports(lost, sync[r])' /\ StatusReports(lost, Stored(r))'
    OBVIOUS
  <2>1. Stored(r)' = Stored(r)
    BY <1>1 DEF Stored
  <2>2. QED  BY <1>1, <2>1, ReportsStay, StoredStays
<1>3. ASSUME UNCHANGED job, VersionsKnown(lost)',
             \A p \in Ptr : heap'[p].id # NoID => heap'[p].auto,
             \A id \in ID : Registered(id) => Registered(id)',
             \A u \in Worker : \A p \in Ptr : Holds(job[u], p) => heap'[p] = heap[p]
      PROVE  Told(lost)'
  <2>1. \A r \in RuleName : CallReports(lost, r)'
    BY <1>1, <1>3, MovingParts, CallStays
  <2>2. QED  BY <1>1, <1>2, <1>3, <2>1 DEF Told
<1>4. CASE UNCHANGED engineVars
  <2>1. UNCHANGED <<store, heap, job>>
    BY <1>4 DEF engineVars
  <2>2. \A r \in RuleName : \A p \in Ptr : AtWork(r, p) => AtWork(r, p)'
    BY <2>1 DEF AtWork
  <2>3. QED  BY <1>3, <2>1, <2>2, EngineStays
<1>5. ASSUME NEW w \in Request, MirrorAdopt(w)
      PROVE  Told(lost)'
  <2>1. /\ w.id \in ID /\ stage[w].from \in ID /\ "Secret" \in Kind
        /\ Register(w.id, stage[w].from, "Secret", TRUE) /\ UNCHANGED job
    BY <1>5, MovingParts, AdoptHeap
  <2>2. /\ \A p \in Ptr : heap'[p].version # 0 => heap'[p] = heap[p]
        /\ \A i \in ID : Registered(i) => Registered(i)'
        /\ \A u \in Worker : \A p \in Ptr : Holds(job[u], p) => heap'[p] = heap[p]
    BY <2>1, MovingParts, RegisterVersions
  <2>3. \A p \in Ptr : heap'[p].id # NoID => heap'[p].auto
    BY <2>1, MovingParts, HeapAutomatic
  <2>4. \A r \in RuleName : \A p \in Ptr : AtWork(r, p) => AtWork(r, p)'
    BY <2>1 DEF AtWork
  <2>5. VersionsKnown(lost)'
    BY <2>2, <2>4, MovingParts, VersionsStay
  <2>6. QED  BY <1>3, <2>1, <2>2, <2>3, <2>5
<1>6. QED  BY <1>1, <1>4, <1>5

(* A step that concerns the rule object, the watch or the queue only.          *)
LEMMA AsideTells ==
    ASSUME NEW lost, Moving(lost), UNCHANGED <<engineVars, controllerVars>>, NEW r \in RuleName,
           sync'[r].at = sync[r].at, sync'[r].rule = sync[r].rule,
           sync'[r].targets = sync[r].targets, sync'[r].done = sync[r].done,
           StatusReports(lost, Stored(r))'
    PROVE  Told(lost)'
<1>1. UNCHANGED <<store, heap, job, stage, nsDrop>>
  BY DEF engineVars, controllerVars
<1>2. OthersIdle'
  BY <1>1, MovingParts, IdleParts, StagesUntouched
<1>3. \A s \in RuleName : \A p \in Ptr : AtWork(s, p) => AtWork(s, p)'
  BY <1>1 DEF AtWork
<1>4. /\ VersionsKnown(lost)' /\ \A p \in Ptr : heap'[p].id # NoID => heap'[p].auto
      /\ \A id \in ID : Registered(id) => Registered(id)'
  BY <1>1, <1>3, EngineStays
<1>5. CallReports(lost, r)'
  BY <1>1, <1>4, MovingParts, CallStays
<1>6. SyncReports(lost, sync[r])'
  BY ReportsStay
<1>7. \A s \in RuleName : s = r
  BY MovingParts
<1>8. QED  BY <1>2, <1>4, <1>5, <1>6, <1>7 DEF Told
-----------------------------------------------------------------------------
(* The rule objects.                                                         *)

LEMMA WriteStores ==
    ASSUME RulesInv, NEW r \in RuleName, NEW object, Write(r, object)
    PROVE  Stored(r)' = object
<1>1. ruleLag'[r] = Append(ruleLag[r], object) /\ ruleLag[r] \in Seq(RuleObject \cup {NoRule})
  BY RuleParts DEF Write
<1>2. PICK lag : lag = ruleLag[r]
  OBVIOUS
<1>3. lag \in Seq(RuleObject \cup {NoRule}) /\ ruleLag'[r] = Append(lag, object)
  BY <1>1, <1>2
<1>4. Len(Append(lag, object)) = Len(lag) + 1 /\ Append(lag, object)[Len(lag) + 1] = object
  BY <1>3
<1>5. Append(lag, object) # <<>>
  BY <1>3
<1>6. QED  BY <1>3, <1>4, <1>5 DEF Stored

LEMMA EventStores ==
    ASSUME RulesInv, NEW r \in RuleName, RuleEvent(r)
    PROVE  Stored(r)' = Stored(r)
<1>1. /\ ruleLag[r] # <<>> /\ ruleLag[r] \in Seq(RuleObject \cup {NoRule})
      /\ ruleSeen'[r] = Head(ruleLag[r]) /\ ruleLag'[r] = Tail(ruleLag[r])
  BY RuleParts DEF RuleEvent
<1>2. PICK lag : lag = ruleLag[r]
  OBVIOUS
<1>3. /\ lag \in Seq(RuleObject \cup {NoRule}) /\ lag # <<>> /\ ruleSeen'[r] = Head(lag)
      /\ ruleLag'[r] = Tail(lag) /\ Stored(r) = lag[Len(lag)]
  BY <1>1, <1>2 DEF Stored
<1>4. Len(lag) \in Nat \ {0} /\ Len(Tail(lag)) = Len(lag) - 1
  BY <1>3
<1>5. CASE Len(lag) = 1
  <2>1. Tail(lag) = <<>> /\ Head(lag) = lag[Len(lag)]
    BY <1>3, <1>4, <1>5
  <2>2. QED  BY <1>3, <2>1 DEF Stored
<1>6. CASE Len(lag) # 1
  <2>1. Len(Tail(lag)) \in 1..(Len(lag) - 1)
    BY <1>4, <1>6
  <2>2. \A i \in 1..(Len(lag) - 1) : Tail(lag)[i] = lag[i + 1]
    BY <1>3
  <2>3. Tail(lag)[Len(Tail(lag))] = lag[Len(Tail(lag)) + 1]
    BY <2>1, <2>2
  <2>4. Tail(lag)[Len(Tail(lag))] = lag[Len(lag)]
    <3>1. Len(Tail(lag)) + 1 = Len(lag)
      BY <1>4
    <3>2. QED  BY <2>3, <3>1
  <2>5. Tail(lag) # <<>>
    BY <1>4, <1>6
  <2>6. QED  BY <1>3, <2>4, <2>5 DEF Stored
<1>7. QED  BY <1>5, <1>6

(* A change of the spec is a new generation, which no status is about yet.     *)
LEMMA ApplyTells ==
    ASSUME NEW lost, Moving(lost), NEW r \in RuleName, NEW spec \in Rule, RuleApply(r, spec)
    PROVE  Told(lost)'
<1> DEFINE old == Stored(r)
           object == [generation |-> old.generation + 1, spec |-> spec,
                      status |-> IF old = NoRule THEN NoStatus ELSE old.status]
<1>1. /\ Write(r, object) /\ sync' = [sync EXCEPT ![r].fresh = FALSE]
      /\ UNCHANGED <<engineVars, controllerVars>>
  BY DEF RuleApply
<1>2. /\ old = NoRule \/ old \in RuleObject
      /\ old # NoRule => old.status.observed <= old.generation
  BY MovingParts, StoredType DEF StatusReports
<1>3. old.generation \in Nat /\ (old # NoRule => old.status.observed \in Nat)
  BY <1>2 DEF NoRule, RuleObject, Status
<1>4. object.status.observed < object.generation /\ object.generation \in Nat
      /\ object.status.observed \in Nat
  BY <1>2, <1>3 DEF NoStatus, NoRule
<1> HIDE DEF object
<1>5. PICK new : new = object
  OBVIOUS
<1>6. Stored(r)' = new /\ StatusReports(lost, new)'
  BY <1>1, <1>4, <1>5, MovingParts, WriteStores DEF StatusReports
<1>7. StatusReports(lost, Stored(r))'
  BY <1>6
<1>8. /\ sync'[r].at = sync[r].at /\ sync'[r].rule = sync[r].rule
      /\ sync'[r].targets = sync[r].targets /\ sync'[r].done = sync[r].done
  BY <1>1, MovingParts, RuleParts DEF Sync
<1>9. QED  BY <1>1, <1>7, <1>8, AsideTells

LEMMA DeleteTells ==
    ASSUME NEW lost, Moving(lost), NEW r \in RuleName, RuleDelete(r)
    PROVE  Told(lost)'
<1>1. /\ Write(r, NoRule) /\ sync' = [sync EXCEPT ![r].fresh = FALSE]
      /\ UNCHANGED <<engineVars, controllerVars>>
  BY DEF RuleDelete
<1>2. Stored(r)' = NoRule
  BY <1>1, MovingParts, WriteStores
<1>3. StatusReports(lost, Stored(r))'
  BY <1>2 DEF StatusReports
<1>4. /\ sync'[r].at = sync[r].at /\ sync'[r].rule = sync[r].rule
      /\ sync'[r].targets = sync[r].targets /\ sync'[r].done = sync[r].done
  BY <1>1, MovingParts, RuleParts DEF Sync
<1>5. QED  BY <1>1, <1>3, <1>4, AsideTells

LEMMA DeliveryTells ==
    ASSUME NEW lost, Moving(lost), NEW r \in RuleName, RuleEvent(r) \/ RuleResync(r)
    PROVE  Told(lost)'
<1>1. UNCHANGED <<engineVars, controllerVars, sync>>
  BY DEF RuleEvent, RuleResync, allVars, vars
<1>2. CASE RuleEvent(r)
  <2>1. StatusReports(lost, Stored(r))'
    BY <1>2, MovingParts, EventStores, StoredStays
  <2>2. QED  BY <1>1, <2>1, AsideTells
<1>3. CASE RuleResync(r)
  <2>1. Stored(r)' = Stored(r)
    BY <1>3 DEF RuleResync, Stored
  <2>2. StatusReports(lost, Stored(r))'
    BY <2>1, StoredStays
  <2>3. QED  BY <1>1, <2>2, AsideTells
<1>4. QED  BY <1>2, <1>3
-----------------------------------------------------------------------------
(* The reconcile.                                                            *)

(* A step of the reconcile outside of Execute.                               *)
LEMMA OutsideTells ==
    ASSUME NEW lost, Moving(lost), UNCHANGED allVars, NEW r \in RuleName, sync[r].at # "execute",
           sync'[r].at # "execute", SyncReports(lost, sync[r])', StatusReports(lost, Stored(r))'
    PROVE  Told(lost)'
<1>1. UNCHANGED <<store, heap, job, stage, nsDrop>>
  BY DEF allVars, vars, engineVars, controllerVars
<1>2. OthersIdle'
  BY <1>1, MovingParts, IdleParts, StagesUntouched
<1>3. \A s \in RuleName : \A p \in Ptr : AtWork(s, p) => AtWork(s, p)'
  BY <1>1 DEF AtWork
<1>4. VersionsKnown(lost)' /\ \A p \in Ptr : heap'[p].id # NoID => heap'[p].auto
  BY <1>1, <1>3, EngineStays
<1>5. job[r].pc = "idle"
  BY MovingParts DEF CallReports
<1>6. CallReports(lost, r)'
  BY <1>1, <1>5, NoCallReports
<1>7. \A s \in RuleName : s = r
  BY MovingParts
<1>8. QED  BY <1>2, <1>4, <1>6, <1>7 DEF Told

LEMMA NothingDone ==
    ASSUME NEW lost, NEW s, s.done = {}
    PROVE  SyncReports(lost, s)'
BY DEF SyncReports, Backs

LEMMA StartTells ==
    ASSUME NEW lost, Moving(lost), NEW r \in RuleName, RuleStart(r)
    PROVE  Told(lost)'
<1> DEFINE x == [NoSync EXCEPT !.at = "targets", !.rule = ruleSeen[r],
                               !.fresh = ruleLag[r] = <<>>]
<1>1. /\ sync[r].at = "idle" /\ UNCHANGED <<allVars, ruleSeen, ruleLag>>
      /\ sync' = [sync EXCEPT ![r] = x] \/ UNCHANGED sync
  BY DEF RuleStart
<1>2. x.at = "targets" /\ x.done = {}
  BY DEF NoSync
<1> HIDE DEF x
<1>3. Stored(r)' = Stored(r)
  BY <1>1 DEF Stored
<1>4. StatusReports(lost, Stored(r))'
  BY <1>3, StoredStays
<1>5. CASE sync' = [sync EXCEPT ![r] = x]
  <2>1. sync'[r] = x
    BY <1>5, MovingParts, RuleParts
  <2>2. SyncReports(lost, sync[r])'
    BY <1>2, <2>1, NothingDone
  <2>3. QED  BY <1>1, <1>2, <1>4, <2>1, <2>2, OutsideTells
<1>6. CASE UNCHANGED sync
  <2>1. SyncReports(lost, sync[r])'
    BY <1>6, ReportsStay
  <2>2. QED  BY <1>1, <1>4, <1>6, <2>1, OutsideTells
<1>7. QED  BY <1>1, <1>5, <1>6

LEMMA TargetsTell ==
    ASSUME NEW lost, Moving(lost), NEW r \in RuleName, DetermineTargets(r)
    PROVE  Told(lost)'
<1> DEFINE x == [sync[r] EXCEPT !.at = "process",
                   !.targets = TargetNamespaces(sync[r].rule.spec, ListNamespaces),
                   !.types = ProcessedTypes(sync[r].rule.spec)]
<1>1. /\ sync[r].at = "targets" /\ UNCHANGED <<allVars, ruleSeen, ruleLag>>
      /\ sync' = [sync EXCEPT ![r] = x] \/ sync' = [sync EXCEPT ![r] = NoSync]
  BY DEF DetermineTargets
<1>2. sync[r] \in Sync /\ sync \in [RuleName -> Sync] /\ SyncReports(lost, sync[r])
  BY MovingParts, RuleParts
<1>3. x.at = "process" /\ x.done = {} /\ NoSync.at = "idle" /\ NoSync.done = {}
  BY <1>1, <1>2 DEF Sync, SyncReports, NoSync
<1> HIDE DEF x
<1>4. sync'[r].at # "execute" /\ sync'[r].done = {}
  BY <1>1, <1>2, <1>3
<1>5. SyncReports(lost, sync[r])'
  BY <1>4, NothingDone
<1>6. Stored(r)' = Stored(r)
  BY <1>1 DEF Stored
<1>7. StatusReports(lost, Stored(r))'
  BY <1>6, StoredStays
<1>8. QED  BY <1>1, <1>4, <1>5, <1>7, OutsideTells

LEMMA ListTells ==
    ASSUME NEW lost, Moving(lost), NEW r \in RuleName, NEW type \in Kind, ListResources(r, type)
    PROVE  Told(lost)'
<1> DEFINE x == [sync[r] EXCEPT !.types = sync[r].types \ {type},
                                !.todo = Listing(sync[r].rule.spec, type)]
<1>1. /\ sync[r].at = "process" /\ UNCHANGED <<allVars, ruleSeen, ruleLag>>
      /\ sync' = [sync EXCEPT ![r] = x]
  BY DEF ListResources
<1>2. sync[r] \in Sync /\ sync \in [RuleName -> Sync]
  BY MovingParts, RuleParts
<1>3. /\ x.at = sync[r].at /\ x.rule = sync[r].rule /\ x.targets = sync[r].targets
      /\ x.done = sync[r].done
  BY <1>2 DEF Sync
<1> HIDE DEF x
<1>4. sync'[r] = x
  BY <1>1, <1>2
<1>5. SyncReports(lost, sync[r])'
  BY <1>3, <1>4, ReportsStay
<1>6. Stored(r)' = Stored(r)
  BY <1>1 DEF Stored
<1>7. StatusReports(lost, Stored(r))'
  BY <1>6, StoredStays
<1>8. QED  BY <1>1, <1>3, <1>4, <1>5, <1>7, OutsideTells

(* The status that is written is about the generation that was read, and what   *)
(* it lists has been done.                                                   *)
LEMMA UpdateTells ==
    ASSUME NEW lost, Moving(lost), NEW r \in RuleName, UpdateRuleStatus(r)
    PROVE  Told(lost)'
<1> DEFINE object(second) ==
              [sync[r].rule EXCEPT !.status =
                 [observed |-> sync[r].rule.generation, synced |-> sync[r].done,
                  targets |-> sync[r].targets, second |-> second]]
<1>1. /\ sync[r].at = "process" /\ sync' = [sync EXCEPT ![r] = NoSync]
      /\ UNCHANGED <<allVars, ruleSeen>>
      /\ UNCHANGED ruleLag \/ \E second \in {0, 1} : Write(r, object(second))
  BY DEF UpdateRuleStatus
<1>2. sync'[r].at # "execute" /\ sync'[r].done = {}
  BY <1>1, MovingParts, RuleParts DEF NoSync
<1>3. SyncReports(lost, sync[r])'
  BY <1>2, NothingDone
<1>4. CASE UNCHANGED ruleLag
  <2>1. Stored(r)' = Stored(r)
    BY <1>1, <1>4 DEF Stored
  <2>2. StatusReports(lost, Stored(r))'
    BY <2>1, StoredStays
  <2>3. QED  BY <1>1, <1>2, <1>3, <2>2, OutsideTells
<1>5. ASSUME NEW second \in {0, 1}, Write(r, object(second))
      PROVE  Told(lost)'
  <2>1. sync[r].rule \in RuleObject /\ Backs(lost, sync[r].rule.spec, sync[r].done, sync[r].targets)
    BY <1>1, MovingParts DEF Sync, SyncSound, SyncReports
  <2>2. PICK new : new = object(second)
    OBVIOUS
  <2>3. /\ new.generation \in Nat /\ new.status.observed = new.generation
        /\ new.spec = sync[r].rule.spec /\ new.status.synced = sync[r].done
        /\ new.status.targets = sync[r].targets
    BY <2>1, <2>2 DEF RuleObject
  <2>4. Stored(r)' = new
    BY <1>5, <2>2, MovingParts, WriteStores
  <2>5. Backs(lost, new.spec, new.status.synced, new.status.targets)
    BY <2>1, <2>3
  <2>6. Backs(lost, new.spec, new.status.synced, new.status.targets)'
    BY <2>5, MovingParts, BacksStays
  <2>7. StatusReports(lost, new)'
    BY <2>3, <2>6 DEF StatusReports
  <2>8. StatusReports(lost, Stored(r))'
    BY <2>4, <2>7
  <2>9. QED  BY <1>1, <1>2, <1>3, <2>8, OutsideTells
<1>6. QED  BY <1>1, <1>4, <1>5
(* A step that changes the job of a rule only.                               *)
LEMMA OthersStayIdle ==
    ASSUME NEW lost, Moving(lost), NEW r \in RuleName, NEW x, job' = [job EXCEPT ![r] = x],
           UNCHANGED controllerVars
    PROVE  OthersIdle'
<1>1. \A w \in Worker \ RuleName : job'[w] = job[w]
  BY MovingParts
<1>2. UNCHANGED <<stage, nsDrop>>
  BY DEF controllerVars
<1>3. QED  BY <1>1, <1>2, MovingParts, IdleParts, StagesUntouched

(* A call begins with all its targets ahead.                                 *)
LEMMA ExecuteTells ==
    ASSUME NEW lost, Moving(lost), NEW r \in RuleName, NEW v \in 1..Len(log), AddAndExecute(r, v)
    PROVE  Told(lost)'
<1> DEFINE s == sync[r]
           k == log[v].key
           policy == RulePolicy(s.targets)
           name == TransformTargetName(s.rule.spec, k.id.name)
           nss == {n \in ListNamespaces \ {k.id.ns} : CanAutoMirrorToNamespace(policy, n)}
           x == [NoJob EXCEPT !.pc = AfterNamespaces(nss), !.nss = nss, !.ver = v,
                              !.policy = policy, !.name = name]
           t == [s EXCEPT !.at = "execute", !.todo = s.todo \ {v}]
<1>1. /\ s.at = "process" /\ v \in s.todo /\ job[r].pc = "idle"
      /\ job' = [job EXCEPT ![r] = x] /\ sync' = [sync EXCEPT ![r] = t]
      /\ UNCHANGED <<clusterVars, store, heap, controllerVars, ruleSeen, ruleLag>>
  BY DEF AddAndExecute, Execute
<1>2. /\ job \in [Worker -> Job] /\ r \in Worker /\ s \in Sync /\ sync \in [RuleName -> Sync]
      /\ SyncSound(s) /\ Calm
  BY MovingParts, RuleParts
<1>3. /\ x.pc = AfterNamespaces(nss) /\ x.nss = nss /\ x.ver = v /\ x.policy = policy
      /\ x.name = name
  BY DEF NoJob
<1>4. /\ t.at = "execute" /\ t.rule = s.rule /\ t.targets = s.targets /\ t.done = s.done
  BY <1>2 DEF Sync
<1>5. Covers(s.rule.spec, k) /\ k.id.ns = s.rule.spec.ns
  BY <1>1, <1>2 DEF SyncSound, Covers
<1>6. \A n \in Aims(s) : n \in nss
  <2> SUFFICES ASSUME NEW n \in Aims(s) PROVE n \in nss
    OBVIOUS
  <2>1. n \in s.targets /\ n # k.id.ns /\ n \in Namespace /\ s.targets \in SUBSET Namespace
    BY <1>2, <1>5 DEF Aims, Sync
  <2>2. CanAutoMirrorToNamespace(policy, n)
    BY <2>1, RulePushesTo
  <2>3. n \in ListNamespaces
    BY <1>2, <2>1 DEF ListNamespaces, Calm
  <2>4. QED  BY <2>1, <2>2, <2>3
<1> HIDE DEF x, t, nss, policy, name
<1>7. job'[r] = x /\ sync'[r] = t /\ UNCHANGED log
  BY <1>1, <1>2 DEF clusterVars
<1>8. x.pc \in {"auto", "cleanup"} /\ (nss # {} => x.pc = "auto")
  BY <1>3 DEF AfterNamespaces
<1>9. CallReports(lost, r)'
  <2>1. SourceKey(r)' = k /\ SourceID(r)' = k.id
    BY <1>3, <1>7 DEF SourceKey, SourceID
  <2>2. \A n \in Aims(t) : n \in nss
    BY <1>4, <1>6 DEF Aims
  <2>3. \A n \in Aims(t) : Ahead(r, TargetID(r, n))'
    <3> SUFFICES ASSUME NEW n \in Aims(t) PROVE Ahead(r, TargetID(r, n))'
      OBVIOUS
    <3>1. TargetID(r, n)'.ns = n
      BY DEF TargetID
    <3>2. job'[r].pc = "auto" /\ n \in job'[r].nss
      BY <1>3, <1>7, <1>8, <2>2
    <3>3. QED  BY <3>1, <3>2 DEF Ahead
  <2>4. /\ x.policy = RulePolicy(t.targets) /\ Covers(t.rule.spec, k)
        /\ x.name = TransformTargetName(t.rule.spec, k.id.name)
    BY <1>3, <1>4, <1>5 DEF policy, name
  <2>5. QED  BY <1>4, <1>7, <1>8, <2>1, <2>3, <2>4 DEF CallReports
<1>10. SyncReports(lost, sync[r])'
  <2>1. Backs(lost, s.rule.spec, s.done, s.targets)
    BY <1>1, MovingParts DEF SyncReports
  <2>2. PICK new : new = t
    OBVIOUS
  <2>3. Backs(lost, new.rule.spec, new.done, new.targets)'
    BY <1>4, <2>1, <2>2, MovingParts, BacksStays
  <2>4. SyncReports(lost, new)'
    BY <1>4, <2>2, <2>3 DEF SyncReports
  <2>5. QED  BY <1>7, <2>2, <2>4
<1>11. Stored(r)' = Stored(r)
  BY <1>1 DEF Stored
<1>12. StatusReports(lost, Stored(r))'
  BY <1>11, StoredStays
<1>13. OthersIdle'
  BY <1>1, OthersStayIdle
<1>14. \A u \in RuleName : \A p \in Ptr : AtWork(u, p) => AtWork(u, p)'
  BY <1>1, MovingParts DEF AtWork
<1>15. VersionsKnown(lost)' /\ \A p \in Ptr : heap'[p].id # NoID => heap'[p].auto
  BY <1>1, <1>14, EngineStays
<1>16. \A u \in RuleName : u = r
  BY MovingParts
<1>17. QED  BY <1>9, <1>10, <1>12, <1>13, <1>15, <1>16 DEF Told

(* When it returns no target is ahead: all have got their copy.                *)
LEMMA DoneTells ==
    ASSUME NEW lost, Moving(lost), NEW r \in RuleName, ExecuteDone(r)
    PROVE  Told(lost)'
<1> DEFINE s == sync[r]
           k == SourceKey(r)
           t == [s EXCEPT !.at = "process", !.done = s.done \cup {k}]
<1>1. /\ s.at = "execute" /\ job[r].pc = "mirrors" /\ job[r].ptrs = {}
      /\ job' = [job EXCEPT ![r] = NoJob] /\ sync' = [sync EXCEPT ![r] = t]
      /\ UNCHANGED <<clusterVars, store, heap, controllerVars, ruleSeen, ruleLag>>
  BY DEF ExecuteDone, ExecuteReturns
<1>2. /\ job \in [Worker -> Job] /\ r \in Worker /\ s \in Sync /\ sync \in [RuleName -> Sync]
      /\ Grounds /\ Standing(lost)
  BY MovingParts, RuleParts
<1>3. /\ t.at = "process" /\ t.rule = s.rule /\ t.targets = s.targets
      /\ t.done = s.done \cup {k}
  BY <1>2 DEF Sync
<1>4. \A n \in Aims(s) : \/ RuleCopy(s.rule.spec, k, n) \in lost
                         \/ Copied(k, RuleCopy(s.rule.spec, k, n))
  <2> SUFFICES ASSUME NEW n \in Aims(s)
               PROVE  \/ RuleCopy(s.rule.spec, k, n) \in lost
                      \/ Copied(k, RuleCopy(s.rule.spec, k, n))
    OBVIOUS
  <2>1. Got(lost, r, TargetID(r, n))
    <3>1. ~Ahead(r, TargetID(r, n))
      BY <1>1 DEF Ahead
    <3>2. QED  BY <1>1, <1>2, <3>1, AimFacts
  <2>2. job[r].name = TransformTargetName(s.rule.spec, k.id.name) /\ k.id = SourceID(r)
    BY <1>1, <1>2, CallFacts DEF SourceID
  <2>3. RuleCopy(s.rule.spec, k, n) = [kind |-> k.kind, id |-> TargetID(r, n)]
    BY <2>2 DEF RuleCopy, TargetID
  <2>4. QED  BY <2>1, <2>2, <2>3 DEF Got, Written, Copied
<1>5. Backs(lost, t.rule.spec, t.done, t.targets)
  <2>1. Backs(lost, s.rule.spec, s.done, s.targets)
    BY <1>1, MovingParts DEF SyncReports
  <2>2. Covers(s.rule.spec, k)
    BY <1>1, <1>2, CallFacts
  <2> HIDE DEF k
  <2>3. QED  BY <1>3, <1>4, <2>1, <2>2 DEF Backs, Aims
<1> HIDE DEF t
<1>6. job'[r] = NoJob /\ NoJob.pc = "idle" /\ sync'[r] = t
  BY <1>1, <1>2 DEF NoJob
<1>7. CallReports(lost, r)'
  BY <1>3, <1>6, NoCallReports
<1>8. SyncReports(lost, sync[r])'
  <2>1. PICK new : new = t
    OBVIOUS
  <2>2. Backs(lost, new.rule.spec, new.done, new.targets)'
    BY <1>5, <2>1, MovingParts, BacksStays
  <2>3. SyncReports(lost, new)'
    BY <1>3, <2>1, <2>2 DEF SyncReports
  <2>4. QED  BY <1>6, <2>1, <2>3
<1>9. Stored(r)' = Stored(r)
  BY <1>1 DEF Stored
<1>10. StatusReports(lost, Stored(r))'
  BY <1>9, StoredStays
<1>11. OthersIdle'
  BY <1>1, OthersStayIdle
<1>12. \A u \in RuleName : \A p \in Ptr : AtWork(u, p) => AtWork(u, p)'
  BY <1>1, MovingParts DEF AtWork
<1>13. VersionsKnown(lost)' /\ \A p \in Ptr : heap'[p].id # NoID => heap'[p].auto
  BY <1>1, <1>12, EngineStays
<1>14. \A u \in RuleName : u = r
  BY MovingParts
<1>15. QED  BY <1>7, <1>8, <1>10, <1>11, <1>13, <1>14 DEF Told

LEMMA WorkJob ==
    ASSUME job \in [Worker -> Job], NEW r \in Worker, Work(r)
    PROVE  \A w \in Worker : w # r => job'[w] = job[w]
BY DEF Work, CreateAutoMirrorIfNotExists, CheckForConflicts, CreateAutoMirror,
   CleanupAutoMirrors, ForgetMirror, ListMirrors, ReadSource, Reflect, SetVersion, GetMirror,
   WriteMirror, WriteRejected, WriteFails, Go, NextMirror, NextNamespace

LEMMA WorkTells ==
    ASSUME NEW lost, Moving(lost), NEW r \in RuleName, Work(r),
           UNCHANGED <<controllerVars, ruleVars>>
    PROVE  Told(lost)'
<1>1. UNCHANGED <<sync, ruleSeen, ruleLag, stage, nsDrop>>
  BY DEF ruleVars, controllerVars
<1>2. CallReports(lost, r)' /\ VersionsKnown(lost)'
  BY <1>1, MovingParts, WorkGoesOn DEF Moving
<1>3. SyncReports(lost, sync[r])'
  BY <1>1, ReportsStay
<1>4. Stored(r)' = Stored(r)
  BY <1>1 DEF Stored
<1>5. StatusReports(lost, Stored(r))'
  BY <1>4, StoredStays
<1>6. \A p \in Ptr : heap'[p].id # NoID => heap'[p].auto
  BY MovingParts, WorkHeap, HeapAutomatic
<1>7. \A w \in Worker \ RuleName : job'[w] = job[w]
  BY MovingParts, WorkJob
<1>8. OthersIdle'
  BY <1>1, <1>7, MovingParts, IdleParts, StagesUntouched
<1>9. \A u \in RuleName : u = r
  BY MovingParts
<1>10. QED  BY <1>2, <1>3, <1>5, <1>6, <1>8, <1>9 DEF Told

LEMMA RestartTells ==
    ASSUME NEW lost, Moving(lost), RulesRestart
    PROVE  Told(lost)'
<1>1. /\ store' = [id \in ID |-> Nil] /\ heap' = [p \in Ptr |-> NoMirror]
      /\ job' = [w \in Worker |-> NoJob] /\ stage' = [w \in Request |-> NoStage]
      /\ nsDrop' = {} /\ ruleSeen' = [r \in RuleName |-> Stored(r)]
      /\ ruleLag' = [r \in RuleName |-> <<>>] /\ sync' = [r \in RuleName |-> NoSync]
  BY DEF RulesRestart, OperatorRestart, Restart
<1>2. OthersIdle'
  BY <1>1, NoStageHarmless DEF OthersIdle, NoJob
<1>3. VersionsKnown(lost)' /\ \A p \in Ptr : heap'[p].id # NoID => heap'[p].auto
  BY <1>1 DEF VersionsKnown, NoMirror
<1>4. ASSUME NEW r \in RuleName
      PROVE  CallReports(lost, r)' /\ SyncReports(lost, sync[r])' /\ StatusReports(lost, Stored(r))'
  <2>1. job'[r].pc = "idle" /\ sync'[r] = NoSync /\ Stored(r)' = Stored(r)
    BY <1>1, MovingParts DEF NoJob, Stored
  <2>2. sync'[r].at # "execute" /\ sync'[r].done = {}
    BY <2>1 DEF NoSync
  <2>3. QED  BY <2>1, <2>2, NoCallReports, NothingDone, StoredStays
<1>5. QED  BY <1>2, <1>3, <1>4 DEF Told

LEMMA StepTells ==
    ASSUME NEW lost, Moving(lost), [RulesNext]_rulesVars
    PROVE  Told(lost)'
<1>1. CASE UNCHANGED rulesVars
  <2>1. UNCHANGED <<store, heap, job, stage, nsDrop, sync, ruleSeen, ruleLag>>
    BY <1>1 DEF rulesVars, allVars, vars, engineVars, controllerVars, ruleVars
  <2>2. OthersIdle'
    BY <2>1, MovingParts, IdleParts, StagesUntouched
  <2>3. \A r \in RuleName : \A p \in Ptr : AtWork(r, p) => AtWork(r, p)'
    BY <2>1 DEF AtWork
  <2>4. /\ VersionsKnown(lost)' /\ \A p \in Ptr : heap'[p].id # NoID => heap'[p].auto
        /\ \A id \in ID : Registered(id) => Registered(id)'
    BY <2>1, <2>3, EngineStays
  <2>5. ASSUME NEW r \in RuleName
        PROVE  /\ CallReports(lost, r)' /\ SyncReports(lost, sync[r])'
               /\ StatusReports(lost, Stored(r))'
    <3>1. Stored(r)' = Stored(r)
      BY <2>1 DEF Stored
    <3>2. QED  BY <2>1, <2>4, <3>1, MovingParts, CallStays, ReportsStay, StoredStays
  <2>6. QED  BY <2>2, <2>4, <2>5 DEF Told
<1>2. ASSUME NEW r \in RuleName, RuleStep(r)
      PROVE  Told(lost)'
  BY <1>2, StartTells, TargetsTell, ListTells, ExecuteTells, DoneTells, UpdateTells, WorkTells
     DEF RuleStep
<1>3. QED
  BY <1>1, <1>2, ControllersTell, ApplyTells, DeleteTells, DeliveryTells, RestartTells
     DEF RulesNext

-----------------------------------------------------------------------------
(* The lost keys.                                                            *)

LEMMA KeysFinite == IsFiniteSet(Key)
<1> DEFINE T == {"Secret", "ConfigMap"} \X (Namespace \X Name)
           f == [k \in Key |-> <<k.kind, <<k.id.ns, k.id.name>>>>]
<1>1. IsFiniteSet({} \cup {"Secret"}) /\ IsFiniteSet(({} \cup {"Secret"}) \cup {"ConfigMap"})
  BY FS_EmptySet, FS_AddElement
<1>2. {"Secret", "ConfigMap"} = ({} \cup {"Secret"}) \cup {"ConfigMap"}
  OBVIOUS
<1>3. IsFiniteSet(T)
  BY <1>1, <1>2, PolicyAssumption, ResourcesAssumption, FS_Product
<1>4. \A k \in Key : f[k] \in T
  BY ResourcesAssumption DEF Key, ID
<1>5. \A k, l \in Key : f[k] = f[l] => k = l
  BY DEF Key, ID
<1>6. f \in [Key -> T]
  BY <1>4
<1> HIDE DEF f, T
<1>7. f \in Injection(Key, T)
  BY <1>5, <1>6 DEF Injection, IsInjective
<1>8. QED  BY <1>3, <1>7, FS_Injection

(* What is backed stays so when more is lost.                                *)
LEMMA MoreLost ==
    ASSUME NEW lost, NEW more, lost \subseteq more, Standing(lost)
    PROVE  Standing(more)
<1>1. \A source, c : Written(lost, source, c) => Written(more, source, c)
  BY DEF Written
<1>2. \A spec, done, targets : Backs(lost, spec, done, targets) => Backs(more, spec, done, targets)
  BY DEF Backs
<1>3. VersionsKnown(more)
  BY <1>1, ReportParts DEF VersionsKnown
<1>4. ASSUME NEW r \in RuleName
      PROVE  /\ CallReports(more, r) /\ SyncReports(more, sync[r])
             /\ StatusReports(more, Stored(r))
  <2>1. CallReports(lost, r) /\ SyncReports(lost, sync[r]) /\ StatusReports(lost, Stored(r))
    BY ReportParts
  <2>2. CallReports(more, r)
    BY <1>1, <2>1 DEF CallReports, Got
  <2>3. QED  BY <1>2, <2>1, <2>2 DEF SyncReports, StatusReports
<1>5. QED  BY <1>3, <1>4, ReportParts DEF Standing, ReportsBut

LEMMA StandingNext ==
    ASSUME NEW lost, Grounds, Standing(lost), Grounds', [RulesNext]_rulesVars,
           \A r \in RuleName : WriteFails(r) => MirrorKey(r) \in lost
    PROVE  Standing(lost)'
<1>1. [Next]_vars
  BY GroundParts, RulesNextKeeps DEF RulesKeep, Keeps
<1>2. Moving(lost)
  BY <1>1 DEF Moving
<1>3. Told(lost)'
  BY <1>2, StepTells
<1>4. Calm' /\ LogKnown' /\ \A i \in 1..Len(log') : log'[i].from # NoID => log'[i].auto
  BY <1>1, <1>2, MovingParts, ReportParts, CalmNext, LogKnownNext, LogAutomatic
<1>5. AllAutomatic'
  BY <1>3, <1>4 DEF Told, AllAutomatic
<1>6. Trusted'
  BY ReportParts
<1>7. QED  BY <1>3, <1>4, <1>5, <1>6 DEF Told, Standing, ReportsBut

(* A failing write is paid for.                                              *)
LEMMA FailedGrows ==
    ASSUME EngineInv, EngineInv', [Next]_vars
    PROVE  /\ Failed \in Int /\ Failed' \in Int /\ Failed <= Failed'
           /\ \A r \in RuleName : WriteFails(r) => Failed' = Failed + 1
<1>1. /\ "fault" \in Disturbance /\ budget \in [Disturbance -> Nat]
      /\ budget' \in [Disturbance -> Nat] /\ Budget["fault"] \in Nat
  BY Parts, ClusterAssumption DEF EngineInv, EngineTypes, ClusterTypeOK, Disturbance
<1>2. budget'["fault"] <= budget["fault"]
  BY <1>1, BudgetSteps DEF Spend
<1>3. \A r \in RuleName : WriteFails(r) => budget'["fault"] = budget["fault"] - 1
  BY <1>1 DEF WriteFails, Spend
<1>4. QED  BY <1>1, <1>2, <1>3 DEF Failed

LEMMA ReportingNext ==
    ASSUME Grounds, Reporting, Grounds', [RulesNext]_rulesVars
    PROVE  Reporting'
<1>1. [Next]_vars /\ EngineInv /\ EngineInv'
  BY GroundParts, RulesNextKeeps DEF RulesKeep, Keeps, Grounds, RulesReasonState, ReasonState
<1>2. PICK lost \in SUBSET Key : Cardinality(lost) <= Failed /\ Standing(lost)
  BY DEF Reporting, Standing
<1>3. IsFiniteSet(lost) /\ Cardinality(lost) \in Nat
  BY <1>2, KeysFinite, FS_Subset, FS_CardinalityType
<1>4. ASSUME NEW more \in SUBSET Key, Cardinality(more) <= Failed', Standing(more)'
      PROVE  Reporting'
  BY <1>4 DEF Reporting, Standing
<1>5. CASE \A r \in RuleName : ~WriteFails(r)
  <2>1. Standing(lost)'
    BY <1>2, <1>5, StandingNext
  <2>2. Cardinality(lost) <= Failed'
    BY <1>1, <1>2, <1>3, FailedGrows
  <2>3. QED  BY <1>4, <2>1, <2>2
<1>6. ASSUME NEW r \in RuleName, WriteFails(r)
      PROVE  Reporting'
  <2>1. PICK c : c = MirrorKey(r)
    OBVIOUS
  <2> DEFINE more == lost \cup {c}
  <2>2. c \in Key
    <3>1. r \in Worker /\ job[r].pc = "write"
      BY <1>6, RuleIsWorker DEF WriteFails
    <3>2. QED  BY <1>1, <2>1, <3>1, InHand
  <2>3. Cardinality(more) <= Cardinality(lost) + 1 /\ Cardinality(more) \in Nat
    <3>1. Cardinality(more) = IF c \in lost THEN Cardinality(lost) ELSE Cardinality(lost) + 1
      BY <1>3, FS_AddElement
    <3>2. QED  BY <1>3, <3>1
  <2>4. lost \subseteq more /\ c \in more /\ more \in SUBSET Key
    BY <1>2, <2>2
  <2> HIDE DEF more
  <2>5. Standing(more)
    BY <1>2, <2>4, MoreLost
  <2>6. \A s \in RuleName : s = r
    BY <1>2, ReportParts, TrustedParts
  <2>7. \A s \in RuleName : WriteFails(s) => MirrorKey(s) \in more
    BY <2>1, <2>4, <2>6
  <2>8. Standing(more)'
    BY <2>5, <2>7, StandingNext
  <2>9. Cardinality(more) <= Failed'
    BY <1>1, <1>2, <1>3, <1>6, <2>3, FailedGrows
  <2>10. QED  BY <1>4, <2>4, <2>8, <2>9
<1>7. QED  BY <1>5, <1>6

LEMMA ReportingInit ==
    ASSUME Trusted, RulesInit
    PROVE  Reporting
<1>1. /\ log = <<>> /\ phase = [n \in Namespace |-> "active"] /\ nsSeen = Namespace
      /\ budget = Budget /\ heap = [p \in Ptr |-> NoMirror]
      /\ job = [w \in Worker |-> NoJob] /\ stage = [w \in Request |-> NoStage]
      /\ nsDrop = {} /\ ruleSeen = [r \in RuleName |-> NoRule]
      /\ ruleLag = [r \in RuleName |-> <<>>] /\ sync = [r \in RuleName |-> NoSync]
  BY DEF RulesInit, ControllersInit, Init, ClusterInit, EngineInit, ControllerInit, RuleInit
<1>2. 1..Len(log) = {}
  BY <1>1
<1>3. Calm /\ LogKnown
  BY <1>1, <1>2, TrustedParts DEF Calm, LogKnown
<1>4. OthersIdle /\ AllAutomatic /\ VersionsKnown({})
  BY <1>1, <1>2, NoStageHarmless DEF OthersIdle, AllAutomatic, VersionsKnown, NoJob, NoMirror
<1>5. ASSUME NEW r \in RuleName
      PROVE  CallReports({}, r) /\ SyncReports({}, sync[r]) /\ StatusReports({}, Stored(r))
  <2>1. job[r].pc = "idle" /\ sync[r] = NoSync /\ Stored(r) = NoRule
    BY <1>1, RuleIsWorker DEF NoJob, Stored
  <2>2. QED  BY <2>1 DEF CallReports, SyncReports, StatusReports, NoSync
<1>6. Budget["fault"] \in Nat
  BY ClusterAssumption DEF Disturbance
<1>7. Cardinality({}) <= Failed
  BY <1>1, <1>6, FS_EmptySet DEF Failed
<1>8. QED  BY <1>3, <1>4, <1>5, <1>7 DEF Reporting, ReportsBut

-----------------------------------------------------------------------------
(* Theorems.                                                                 *)

(* The call of a rule loses none of its targets but the ones that a write     *)
(* failed for, and what a reconcile has ticked off and what a status lists  *)
(* has been copied into each target outside the namespace of the source:    *)
(* the steps of reconcileClusterReplicationRule and of Execute between the  *)
(* list of the resources and updateRuleStatus, whatever the mirror          *)
(* controllers, the watches, edits of the sources, tampering with copies,   *)
(* changes of the rule, failing writes and restarts do in between.          *)
THEOREM RulesKeepTheirWord ==
    ASSUME Trusted
    PROVE  RulesSpec => []Reporting
<1>1. RulesInit => Reporting
  BY ReportingInit
<1>2. Grounds /\ Reporting /\ Grounds' /\ [RulesNext]_rulesVars => Reporting'
  BY ReportingNext
<1>3. RulesSpec => []Grounds
  BY TrustedParts, GroundsInvariant
<1>4. QED  BY <1>1, <1>2, <1>3, PTL DEF RulesSpec

(* The namespace of the source never gets a copy from a rule.                *)
LEMMA OwnNeverMade ==
    ASSUME Trusted, Grounds, NEW spec, NEW k \in Key, Covers(spec, k), NEW c,
           c = RuleCopy(spec, k, spec.ns)
    PROVE  ~Copied(k, c)
<1> SUFFICES ASSUME NEW i \in 1..Len(log), log[i].key = c, log[i].from = k.id
             PROVE  FALSE
  BY DEF Copied
<1>1. k.id \in ID /\ k.id # NoID
  BY KeyFields, ResourcesAssumption
<1>2. Reason(ruleSpecs, k.id, log[i].key.id)
  BY <1>1, GroundParts DEF LogReasoned
<1>3. log[i].key.id.ns # k.id.ns
  BY <1>1, <1>2, AskedByRule DEF ARuleAsks
<1>4. QED  BY <1>3 DEF RuleCopy, Covers

(* What a rule reports for its current generation is out by exactly the      *)
(* namespace of the source and at most one copy for each failed write:      *)
(* updateRuleStatus counts MirroredToCount targets for every resource,      *)
(* though Execute skips the first and returns no error for the others.      *)
THEOREM StatusIsExplained ==
    ASSUME Trusted
    PROVE  RulesSpec => []StatusCounts
<1>1. Grounds /\ Reporting => StatusCounts
  <2> SUFFICES ASSUME Grounds, Reporting, NEW r \in RuleName, Stored(r) # NoRule,
                      Stored(r).status.observed = Stored(r).generation
               PROVE  LET rule == Stored(r)
                          missing == NeverMade(rule.spec, rule.status)
                          own == {RuleCopy(rule.spec, k, rule.spec.ns) : k \in rule.status.synced}
                      IN  /\ rule.spec.ns \in rule.status.targets => own \subseteq missing
                          /\ Cardinality(missing \ own) <= Failed
    BY DEF StatusCounts
  <2> DEFINE rule == Stored(r)
             spec == rule.spec
             status == rule.status
             missing == NeverMade(spec, status)
             own == {RuleCopy(spec, k, spec.ns) : k \in status.synced}
  <2>1. PICK lost \in SUBSET Key : Cardinality(lost) <= Failed /\ Standing(lost)
    BY DEF Reporting, Standing
  <2>2. Trusted /\ Backs(lost, spec, status.synced, status.targets)
    BY <2>1, ReportParts DEF StatusReports
  <2>3. \A k \in status.synced : k \in Key /\ Covers(spec, k)
    BY <2>2, GroundParts, StoredType DEF Backs, RuleObject, Status
  <2> HIDE DEF rule, spec, status
  <2>4. ASSUME spec.ns \in status.targets, NEW k \in status.synced
        PROVE  RuleCopy(spec, k, spec.ns) \in missing
    <3>1. ~Copied(k, RuleCopy(spec, k, spec.ns))
      BY <2>2, <2>3, <2>4, OwnNeverMade
    <3>2. <<k, spec.ns>> \in Counted(status)
      BY <2>4 DEF Counted
    <3>3. QED  BY <3>1, <3>2 DEF NeverMade
  <2>5. ASSUME NEW c \in missing, c \notin own PROVE c \in lost
    <3>1. PICK k \in status.synced, n \in status.targets :
             c = RuleCopy(spec, k, n) /\ ~Copied(k, RuleCopy(spec, k, n))
      BY <2>5 DEF NeverMade, Counted
    <3>2. n # spec.ns
      BY <2>5, <3>1
    <3>3. QED  BY <2>2, <3>1, <3>2 DEF Backs
  <2> HIDE DEF missing
  <2>6. missing \ own \in SUBSET lost
    BY <2>5
  <2>7. Cardinality(missing \ own) <= Failed
    <3>1. IsFiniteSet(lost) /\ IsFiniteSet(missing \ own)
      BY <2>1, <2>6, KeysFinite, FS_Subset
    <3>2. Cardinality(missing \ own) <= Cardinality(lost)
      BY <2>6, <3>1, FS_Subset
    <3>3. /\ Cardinality(missing \ own) \in Nat /\ Cardinality(lost) \in Nat
          /\ Failed \in Int
      <4>1. EngineInv
        BY GroundParts
      <4>2. budget["fault"] \in Nat /\ Budget["fault"] \in Nat
        BY <4>1, Parts, ClusterAssumption DEF Disturbance
      <4>3. QED  BY <3>1, <4>2, FS_CardinalityType DEF Failed
    <3>4. QED  BY <2>1, <3>2, <3>3
  <2>8. spec.ns \in status.targets => own \subseteq missing
    BY <2>4
  <2>9. QED  BY <2>7, <2>8 DEF missing, rule, spec, status
<1>2. RulesSpec => []Grounds
  BY TrustedParts, GroundsInvariant
<1>3. QED  BY <1>1, <1>2, RulesKeepTheirWord, PTL
==============================================================================
