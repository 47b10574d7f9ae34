-------------------------- MODULE ClusterRulesProofs --------------------------
(***************************************************************************)
(* The operator with its ClusterReplicationRule controller: the rules are  *)
(* one more caller that ReflectResources allows, so the contract of the    *)
(* engine holds with them too, and a reconcile of a rule only ever works   *)
(* on what its rule covers.                                                *)
(***************************************************************************)
EXTENDS ClusterRules, ControllersProofs

-----------------------------------------------------------------------------
(* Rules.                                                                    *)

LEMMA RuleIsWorker == \A r \in RuleName : r \in Worker
BY RuleAssumption

LEMMA RuleParts ==
    ASSUME RulesInv
    PROVE  /\ \A r \in RuleName : /\ ruleSeen[r] \in RuleObject \cup {NoRule}
                                  /\ ruleLag[r] \in Seq(RuleObject \cup {NoRule})
                                  /\ sync[r] \in Sync /\ SyncSound(sync[r])
           /\ ruleSeen \in [RuleName -> RuleObject \cup {NoRule}]
           /\ ruleLag \in [RuleName -> Seq(RuleObject \cup {NoRule})]
           /\ ruleQueue \subseteq RuleName
           /\ sync \in [RuleName -> Sync] /\ ruleSpecs \subseteq Rule
BY DEF RulesInv, RuleTypeOK

LEMMA NoSyncSound == NoSync \in Sync /\ SyncSound(NoSync)
BY DEF NoSync, Sync, SyncSound

(* The stored rule is a rule or none.                                        *)
LEMMA StoredType ==
    ASSUME RulesInv, NEW r \in RuleName
    PROVE  Stored(r) \in RuleObject \cup {NoRule}
BY RuleParts DEF Stored

(* A write of a rule.                                                        *)
LEMMA WriteType ==
    ASSUME RulesInv, NEW r \in RuleName, NEW object \in RuleObject \cup {NoRule},
           Write(r, object)
    PROVE  ruleLag' \in [RuleName -> Seq(RuleObject \cup {NoRule})]
BY RuleParts DEF Write

(* What a reconcile has listed stays listed while the cluster advances.      *)
LEMMA SyncKept ==
    ASSUME EngineInv, EngineInv', Advances, NEW s \in Sync, SyncSound(s)
    PROVE  /\ s.at # "idle" => s.rule # NoRule /\ s.rule.spec.sourceOK
           /\ s.at \notin {"idle", "targets"} =>
                 /\ s.rule.spec.targetOK
                 /\ \E nss \in SUBSET Namespace : s.targets = TargetNamespaces(s.rule.spec, nss)
           /\ s.at # "idle" =>
                 \A v \in s.todo : /\ v \in 1..Len(log') /\ log'[v].live
                                   /\ v <= seen'[log'[v].key]
                                   /\ Covers(s.rule.spec, log'[v].key)
<1>1. s.at # "idle" =>
        \A v \in s.todo : /\ v \in 1..Len(log') /\ log'[v].live
                          /\ v <= seen'[log'[v].key]
                          /\ Covers(s.rule.spec, log'[v].key)
  <2> SUFFICES ASSUME s.at # "idle", NEW v \in s.todo
               PROVE  /\ v \in 1..Len(log') /\ log'[v].live
                      /\ v <= seen'[log'[v].key]
                      /\ Covers(s.rule.spec, log'[v].key)
    OBVIOUS
  <2>1. /\ v \in 1..Len(log) /\ log[v].live /\ v <= seen[log[v].key]
        /\ Covers(s.rule.spec, log[v].key)
    BY DEF SyncSound
  <2>2. Len(log) \in Nat /\ Len(log') \in Nat /\ log'[v] = log[v] /\ v \in 1..Len(log')
    BY <2>1, Parts DEF Advances, EngineInv, EngineTypes, ClusterTypeOK
  <2>3. log[v].key \in Key
    BY <2>1, Parts, EntryFields
  <2>4. seen[log[v].key] \in Nat /\ seen'[log[v].key] \in Nat
    BY <2>3, Parts DEF EngineInv, EngineTypes, ClusterTypeOK
  <2>5. v <= seen'[log[v].key]
    BY <2>1, <2>3, <2>4 DEF Advances
  <2>6. QED  BY <2>1, <2>2, <2>5
<1>2. QED  BY <1>1 DEF SyncSound

(* SyncSound of the next state, for a reconcile that is where it was.        *)
LEMMA SyncStays ==
    ASSUME EngineInv, EngineInv', Advances, RulesInv, NEW r \in RuleName, sync'[r] = sync[r]
    PROVE  SyncSound(sync[r])'
<1>1. sync[r] \in Sync /\ SyncSound(sync[r])
  BY RuleParts
<1>2. QED  BY <1>1, SyncKept DEF SyncSound

(* A reconcile that moves on, while the others stay.                         *)
LEMMA SyncUpdate ==
    ASSUME EngineInv, EngineInv', Advances, RulesInv, NEW r \in RuleName, NEW s \in Sync,
           SyncSound(s), sync' = [sync EXCEPT ![r] = s],
           ruleSeen' \in [RuleName -> RuleObject \cup {NoRule}],
           ruleLag' \in [RuleName -> Seq(RuleObject \cup {NoRule})],
           ruleQueue' \subseteq RuleName, ruleSpecs' \subseteq Rule
    PROVE  RulesInv'
<1>1. /\ sync' \in [RuleName -> Sync] /\ sync'[r] = s
      /\ \A q \in RuleName : q # r => sync'[q] = sync[q]
  BY RuleParts
<1>2. SyncSound(sync[r])'
  BY <1>1, SyncKept DEF SyncSound
<1>3. ASSUME NEW q \in RuleName PROVE SyncSound(sync[q])'
  BY <1>1, <1>2, SyncStays
<1>4. QED  BY <1>1, <1>3 DEF RulesInv, RuleTypeOK

LEMMA SyncUnchanged ==
    ASSUME EngineInv, EngineInv', Advances, RulesInv, UNCHANGED sync,
           ruleSeen' \in [RuleName -> RuleObject \cup {NoRule}],
           ruleLag' \in [RuleName -> Seq(RuleObject \cup {NoRule})],
           ruleQueue' \subseteq RuleName, ruleSpecs' \subseteq Rule
    PROVE  RulesInv'
<1>1. \A q \in RuleName : SyncSound(sync[q])'
  BY SyncStays
<1>2. QED  BY <1>1, RuleParts DEF RulesInv, RuleTypeOK

-----------------------------------------------------------------------------
(* Every step of the rule controller is a step of the engine or none of its   *)
(* business, and keeps the invariants.                                       *)

RulesKeep == Keeps /\ RulesInv'

(* What a step of the engine brings.                                         *)
LEMMA KeepsMore ==
    ASSUME EngineInv, Keeps
    PROVE  EngineInv' /\ Advances
BY NextSafe, NextAdvances DEF Keeps

LEMMA NothingHappens ==
    ASSUME EngineInv, ControllerInv, UNCHANGED allVars
    PROVE  Keeps /\ EngineInv' /\ Advances
<1>1. Keeps
  BY ControllersStepKeeps
<1>2. QED  BY <1>1, KeepsMore

(* A user writes a rule, or the informer lists the rules again.              *)
LEMMA RuleDisturbance ==
    ASSUME EngineInv, ControllerInv, NEW d \in {"rule", "event"}, Spend(d),
           UNCHANGED <<log, head, seen, phase, nsSeen, engineVars, controllerVars>>
    PROVE  Keeps /\ EngineInv' /\ Advances
<1>1. Next
  BY DEF Next, Elsewhere, engineVars
<1>2. Keeps
  BY <1>1, ControllerParts, OtherStep DEF controllerVars
<1>3. QED  BY <1>2, KeepsMore

(* A write of the rule makes a reconcile that has read it stale.             *)
LEMMA StaleSound ==
    ASSUME NEW s \in Sync, SyncSound(s)
    PROVE  [s EXCEPT !.fresh = FALSE] \in Sync /\ SyncSound([s EXCEPT !.fresh = FALSE])
<1> DEFINE x == [s EXCEPT !.fresh = FALSE]
<1>1. /\ x \in Sync /\ x.at = s.at /\ x.rule = s.rule /\ x.targets = s.targets
      /\ x.todo = s.todo
  BY DEF Sync
<1> HIDE DEF x
<1>2. SyncSound(x)
  BY <1>1 DEF SyncSound
<1>3. QED  BY <1>1, <1>2 DEF x

LEMMA UserWritesRule ==
    ASSUME EngineInv, ControllerInv, RulesInv, NEW r \in RuleName,
           NEW object \in RuleObject \cup {NoRule}, Spend("rule"), Write(r, object),
           sync' = [sync EXCEPT ![r].fresh = FALSE],
           UNCHANGED <<log, head, seen, phase, nsSeen, engineVars, controllerVars,
                       ruleSeen, ruleQueue>>,
           ruleSpecs' \subseteq Rule
    PROVE  RulesKeep
<1> DEFINE s == [sync[r] EXCEPT !.fresh = FALSE]
<1>1. Keeps /\ EngineInv' /\ Advances
  BY RuleDisturbance
<1>2. s \in Sync /\ SyncSound(s) /\ sync' = [sync EXCEPT ![r] = s]
  BY RuleParts, StaleSound
<1> HIDE DEF s
<1>3. RulesInv'
  BY <1>1, <1>2, WriteType, RuleParts, SyncUpdate
<1>4. QED  BY <1>1, <1>3 DEF RulesKeep

LEMMA RuleApplyKeeps ==
    ASSUME EngineInv, ControllerInv, RulesInv, NEW r \in RuleName, NEW spec \in Rule,
           RuleApply(r, spec)
    PROVE  RulesKeep
<1> DEFINE old == Stored(r)
           status == IF old = NoRule THEN NoStatus ELSE old.status
           object == [generation |-> old.generation + 1, spec |-> spec, status |-> status]
<1>1. /\ Spend("rule") /\ Write(r, object) /\ sync' = [sync EXCEPT ![r].fresh = FALSE]
      /\ UNCHANGED <<log, head, seen, phase, nsSeen, engineVars, controllerVars,
                     ruleSeen, ruleQueue>>
      /\ ruleSpecs' \subseteq Rule
  BY RuleParts DEF RuleApply
<1>2. old \in RuleObject \cup {NoRule}
  BY StoredType
<1>3. NoStatus \in Status
  BY DEF NoStatus, Status
<1>4. old.generation \in Nat /\ status \in Status
  BY <1>2, <1>3 DEF RuleObject, NoRule
<1> HIDE DEF old, status
<1>5. object \in RuleObject
  BY <1>4 DEF RuleObject
<1> HIDE DEF object
<1>6. QED  BY <1>1, <1>5, UserWritesRule

LEMMA RuleDeleteKeeps ==
    ASSUME EngineInv, ControllerInv, RulesInv, NEW r \in RuleName, RuleDelete(r)
    PROVE  RulesKeep
BY UserWritesRule, RuleParts DEF RuleDelete

LEMMA RuleEventKeeps ==
    ASSUME EngineInv, ControllerInv, RulesInv, NEW r \in RuleName, RuleEvent(r)
    PROVE  RulesKeep
<1>1. /\ ruleLag[r] # <<>> /\ ruleSeen' = [ruleSeen EXCEPT ![r] = Head(ruleLag[r])]
      /\ ruleLag' = [ruleLag EXCEPT ![r] = Tail(ruleLag[r])]
      /\ ruleQueue' = ruleQueue \cup {r} /\ UNCHANGED <<allVars, sync, ruleSpecs>>
  BY DEF RuleEvent
<1>2. Keeps /\ EngineInv' /\ Advances
  BY <1>1, NothingHappens
<1>3. /\ Head(ruleLag[r]) \in RuleObject \cup {NoRule}
      /\ Tail(ruleLag[r]) \in Seq(RuleObject \cup {NoRule})
  BY <1>1, RuleParts
<1>4. /\ ruleSeen' \in [RuleName -> RuleObject \cup {NoRule}]
      /\ ruleLag' \in [RuleName -> Seq(RuleObject \cup {NoRule})]
  BY <1>1, <1>3, RuleParts
<1>5. RulesInv'
  BY <1>1, <1>2, <1>4, RuleParts, SyncUnchanged
<1>6. QED  BY <1>2, <1>5 DEF RulesKeep

LEMMA RuleResyncKeeps ==
    ASSUME EngineInv, ControllerInv, RulesInv, NEW r \in RuleName, RuleResync(r)
    PROVE  RulesKeep
<1>1. /\ Spend("event") /\ ruleQueue' = ruleQueue \cup {r}
      /\ UNCHANGED <<log, head, seen, phase, nsSeen, engineVars, controllerVars>>
      /\ UNCHANGED <<ruleSeen, ruleLag, sync, ruleSpecs>>
  BY DEF RuleResync
<1>2. Keeps /\ EngineInv' /\ Advances
  BY <1>1, RuleDisturbance
<1>3. RulesInv'
  BY <1>1, <1>2, RuleParts, SyncUnchanged
<1>4. QED  BY <1>2, <1>3 DEF RulesKeep

-----------------------------------------------------------------------------
(* Reconcile.                                                                *)

(* A step of a reconcile that touches nothing else.                          *)
LEMMA RuleLocal ==
    ASSUME EngineInv, ControllerInv, RulesInv, NEW r \in RuleName, NEW s \in Sync,
           SyncSound(s), sync' = [sync EXCEPT ![r] = s],
           UNCHANGED <<allVars, ruleSeen, ruleSpecs>>, ruleQueue' \subseteq RuleName,
           ruleLag' \in [RuleName -> Seq(RuleObject \cup {NoRule})]
    PROVE  RulesKeep
<1>1. Keeps /\ EngineInv' /\ Advances
  BY NothingHappens
<1>2. RulesInv'
  BY <1>1, RuleParts, SyncUpdate
<1>3. QED  BY <1>1, <1>2 DEF RulesKeep

LEMMA RuleStartKeeps ==
    ASSUME EngineInv, ControllerInv, RulesInv, NEW r \in RuleName, RuleStart(r)
    PROVE  RulesKeep
<1> DEFINE rule == ruleSeen[r]
           fresh == (ruleLag[r] = <<>>)
           s == [NoSync EXCEPT !.at = "targets", !.rule = rule, !.fresh = fresh]
<1>1. /\ ruleQueue' = ruleQueue \ {r} /\ UNCHANGED <<allVars, ruleSeen, ruleLag, ruleSpecs>>
      /\ \/ UNCHANGED sync
         \/ rule # NoRule /\ rule.spec.sourceOK /\ sync' = [sync EXCEPT ![r] = s]
  BY DEF RuleStart
<1>2. rule \in RuleObject \cup {NoRule} /\ fresh \in BOOLEAN
  BY RuleParts
<1> HIDE DEF rule, fresh
<1>3. s \in Sync /\ s.at = "targets" /\ s.rule = rule /\ s.todo = {}
  BY <1>2 DEF NoSync, Sync
<1> HIDE DEF s
<1>4. CASE UNCHANGED sync
  <2>1. Keeps /\ EngineInv' /\ Advances
    BY <1>1, NothingHappens
  <2>2. RulesInv'
    BY <1>1, <1>4, <2>1, RuleParts, SyncUnchanged
  <2>3. QED  BY <2>1, <2>2 DEF RulesKeep
<1>5. CASE rule # NoRule /\ rule.spec.sourceOK /\ sync' = [sync EXCEPT ![r] = s]
  <2>1. SyncSound(s)
    BY <1>3, <1>5 DEF SyncSound
  <2>2. QED  BY <1>1, <1>3, <1>5, <2>1, RuleParts, RuleLocal
<1>6. QED  BY <1>1, <1>4, <1>5

LEMMA DetermineTargetsKeeps ==
    ASSUME EngineInv, ControllerInv, RulesInv, NEW r \in RuleName, DetermineTargets(r)
    PROVE  RulesKeep
<1> DEFINE spec == sync[r].rule.spec
           targets == TargetNamespaces(spec, ListNamespaces)
           types == ProcessedTypes(spec)
           s == [sync[r] EXCEPT !.at = "process", !.targets = targets, !.types = types]
<1>1. /\ sync[r].at = "targets" /\ UNCHANGED <<allVars, ruleSeen, ruleLag, ruleSpecs>>
      /\ ruleQueue' \in {ruleQueue, ruleQueue \cup {r}}
      /\ \/ spec.targetOK /\ sync' = [sync EXCEPT ![r] = s]
         \/ sync' = [sync EXCEPT ![r] = NoSync]
  BY DEF DetermineTargets
<1>2. /\ sync[r] \in Sync /\ SyncSound(sync[r]) /\ ListNamespaces \in SUBSET Namespace
  BY RuleParts, Parts DEF ListNamespaces, ClusterTypeOK
<1>3. targets \in SUBSET Namespace /\ types \in SUBSET Kind
  BY <1>2, TargetsAreNamespaces DEF ProcessedTypes
<1>4. \E nss \in SUBSET Namespace : targets = TargetNamespaces(spec, nss)
  BY <1>2
<1> HIDE DEF targets, types
<1>5. /\ s \in Sync /\ s.at = "process" /\ s.rule = sync[r].rule /\ s.targets = targets
      /\ s.todo = sync[r].todo
  BY <1>2, <1>3 DEF Sync
<1> HIDE DEF s
<1>6. spec.targetOK => SyncSound(s)
  BY <1>1, <1>2, <1>4, <1>5 DEF SyncSound
<1>7. QED  BY <1>1, <1>5, <1>6, NoSyncSound, RuleParts, RuleLocal

LEMMA ListResourcesKeeps ==
    ASSUME EngineInv, ControllerInv, RulesInv, NEW r \in RuleName, NEW type \in Kind,
           ListResources(r, type)
    PROVE  RulesKeep
<1> DEFINE spec == sync[r].rule.spec
           todo == Listing(spec, type)
           s == [sync[r] EXCEPT !.types = sync[r].types \ {type}, !.todo = todo]
<1>1. /\ sync[r].at = "process" /\ UNCHANGED <<allVars, ruleSeen, ruleLag, ruleQueue, ruleSpecs>>
      /\ sync' = [sync EXCEPT ![r] = s]
  BY DEF ListResources
<1>2. ASSUME NEW v \in todo
      PROVE  /\ v \in 1..Len(log) /\ log[v].live /\ v <= seen[log[v].key]
             /\ Covers(spec, log[v].key)
  <2>1. PICK k \in Key : v = seen[k] /\ Covers(spec, k) /\ IsPlain(seen[k])
    BY DEF Listing
  <2>2. v \in 1..Len(log) /\ log[v].live /\ log[v].key = k
    BY <2>1, Parts DEF IsPlain, Live, CacheSound
  <2>3. QED  BY <2>1, <2>2
<1>3. todo \subseteq Nat
  BY <1>2
<1> HIDE DEF todo
<1>4. sync[r] \in Sync /\ SyncSound(sync[r])
  BY RuleParts
<1>5. /\ s \in Sync /\ s.at = "process" /\ s.rule = sync[r].rule
      /\ s.targets = sync[r].targets /\ s.todo = todo
  BY <1>1, <1>3, <1>4 DEF Sync
<1> HIDE DEF s
<1>6. SyncSound(s)
  BY <1>1, <1>2, <1>4, <1>5 DEF SyncSound
<1>7. QED  BY <1>1, <1>5, <1>6, RuleParts, RuleLocal

(* The call of Execute for a listed revision: the Source is one that the rule *)
(* stands for and the target name is a name, so the engine allows the call.  *)
LEMMA AddAndExecuteKeeps ==
    ASSUME EngineInv, ControllerInv, RulesInv, NEW r \in RuleName, NEW v \in 1..Len(log),
           AddAndExecute(r, v)
    PROVE  RulesKeep
<1> DEFINE rename == sync[r].rule.spec.rename
           name == rename[log[v].key.id.name]
           s == [sync[r] EXCEPT !.at = "execute", !.todo = sync[r].todo \ {v}]
<1>1. /\ sync[r].at = "process" /\ v \in sync[r].todo
      /\ Execute(r, v, RulePolicy(sync[r].targets), name)
      /\ sync' = [sync EXCEPT ![r] = s]
      /\ UNCHANGED <<controllerVars, ruleSeen, ruleLag, ruleQueue, ruleSpecs>>
  BY DEF AddAndExecute, TransformTargetName
<1>2. sync[r] \in Sync /\ SyncSound(sync[r])
  BY RuleParts
<1>3. name \in Name
  <2>1. sync[r].rule \in RuleObject
    BY <1>1, <1>2 DEF Sync, SyncSound
  <2>2. rename \in [Name -> Name]
    BY <2>1, ResourcesAssumption DEF RuleObject, RuleSpec
  <2>3. log[v].key.id.name \in Name
    BY Parts, EntryFields, KeyFields
  <2>4. QED  BY <2>2, <2>3
<1> HIDE DEF name
<1>4. Next
  <2>1. sync[r].rule.spec \in Rule
    BY <1>1, <1>2 DEF Sync, SyncSound, RuleObject
  <2>2. /\ log[v].live /\ v <= seen[log[v].key] /\ Covers(sync[r].rule.spec, log[v].key)
        /\ \E nss \in SUBSET Namespace :
              sync[r].targets = TargetNamespaces(sync[r].rule.spec, nss)
    BY <1>1, <1>2 DEF SyncSound
  <2>3. RulePolicy(sync[r].targets) \in RulePolicies(log[v].key)
    BY <2>1, <2>2 DEF RulePolicies
  <2>4. RulePolicy(sync[r].targets).replicate
    BY DEF RulePolicy
  <2>5. RulePolicy(sync[r].targets) \in Sources(log[v])
    BY <2>3, <2>4 DEF Sources
  <2>6. IsSourceOf(RulePolicy(sync[r].targets), v)
    BY <2>2, <2>5 DEF IsSourceOf
  <2>7. QED  BY <1>1, <1>3, <2>5, <2>6, RuleIsWorker DEF Next
<1>5. Keeps
  BY <1>1, <1>4, ControllerParts, OtherStep DEF controllerVars
<1>6. EngineInv' /\ Advances
  BY <1>5, KeepsMore
<1>7. /\ s \in Sync /\ s.at = "execute" /\ s.rule = sync[r].rule
      /\ s.targets = sync[r].targets /\ s.todo = sync[r].todo \ {v}
  BY <1>2 DEF Sync
<1> HIDE DEF s
<1>8. SyncSound(s)
  BY <1>1, <1>2, <1>7 DEF SyncSound
<1>9. RulesInv'
  BY <1>1, <1>6, <1>7, <1>8, RuleParts, SyncUpdate
<1>10. QED  BY <1>5, <1>9 DEF RulesKeep

LEMMA ExecuteDoneKeeps ==
    ASSUME EngineInv, ControllerInv, RulesInv, NEW r \in RuleName, ExecuteDone(r)
    PROVE  RulesKeep
<1> DEFINE s == [sync[r] EXCEPT !.at = "process", !.done = sync[r].done \cup {SourceKey(r)}]
<1>1. /\ sync[r].at = "execute" /\ ExecuteReturns(r) /\ sync' = [sync EXCEPT ![r] = s]
      /\ UNCHANGED <<controllerVars, ruleSeen, ruleLag, ruleQueue, ruleSpecs>>
  BY DEF ExecuteDone
<1>2. sync[r] \in Sync /\ SyncSound(sync[r])
  BY RuleParts
<1>3. SourceKey(r) \in Key
  BY <1>1, RuleIsWorker, SourceFacts DEF ExecuteReturns
<1>4. Next
  BY <1>1, RuleIsWorker DEF Next
<1>5. Keeps
  BY <1>1, <1>4, ControllerParts, OtherStep DEF controllerVars
<1>6. EngineInv' /\ Advances
  BY <1>5, KeepsMore
<1>7. /\ s \in Sync /\ s.at = "process" /\ s.rule = sync[r].rule
      /\ s.targets = sync[r].targets /\ s.todo = sync[r].todo
  BY <1>2, <1>3 DEF Sync
<1> HIDE DEF s
<1>8. SyncSound(s)
  BY <1>1, <1>2, <1>7 DEF SyncSound
<1>9. RulesInv'
  BY <1>1, <1>6, <1>7, <1>8, RuleParts, SyncUpdate
<1>10. QED  BY <1>5, <1>9 DEF RulesKeep

LEMMA UpdateRuleStatusKeeps ==
    ASSUME EngineInv, ControllerInv, RulesInv, NEW r \in RuleName, UpdateRuleStatus(r)
    PROVE  RulesKeep
<1>1. /\ sync[r].at = "process" /\ sync' = [sync EXCEPT ![r] = NoSync]
      /\ UNCHANGED <<allVars, ruleSeen, ruleQueue, ruleSpecs>>
  BY DEF UpdateRuleStatus
<1>2. /\ sync[r].rule \in RuleObject /\ sync[r].done \subseteq Key
      /\ sync[r].targets \subseteq Namespace
  BY <1>1, RuleParts DEF Sync, SyncSound
<1>3. ruleLag' \in [RuleName -> Seq(RuleObject \cup {NoRule})]
  <2> DEFINE status(second) == [observed |-> sync[r].rule.generation, synced |-> sync[r].done,
                                targets |-> sync[r].targets, second |-> second]
  <2>1. PICK second \in {0, 1} :
           \/ Write(r, [sync[r].rule EXCEPT !.status = status(second)])
           \/ UNCHANGED ruleLag
    BY DEF UpdateRuleStatus
  <2>2. status(second) \in Status
    BY <1>2 DEF RuleObject, Status
  <2> HIDE DEF status
  <2>3. [sync[r].rule EXCEPT !.status = status(second)] \in RuleObject
    BY <1>2, <2>2 DEF RuleObject
  <2>4. QED  BY <2>1, <2>3, WriteType, RuleParts
<1>4. QED  BY <1>1, <1>3, NoSyncSound, RuleParts, RuleLocal

LEMMA RuleStepKeeps ==
    ASSUME EngineInv, ControllerInv, RulesInv, NEW r \in RuleName, RuleStep(r)
    PROVE  RulesKeep
<1>1. CASE Work(r) /\ UNCHANGED <<controllerVars, ruleVars>>
  <2>1. Next
    BY <1>1, RuleIsWorker DEF Next
  <2>2. Keeps
    BY <1>1, <2>1, ControllerParts, OtherStep DEF controllerVars
  <2>3. EngineInv' /\ Advances
    BY <2>2, KeepsMore
  <2>4. RulesInv'
    BY <1>1, <2>3, RuleParts, SyncUnchanged DEF ruleVars
  <2>5. QED  BY <2>2, <2>4 DEF RulesKeep
<1>2. QED
  BY <1>1, RuleStartKeeps, DetermineTargetsKeeps, ListResourcesKeeps, AddAndExecuteKeeps,
     ExecuteDoneKeeps, UpdateRuleStatusKeeps DEF RuleStep

LEMMA RulesRestartKeeps ==
    ASSUME EngineInv, ControllerInv, RulesInv, RulesRestart
    PROVE  RulesKeep
<1>1. /\ OperatorRestart /\ ruleSeen' = [r \in RuleName |-> Stored(r)]
      /\ ruleLag' = [r \in RuleName |-> <<>>]
      /\ ruleQueue' = {r \in RuleName : Stored(r) # NoRule}
      /\ sync' = [r \in RuleName |-> NoSync] /\ UNCHANGED ruleSpecs
  BY DEF RulesRestart
<1>2. Keeps
  BY <1>1, OperatorRestartKeeps
<1>3. \A r \in RuleName : SyncSound(sync[r])'
  BY <1>1 DEF NoSync, SyncSound
<1>4. RulesInv'
  BY <1>1, <1>3, StoredType, NoSyncSound, RuleParts DEF RulesInv, RuleTypeOK
<1>5. QED  BY <1>2, <1>4 DEF RulesKeep

LEMMA RulesNextKeeps ==
    ASSUME EngineInv, ControllerInv, RulesInv, [RulesNext]_rulesVars
    PROVE  RulesKeep
<1>1. CASE [ControllersStep]_allVars /\ UNCHANGED ruleVars
  <2>1. Keeps
    BY <1>1, ControllersStepKeeps
  <2>2. EngineInv' /\ Advances
    BY <2>1, KeepsMore
  <2>3. RulesInv'
    BY <1>1, <2>2, RuleParts, SyncUnchanged DEF ruleVars
  <2>4. QED  BY <2>1, <2>3 DEF RulesKeep
<1>2. CASE UNCHANGED rulesVars
  BY <1>1, <1>2 DEF rulesVars
<1>3. QED
  BY <1>1, <1>2, RuleApplyKeeps, RuleDeleteKeeps, RuleEventKeeps, RuleResyncKeeps,
     RuleStepKeeps, RulesRestartKeeps DEF RulesNext

-----------------------------------------------------------------------------
(* Theorems.                                                                 *)

LEMMA RulesInitKeeps == RulesInit => EngineInv /\ ControllerInv /\ RulesInv
<1> SUFFICES ASSUME RulesInit PROVE EngineInv /\ ControllerInv /\ RulesInv
  OBVIOUS
<1>1. EngineInv /\ ControllerInv
  BY InitSafe, ControllersInitKeeps DEF RulesInit, ControllersInit
<1>2. RulesInv
  BY NoSyncSound DEF RulesInit, RuleInit, RulesInv, RuleTypeOK
<1>3. QED  BY <1>1, <1>2

LEMMA RulesInvariant == RulesSpec => [](EngineInv /\ ControllerInv /\ RulesInv)
<1>1. EngineInv /\ ControllerInv /\ RulesInv /\ [RulesNext]_rulesVars
         => (EngineInv /\ ControllerInv /\ RulesInv)'
  BY RulesNextKeeps, NextSafe DEF RulesKeep, Keeps
<1>2. QED  BY <1>1, RulesInitKeeps, PTL DEF RulesSpec

(* In every reachable state a reconcile of                                   *)
(* ClusterReplicationRuleReconciler works for an admissible rule, towards    *)
(* the targets the rule had at some moment, on live revisions that the       *)
(* cache has reached of objects that the rule covers: whatever users,        *)
(* watches, restarts and the other controllers do meanwhile.                 *)
THEOREM RulesAreSound == RulesSpec => []RulesInv
<1>1. QED  BY RulesInvariant, PTL

(* The operator with rules is still one of the environments of               *)
(* ReflectResources.                                                         *)
THEOREM RulesImplementEngine == RulesSpec => Spec
<1>1. RulesInit => Init
  BY DEF RulesInit, ControllersInit
<1>2. EngineInv /\ ControllerInv /\ RulesInv /\ [RulesNext]_rulesVars => [Next]_vars
  BY RulesNextKeeps DEF RulesKeep, Keeps
<1>3. QED  BY <1>1, <1>2, RulesInvariant, PTL DEF RulesSpec, Spec

(* So the operator with rules writes honest copies only, of which a rule may *)
(* be the reason.                                                            *)
THEOREM RulesAreHonest == RulesSpec => MirrorsAreHonest
BY RulesImplementEngine, EngineImplementsContract, PTL DEF MirrorsAreHonest
==============================================================================
