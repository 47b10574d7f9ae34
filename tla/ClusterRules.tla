----------------------------- MODULE ClusterRules -----------------------------
(***************************************************************************)
(* ClusterReplicationRules: the objects, the admission webhook that guards *)
(* them, and ClusterReplicationRuleReconciler, which calls Execute for     *)
(* every resource that a rule covers and then writes the status of the     *)
(* rule. It runs beside the controllers of Controllers, on the same store. *)
(*                                                                         *)
(* Its watch has no predicate, so the status that a reconcile writes is an *)
(* event that starts the next one. The timestamps of a status have the     *)
(* resolution of a second: a status that is written again within one       *)
(* second and with the same content is the same object, and no event.      *)
(***************************************************************************)
EXTENDS Provenance

CONSTANT
    RuleName    \* the rules: each is the key of one request

ASSUME RuleAssumption == RuleName \subseteq Worker /\ RuleName \cap Request = {}

VARIABLES
    ruleSeen,   \* ruleSeen[r]: rule r as the informer cache has it
    ruleLag,    \* ruleLag[r]: the later states of r that the watch has yet to deliver
    ruleQueue,  \* the rules with a pending request
    sync,       \* sync[r]: where the Reconcile of rule r stands
    ruleSpecs   \* history: the specs of all rules that have ever been stored

ruleVars == <<ruleSeen, ruleLag, ruleQueue, sync, ruleSpecs>>

rulesVars == <<allVars, ruleVars>>

(* A status: the generation of the rule that it is about (0 in a rule that *)
(* has none yet), the resources it lists as synced, the namespaces it      *)
(* counts as their targets, and which of two successive seconds it is of.  *)
Status == [observed: Nat, synced: SUBSET Key, targets: SUBSET Namespace, second: {0, 1}]

NoStatus == [observed |-> 0, synced |-> {}, targets |-> {}, second |-> 0]

(* The API server counts the changes of spec as generations.                *)
RuleObject == [generation: Nat, spec: Rule, status: Status]

NoRule == [generation |-> 0]

(* The steps of a Reconcile. rule: the object it read; fresh: nobody has   *)
(* written the rule since that revision; targets: its target namespaces;   *)
(* types: the resource types left to list; todo: the listed revisions left *)
(* to execute; done: the resources reported.                               *)
Sync == [at: {"idle", "targets", "process", "execute"},
         rule: RuleObject \cup {NoRule}, fresh: BOOLEAN,
         targets: SUBSET Namespace, types: SUBSET Kind, todo: SUBSET Nat,
         done: SUBSET Key]

NoSync == [at |-> "idle", rule |-> NoRule, fresh |-> FALSE, targets |-> {},
           types |-> {}, todo |-> {}, done |-> {}]

RuleTypeOK ==
    /\ ruleSeen \in [RuleName -> RuleObject \cup {NoRule}]
    /\ ruleLag \in [RuleName -> Seq(RuleObject \cup {NoRule})]
    /\ ruleQueue \subseteq RuleName
    /\ sync \in [RuleName -> Sync]
    /\ ruleSpecs \subseteq Rule

RuleInit ==
    /\ ruleSeen = [r \in RuleName |-> NoRule]
    /\ ruleLag = [r \in RuleName |-> <<>>]
    /\ ruleQueue = {}
    /\ sync = [r \in RuleName |-> NoSync]
    /\ ruleSpecs = {}

-----------------------------------------------------------------------------
(* The API server and the webhook.                                           *)

Stored(r) == IF ruleLag[r] = <<>> THEN ruleSeen[r] ELSE ruleLag[r][Len(ruleLag[r])]

Write(r, object) == ruleLag' = [ruleLag EXCEPT ![r] = Append(@, object)]

(* A user creates a rule or changes its spec.                                *)
RuleApply(r, spec) ==
    /\ Spend("rule")
    /\ ValidateRule(spec)
    /\ LET old == Stored(r)
       IN  /\ old # NoRule => old.spec # spec
           /\ Write(r, [generation |-> old.generation + 1, spec |-> spec,
                        status |-> IF old = NoRule THEN NoStatus ELSE old.status])
    /\ sync' = [sync EXCEPT ![r].fresh = FALSE]
    /\ ruleSpecs' = ruleSpecs \cup {spec}
    /\ UNCHANGED <<log, head, seen, phase, nsSeen, engineVars, controllerVars,
                   ruleSeen, ruleQueue>>

RuleDelete(r) ==
    /\ Spend("rule")
    /\ Stored(r) # NoRule
    /\ Write(r, NoRule)
    /\ sync' = [sync EXCEPT ![r].fresh = FALSE]
    /\ UNCHANGED <<log, head, seen, phase, nsSeen, engineVars, controllerVars,
                   ruleSeen, ruleQueue, ruleSpecs>>

(* The watch delivers the next state of a rule: always a request.            *)
RuleEvent(r) ==
    /\ ruleLag[r] # <<>>
    /\ ruleSeen' = [ruleSeen EXCEPT ![r] = Head(ruleLag[r])]
    /\ ruleLag' = [ruleLag EXCEPT ![r] = Tail(@)]
    /\ ruleQueue' = ruleQueue \cup {r}
    /\ UNCHANGED <<allVars, sync, ruleSpecs>>

(* The periodic resync of the informer.                                      *)
RuleResync(r) ==
    /\ Spend("event")
    /\ ruleSeen[r] # NoRule
    /\ ruleQueue' = ruleQueue \cup {r}
    /\ UNCHANGED <<log, head, seen, phase, nsSeen, engineVars, controllerVars,
                   ruleSeen, ruleLag, sync, ruleSpecs>>

-----------------------------------------------------------------------------
(* Reconcile.                                                                *)

(* Mutant: a rule that is gone is not noticed.                               *)
RuleStartUnchecked(r) ==
    /\ r \in ruleQueue /\ sync[r].at = "idle"
    /\ ruleQueue' = ruleQueue \ {r}
    /\ sync' = [sync EXCEPT ![r] = [NoSync EXCEPT !.at = "targets",
                  !.rule = ruleSeen[r], !.fresh = ruleLag[r] = <<>>]]
    /\ UNCHANGED <<allVars, ruleSeen, ruleLag, ruleSpecs>>

(* The rule is read from the cache. One that is gone, or whose source        *)
(* cannot be told, needs nothing.                                          *)
RuleStart(r) ==
    /\ r \in ruleQueue /\ sync[r].at = "idle"
    /\ ruleQueue' = ruleQueue \ {r}
    /\ LET rule == ruleSeen[r]
       IN  IF rule # NoRule /\ rule.spec.sourceOK
           THEN sync' = [sync EXCEPT ![r] = [NoSync EXCEPT !.at = "targets",
                           !.rule = rule, !.fresh = ruleLag[r] = <<>>]]
           ELSE UNCHANGED sync
    /\ UNCHANGED <<allVars, ruleSeen, ruleLag, ruleSpecs>>

(* determineTargetNamespaces reads the namespaces from the cache. A target    *)
(* selector that does not compile is an error: the request comes back.     *)
DetermineTargets(r) ==
    /\ sync[r].at = "targets"
    /\ LET spec == sync[r].rule.spec
       IN  IF spec.targetOK
           THEN /\ sync' = [sync EXCEPT ![r] = [@ EXCEPT !.at = "process",
                              !.targets = TargetNamespaces(spec, ListNamespaces),
                              !.types = ProcessedTypes(spec)]]
                /\ ruleQueue' = ruleQueue
           ELSE /\ sync' = [sync EXCEPT ![r] = NoSync]
                /\ ruleQueue' = ruleQueue \cup {r}
    /\ UNCHANGED <<allVars, ruleSeen, ruleLag, ruleSpecs>>

(* What the loop over the listed objects keeps.                              *)
IsPlain(v) == Live(v) /\ ~IsHelm(v)

Listing(spec, type) ==
    {seen[k] : k \in {k \in Key : k.kind = type /\ Covers(spec, k) /\ IsPlain(seen[k])}}

(* processResourceTypeWithStats lists the resources of one type once, and     *)
(* works on what the list held.                                            *)
ListResources(r, type) ==
    /\ sync[r].at = "process" /\ sync[r].todo = {} /\ type \in sync[r].types
    /\ sync' = [sync EXCEPT ![r] = [@ EXCEPT !.types = sync[r].types \ {type},
                                             !.todo = Listing(sync[r].rule.spec, type)]]
    /\ UNCHANGED <<allVars, ruleSeen, ruleLag, ruleQueue, ruleSpecs>>

(* Mutant: a call that the limiter holds back is reported as made.           *)
AddAndExecuteRefused(r, v) ==
    /\ sync[r].at = "process" /\ v \in sync[r].todo
    /\ sync' = [sync EXCEPT ![r] = [@ EXCEPT !.todo = @ \ {v}, !.done = @ \cup {log[v].key}]]
    /\ UNCHANGED <<allVars, ruleSeen, ruleLag, ruleQueue, ruleSpecs>>

(* BatchProcessor.AddAndExecute: after the delay of RateLimiter.Wait, which   *)
(* goes ahead whatever Allow said, Execute is called with the Source made  *)
(* from the listed revision.                                               *)
AddAndExecute(r, v) ==
    /\ sync[r].at = "process" /\ v \in sync[r].todo
    /\ LET k == log[v].key
       IN  /\ Execute(r, v, RulePolicy(sync[r].targets),
                      TransformTargetName(sync[r].rule.spec, k.id.name))
           /\ sync' = [sync EXCEPT ![r] = [@ EXCEPT !.at = "execute",
                         !.todo = sync[r].todo \ {v}]]
    /\ UNCHANGED <<controllerVars, ruleSeen, ruleLag, ruleQueue, ruleSpecs>>

(* Execute returns no error for a mirror that it could not write: the         *)
(* resource is reported with every target.                                 *)
ExecuteDone(r) ==
    /\ sync[r].at = "execute"
    /\ ExecuteReturns(r)
    /\ sync' = [sync EXCEPT ![r] = [@ EXCEPT !.at = "process",
                  !.done = sync[r].done \cup {SourceKey(r)}]]
    /\ UNCHANGED <<controllerVars, ruleSeen, ruleLag, ruleQueue, ruleSpecs>>

(* updateRuleStatus: the update is accepted if nobody has written the rule    *)
(* since the revision that was read; otherwise its error is logged. One    *)
(* that changes nothing is no write.                                       *)
UpdateRuleStatus(r) ==
    /\ sync[r].at = "process" /\ sync[r].types = {} /\ sync[r].todo = {}
    /\ \E second \in {0, 1} :
          LET object == [sync[r].rule EXCEPT !.status =
                           [observed |-> sync[r].rule.generation, synced |-> sync[r].done,
                            targets |-> sync[r].targets, second |-> second]]
          IN  IF sync[r].fresh /\ object # Stored(r) THEN Write(r, object)
                                                     ELSE UNCHANGED ruleLag
    /\ sync' = [sync EXCEPT ![r] = NoSync]
    /\ UNCHANGED <<allVars, ruleSeen, ruleQueue, ruleSpecs>>

RuleStep(r) ==
    \/ RuleStart(r) \/ DetermineTargets(r)
    \/ \E type \in Kind : ListResources(r, type)
    \/ \E v \in 1..Len(log) : AddAndExecute(r, v)
    \/ ExecuteDone(r) \/ UpdateRuleStatus(r)
    \/ Work(r) /\ UNCHANGED <<controllerVars, ruleVars>>

-----------------------------------------------------------------------------
(* A restart drops the reconciles that are under way; the rules there are     *)
(* come with the first list.                                               *)
RulesRestart ==
    /\ OperatorRestart
    /\ ruleSeen' = [r \in RuleName |-> Stored(r)]
    /\ ruleLag' = [r \in RuleName |-> <<>>]
    /\ ruleQueue' = {r \in RuleName : Stored(r) # NoRule}
    /\ sync' = [r \in RuleName |-> NoSync]
    /\ UNCHANGED ruleSpecs

RulesInit == ControllersInit /\ RuleInit

RulesNext ==
    \/ ControllersStep /\ UNCHANGED ruleVars
    \/ \E r \in RuleName : RuleDelete(r) \/ RuleEvent(r) \/ RuleResync(r) \/ RuleStep(r)
    \/ \E r \in RuleName, spec \in Rule : RuleApply(r, spec)
    \/ RulesRestart

RulesSpec == RulesInit /\ [][RulesNext]_rulesVars

(* The workers of the rules keep running: all that RuleReaches needs.        *)
RuleFairness == \A r \in RuleName : WF_rulesVars(RuleStep(r))

RuleFairSpec == RulesSpec /\ RuleFairness

(* Besides, all watches deliver and the other workers keep running.          *)
FairRulesSpec ==
    /\ RuleFairSpec
    /\ \A r \in RuleName : WF_rulesVars(RuleEvent(r))
    /\ \A k \in Key : WF_rulesVars(Informer(k) /\ UNCHANGED ruleVars)
    /\ \A n \in Namespace :
          WF_rulesVars((InformerNamespace(n) \/ NamespaceReconcile(n)) /\ UNCHANGED ruleVars)
    /\ \A id \in ID : WF_rulesVars(NamespaceForget(id) /\ UNCHANGED ruleVars)
    /\ \A w \in Request : WF_rulesVars(ReconcileStep(w) /\ UNCHANGED ruleVars)

-----------------------------------------------------------------------------
(* The inductive invariant of the reconciles: one that is under way has an    *)
(* admissible rule, its targets are those of the rule among the namespaces *)
(* of some moment, and what it has listed are revisions that the cache has *)
(* reached, of objects that the rule covers. So AddAndExecute always hands *)
(* Execute a Source that the rule stands for, however long ago it was read. *)
SyncSound(s) ==
    s.at # "idle" =>
        /\ s.rule # NoRule /\ s.rule.spec.sourceOK
        /\ s.at # "targets" =>
              /\ s.rule.spec.targetOK
              /\ \E nss \in SUBSET Namespace : s.targets = TargetNamespaces(s.rule.spec, nss)
        /\ \A v \in s.todo : /\ v \in 1..Len(log) /\ log[v].live
                              /\ v <= seen[log[v].key] /\ Covers(s.rule.spec, log[v].key)

RulesInv == RuleTypeOK /\ \A r \in RuleName : SyncSound(sync[r])

(* Whatever rule the server, the watch, the cache or a reconcile holds has   *)
(* been stored, and the webhook has let it in.                               *)
Admitted(R, rule) == rule # NoRule => rule.spec \in R

AllAdmitted(R) ==
    \A r \in RuleName : /\ Admitted(R, ruleSeen[r]) /\ Admitted(R, sync[r].rule)
                        /\ \A i \in 1..Len(ruleLag[r]) : Admitted(R, ruleLag[r][i])

RulesAdmitted == ruleSpecs \subseteq Admissible /\ AllAdmitted(ruleSpecs)

-----------------------------------------------------------------------------
(* Properties.                                                               *)

RulesQuiet ==
    /\ Quiet
    /\ ruleQueue = {}
    /\ \A r \in RuleName : ruleLag[r] = <<>> /\ sync[r].at = "idle"

(* The copy of object k that a rule wants in namespace n.                   *)
RuleCopy(spec, k, n) ==
    [kind |-> k.kind, id |-> [ns |-> n, name |-> TransformTargetName(spec, k.id.name)]]

(* The operator has written a copy of k to key c at some time.              *)
Copied(k, c) ==
    \E i \in 1..Len(log) : log[i].key = c /\ log[i].by = "operator" /\ log[i].from = k.id

(* The mirrors that a status counts: MirroredToCount is the number of       *)
(* targets, for every resource, and the namespace of the source is one of  *)
(* the targets when the rule matches it.                                   *)
Counted(status) == status.synced \X status.targets

(* The copies among them that there have never been.                        *)
NeverMade(spec, status) ==
    {RuleCopy(spec, p[1], p[2]) :
        p \in {q \in Counted(status) : ~Copied(q[1], RuleCopy(spec, q[1], q[2]))}}

Failed == Budget["fault"] - budget["fault"]

(* By how much a status of the current generation may be out: of the        *)
(* mirrors that it counts, it is those in the namespace of the source that *)
(* have never been made, every one of them, and besides at most as many as *)
(* writes have failed; though the list, the targets and the rule were read *)
(* at different times and Execute reports neither kind.                    *)
StatusCounts ==
    \A r \in RuleName :
        LET rule == Stored(r)
            missing == NeverMade(rule.spec, rule.status)
            own == {RuleCopy(rule.spec, k, rule.spec.ns) : k \in rule.status.synced}
        IN  rule # NoRule /\ rule.status.observed = rule.generation =>
              /\ rule.spec.ns \in rule.status.targets => own \subseteq missing
              /\ Cardinality(missing \ own) <= Failed

(* What the operator wrote, at any time, it wrote where a revision of the   *)
(* source pushed it, where a user asked for it, or where a rule that had   *)
(* been stored by then asks for it, under the name the rule gives it: not  *)
(* in a namespace that is excluded, though the Source that a rule makes is *)
(* allowed everywhere and Execute writes whatever mirrors of it are        *)
(* registered, by whomever. When the rule is changed or deleted the copy   *)
(* stays, and goes on being written as long as it is registered.           *)
CopiesAreAskedFor ==
    \A i \in 1..Len(log) :
        log[i].by = "operator" => Reason(ruleSpecs, log[i].from, log[i].key.id)

(* A rule is the only reason there can be. An object that is opted in, or      *)
(* marked replicated-from, is registered by other controllers too, and a    *)
(* call for a rule writes what it finds registered; the store does not tell *)
(* a Secret from a ConfigMap of the same name.                              *)
RulesAlone ==
    /\ \A m \in Manifest : ~m.policy.replicate /\ m.from = NoID
    /\ Template = {}
    /\ \A a, b \in Kind : a = b

(* Rule r asks for a copy of k in n and there has been none.                *)
Owed(r, k, n) ==
    /\ ruleSeen[r] # NoRule /\ IsPlain(seen[k])
    /\ n # k.id.ns /\ Asks(ruleSeen[r].spec, k, n)
    /\ ~Copied(k, RuleCopy(ruleSeen[r].spec, k, n))

(* A pending request of a rule gets each covered object that the cache      *)
(* holds into each target of the rule, unless object or rule are changed   *)
(* or a write fails.                                                       *)
RuleReaches ==
    \A r \in RuleName, m \in Manifest : \A n \in Namespace \ {m.key.id.ns} :
        r \in ruleQueue /\ Owed(r, m.key, n) ~> ~Owed(r, m.key, n) \/ Failed > 0

-----------------------------------------------------------------------------
(* What the documentation says and the code does not do.                     *)

(* "When a source resource is created or updated, Replikator ... pushes it   *)
(* automatically out to namespaces matching centralized                    *)
(* ClusterReplicationRule CRDs": at rest the copies that a rule asks for   *)
(* are of the current revision.                                            *)
RuleFollowsSource ==
    RulesQuiet =>
        \A r \in {r \in RuleName : ruleSeen[r] # NoRule}, k \in Key, n \in Namespace :
            IsPlain(head[k]) /\ n # k.id.ns /\ Asks(ruleSeen[r].spec, k, n) =>
                LET h == head[RuleCopy(ruleSeen[r].spec, k, n)]
                IN  Live(h) /\ log[h].from = k.id /\ log[h].ver = head[k]

(* The design "eliminates the K8s API "death spiral" loop completely": once  *)
(* nobody disturbs it the operator comes to rest.                          *)
RulesComeToRest == <>[]RulesQuiet
==============================================================================
