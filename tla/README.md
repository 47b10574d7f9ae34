# Replikator in TLA+

Replikator is a Kubernetes operator that copies Secrets and ConfigMaps (the
*sources*) into other namespaces (as *mirrors*), as annotations on the source allow
or as ClusterReplicationRules ask. This directory models its replication engine,
all controllers that drive it, the rules with their webhook, and the watcher
package; it checks them with TLC on small instances and proves with TLAPS, for
instances of any size, that whatever the operator writes is an honest copy, that no
copy stands without a reason, that in orderly circumstances its mirrors become
current, that the store attributes each mirror to the right source unless two are after
it, by how much the status of a rule may be out, and that the event dispatcher keeps its
promise.

Paths below are relative to `src/app/internal/` unless they start with `src/`.

## 1. Inventory

| Component | State | Operations | Hard because |
|---|---|---|---|
| Replication policy (`domain/valueobject`, `domain/entity` Source) | none: pure | parse a list, `NewAllowedNamespaces`, `CanReflectToNamespace`, `CanAutoMirrorToNamespace` | a `*` or an item that does not compile ends the loop early; errors are discarded |
| Mirror store (`infrastructure/adapter/k8s` InMemoryMirrorStore) | map of MirrorID to `*Mirror` | Get, Create, Delete, GetBySourceID, ListByNamespace | pointers outlive their registration; `version` is not locked |
| ReflectResourcesUseCase, ReflectionService | locals of each call | `Execute` | called concurrently for one source with different revisions; reads a lagging cache; errors are swallowed |
| Source controllers, SourcePredicate | work queue, NotFoundCache | `Reconcile` | the cache is shared with the predicate and updated after the fetch |
| Mirror controllers, MirrorPredicate | work queue | `Reconcile` | run on the operator's own writes; register anew, then call `Execute` once per mirror |
| Certificate controller | work queue | `Reconcile` | a third caller of `Execute`, without the checks of the first two |
| Namespace controller | work queue (one worker) | `Reconcile`, `handleNamespaceDeletion` | races with calls that listed the namespaces earlier |
| Ingress controller | work queue | `Reconcile` | a further caller; lends a Secret the policy of the Ingress |
| ClusterReplicationRule controller | work queue, status of the rule, rate limiter | `Reconcile` | reads rule, namespaces and resources at different times; its status update is an event for itself; renames targets |
| Admission webhook | none: pure | `Handle` | the controller relies on what it refuses |
| Watch sessions (`watcher` SessionManager) | session, timeout | start, end, `IsSessionValid` | check and renewal are two calls |
| Event channel and dispatcher (`watcher`) | bounded channel, goroutines, stop channel | send, close, start, stop, dispatch | several select cases ready at once; closing twice; losing events |
| Federation, caches nothing reads, domain events, config, metrics | | | see section 8 |

How they interact: the informers deliver one revision of an object at a time to
the cache, to the predicates and, if those agree, to the work queues. Every
`Get` and `List` of the operator answers from that cache; `Create` and `Update`
go to the API server, which rejects a `Create` of what exists and an `Update`
of an old revision. The source, mirror, certificate, ingress and rule controllers
all end in `ReflectResourcesUseCase.Execute`, which registers automatic mirrors in the
store, drops registrations the policy no longer covers, and writes the rest.
Its writes come back as events of the mirrors. The operator keeps everything in
memory; a restart begins with a full list.

What makes it correct: a mirror is a copy of one state of its source, where the
policy allows it; when nothing is left to do the mirrors are current; the
cascade of writes and events ends; a failure stays where it is and a restart
repairs it; the store agrees with the cluster; a rule copies what it covers to where
it says, and reports what it did; a received event reaches every handler; there is
one session at a time.

The hazards are listed in `PROJECT.json` with the lines where they bite.

## 2. Modules

    ReplicationPolicy          policies, namespace lists           (pure)
      Resources                names, keys, revisions, rules
        MirrorContract         abstract: what may happen to the log of revisions
        Cluster                API server, informer cache, users   (external)
          ReflectResources     store and Execute, under any callers
            Controllers        queues, predicates, reconcilers, restart
              Convergence      why mirrors become current: the inductive invariant
                MCControllers  instances for TLC
              Provenance       why a copy stands where it stands
                ClusterRules   rules and their controller, beside Controllers
                  RuleReports  how far the status of a rule can be believed
                    MCClusterRules  (extends MCControllers too)
    EventDelivery              abstract: what a dispatcher promises
    EventDispatcher            channel, goroutines, handlers
    WatchSessions              sessions, main, NamespaceReconciler
      Watcher                  both, side by side (main constructs no dispatcher)
    ReflectResourcesProofs, ControllersProofs, OrderlyProofs, ConvergenceProofs,
    ClusterRulesProofs, ProvenanceProofs, RuleReportsProofs, WatcherProofs

**ReplicationPolicy.** A policy is the four annotations. A list keeps its order
because `NewAllowedNamespaces` stops at the first `*` (keeping what came before
and matching all) and gives the zero value back at the first item that does not
compile. An item is an element of `Pattern`; `Hits[p]` is the set of namespaces
its regular expression matches. `MirrorView` is the policy as the converters of
MirrorReconciler read it, without auto-replicate-to; `Merged` are the policies that
the secret template of an Ingress may make of a Secret's (a template adds the
annotations that are absent, and a policy does not tell an absent one from one that
says no, so both outcomes are allowed); `RulePolicy` is the one that a rule gives its
Sources, allowed everywhere and pushed to the targets.

**Resources.** IDs have no resource type, as in the code; keys do. An `Entry` is
one revision: who wrote it, its policy, the mirror annotations (`from`, `ver`,
`auto`) and `data`, the number of the revision that introduced its content. Two
objects hold the same bytes iff their `data` are equal. A rule is reduced to what its
selectors match; `TargetNamespaces`, `ProcessedTypes` and `Covers` are its meaning,
`ValidateRule` is what the webhook lets in.
`Sources(e)` are the policies of all Sources that the converters may build from
revision `e`: from its annotations, with an Ingress, or for a rule.

**Cluster** (external). `log` is the API server; the index of an entry is its
resourceVersion, a tombstone is an entry with `live = FALSE`. `seen` is the
informer cache, at most as new as `head`. `Accepted` in ReflectResources is the
server's optimistic concurrency. Users apply manifests, edit, delete, tamper
with mirrors, delete and create namespaces, each as often as `Budget` says.

**ReflectResources.** One action per access to shared state inside `Execute`:

| Action | Code |
|---|---|
| `Execute` | `Execute` up to the namespace list in `handleAutoMirrors` |
| `CreateAutoMirrorIfNotExists`, `CheckForConflicts`, `CreateAutoMirror` | store lookup, cache lookup of the target, `mirrorRepo.Create` |
| `CleanupAutoMirrors`, `ForgetMirror` | `cleanupAutoMirrorsWhenNoLongerAllowed` |
| `ListMirrors` | `mirrorRepo.GetBySourceID` |
| `ReadSource` | the payload, read again in `reflectToMirror` |
| `Reflect`, `SetVersion` | checks and version of `ReflectionService.Reflect` |
| `GetMirror`, `WriteMirror`, `WriteRejected`, `WriteFails` | `updateMirrorData` |

`heap` holds the Mirror objects, `store` the pointers: a call keeps working on an
object that another call has replaced, and sets its version. `Next` lets any
worker call `Execute` with any Source that a converter may make of a live revision
the cache has reached (`IsSourceOf`), registers and unregisters mirrors at any time,
and restarts. `Execute` itself has no such guard: that the controllers only call it so
is proved (section 6), not assumed.

**Controllers.** A `Request` is a key of a work queue (controller, kind, ID), so
that a key is worked on once at a time; up to ten keys the limit
`MaxConcurrentReconciles` does not bind. `stage[w]` is where the Reconcile of `w`
stands. `Informer(k)` delivers an event to cache, predicates and queues in one
step. The NotFoundCache is a set of IDs whose entries may expire. `OperatorRestart`
empties the memory and queues what the predicates let pass of the full list. The
certificate and ingress controllers share their steps but for the fetch.

**Convergence.** No code of its own: the invariant behind `SyncedWhenQuiet`,
`FaultsContained` and `RestartHeals`. `Orderly` says of the constants in which
circumstances it is one, `OrderlyInv` what can then be relied on, `Attended(m, n)`
that the target of manifest `m` in namespace `n` is up to date or somebody is on the
way to it, and `Converging` that this is so of every target but one for each write
that failed (section 6).

**Provenance.** No code of its own either: the three reasons for which a source may
have a mirror at an ID (`AnnotationsAsk`, `ARuleAsks`, `AUserAsks`), the property
`CopiesHaveReasons`, and the invariant `Reasoned(R)` behind it (section 6). `R` are the
rules that count: none without rules, and in ClusterRules those ever stored. `Claims` are
the same three reasons read off the manifests and rules alone; `Uncontested` says of the
constants that no two sources claim one ID, and `RegistryExact` what the store is then.

**ClusterRules.** `ruleSeen[r]` is the rule in the informer cache, `ruleLag[r]` what
the watch has yet to deliver. `ruleSpecs` is a history variable that the program does
not have: the specs of all rules that were ever stored, which the properties refer to.
`sync[r]` is where the Reconcile of `r` stands:

| Action | Code |
|---|---|
| `RuleApply`, `RuleDelete` | a user's write, behind `ClusterReplicationRuleValidator.Handle` |
| `RuleStart` | `Reconcile` up to the compiled source selector |
| `DetermineTargets` | `determineTargetNamespaces`; an error puts the request back |
| `ListResources` | the list of one resource type, selector and Helm check |
| `AddAndExecute`, `ExecuteDone` | `BatchProcessor.AddAndExecute`, the call of `Execute` and the report of the resource |
| `UpdateRuleStatus` | `processRule` after its loop, and `updateRuleStatus` |

A status that differs from the stored one is a new event. Its timestamps count whole
seconds, of which the model keeps two successive ones. An update of an old revision
of the rule is rejected and only logged. `Counted` are the mirrors that a status counts
in `mirroredToCount`, `mirroredCount` and `activeMirrors`: every target for every synced
resource, the namespace of the resource among them if the rule matches it.

**RuleReports.** No code of its own: `Trusted`, the circumstances in which the status of
a rule can be explained, and `Reporting`, the invariant behind `StatusCounts` (section 6).

**EventDispatcher.** Events are numbered as `Send` accepts them; the channel holds
`taken+1..accepted`. `Leave` and `Receive` are the cases of the select in
`processEvents`, taken in any order when several are ready. `DispatchEvent` gives the
event in hand to one handler. Closing twice panics and ends everything.

**WatchSessions.** A session is a number; every method of SessionManager is one step
under its lock. `ReconcileCheck` and `ReconcileRenew` are the two calls of
NamespaceReconciler, made by several callers though there is one worker today.

**EventDelivery.** The abstract specification of the dispatcher: a handler is given
accepted events only, each once, after the handlers before it, and none once Stop has
returned.

**MirrorContract.** The abstract specification: the log grows by user writes and
by *honest copies*. An honest copy names a live revision `v` of a source, holds
the content of a live revision of the same object that is not older, and lies in
a namespace that one of `Sources(v)` allows. The operator appends no tombstone. For
an object that no rule covers this is its own policy or that of an Ingress; a rule
allows every namespace, and that this does not spread copies is `CopiesHaveReasons`.

## 3. What is abstracted

- Contents, names and regular expressions are values; the split of a ConfigMap
  into text and binary data, the type of a Secret and timestamps are left out.
- `helm` stands for the annotations of Helm, of which a copy has none because its
  annotations are replaced. A Secret whose type starts with `helm.sh` is of Helm too
  (`application/dto/dto.go:290`), and a copy would keep the type
  (`application/usecase/reflection.go:283`); no manifest has such a type. An Ingress or a
  Certificate that names such a Secret is therefore not in the runs.
- Metrics, logs, domain events (no handler is registered), MirrorCache and
  PropertiesCache (no decision reads them) and the watch session that
  NamespaceReconciler renews have no effect on replication; the session is modelled
  apart from it.
- The end of a session clears the NotFoundCache. It comes with the end of the process
  and is covered by the expiry of entries.
- `RateLimiter.Wait` goes ahead after a delay whatever `Allow` said, and each resource
  type of each reconcile has a limiter of its own: a call may be late, never refused.
- annotationsToCopy changes a list item that nothing reads afterwards; labelsToCopy is
  read by nothing. Resource types other than Secret and ConfigMap pass the webhook and
  have no case in the controller.
- Every converter calls `SetAllowed(true)`, so the branch for a source that is
  not allowed is dead; so are HandleSourceDeletionUseCase and CreateMirrorUseCase.
- `NonDeletingClient` turns every deletion into a success, so an orphaned mirror
  only loses its registration.
- The two cache reads of a fetch (Secret, then ConfigMap) are one step, and so
  are the entry of `Execute` and its namespace list.
- A torn read of `Mirror.version` is not modelled; the unlocked check and
  assignment are separate steps.
- A Certificate is the Secret it names and the events it has; an Ingress has the
  policy of its secret template besides.

## 4. Runs

The runs of the operator have namespaces `src`, `app` and, where two targets are
needed, `web`, and one object name (two where a rule renames). `Budget` bounds the
disturbances; between them every interleaving of the workers, the informers and the
users is explored. `CHECK_DEADLOCK FALSE` is set because the operator may rest, and a
panicked or finished process does.

| Run | Instance | States | Shows |
|---|---|---|---|
| `secret_sync` | a Secret that is a source or not, one target, one edit, one resync or one event of an Ingress | 1.1 M | `SyncedWhenQuiet`: at rest the target holds the current revision, although source, mirror and ingress calls overwrite each other and rejected writes are not retried |
| `two_targets` | two targets, one failing write | 78 k | `FaultsContained`: at most the target of the failed write is out of date; `Converging`: at every moment somebody is on the way to the other one if it is |
| `restart_heals` | one failing write, one restart, one resync or one event of the Certificate, at any step | 620 k | `RestartHeals`: a restart after the failure leaves everything current |
| `every_role` | two of eight manifests, Secrets and ConfigMaps of one name, Helm, wildcard and malformed lists, two sources of one target, one cache expiry | 440 k | `TypeOK`; `MirrorsAreHonest`: the refinement of MirrorContract; `CopiesHaveReasons`: a revision of the source pushed every copy there, or a user asked for it; `RegistryAgrees`: at rest the store names the source that the annotation names |
| `lifecycle` | one deletion of source or mirror, one tampering, target namespace deleted and created again | 230 k | `EventuallyQuiet`: the cascade of writes and events ends |
| `rules` | a rule written twice or deleted (one that renames, one that excludes, one the webhook refuses), a Secret that is not opted in; a resync, or an edit of the Secret, or a restart and a failing write | 110 k | `RulesInv`; `StatusCounts`: of the mirrors that the status counts, those in the namespace of the source were never made, and besides at most one for each write that failed; `Reporting`: at every step the running call has made, or has yet to get to, each other copy that will be reported; `CopiesAreAskedFor`: no copy where no rule asked that had been stored by then; `RuleReaches`: a pending request gets the copies made, unless a write fails |
| `watcher` | two goroutines, two handlers, a channel of one, two events; two callers, two sessions | 155 k | `WatcherTypeOK`, `NothingLost`, `OneSession`; `KeepsDelivery`: the refinement of EventDelivery; `StopComesBack`, `EventsReachHandlers`, `SessionRenewed` |

Five runs show where the code departs from the documentation; TLC must find the
property violated.

| Run | Property | What happens |
|---|---|---|
| `revoked_mirrors` | `RevokedMirrorsGone` | the mirror in a namespace that lost its permission stays (`src/README.md:176` says it is deleted) |
| `recreated_source` | `SyncedWhenQuiet` | a source deleted and created again is skipped, because the creation does not clear the NotFoundCache |
| `stale_policy` | `ContentPermitted` | the payload is read after the policy; new content goes where only the old policy allowed it |
| `rule_follows_source` | `RuleFollowsSource` | a Secret created after its rule came to rest is not replicated: only events of rules start the controller (`src/README.md:35`) |
| `rule_status_loop` | `RulesComeToRest` | every reconcile of a rule writes its status, which starts the next one (`src/README.md:49`) |

The limits of `SyncedWhenQuiet` and `EventuallyQuiet` matter as much as the
instances where they hold. `SyncedWhenQuiet` does not hold when a write request
fails (the version is recorded before the write: `domain/service/reflection.go:35`;
hence `FaultsContained` and `RestartHeals`), when the replicate annotation is taken
away and put back (`controllers/controllers.go:108`), when a policy is narrowed and
widened while calls are in flight (`application/usecase/reflection.go:206`), when a
namespace appears after its source was reconciled (`controllers/controllers.go:640`),
or for a ConfigMap edited before the cache has its mirror, since the mirror
controller that repairs a Secret fails for a ConfigMap. For the same reason
(`controllers/controllers.go:470`) `EventuallyQuiet` does not hold once there is a
ConfigMap mirror. An object of Helm in the target namespace, or one that appears
after the conflict check, is overwritten; a requested mirror of a source that is
not pushed is dropped before it is filled. A source whose auto-replicate-to exceeds
its replicate-to registers mirrors that it may never write (the exception in
`RegistryAgrees`), and the mirror controller, which does not read auto-replicate-to,
pushes to all of replicate-to.

`StatusCounts` gives the extent of two overcounts. The status counts the namespace of
the source as a mirror of it (`controllers/clusterreplicationrule_controller.go:355` and
`:526`): with the rule of the run that excludes the only other namespace it reports one
resource and one active mirror, and there is no copy at all. And it counts a mirror whose
write failed, since Execute does not report that. `StatusCounts` is no bound when an
object is in the way or two rules cover one source (section 6, Reports); the run has
neither. `CopiesAreAskedFor` speaks of the rules stored up to the moment, not of those
stored now: when a rule is changed or deleted its copies stay, and are still written by
calls for the same source as long as they are registered. Nor is it the rule of the call
that must ask: a mirror of the same source that another controller registers between the
cleanup and the listing of a call for a rule is filled by that call, whose Source is
allowed everywhere. The proof covers that; the run has no object that another controller
would push. Policies of a source and of rules that disagree drop each other's
registrations in turn; the copies stay.

Besides the five runs above the code disagrees with the documentation in these places,
which the properties take into account:

- `src/README.md:157` and `:158` describe `activeMirrors` as the "Number of namespaces
  currently receiving mirrors" and `mirroredCount` as the "Total number of individual
  mirror resources created"; both count the namespace of the source too, as said above.
- Examples 1, 4 and 5 of `src/README.md` (lines 285, 352 and 376) set `auto-replicate-to`
  and no `replicate-to`. `CanReflectToNamespace` (`domain/entity/resource.go:237`) then
  allows no namespace: mirrors are registered and never written. `OutOfSync` asks for
  nothing there because of its conjunct `Permitted`, and `RegistryAgrees` excepts it.
- `includes` is intersected with the selector, though `src/README.md:137` calls it
  the "Exact list of namespaces to always include".

### Bounds

Two revisions of a source are what it takes for two calls to disagree, two targets
for one failure to affect another mirror, and one disturbance of a kind at any
point of any interleaving is what the properties are about. `Ptr` has six
addresses: at most one per registration and one per call in flight, with dead ones
reused. `MaxRevision` stops the writes of the operator only in `every_role`, where
two sources may overwrite each other's mirror without end; the other runs never
reach it. `secret_sync`, `restart_heals` and the runs of the rules have exactly the
requests that their objects can cause. Two goroutines and two handlers are what it
takes for events to overtake each other and for one handler to fail before another;
`MaxEvents` and `MaxSession` end the sending and the expiring. Namespaces are not
symmetric (their roles differ), so no symmetry set is used. The proofs have none of
these bounds.

`rules` has a constraint, `OneThingAtATime`: besides what happens to the rule there is a
resync, or an edit, or a restart and a failing write, in any order and at any step, but
no other combination. It does not hide a violation of `RuleReaches` among what it leaves:
disturbances are under no fairness, so nothing is obliged to leave the constraint, and a
call whose write might fail can always have it accepted or rejected instead.

### Fairness

Weak fairness for the delivery of each key, for each worker, and for the namespace
controller: client-go delivers what the server has, and every queue has enough
workers for its keys. Nothing is assumed of users, failures, restarts, resyncs or
the expiry of cache entries. `RuleReaches` needs less: that the workers of the rules
run (`RuleFairness`); `FairRulesSpec`, under which `RulesComeToRest` fails, has all of
it for the rules and the other controllers. In `Watcher` the goroutines run, Stop goes
on once the WaitGroup lets it, and there is always another namespace event to renew a
session; nothing is assumed of senders, Close, Stop or cancellation.

## 5. Properties and mutants

Every property of a passing run has a mutant: an operator beside the original definition
that changes it as a plausible bug would (updates of mirrors filtered out, a failed
write ends the call, a registration kept when there is one, a restart that misses the
initial list, a check dropped, a loop that runs once too often, a retry that should not
be, a rule that is gone and not noticed, a call reported and not made, excludes ignored,
an index of mirrors that knows only the name of the source, a target selector that the
webhook lets pass, a closed channel taken for an event, a handler's error that ends the
dispatch, a Stop that does not wait, a goroutine deaf to stopCh or leaving with events
buffered, a session started beside another, a timeout not asked for). TLC finds the
property violated when the mutant takes the place of the original.

## 6. Proofs

The eight proof modules are checked by TLAPS to the last leaf. The assumptions are
those of the modules: finitely many namespaces and names, `Hits` is a function on
patterns, manifests, templates and rules have their types, templates ask for
replication, workers are keys of queues, the rules are workers of their own,
addresses are positive numbers, the bounds are natural numbers.

- `NamespaceListLaws`, about `NewAllowedNamespaces` for lists of any length and any
  patterns: what stands behind a `*` or a malformed item is never read; items that compile
  take no namespace away; a malformed item behind a list without either takes all of
  them away. It rests on the position of the first such item (`FirstStop`), which exists
  because positions are well-founded (`FirstStopExists`).
- `EngineIsSound`: `Spec => []EngineInv`, where
  `EngineInv == EngineTypes /\ CacheSound /\ StoreSound /\ JobsSound`. The contract
  is not inductive by itself: that a copy is honest when it is written needs that
  the source of the call is a live revision the cache has reached (`SourceSound`),
  that its payload is a live revision of the same key and not older
  (`PayloadSound`, which rests on `CacheSound`: a cache only moves forward on its
  own key), and that the permission was asked for the namespace of the very Mirror
  object that is written, whose ID never changes while somebody holds it
  (`Allocated`, and addresses are reused only when nobody holds them).
- The lemma `EngineStep` does the work once: a step that only extends the log, moves
  the cache forward, leaves held Mirror objects their identity and gives calls sound
  locals keeps `EngineInv`. Each action is then an instance.
- `EngineImplementsContract`: `Spec => Contract!Spec`. Only `WriteMirror` appends on
  behalf of the operator, and `EngineInv` makes what it appends an honest copy.
- `ControllersImplementEngine`: `ControllersSpec => Spec`. `ControllerInv` says what
  the reconcilers remember between steps (`StageSound`): a mirror is registered with
  an ID and the kind of an existing revision, and whoever is about to call `Execute`
  holds a Source of a live revision that the cache has reached, however long ago it
  was read (`SourceRemains`: log and cache only move forward, also across a restart).
  With it every step of a controller is a step, or a stutter, of ReflectResources.
- `TypesHold` and `OperatorIsHonest` follow: the type invariant (among it that the
  loop of MirrorReconciler never runs past its count) and MirrorContract for the
  whole operator but the rules.
- `RulesAreSound`: `RulesSpec => []RulesInv`. A reconcile of a rule holds copies of a
  rule, a namespace list and a list of revisions that are all out of date by the time
  they are used. `SyncSound` says what stays true of them: the rule was admissible, its
  targets are those it has among some set of namespaces, the revisions exist, are no
  newer than the cache and of objects that the rule covers. It is inductive because the
  log only grows and the cache only moves forward, which every step of the operator
  keeps (`Advances`, from `EngineInv`).
- `RulesImplementEngine` and `RulesAreHonest`: with `SyncSound` each call of Execute has
  one of the `Sources` of a live revision, so the rules are one more environment of
  ReflectResources, and the contract of the engine carries over.
- `WatcherTypes`, `NothingIsLost`, `DispatcherKeepsDelivery`: the inductive invariant is
  `DeliveryInv == DispatcherTypeOK /\ HandsSound /\ GotSound /\ StopSound`. NothingLost
  alone is not inductive: it needs that no two goroutines hold the same event and that
  handlers were given received events only. `StopSound` (no goroutine is left when Stop
  has returned) makes every call of a handler a step that EventDelivery allows.
- `SessionIsUnique`: `OneSession` with the types is inductive: a session that runs is
  that of the manager, and its channel is open.

### Convergence

Nothing in the operator retries. A rejected or failed write is logged, the version of a
Mirror is set before anything is written, a stale call may put an old copy over a new
one. That mirrors become current all the same is the effect of several parties, and the
proof has to say which of them is responsible at every moment.

The theorems of `ConvergenceProofs` assume `Orderly`, a condition on the constants. Most
parts of it are there because the properties are false without them; the Ingress is left
out because the invariant has one policy for each source, though `secret_sync` finds
nothing wrong with one:

| Part of `Orderly` | Without it |
|---|---|
| Secrets only | the mirror controller fails for ConfigMaps, so nobody repairs a ConfigMap mirror (`controllers/controllers.go:470`) |
| every manifest is an original, alone under its name | two sources of one target overwrite each other without end |
| one policy for each original | narrowed and widened again, a stale call unregisters a mirror (`application/usecase/reflection.go:206`); opted out and in again, the NotFoundCache hides the source (`controllers/controllers.go:108`) |
| users delete neither objects nor namespaces | `recreated_source`; a namespace that appears is not reconciled for (`controllers/controllers.go:640`) |
| no Ingress | lends a Secret another policy, which is a change of policy |
| the queues have room for the source and its possible mirrors | they are unbounded in the code |

Any number of sources, targets, workers, revisions, edits, tamperings, resyncs,
Certificate events, cache expiries, failing writes and restarts remain, in any order.
Sources that are not opted in and sources of Helm are among the manifests.

- `OrderlyInv` (module `OrderlyProofs`, lemmas `OrderlyStart` and `OrderlyNext`): what
  stands in the log is a revision of an original or a copy of one, of a revision that
  the cache has reached (`LogOrderly`); a registered Mirror is of the one original of its
  name (`StoreOrderly`); versions were read from the cache (`VersionsOrderly`); a call
  handles mirrors of its own original, and drops none that the policy asks for
  (`JobOrderly`); a Reconcile has read the original it is about (`StageOrderly`); a source
  is never taken for missing (`NotFoundOrderly`).
- `Promised(m, n)`: the target carries the current version; or the source controller has
  yet to read that version; or the mirror controller has yet to look at the target; or
  it has just registered it anew, and is about to call `Execute`; or a call with the
  current revision has yet to create, list, check or write the mirror.
- `Backed(m, n)` is what makes it inductive: the Mirror has the current version, so that
  every call skips it, only if the target has it too, or gets it from a call whose write
  will not be rejected, or is looked at again. A rejected write means that the target has
  changed since it was read, and the event of that change makes the mirror controller
  register a Mirror without a version.
- One lemma per action (`...Tended`) shows that whoever was on the way stays so, arrives,
  or hands over (`Handover`). The only exception is `WriteFails` on the target itself;
  `ConvergingNext` counts these against the budget.
- At rest nobody is on the way, so every target but the lost ones carries the current
  version (`TendedAtRest`), and the content of that version, because a copy never holds
  older content than its label says and there is no newer.

`OperatorConverges`, `FailuresAreContained` and `SyncedUntilAFailure` are these facts as
theorems. `RestartRepairs` needs one more invariant: once no write can fail any more,
either a restart is still to come, or all targets are attended to; the restart itself
establishes that, since it empties the store and queues every source.

The `two_targets` run checks `Converging` and with it that its instance is orderly; the
instance of `restart_heals` satisfies it too, with restart and Certificate, but takes
four minutes to say so. `secret_sync` is not orderly: it has an Ingress and a manifest
that opts out.

### Provenance

Execute writes every mirror that is registered for the ID of its source, whoever
registered it: an earlier call with another policy, a rule, or the mirror controller that
found the annotation replicated-from in some object. The call itself may have a policy
that allows all namespaces, as that of a rule does, and its Source may be long out of
date. What keeps a copy out of a namespace nobody asked for is not a check before the
write, then, but that nothing is registered without a reason and that no call handles a
mirror of another source. `Reasoned(R)`, where `R` are the rules that were stored, says so
of every place where a mirror can be:

- `LogReasoned`: every revision that is marked replicated-from has a reason, and the
  label of a copy names a revision of that very source. The mirror controller reads the
  annotations of such revisions and registers what they say, so the copies of the
  operator come back as registrations.
- `HeapReasoned`: every Mirror object has one, the ones that were replaced in the store
  and are still in the hands of a call included.
- `JobReasoned`: a call is about to register mirrors with a reason, and its pointers are
  to mirrors of its own source (addresses are not reused while somebody holds them).
- `StageReasoned`: a Reconcile has read the object its request is about, and what the
  mirror controller is about to register has a reason.

A reason stays one because the log is never rewritten (`ReasonStays`), and each action
has a lemma (`...Reasoned`). For the rules two facts are needed besides: a rule pushes to
its targets and nowhere else, through the list that is made of them (`ListedMatches`,
`RulePushes`), and whatever rule the server, the watch, the cache or a reconcile holds has
passed the webhook and is in the history `ruleSpecs` (`RulesAdmitted`, `AdmittedNext`).
A new rule only adds to that history (`SpecsGrow`), and what had a reason keeps it
(`MoreReasons`).

- `OperatorHasReasons`: `CopiesHaveReasons`, for the operator without rules.
- `RulesHaveReasons`: `CopiesAreAskedFor`, for the operator with rules. The rules that count
  are those stored by then, not those users might write.

Nothing is assumed of users, policies, failures or restarts, nor of the number of rules,
and sources that are opted in and covered by rules, whose mirrors several controllers
register, are included.

### The registry

`RegistryAgrees` compares the store with the annotations at rest, and makes an exception
of a source that may never write the mirror it registered. Both are needed when two
sources are after one target, as in `every_role`: the store and the object then change
hands in separate steps. When no two are (`Uncontested`), more is true: at every moment
the store names the source of everything that was ever marked replicated-from at an ID
(`RegistryExact`). That is not obvious from the code, where four parties register mirrors
from what they read at different times, and where a replaced Mirror object stays in use.

The argument goes by reasons. Every revision that is marked replicated-from and every
Mirror object has a `Reason` (`Reasoned`, above), a reason is a claim that users can make
with the manifests and rules there are (`LogClaimed`: policies and marks in the log
come from manifests, and a copy carries no policy), and with one claimant for each ID the
two must agree. `RegistrySound`, that a Mirror is registered under its own ID only, holds
without any condition. `OperatorRegistryIsRight` and `RulesRegistryIsRight` state
`RegistryExact` and `RegistryAgrees` for the operator without and with rules.
`Uncontested` is a condition on the constants; those of `secret_sync`, `two_targets`,
`lifecycle` and `rules` satisfy it.

### Reports

The rule controller puts a resource with all the targets of the rule into the status as
soon as Execute has come back, and Execute comes back without an error whatever became of
its writes. So the status counts mirrors that were never made. `StatusCounts` says which
ones. In the namespace of the source, if the rule matches it, it is every one: Execute
skips that namespace, the status counts it. Elsewhere it is at most one for each write
that failed. The property is proved under `Trusted`, a condition on the constants. Each
part of it rules out one further way to leave a target out without a word:

| Part of `Trusted` | Without it |
|---|---|
| rules alone replicate (`RulesAlone`: no manifest is opted in or marked replicated-from, no Ingress lends a policy, one resource type) | a call of another controller records the version of a mirror and has not written yet; the call of the rule skips it (`domain/service/reflection.go:35`). With two resource types the mirror may be registered for the other kind |
| no two sources claim one target (`Uncontested`) | the ID is registered for the other one (`application/usecase/reflection.go:110`) |
| one rule object | two rules that cover one source: the one records the version, the other skips the mirror, comes back first and reports it (TLC finds this with two copies of the rule of `rules`); or the cleanup of the one drops what the other has registered |
| no user has an object at a target | `checkForConflicts` leaves it alone |
| no object and no namespace is deleted | the source is gone when the payload is read; a target namespace is terminating |

Any number of sources, namespaces, revisions of the rule with other targets, names and
selectors, edits, resyncs, events of Certificates, cache expiries, failing writes and
restarts remain. The list of resources, the targets, the registrations, the recorded
version and the payload are of different moments, writes are rejected because the cache
lags, and the mirror controller registers the mirrors anew while the call is at them.

`Reporting` is the inductive invariant: there is a set `lost` of keys, no more than writes
have failed, such that `ReportsBut(lost)`. `CallReports` says of a running call that each
target outside the namespace of the source (`Aims`) is `Got`, a copy of this source has
been written there or its write is lost, or is `Ahead`: its namespace is still to be
handled, it is registered and will be listed, or its Mirror is among those still to be
written. What makes it inductive:

- `VersionsKnown`: a Mirror with a version is backed by a copy, unless its write is lost or
  the call that recorded it is between the recording and the write. Hence a target that
  `Reflect` skips has its copy, or is lost and stays so for this version.
- A failing write adds its own key to `lost` and nothing else (`FailGoesOn`); a larger
  `lost` only weakens the rest (`MoreLost`), and the budget counts it (`FailedGrows`).
- A write is rejected only if the cache is behind or the object exists already; at a
  target nobody but the operator writes (`AtTarget`), so a copy is there.
- A registered target stays registered: the call drops only mirrors outside its targets
  (`forget`), and the mirror controllers register automatic mirrors anew and drop none
  (`AllAutomatic`, `Harmless`).
- `SyncReports` and `StatusReports` carry the fact to what the reconcile has done so far
  and to the stored status, where a status of an older generation claims nothing.

`CallGoesOn` and `WorkGoesOn` say what a step of anybody else, and of the call, may do to
`CallReports`; `ReportingNext` combines the actions; `RulesKeepTheirWord` is the invariant
as a theorem. `StatusIsExplained` is the property: what is missing outside the namespace of
the source is in `lost`, and in it nothing was ever made, since no rule is a reason for a
copy in the namespace of its source (`OwnNeverMade`). The `rules` run checks `Reporting` and
with it that its instance satisfies `Trusted`.

### Only model-checked

- Liveness (`EventuallyQuiet`, `RuleReaches`, `StopComesBack`, `EventsReachHandlers`,
  `SessionRenewed`): the prover does not reach fairness.
- `RegistryAgrees` where two sources are after one target (`every_role`): the proof goes by
  the one claimant there is. With two, which of them the store names depends on events
  that are still to come, and the property holds at rest only.
- `RevokedMirrorsGone`, `ContentPermitted`, `RuleFollowsSource`, `RulesComeToRest`: the code
  violates them.
- `SyncedWhenQuiet` where an Ingress lends a policy (`secret_sync`).

## 7. Plan

What is still worth doing:

1. `SyncedWhenQuiet` with an Ingress, which needs an invariant with a set of policies for
   each source in place of one.
2. `RegistryAgrees` at rest with contested targets: an invariant that names, for each
   mirror whose store entry and annotation differ, the event that will settle it.
3. An action property: the label of a mirror moves backwards through a stale call only.

## 8. Not modelled

| Part | Why |
|---|---|
| Federation | nothing constructs it outside its tests: how its calls interleave and what they copy is decided nowhere, so a model would invent its environment |
| MirrorCache, PropertiesCache | the one is written and never read, the other never written |
| Domain events and dispatcher | no handler is registered |
| HandleSourceDeletionUseCase, CreateMirrorUseCase, MirrorAdapter, SourceAdapter, ReflectorAdapter, OwnerReferenceHelper, BatchProcessor.ProcessBatch, WaitForStop (which would wait forever: nothing closes stoppedCh) | never called |
| Configuration, logging, metrics, manifests | no influence on what is replicated |

## 9. Running

    tlc -workers 2 -config secret_sync.cfg MCControllers
    tlapm ReflectResourcesProofs.tla
    tlapm ControllersProofs.tla
    tlapm OrderlyProofs.tla
    tlapm ConvergenceProofs.tla
    tlc -workers 2 -config rules.cfg MCClusterRules
    tlc -workers 2 -config watcher.cfg Watcher
    tlapm ClusterRulesProofs.tla
    tlapm ProvenanceProofs.tla
    tlapm RuleReportsProofs.tla
    tlapm WatcherProofs.tla
