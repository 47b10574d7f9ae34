------------------------------ MODULE Resources ------------------------------
(***************************************************************************)
(* Names and revisions of the Secrets and ConfigMaps the operator copies.  *)
(***************************************************************************)
EXTENDS ReplicationPolicy

CONSTANTS
    Kind,       \* the resource types, {"Secret", "ConfigMap"} or one of them
    Name,       \* object names
    NoID,       \* no replicated-from annotation
    Template,   \* the policies in the secret templates of Ingresses
    Rule        \* the ClusterReplicationRules that users write

(* SourceID and MirrorID: a namespace and a name, without the resource type. *)
ID == [ns: Namespace, name: Name]

Key == [kind: Kind, id: ID]

(* The spec of a ClusterReplicationRule. sourceOK: it names a source         *)
(* namespace, ns, and its source selector compiles; names are those the    *)
(* selector matches, rename what targetNameTemplate makes of them.          *)
(* targetOK: the target selector is absent or compiles; matches are the    *)
(* namespaces it matches (all of them when it is absent).                  *)
ResourceType == {"Secret", "ConfigMap", "Certificate", "Ingress", "unknown"}

RuleSpec == [sourceOK: BOOLEAN, ns: Namespace, names: SUBSET Name,
             rename: [Name -> Name], resourceTypes: SUBSET ResourceType,
             targetOK: BOOLEAN, includes: SUBSET Namespace,
             matches: SUBSET Namespace, excludes: SUBSET Namespace]

ASSUME ResourcesAssumption ==
    /\ Kind \subseteq {"Secret", "ConfigMap"}
    /\ NoID \notin ID
    /\ IsFiniteSet(Name)
    /\ Template \subseteq {t \in Policy : t.replicate}
    /\ Rule \subseteq RuleSpec

(* One revision of an object. data is the revision that introduced its     *)
(* content: two objects hold the same data iff their data fields are equal. *)
(* from, ver and auto are the annotations of a mirror (replicated-from,    *)
(* replicated-version, auto-replicated); ver = 0 when the version is       *)
(* missing. helm marks the annotations Helm puts on what it manages; a     *)
(* Secret whose type is of Helm, which a copy would keep, is not among the *)
(* manifests. by records who wrote the revision.                           *)
Entry == [key: Key, live: BOOLEAN, by: {"user", "operator"}, data: Nat,
          policy: Policy, helm: BOOLEAN, from: ID \cup {NoID}, ver: Nat,
          auto: BOOLEAN]

(* What annotations.MirrorAnnotations and AutoMirrorAnnotations put on a    *)
(* mirror: they replace every annotation the object had, those of Helm     *)
(* included.                                                               *)
MirrorEntry(key, data, from, ver, auto) ==
    [key |-> key, live |-> TRUE, by |-> "operator", data |-> data,
     policy |-> NoPolicy, helm |-> FALSE, from |-> from, ver |-> ver,
     auto |-> auto]

-----------------------------------------------------------------------------
(* ClusterReplicationRules.                                                  *)

(* Mutant: the excluded namespaces are not taken out.                        *)
TargetNamespacesUnfiltered(spec, all) ==
    LET included == IF spec.includes = {} THEN all ELSE all \cap spec.includes
    IN  included \cap spec.matches

(* determineTargetNamespaces, given the namespaces there are.                *)
TargetNamespaces(spec, all) ==
    LET included == IF spec.includes = {} THEN all ELSE all \cap spec.includes
    IN  (included \cap spec.matches) \ spec.excludes

(* Secret and ConfigMap when the rule names no type. The other types pass    *)
(* the webhook and have no case in processResourceTypeWithStats.            *)
ProcessedTypes(spec) ==
    IF spec.resourceTypes = {} THEN Kind ELSE Kind \cap spec.resourceTypes

(* What targetNameTemplate makes of a name, captures of the source selector   *)
(* put in. A template without captures gives many sources one name.        *)
TransformTargetName(spec, name) == spec.rename[name]

Covers(spec, key) ==
    /\ spec.sourceOK
    /\ key.kind \in ProcessedTypes(spec)
    /\ key.id.ns = spec.ns /\ key.id.name \in spec.names

(* Mutant: the target selector is not validated.                             *)
ValidateSource(spec) ==
    spec.sourceOK /\ spec.resourceTypes \subseteq ResourceType \ {"unknown"}

(* validateClusterReplicationRule, of the webhook.                           *)
ValidateRule(spec) ==
    /\ spec.sourceOK /\ spec.targetOK
    /\ spec.resourceTypes \subseteq ResourceType \ {"unknown"}

-----------------------------------------------------------------------------
(* The policies that an Ingress, or a rule, may give to a Source of an object. *)
IngressPolicies(e) ==
    UNION {Merged(e.policy, t) : t \in IF e.key.kind = "Secret" THEN Template ELSE {}}

RulePolicies(key) ==
    {RulePolicy(TargetNamespaces(spec, nss)) :
        spec \in {s \in Rule : Covers(s, key)}, nss \in SUBSET Namespace}

(* The policies of the Sources that the converters may build from a         *)
(* revision: from its own annotations, with or without auto-replicate-to,   *)
(* with those of an Ingress, or for a rule.                                 *)
Sources(e) ==
    {policy \in {e.policy, MirrorView(e.policy)} \cup IngressPolicies(e) \cup RulePolicies(e.key) :
        policy.replicate}
==============================================================================
