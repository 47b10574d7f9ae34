-------------------------- MODULE ReplicationPolicy --------------------------
(***************************************************************************)
(* The replication policy a Secret or ConfigMap carries in its            *)
(* annotations, and the two questions the domain entity Source answers     *)
(* from it: may this source be reflected into a namespace, and is a mirror *)
(* created there automatically.                                            *)
(*                                                                         *)
(* A policy is the four annotations of the source:                         *)
(*   replicate  replicate = "true"                                         *)
(*   to         replicate-to, the list of patterns in the order written    *)
(*   auto       auto-replicate = "true"                                    *)
(*   autoTo     auto-replicate-to, likewise                                *)
(* An absent annotation and one with blank items only both give <<>>.      *)
(***************************************************************************)
EXTENDS Naturals, Sequences, FiniteSets

CONSTANTS
    Namespace,  \* namespace names
    Pattern,    \* the items a list may hold: "*", namespace names, patterns
    Star,       \* the item "*"
    Malformed,  \* items whose translation regexp.Compile rejects
    Hits        \* Hits[p]: the namespaces the regexp of item p matches

ASSUME PolicyAssumption ==
    /\ Star \in Pattern
    /\ Malformed \subseteq Pattern \ {Star}
    /\ Hits \in [Pattern -> SUBSET Namespace]
    /\ IsFiniteSet(Namespace)
    /\ Namespace \subseteq Pattern \ (Malformed \cup {Star})
    /\ \A n \in Namespace : Hits[n] = {n}

(* What ParseAllowedNamespacesAnnotation makes of a list: its items between  *)
(* the commas, trimmed, without the blank ones, in the order written.      *)
Items == Seq(Pattern)

Policy == [replicate: BOOLEAN, to: Items, auto: BOOLEAN, autoTo: Items]

NoPolicy == [replicate |-> FALSE, to |-> <<>>, auto |-> FALSE, autoTo |-> <<>>]

-----------------------------------------------------------------------------
(* AllowedNamespaces: what NewAllowedNamespaces makes of a list of items.  *)

AllowedNamespaces == [patterns: SUBSET Pattern, isAll: BOOLEAN]

NoNamespaces == [patterns |-> {}, isAll |-> FALSE]

(* The items that end the loop early: "*" and an item that does not compile. *)
Stops(items) == {i \in DOMAIN items : items[i] = Star \/ items[i] \in Malformed}

(* The loop runs up to the first item that stops it. A "*" keeps the items  *)
(* before it and matches everything; a malformed item gives the zero value  *)
(* back (its error is discarded by every caller).                           *)
NewAllowedNamespaces(items) ==
    IF Stops(items) = {}
    THEN [patterns |-> {items[i] : i \in DOMAIN items}, isAll |-> FALSE]
    ELSE LET first == CHOOSE i \in Stops(items) : \A j \in Stops(items) : i <= j
         IN  IF items[first] = Star
             THEN [patterns |-> {items[i] : i \in 1..(first - 1)}, isAll |-> TRUE]
             ELSE NoNamespaces

Matches(allowed, ns) ==
    allowed.isAll \/ \E p \in allowed.patterns : ns \in Hits[p]

IsEmpty(allowed) == allowed.patterns = {} /\ ~allowed.isAll

-----------------------------------------------------------------------------
(* Source.                                                                 *)

CanReflectToNamespace(policy, ns) ==
    policy.replicate /\ Matches(NewAllowedNamespaces(policy.to), ns)

(* auto-replicate-to decides when it lists anything; otherwise             *)
(* replicate-to does.                                                      *)
CanAutoMirrorToNamespace(policy, ns) ==
    /\ policy.replicate /\ policy.auto
    /\ LET autoNS == NewAllowedNamespaces(policy.autoTo)
       IN  IF IsEmpty(autoNS)
           THEN Matches(NewAllowedNamespaces(policy.to), ns)
           ELSE Matches(autoNS, ns)

(* The converters of MirrorReconciler never read auto-replicate-to: the     *)
(* Source they build has no autoNamespaces.                                *)
MirrorView(policy) ==
    [replicate |-> policy.replicate, to |-> policy.to,
     auto |-> policy.auto, autoTo |-> <<>>]

-----------------------------------------------------------------------------
(* Sources whose policy does not stand in their own annotations.             *)

(* The annotations that the secret template of an Ingress adds to a Secret:  *)
(* those it does not have. A policy does not tell an absent annotation from *)
(* one that is there and says no, so both outcomes are possible then.       *)
Added(own, template, none) == IF own = none THEN {own, template} ELSE {own}

Merged(own, template) ==
    [replicate: Added(own.replicate, template.replicate, FALSE),
     to: Added(own.to, template.to, <<>>),
     auto: Added(own.auto, template.auto, FALSE),
     autoTo: Added(own.autoTo, template.autoTo, <<>>)]

(* The namespaces of a finite set as a list, in some order.                  *)
Listed(nss) ==
    CHOOSE s \in [1..Cardinality(nss) -> nss] : \A n \in nss : \E i \in DOMAIN s : s[i] = n

(* What the converters of the ClusterReplicationRule controller set: allowed *)
(* everywhere, pushed to the targets of the rule.                           *)
RulePolicy(targets) ==
    [replicate |-> TRUE, to |-> <<Star>>, auto |-> targets # {},
     autoTo |-> Listed(targets)]
==============================================================================
