------------------------ MODULE ReflectResourcesProofs ------------------------
(***************************************************************************)
(* The engine keeps its types and implements MirrorContract, for every     *)
(* set of workers, namespaces, names and addresses, every policy and every *)
(* budget.                                                                 *)
(***************************************************************************)
EXTENDS ReflectResources, FiniteSetTheorems, WellFoundedInduction, TLAPS

-----------------------------------------------------------------------------
(* Policies and revisions.                                                   *)

(* The empty policy is a policy, dropping auto-replicate-to keeps one, and   *)
(* so does adding what the template of an Ingress says.                      *)
LEMMA PolicyTypes ==
    /\ NoPolicy \in Policy
    /\ \A p \in Policy : MirrorView(p) \in Policy
    /\ \A p, t \in Policy : Merged(p, t) \subseteq Policy
<1>1. NoPolicy \in Policy
  BY DEF NoPolicy, Policy, Items
<1>2. ASSUME NEW p \in Policy PROVE MirrorView(p) \in Policy
  BY DEF Policy, Items, MirrorView
<1>3. ASSUME NEW p \in Policy, NEW t \in Policy PROVE Merged(p, t) \subseteq Policy
  <2>1. /\ Added(p.replicate, t.replicate, FALSE) \subseteq BOOLEAN
        /\ Added(p.to, t.to, <<>>) \subseteq Items
        /\ Added(p.auto, t.auto, FALSE) \subseteq BOOLEAN
        /\ Added(p.autoTo, t.autoTo, <<>>) \subseteq Items
    BY DEF Policy, Added
  <2>2. QED  BY <2>1 DEF Merged, Policy
<1>4. QED  BY <1>1, <1>2, <1>3

(* A finite set of namespaces can be listed: the list has all of them and     *)
(* nothing else.                                                             *)
LEMMA ListedFacts ==
    ASSUME NEW nss \in SUBSET Namespace
    PROVE  /\ Listed(nss) \in Seq(nss)
           /\ \A x \in nss : \E i \in DOMAIN Listed(nss) : Listed(nss)[i] = x
<1> DEFINE n == Cardinality(nss)
           P(s) == \A x \in nss : \E i \in DOMAIN s : s[i] = x
<1>1. IsFiniteSet(nss)
  BY PolicyAssumption, FS_Subset
<1>2. n \in Nat /\ ExistsBijection(1..n, nss)
  BY <1>1, FS_CardinalityType
<1>3. PICK f \in Bijection(1..n, nss) : TRUE
  BY <1>2 DEF ExistsBijection
<1>4. f \in [1..n -> nss] /\ \A x \in nss : \E i \in 1..n : f[i] = x
  BY <1>3 DEF Bijection, Injection, Surjection
<1>5. DOMAIN f = 1..n
  BY <1>4
<1>6. P(f)
  BY <1>4, <1>5
<1>7. Listed(nss) \in [1..n -> nss] /\ P(Listed(nss))
  <2>1. \E s \in [1..n -> nss] : P(s)
    BY <1>4, <1>6
  <2>2. Listed(nss) = CHOOSE s \in [1..n -> nss] : P(s)
    BY DEF Listed
  <2> HIDE DEF P, n
  <2>3. QED  BY <2>1, <2>2
<1>8. P(Listed(nss))
  BY <1>7
<1> HIDE DEF n
<1>9. Listed(nss) \in Seq(nss)
  BY <1>2, <1>7
<1>10. QED  BY <1>8, <1>9

LEMMA ListedType ==
    ASSUME NEW nss \in SUBSET Namespace
    PROVE  Listed(nss) \in Items
<1>1. nss \subseteq Pattern
  BY PolicyAssumption
<1>2. QED  BY <1>1, ListedFacts DEF Items

(* What the rule controller makes of its targets is a policy.                *)
LEMMA RulePolicyType ==
    ASSUME NEW nss \in SUBSET Namespace
    PROVE  RulePolicy(nss) \in Policy
<1>1. <<Star>> \in Items /\ Listed(nss) \in Items
  BY PolicyAssumption, ListedType DEF Items
<1>2. QED  BY <1>1 DEF RulePolicy, Policy

-----------------------------------------------------------------------------
(* Lists of namespaces: what NewAllowedNamespaces makes of a longer list.      *)

(* The item at i is the first one that ends the loop.                         *)
IsFirstStop(items, i) == i \in Stops(items) /\ \A j \in Stops(items) : i <= j

LEMMA FirstStopExists ==
    ASSUME NEW items \in Items, Stops(items) # {}
    PROVE  \E i \in Stops(items) : IsFirstStop(items, i)
<1> DEFINE less == OpToRel(<, Nat)
<1>1. Stops(items) \subseteq Nat
  BY DEF Stops, Items
<1>2. IsWellFoundedOn(less, Nat)
  BY NatLessThanWellFounded
<1> HIDE DEF less
<1>3. PICK i \in Stops(items) : \A j \in Stops(items) : ~(<<j, i>> \in less)
  BY <1>1, <1>2, WFMin
<1>4. \A j \in Stops(items) : ~(j < i)
  BY <1>1, <1>3 DEF less, OpToRel
<1>5. QED  BY <1>1, <1>3, <1>4 DEF IsFirstStop

LEMMA FirstStop ==
    ASSUME NEW items \in Items, NEW i, IsFirstStop(items, i)
    PROVE  NewAllowedNamespaces(items) =
              IF items[i] = Star
              THEN [patterns |-> {items[j] : j \in 1..(i - 1)}, isAll |-> TRUE]
              ELSE NoNamespaces
<1> DEFINE first == CHOOSE k \in Stops(items) : \A j \in Stops(items) : k <= j
<1>1. Stops(items) \subseteq Nat /\ Stops(items) # {}
  BY DEF Stops, Items, IsFirstStop
<1>2. first \in Stops(items) /\ \A j \in Stops(items) : first <= j
  BY DEF IsFirstStop
<1>3. first = i
  BY <1>1, <1>2 DEF IsFirstStop
<1>4. QED  BY <1>1, <1>3 DEF NewAllowedNamespaces

(* What list u has of s and of t, which it consists of: items and stops.       *)
Joins(u, s, t) ==
    /\ u \in Items /\ DOMAIN u = 1..(Len(s) + Len(t))
    /\ DOMAIN s = 1..Len(s) /\ DOMAIN t = 1..Len(t) /\ Len(s) \in Nat /\ Len(t) \in Nat
    /\ \A i \in 1..Len(s) : u[i] = s[i]
    /\ \A j \in 1..Len(t) : u[Len(s) + j] = t[j]
    /\ \A i \in Stops(s) : i \in Stops(u)
    /\ \A j \in Stops(t) : Len(s) + j \in Stops(u)
    /\ \A i \in Stops(u) : i \in Stops(s) \/ i - Len(s) \in Stops(t)

LEMMA ListsJoin ==
    ASSUME NEW s \in Items, NEW t \in Items
    PROVE  Joins(s \o t, s, t)
<1>1. PICK u : /\ u = s \o t /\ u \in Items /\ DOMAIN u = 1..(Len(s) + Len(t))
               /\ \A i \in 1..Len(s) : u[i] = s[i]
               /\ \A j \in 1..Len(t) : u[Len(s) + j] = t[j]
  <2>1. s \o t \in Items /\ DOMAIN (s \o t) = 1..(Len(s) + Len(t))
    BY DEF Items
  <2>2. \A i \in 1..Len(s) : (s \o t)[i] = s[i]
    BY DEF Items
  <2>3. \A j \in 1..Len(t) : (s \o t)[Len(s) + j] = t[j]
    BY DEF Items
  <2>4. QED  BY <2>1, <2>2, <2>3
<1>2. DOMAIN s = 1..Len(s) /\ DOMAIN t = 1..Len(t) /\ Len(s) \in Nat /\ Len(t) \in Nat
  BY DEF Items
<1>3. \A i \in Stops(s) : i \in Stops(u)
  BY <1>1, <1>2 DEF Stops
<1>4. \A j \in Stops(t) : Len(s) + j \in Stops(u)
  BY <1>1, <1>2 DEF Stops
<1>5. ASSUME NEW i \in Stops(u) PROVE i \in Stops(s) \/ i - Len(s) \in Stops(t)
  <2>1. i \in 1..(Len(s) + Len(t)) /\ (u[i] = Star \/ u[i] \in Malformed)
    BY <1>1 DEF Stops
  <2>2. CASE i \in 1..Len(s)
    BY <1>1, <1>2, <2>1, <2>2 DEF Stops
  <2>3. CASE i \notin 1..Len(s)
    <3>1. PICK j \in 1..Len(t) : i = Len(s) + j
      <4>1. i - Len(s) \in 1..Len(t) /\ i = Len(s) + (i - Len(s))
        BY <1>2, <2>1, <2>3
      <4>2. QED  BY <4>1
    <3>2. j \in Stops(t) /\ i - Len(s) = j
      BY <1>1, <1>2, <2>1, <3>1 DEF Stops
    <3>3. QED  BY <3>2
  <2>4. QED  BY <2>2, <2>3
<1>6. Joins(u, s, t)
  BY <1>1, <1>2, <1>3, <1>4, <1>5 DEF Joins
<1>7. QED  BY <1>1, <1>6

(* Nothing behind a "*" or an item that does not compile is read.               *)
LEMMA NothingReadAfterStop ==
    ASSUME NEW s \in Items, NEW t \in Items, Stops(s) # {}
    PROVE  NewAllowedNamespaces(s \o t) = NewAllowedNamespaces(s)
<1>1. PICK u : u = s \o t /\ Joins(u, s, t)
  BY ListsJoin
<1>2. PICK i \in Stops(s) : IsFirstStop(s, i)
  BY FirstStopExists
<1> DEFINE some == {s[j] : j \in 1..(i - 1)}
           all == {u[j] : j \in 1..(i - 1)}
<1>3. i \in 1..Len(s) /\ Len(s) \in Nat /\ u[i] = s[i] /\ u \in Items
  <2>1. i \in 1..Len(s)
    BY <1>1 DEF Joins, Stops
  <2>2. QED  BY <1>1, <2>1 DEF Joins
<1>4. IsFirstStop(u, i)
  <2>1. ASSUME NEW k \in Stops(u) PROVE i <= k
    <3>1. CASE k \in Stops(s)
      BY <1>2, <3>1 DEF IsFirstStop
    <3>2. CASE k - Len(s) \in Stops(t)
      <4>1. k - Len(s) \in 1..Len(t) /\ Len(t) \in Nat /\ k \in 1..(Len(s) + Len(t))
        BY <1>1, <3>2 DEF Joins, Stops
      <4>2. QED  BY <1>3, <4>1
    <3>3. QED  BY <1>1, <3>1, <3>2 DEF Joins
  <2>2. QED  BY <1>1, <1>2, <2>1 DEF Joins, IsFirstStop
<1>5. all = some
  <2>1. \A j \in 1..(i - 1) : u[j] = s[j]
    BY <1>1, <1>3 DEF Joins
  <2>2. QED  BY <2>1
<1>6. NewAllowedNamespaces(s) =
         IF s[i] = Star THEN [patterns |-> some, isAll |-> TRUE] ELSE NoNamespaces
  BY <1>2, FirstStop
<1>7. NewAllowedNamespaces(u) =
         IF u[i] = Star THEN [patterns |-> all, isAll |-> TRUE] ELSE NoNamespaces
  BY <1>3, <1>4, FirstStop
<1> HIDE DEF all, some
<1>8. QED  BY <1>1, <1>3, <1>5, <1>6, <1>7

(* What an item behind a list without a stop makes of it.                     *)
LEMMA ListWithoutStop ==
    ASSUME NEW s \in Items, Stops(s) = {}, NEW n
    PROVE  Matches(NewAllowedNamespaces(s), n) <=> \E i \in DOMAIN s : n \in Hits[s[i]]
BY DEF NewAllowedNamespaces, Matches

LEMMA LongerList ==
    ASSUME NEW s \in Items, NEW t \in Items, Stops(s) = {}, Stops(t) = {}, NEW n
    PROVE  Matches(NewAllowedNamespaces(s \o t), n) <=>
              Matches(NewAllowedNamespaces(s), n) \/ Matches(NewAllowedNamespaces(t), n)
<1>1. PICK u : u = s \o t /\ Joins(u, s, t)
  BY ListsJoin
<1>2. /\ u \in Items /\ DOMAIN u = 1..(Len(s) + Len(t)) /\ Len(s) \in Nat /\ Len(t) \in Nat
      /\ \A i \in 1..Len(s) : u[i] = s[i]
      /\ \A j \in 1..Len(t) : u[Len(s) + j] = t[j]
      /\ DOMAIN s = 1..Len(s) /\ DOMAIN t = 1..Len(t) /\ Stops(u) = {}
  BY <1>1 DEF Joins
<1>3. ASSUME NEW i \in DOMAIN u, n \in Hits[u[i]]
      PROVE  (\E j \in DOMAIN s : n \in Hits[s[j]]) \/ (\E j \in DOMAIN t : n \in Hits[t[j]])
  <2>1. CASE i \in 1..Len(s)
    BY <1>2, <1>3, <2>1
  <2>2. CASE i \notin 1..Len(s)
    <3>1. PICK j \in 1..Len(t) : i = Len(s) + j
      <4>1. i - Len(s) \in 1..Len(t) /\ i = Len(s) + (i - Len(s))
        BY <1>2, <2>2
      <4>2. QED  BY <4>1
    <3>2. QED  BY <1>2, <1>3, <3>1
  <2>3. QED  BY <2>1, <2>2
<1>4. ASSUME NEW j \in DOMAIN s, n \in Hits[s[j]] PROVE \E i \in DOMAIN u : n \in Hits[u[i]]
  <2>1. j \in DOMAIN u /\ u[j] = s[j]
    BY <1>2
  <2>2. QED  BY <1>4, <2>1
<1>5. ASSUME NEW j \in DOMAIN t, n \in Hits[t[j]] PROVE \E i \in DOMAIN u : n \in Hits[u[i]]
  <2>1. Len(s) + j \in DOMAIN u /\ u[Len(s) + j] = t[j]
    BY <1>2
  <2>2. QED  BY <1>5, <2>1
<1>6. Matches(NewAllowedNamespaces(u), n) <=> \E i \in DOMAIN u : n \in Hits[u[i]]
  BY <1>2, ListWithoutStop
<1>7. QED  BY <1>1, <1>3, <1>4, <1>5, <1>6, ListWithoutStop

LEMMA ListThatStops ==
    ASSUME NEW s \in Items, NEW t \in Items, Stops(s) = {}, NEW i, IsFirstStop(t, i), NEW n
    PROVE  Matches(NewAllowedNamespaces(s \o t), n) <=> t[i] = Star
<1>1. PICK u : u = s \o t /\ Joins(u, s, t)
  BY ListsJoin
<1>2. /\ u \in Items /\ Len(s) \in Nat /\ DOMAIN u = 1..(Len(s) + Len(t)) /\ Len(t) \in Nat
      /\ \A j \in 1..Len(t) : u[Len(s) + j] = t[j]
      /\ \A j \in Stops(t) : Len(s) + j \in Stops(u)
      /\ \A j \in Stops(u) : j - Len(s) \in Stops(t)
      /\ DOMAIN t = 1..Len(t)
  BY <1>1 DEF Joins
<1>3. i \in Stops(t) /\ i \in 1..Len(t) /\ u[Len(s) + i] = t[i]
  <2>1. i \in Stops(t) /\ i \in DOMAIN t
    BY DEF IsFirstStop, Stops
  <2>2. QED  BY <1>2, <2>1
<1>4. ASSUME NEW k \in Stops(u) PROVE Len(s) + i <= k
  <2>1. k - Len(s) \in Stops(t) /\ k \in DOMAIN u
    BY <1>2 DEF Stops
  <2>2. i <= k - Len(s) /\ k \in Nat
    BY <1>2, <2>1 DEF IsFirstStop
  <2>3. QED  BY <1>2, <1>3, <2>2
<1>5. IsFirstStop(u, Len(s) + i)
  BY <1>2, <1>3, <1>4 DEF IsFirstStop
<1>6. CASE t[i] = Star
  <2>1. NewAllowedNamespaces(u).isAll = TRUE
    BY <1>2, <1>3, <1>5, <1>6, FirstStop
  <2>2. QED  BY <1>1, <1>6, <2>1 DEF Matches
<1>7. CASE t[i] # Star
  <2>1. NewAllowedNamespaces(u) = NoNamespaces
    BY <1>2, <1>3, <1>5, <1>7, FirstStop
  <2>2. QED  BY <1>1, <1>7, <2>1 DEF Matches, NoNamespaces
<1>8. QED  BY <1>6, <1>7

(* How a list of namespaces grows, for replicate-to and auto-replicate-to and    *)
(* any patterns: what stands behind a "*" or behind an item that does not   *)
(* compile is never read; items that compile take no namespace away; and an *)
(* item that does not compile, put behind a list that had none, takes all   *)
(* of them away. This is the early return of NewAllowedNamespaces with the  *)
(* zero value, whose error the callers discard.                              *)
THEOREM NamespaceListLaws ==
    ASSUME NEW s \in Items, NEW t \in Items
    PROVE  /\ Stops(s) # {} => NewAllowedNamespaces(s \o t) = NewAllowedNamespaces(s)
           /\ (\A i \in DOMAIN t : t[i] \notin Malformed) =>
                 \A n : Matches(NewAllowedNamespaces(s), n) =>
                         Matches(NewAllowedNamespaces(s \o t), n)
           /\ Stops(s) = {} /\ t # <<>> /\ t[1] \in Malformed =>
                 \A n : ~Matches(NewAllowedNamespaces(s \o t), n)
<1>1. ASSUME \A i \in DOMAIN t : t[i] \notin Malformed, NEW n,
             Matches(NewAllowedNamespaces(s), n)
      PROVE  Matches(NewAllowedNamespaces(s \o t), n)
  <2>1. CASE Stops(s) # {}
    BY <1>1, <2>1, NothingReadAfterStop
  <2>2. CASE Stops(s) = {} /\ Stops(t) = {}
    BY <1>1, <2>2, LongerList
  <2>3. CASE Stops(s) = {} /\ Stops(t) # {}
    <3>1. PICK i \in Stops(t) : IsFirstStop(t, i)
      BY <2>3, FirstStopExists
    <3>2. t[i] = Star
      BY <1>1, <3>1 DEF Stops
    <3>3. QED  BY <2>3, <3>1, <3>2, ListThatStops
  <2>4. QED  BY <2>1, <2>2, <2>3
<1>2. ASSUME Stops(s) = {}, t # <<>>, t[1] \in Malformed, NEW n
      PROVE  ~Matches(NewAllowedNamespaces(s \o t), n)
  <2>1. 1 \in DOMAIN t /\ DOMAIN t \subseteq Nat \ {0}
    BY <1>2 DEF Items
  <2>2. IsFirstStop(t, 1)
    BY <1>2, <2>1 DEF IsFirstStop, Stops
  <2>3. t[1] # Star
    BY <1>2, PolicyAssumption
  <2>4. QED  BY <1>2, <2>2, <2>3, ListThatStops
<1>3. QED  BY <1>1, <1>2, NothingReadAfterStop

-----------------------------------------------------------------------------
(* Keys and revisions.                                                       *)

(* A key is a kind and an ID.                                                *)
LEMMA KeyFields ==
    \A k \in Key : k.kind \in Kind /\ k.id \in ID /\ k.id.ns \in Namespace
                   /\ k.id.name \in Name
BY DEF Key, ID

LEMMA EntryFields ==
    \A e \in Entry : /\ e.key \in Key /\ e.live \in BOOLEAN /\ e.data \in Nat
                     /\ e.policy \in Policy /\ e.helm \in BOOLEAN
                     /\ e.from \in ID \cup {NoID} /\ e.ver \in Nat
                     /\ e.auto \in BOOLEAN
BY DEF Entry

(* The targets of a rule are among the namespaces there are.                 *)
LEMMA TargetsAreNamespaces ==
    ASSUME NEW spec, NEW nss \in SUBSET Namespace
    PROVE  TargetNamespaces(spec, nss) \in SUBSET Namespace
BY DEF TargetNamespaces

(* Whatever Source a converter builds from a revision carries a policy.      *)
LEMMA SourcesArePolicies ==
    ASSUME NEW e \in Entry, NEW policy \in Sources(e)
    PROVE  policy \in Policy
<1>1. e.policy \in Policy
  BY EntryFields
<1>2. CASE policy \in {e.policy, MirrorView(e.policy)}
  BY <1>1, <1>2, PolicyTypes
<1>3. CASE \E t \in Template : policy \in Merged(e.policy, t)
  BY <1>1, <1>3, PolicyTypes, ResourcesAssumption
<1>4. CASE \E spec \in Rule, nss \in SUBSET Namespace :
              policy = RulePolicy(TargetNamespaces(spec, nss))
  BY <1>4, TargetsAreNamespaces, RulePolicyType
<1>5. \/ policy \in {e.policy, MirrorView(e.policy)}
      \/ policy \in IngressPolicies(e)
      \/ policy \in RulePolicies(e.key)
  BY DEF Sources
<1>6. policy \in IngressPolicies(e) => \E t \in Template : policy \in Merged(e.policy, t)
  BY DEF IngressPolicies
<1>7. policy \in RulePolicies(e.key) =>
         \E spec \in Rule, nss \in SUBSET Namespace :
            policy = RulePolicy(TargetNamespaces(spec, nss))
  BY DEF RulePolicies
<1>8. QED  BY <1>2, <1>3, <1>4, <1>5, <1>6, <1>7

(* What the operator writes is an entry.                                     *)
LEMMA MirrorEntryType ==
    ASSUME NEW k \in Key, NEW d \in Nat, NEW from \in ID, NEW v \in Nat,
           NEW a \in BOOLEAN
    PROVE  MirrorEntry(k, d, from, v, a) \in Entry
BY PolicyTypes DEF MirrorEntry, Entry

-----------------------------------------------------------------------------
(* The log.                                                                  *)

(* The log only grows and the cache only advances.                           *)
Advances ==
    /\ Len(log) <= Len(log')
    /\ \A i \in 1..Len(log) : log'[i] = log[i]
    /\ \A k \in Key : seen[k] <= seen'[k]

(* Commit appends one entry, which becomes the head of its key.              *)
LEMMA CommitFacts ==
    ASSUME ClusterTypeOK, NEW e \in Entry, Commit(e)
    PROVE  /\ log' \in Seq(Entry)
           /\ Len(log') = Len(log) + 1
           /\ \A i \in 1..Len(log) : log'[i] = log[i]
           /\ log'[Len(log) + 1] = e
           /\ head' \in [Key -> 0..Len(log')]
           /\ head'[e.key] = Len(log) + 1
           /\ \A k \in Key : k # e.key => head'[k] = head[k]
<1>1. log \in Seq(Entry) /\ e.key \in Key /\ head \in [Key -> 0..Len(log)]
  BY EntryFields DEF ClusterTypeOK
<1>2. log' = Append(log, e) /\ head' = [head EXCEPT ![e.key] = Len(log) + 1]
  BY DEF Commit
<1>3. /\ log' \in Seq(Entry) /\ Len(log') = Len(log) + 1
      /\ \A i \in 1..Len(log) : log'[i] = log[i]
      /\ log'[Len(log) + 1] = e
  BY <1>1, <1>2
<1>4. head' \in [Key -> 0..Len(log')]
  BY <1>1, <1>2, <1>3
<1>5. QED  BY <1>1, <1>2, <1>3, <1>4

(* A committed entry leaves the cluster well typed and the cache sound.      *)
LEMMA CommitSound ==
    ASSUME ClusterTypeOK, CacheSound, NEW e \in Entry, Commit(e),
           UNCHANGED <<seen, phase, nsSeen>>, budget' \in [Disturbance -> Nat]
    PROVE  ClusterTypeOK' /\ CacheSound' /\ Advances
<1>1. log \in Seq(Entry) /\ Len(log) \in Nat /\ head \in [Key -> 0..Len(log)]
      /\ seen \in [Key -> 0..Len(log)] /\ e.key \in Key
  BY EntryFields DEF ClusterTypeOK
<1>2. ClusterTypeOK'
  BY CommitFacts, <1>1 DEF ClusterTypeOK
<1>3. CacheSound'
  <2> SUFFICES ASSUME NEW k \in Key
               PROVE  /\ head'[k] # 0 => log'[head'[k]].key = k
                      /\ seen'[k] # 0 => log'[seen'[k]].key = k
                      /\ seen'[k] <= head'[k]
    BY DEF CacheSound
  <2>1. /\ head[k] # 0 => log[head[k]].key = k
        /\ seen[k] # 0 => log[seen[k]].key = k
        /\ seen[k] <= head[k]
        /\ seen'[k] = seen[k] /\ seen[k] \in 0..Len(log) /\ head[k] \in 0..Len(log)
    BY <1>1 DEF CacheSound
  <2>2. CASE k = e.key
    BY <2>1, <2>2, CommitFacts, <1>1
  <2>3. CASE k # e.key
    BY <2>1, <2>3, CommitFacts, <1>1
  <2>4. QED  BY <2>2, <2>3
<1>4. Advances
  BY <1>1, CommitFacts DEF Advances
<1>5. QED  BY <1>2, <1>3, <1>4

-----------------------------------------------------------------------------
(* Calls. Everything that moves the engine keeps its invariant as long as it  *)
(* only advances the cluster, leaves the invariant of the calls true of the   *)
(* new calls in the old state, and does not give away a Mirror object that    *)
(* one of the new calls holds.                                              *)

Holds(j, p) == p \in j.ptrs \/ p = j.cur

LEMMA EngineStep ==
    ASSUME ClusterTypeOK, EngineTypeOK,
           ClusterTypeOK', CacheSound', EngineTypeOK', StoreSound', Advances,
           \A u \in Worker : JobSound(job'[u]),
           \A u \in Worker : \A p \in Ptr :
              Holds(job'[u], p) => heap'[p].id = heap[p].id /\ heap'[p].kind = heap[p].kind
    PROVE  EngineInv'
<1> SUFFICES ASSUME NEW u \in Worker PROVE JobSound(job[u])'
  BY DEF EngineInv, EngineTypes, JobsSound
<1> DEFINE j == job'[u]
<1>1. j \in Job /\ JobSound(j)
  BY DEF EngineTypeOK
<1>2. /\ j.ver \in Nat /\ j.dat \in Nat /\ j.ptrs \subseteq Ptr /\ j.cur \in Ptr \cup {Nil}
  BY <1>1 DEF Job
<1>3. Len(log) \in Nat /\ Len(log') \in Nat /\ Len(log) <= Len(log')
      /\ \A i \in 1..Len(log) : log'[i] = log[i] /\ log[i].key \in Key
  BY EntryFields DEF ClusterTypeOK, Advances
<1>4. \A p \in Ptr : Holds(j, p) /\ heap[p].id \in ID /\ heap[p].kind \in Kind
                     => heap'[p].id \in ID /\ heap'[p].kind \in Kind
  OBVIOUS
<1>5. j.pc # "idle" => SourceSound(job[u])'
  <2> SUFFICES ASSUME j.pc # "idle" PROVE SourceSound(job[u])'
    OBVIOUS
  <2>1. SourceSound(j)
    BY <1>1 DEF JobSound
  <2>2. j.ver \in 1..Len(log) /\ log'[j.ver] = log[j.ver] /\ log[j.ver].key \in Key
    BY <1>3, <2>1 DEF SourceSound, IsSourceOf
  <2>3. j.ver <= seen[log[j.ver].key] /\ seen[log[j.ver].key] <= seen'[log[j.ver].key]
    BY <2>1, <2>2 DEF SourceSound, IsSourceOf, Advances
  <2>4. seen[log[j.ver].key] \in Nat /\ seen'[log[j.ver].key] \in Nat
    BY <2>2, <1>3 DEF ClusterTypeOK
  <2>5. j.ver <= seen'[log'[j.ver].key]
    BY <2>2, <2>3, <2>4, <1>2
  <2>6. QED  BY <2>1, <2>2, <2>5, <1>3 DEF SourceSound, IsSourceOf
<1>6. j.pc \in {"check", "set", "get", "write"} => PayloadSound(job[u])'
  <2> SUFFICES ASSUME j.pc \in {"check", "set", "get", "write"} PROVE PayloadSound(job[u])'
    OBVIOUS
  <2>1. SourceSound(j) /\ PayloadSound(j)
    BY <1>1 DEF JobSound
  <2>2. /\ j.ver \in 1..Len(log) /\ j.dat \in 1..Len(log)
        /\ log'[j.ver] = log[j.ver] /\ log'[j.dat] = log[j.dat]
    BY <1>3, <2>1 DEF SourceSound, IsSourceOf, PayloadSound
  <2>3. QED  BY <2>1, <2>2, <1>3 DEF PayloadSound
<1>7. j.pc \in {"set", "get", "write"} =>
         CanReflectToNamespace(j.policy, heap'[j.cur].id.ns)
  <2> SUFFICES ASSUME j.pc \in {"set", "get", "write"}
               PROVE  CanReflectToNamespace(j.policy, heap'[j.cur].id.ns)
    OBVIOUS
  <2>1. j.cur \in Ptr /\ CanReflectToNamespace(j.policy, heap[j.cur].id.ns)
    BY <1>1, <1>2 DEF JobSound, PayloadSound
  <2>2. QED  BY <2>1 DEF Holds
<1>8. j.pc \in {"conflict", "create"} => j.at \in ID
  BY <1>1 DEF JobSound
<1>9. \A p \in Ptr : Holds(j, p) => heap'[p].id \in ID /\ heap'[p].kind \in Kind
  BY <1>1, <1>2, <1>4, EngineAssumption DEF JobSound, Holds, Allocated, Nil
<1>10. QED
  <2>1. /\ \A p \in j.ptrs : heap'[p].id \in ID /\ heap'[p].kind \in Kind
        /\ j.cur # Nil => heap'[j.cur].id \in ID /\ heap'[j.cur].kind \in Kind
    BY <1>2, <1>9 DEF Holds
  <2>2. QED  BY <1>5, <1>6, <1>7, <1>8, <2>1 DEF JobSound, Allocated

(* A call is replaced by another one: all calls are sound if the new one is. *)
LEMMA JobUpdate ==
    ASSUME EngineTypeOK, JobsSound, NEW w \in Worker, NEW x \in Job, JobSound(x),
           job' = [job EXCEPT ![w] = x]
    PROVE  /\ job' \in [Worker -> Job]
           /\ job'[w] = x
           /\ \A u \in Worker : u # w => job'[u] = job[u]
           /\ \A u \in Worker : JobSound(job'[u])
<1>1. /\ job' \in [Worker -> Job]
      /\ job'[w] = x
      /\ \A u \in Worker : u # w => job'[u] = job[u]
  BY DEF EngineTypeOK
<1>2. ASSUME NEW u \in Worker PROVE JobSound(job'[u])
  <2>1. CASE u = w
    BY <1>1, <2>1
  <2>2. CASE u # w
    <3>1. JobSound(job[u])
      BY DEF JobsSound
    <3>2. QED  BY <1>1, <2>2, <3>1
  <2>3. QED  BY <2>1, <2>2
<1>3. QED  BY <1>1, <1>2

(* What a step inside the call of w has to show when it writes nothing.       *)
LEMMA LocalStep ==
    ASSUME EngineInv, NEW w \in Worker, NEW x \in Job, JobSound(x),
           job' = [job EXCEPT ![w] = x], UNCHANGED <<log, head, seen, phase, nsSeen, heap>>,
           budget' \in [Disturbance -> Nat],
           store' \in [ID -> Ptr \cup {Nil}],
           \A id \in ID : store'[id] \in {store[id], Nil}
    PROVE  EngineInv'
<1>1. /\ ClusterTypeOK /\ EngineTypeOK /\ CacheSound /\ StoreSound /\ JobsSound
  BY DEF EngineInv, EngineTypes
<1>2. /\ job' \in [Worker -> Job]
      /\ \A u \in Worker : JobSound(job'[u])
  BY <1>1, JobUpdate
<1>3. ClusterTypeOK' /\ CacheSound'
  BY <1>1 DEF ClusterTypeOK, CacheSound
<1>4. Advances
  <2>1. \A k \in Key : seen[k] \in Nat
    BY <1>1 DEF ClusterTypeOK
  <2>2. QED  BY <1>1, <2>1 DEF Advances, ClusterTypeOK
<1>5. EngineTypeOK'
  BY <1>1, <1>2 DEF EngineTypeOK
<1>6. StoreSound'
  BY <1>1 DEF StoreSound, Allocated
<1>7. QED  BY <1>1, <1>2, <1>3, <1>4, <1>5, <1>6, EngineStep

(* The calls that a call may turn into.                                      *)

LEMMA NoJobSound == NoJob \in Job /\ JobSound(NoJob)
<1>1. NoJob \in Job
  BY PolicyTypes DEF NoJob, Job, Nil
<1>2. JobSound(NoJob)
  BY DEF NoJob, JobSound, Nil
<1>3. QED  BY <1>1, <1>2

(* A call that keeps its Source and has no mirror in hand is sound.          *)
LEMMA SameSource ==
    ASSUME NEW j, JobSound(j), j.pc # "idle",
           NEW x, x.ver = j.ver, x.policy = j.policy, x.name = j.name,
           x.pc \in {"auto", "conflict", "create", "cleanup", "forget", "mirrors"},
           x.pc \in {"conflict", "create"} => x.at \in ID,
           \A p \in x.ptrs : Allocated(p),
           x.cur # Nil => x.cur = j.cur
    PROVE  JobSound(x)
<1>1. SourceSound(x)
  BY DEF SourceSound, IsSourceOf, JobSound
<1>2. x.cur # Nil => Allocated(x.cur)
  BY DEF JobSound
<1>3. QED  BY <1>1, <1>2 DEF JobSound

(* Execute goes on with the next mirror, with the next namespace.            *)
LEMMA NextMirrorSound ==
    ASSUME NEW j \in Job, JobSound(j), j.pc # "idle"
    PROVE  LET x == [j EXCEPT !.pc = "mirrors", !.cur = Nil, !.dat = 0, !.got = 0]
           IN  x \in Job /\ JobSound(x) /\ x.cur = Nil /\ x.ptrs = j.ptrs
<1> DEFINE x == [j EXCEPT !.pc = "mirrors", !.cur = Nil, !.dat = 0, !.got = 0]
<1>1. x \in Job
  BY DEF Job, Nil
<1>2. /\ x.pc = "mirrors" /\ x.ver = j.ver /\ x.policy = j.policy
      /\ x.name = j.name
      /\ x.ptrs = j.ptrs /\ x.cur = Nil
  BY DEF Job, Nil
<1>3. \A p \in j.ptrs : Allocated(p)
  BY DEF JobSound
<1> HIDE DEF x
<1>4. JobSound(x)
  BY <1>2, <1>3, SameSource
<1>5. QED  BY <1>1, <1>2, <1>4 DEF x

LEMMA NextNamespaceSound ==
    ASSUME NEW j \in Job, JobSound(j), j.pc # "idle"
    PROVE  LET x == [j EXCEPT !.pc = AfterNamespaces(j.nss), !.at = NoID]
           IN  x \in Job /\ JobSound(x) /\ x.cur = j.cur /\ x.ptrs = j.ptrs
<1> DEFINE x == [j EXCEPT !.pc = AfterNamespaces(j.nss), !.at = NoID]
<1>1. x \in Job
  BY DEF Job, AfterNamespaces
<1>2. /\ x.pc \in {"auto", "cleanup"} /\ x.ver = j.ver /\ x.policy = j.policy
      /\ x.name = j.name
      /\ x.ptrs = j.ptrs /\ x.cur = j.cur
  BY DEF Job, AfterNamespaces
<1>3. \A p \in j.ptrs : Allocated(p)
  BY DEF JobSound
<1> HIDE DEF x
<1>4. JobSound(x)
  BY <1>2, <1>3, SameSource
<1>5. QED  BY <1>1, <1>2, <1>4 DEF x

-----------------------------------------------------------------------------
(* The invariant is kept by every action of the engine.                      *)

LEMMA Parts ==
    ASSUME EngineInv
    PROVE  /\ ClusterTypeOK /\ EngineTypeOK /\ CacheSound /\ StoreSound /\ JobsSound
           /\ \A w \in Worker : job[w] \in Job /\ JobSound(job[w])
           /\ budget \in [Disturbance -> Nat] /\ store \in [ID -> Ptr \cup {Nil}]
           /\ heap \in [Ptr -> Mirror] /\ Len(log) \in Nat
           /\ head \in [Key -> 0..Len(log)] /\ seen \in [Key -> 0..Len(log)]
           /\ \A i \in 1..Len(log) : log[i] \in Entry
BY DEF EngineInv, EngineTypes, EngineTypeOK, ClusterTypeOK, JobsSound

LEMMA SourceFacts ==
    ASSUME EngineInv, NEW w \in Worker, job[w].pc # "idle"
    PROVE  /\ job[w].ver \in 1..Len(log) /\ SourceKey(w) \in Key
           /\ SourceKey(w).kind \in Kind /\ SourceID(w) \in ID
           /\ job[w].ver <= seen[SourceKey(w)]
           /\ \A n \in Namespace : TargetID(w, n) \in ID
<1>1. SourceSound(job[w])
  BY Parts DEF JobSound
<1>2. job[w].ver \in 1..Len(log) /\ job[w].ver <= seen[SourceKey(w)]
  BY <1>1 DEF SourceSound, IsSourceOf, SourceKey
<1>3. SourceKey(w) \in Key
  BY <1>2, Parts, EntryFields DEF SourceKey
<1>4. SourceKey(w).kind \in Kind /\ SourceID(w) \in ID
  BY <1>3, KeyFields DEF SourceID
<1>5. \A n \in Namespace : TargetID(w, n) \in ID
  BY <1>1 DEF SourceSound, IsSourceOf, TargetID, ID
<1>6. QED  BY <1>2, <1>3, <1>4, <1>5

LEMMA ExecuteSafe ==
    ASSUME EngineInv, NEW w \in Worker, NEW v \in 1..Len(log), NEW policy,
           NEW name \in Name, IsSourceOf(policy, v), Execute(w, v, policy, name)
    PROVE  EngineInv'
<1> DEFINE nss == {n \in ListNamespaces \ {log[v].key.id.ns} : CanAutoMirrorToNamespace(policy, n)}
           x == [NoJob EXCEPT !.pc = AfterNamespaces(nss), !.nss = nss,
                              !.ver = v, !.policy = policy, !.name = name]
<1>1. /\ job' = [job EXCEPT ![w] = x]
      /\ policy \in Sources(log[v])
      /\ UNCHANGED <<clusterVars, store, heap>>
  BY DEF Execute, IsSourceOf
<1>2. log[v] \in Entry
  BY Parts
<1>3. policy \in Policy
  BY <1>1, <1>2, SourcesArePolicies
<1>4. nss \subseteq Namespace
  BY Parts DEF ClusterTypeOK, ListNamespaces
<1> HIDE DEF nss
<1>5. x \in Job
  <2>1. AfterNamespaces(nss) \in {"auto", "cleanup"} /\ v \in Nat
    BY DEF AfterNamespaces
  <2>2. QED  BY <1>3, <1>4, <2>1, NoJobSound DEF Job
<1>6. /\ x.pc \in {"auto", "cleanup"} /\ x.ver = v /\ x.policy = policy /\ x.name = name
      /\ x.ptrs = {} /\ x.cur = Nil
  BY DEF NoJob, AfterNamespaces
<1> HIDE DEF x
<1>7. SourceSound(x)
  BY <1>6 DEF SourceSound
<1>8. JobSound(x)
  BY <1>6, <1>7 DEF JobSound
<1>9. QED  BY <1>1, <1>5, <1>8, Parts, LocalStep DEF clusterVars

LEMMA CreateAutoMirrorIfNotExistsSafe ==
    ASSUME EngineInv, NEW w \in Worker, NEW n \in Namespace,
           CreateAutoMirrorIfNotExists(w, n)
    PROVE  EngineInv'
<1> DEFINE nss == job[w].nss \ {n}
           x == [job[w] EXCEPT !.nss = nss, !.pc = AfterNamespaces(nss)]
           y == [job[w] EXCEPT !.nss = nss, !.pc = "conflict", !.at = TargetID(w, n)]
<1>1. /\ job[w].pc = "auto" /\ UNCHANGED <<clusterVars, store, heap>>
      /\ \/ job' = [job EXCEPT ![w] = x]
         \/ job' = [job EXCEPT ![w] = y]
  BY DEF CreateAutoMirrorIfNotExists
<1>2. /\ job[w] \in Job /\ JobSound(job[w]) /\ TargetID(w, n) \in ID
      /\ \A p \in job[w].ptrs : Allocated(p)
  BY <1>1, Parts, SourceFacts DEF JobSound
<1>3. x \in Job /\ y \in Job
  BY <1>2 DEF Job, AfterNamespaces
<1>4. /\ x.pc \in {"auto", "cleanup"} /\ x.ver = job[w].ver /\ x.policy = job[w].policy
      /\ x.name = job[w].name
      /\ x.ptrs = job[w].ptrs /\ x.cur = job[w].cur
  BY <1>2 DEF Job, AfterNamespaces
<1>5. /\ y.pc = "conflict" /\ y.ver = job[w].ver /\ y.policy = job[w].policy
      /\ y.name = job[w].name
      /\ y.at \in ID /\ y.ptrs = job[w].ptrs /\ y.cur = job[w].cur
  BY <1>2 DEF Job
<1> HIDE DEF x, y
<1>6. JobSound(x)
  BY <1>1, <1>2, <1>4, SameSource
<1>7. JobSound(y)
  BY <1>1, <1>2, <1>5, SameSource
<1>8. QED  BY <1>1, <1>3, <1>6, <1>7, Parts, LocalStep DEF clusterVars

LEMMA CheckForConflictsSafe ==
    ASSUME EngineInv, NEW w \in Worker, CheckForConflicts(w)
    PROVE  EngineInv'
<1> DEFINE x == [job[w] EXCEPT !.pc = AfterNamespaces(job[w].nss), !.at = NoID]
           y == [job[w] EXCEPT !.pc = "create"]
<1>1. /\ job[w].pc = "conflict" /\ UNCHANGED <<clusterVars, store, heap>>
      /\ \/ job' = [job EXCEPT ![w] = x]
         \/ job' = [job EXCEPT ![w] = y]
  BY DEF CheckForConflicts, NextNamespace, Go
<1>2. /\ job[w] \in Job /\ JobSound(job[w]) /\ job[w].at \in ID
      /\ \A p \in job[w].ptrs : Allocated(p)
  BY <1>1, Parts DEF JobSound
<1>3. x \in Job /\ JobSound(x)
  BY <1>1, <1>2, NextNamespaceSound
<1>4. y \in Job
  BY <1>2 DEF Job
<1>5. /\ y.pc = "create" /\ y.ver = job[w].ver /\ y.policy = job[w].policy
      /\ y.name = job[w].name
      /\ y.at = job[w].at /\ y.ptrs = job[w].ptrs /\ y.cur = job[w].cur
  BY <1>2 DEF Job
<1> HIDE DEF x, y
<1>6. JobSound(y)
  BY <1>1, <1>2, <1>5, SameSource
<1>7. QED  BY <1>1, <1>3, <1>4, <1>6, Parts, LocalStep DEF clusterVars

LEMMA CleanupAutoMirrorsSafe ==
    ASSUME EngineInv, NEW w \in Worker, CleanupAutoMirrors(w)
    PROVE  EngineInv'
<1> DEFINE ids == {id \in GetBySourceID(SourceID(w)) :
                     ~CanAutoMirrorToNamespace(job[w].policy, id.ns)}
           x == [job[w] EXCEPT !.pc = "forget", !.ids = ids]
<1>1. /\ job[w].pc = "cleanup" /\ UNCHANGED <<clusterVars, store, heap>>
      /\ job' = [job EXCEPT ![w] = x]
  BY DEF CleanupAutoMirrors
<1>2. /\ job[w] \in Job /\ JobSound(job[w]) /\ ids \subseteq ID
      /\ \A p \in job[w].ptrs : Allocated(p)
  BY <1>1, Parts DEF JobSound, GetBySourceID
<1> HIDE DEF ids
<1>3. x \in Job
  BY <1>2 DEF Job
<1>4. /\ x.pc = "forget" /\ x.ver = job[w].ver /\ x.policy = job[w].policy
      /\ x.name = job[w].name
      /\ x.ptrs = job[w].ptrs /\ x.cur = job[w].cur
  BY <1>2 DEF Job
<1> HIDE DEF x
<1>5. JobSound(x)
  BY <1>1, <1>2, <1>4, SameSource
<1>6. QED  BY <1>1, <1>3, <1>5, Parts, LocalStep DEF clusterVars

LEMMA ForgetMirrorSafe ==
    ASSUME EngineInv, NEW w \in Worker, NEW id \in ID, ForgetMirror(w, id)
    PROVE  EngineInv'
<1> DEFINE x == [job[w] EXCEPT !.ids = @ \ {id}]
<1>1. /\ job[w].pc = "forget" /\ UNCHANGED <<clusterVars, heap>>
      /\ store' = [store EXCEPT ![id] = Nil]
      /\ job' = [job EXCEPT ![w] = x]
  BY DEF ForgetMirror, Unregister
<1>2. /\ job[w] \in Job /\ JobSound(job[w])
      /\ \A p \in job[w].ptrs : Allocated(p)
  BY <1>1, Parts DEF JobSound
<1>3. x \in Job
  BY <1>2 DEF Job
<1>4. /\ x.pc = "forget" /\ x.ver = job[w].ver /\ x.policy = job[w].policy
      /\ x.name = job[w].name
      /\ x.ptrs = job[w].ptrs /\ x.cur = job[w].cur
  BY <1>1, <1>2 DEF Job
<1> HIDE DEF x
<1>5. JobSound(x)
  BY <1>1, <1>2, <1>4, SameSource
<1>6. /\ store' \in [ID -> Ptr \cup {Nil}]
      /\ \A i \in ID : store'[i] \in {store[i], Nil}
  BY <1>1, Parts
<1>7. QED  BY <1>1, <1>3, <1>5, <1>6, Parts, LocalStep DEF clusterVars

LEMMA ListMirrorsSafe ==
    ASSUME EngineInv, NEW w \in Worker, ListMirrors(w)
    PROVE  EngineInv'
<1> DEFINE ptrs == {store[id] : id \in GetBySourceID(SourceID(w))}
           x == [job[w] EXCEPT !.pc = "mirrors", !.ptrs = ptrs]
<1>1. /\ job[w].pc = "forget" /\ UNCHANGED <<clusterVars, store, heap>>
      /\ job' = [job EXCEPT ![w] = x]
  BY DEF ListMirrors
<1>2. job[w] \in Job /\ JobSound(job[w])
  BY Parts
<1>3. ptrs \subseteq Ptr /\ \A p \in ptrs : Allocated(p)
  BY Parts DEF GetBySourceID, Registered, StoreSound
<1> HIDE DEF ptrs
<1>4. x \in Job
  BY <1>2, <1>3 DEF Job
<1>5. /\ x.pc = "mirrors" /\ x.ver = job[w].ver /\ x.policy = job[w].policy
      /\ x.name = job[w].name
      /\ x.ptrs = ptrs /\ x.cur = job[w].cur
  BY <1>2 DEF Job
<1> HIDE DEF x
<1>6. JobSound(x)
  BY <1>1, <1>2, <1>3, <1>5, SameSource
<1>7. QED  BY <1>1, <1>4, <1>6, Parts, LocalStep DEF clusterVars

LEMMA ReadSourceSafe ==
    ASSUME EngineInv, NEW w \in Worker, NEW p \in Ptr, ReadSource(w, p)
    PROVE  EngineInv'
<1> DEFINE r == seen[SourceKey(w)]
           x == [job[w] EXCEPT !.ptrs = job[w].ptrs \ {p}]
           y == [job[w] EXCEPT !.ptrs = job[w].ptrs \ {p}, !.pc = "check", !.cur = p, !.dat = r]
<1>1. /\ job[w].pc = "mirrors" /\ p \in job[w].ptrs /\ UNCHANGED <<clusterVars, store, heap>>
      /\ \/ job' = [job EXCEPT ![w] = x]
         \/ Live(r) /\ job' = [job EXCEPT ![w] = y]
  BY DEF ReadSource
<1>2. /\ job[w] \in Job /\ JobSound(job[w]) /\ SourceSound(job[w])
      /\ \A q \in job[w].ptrs : Allocated(q)
  BY <1>1, Parts DEF JobSound
<1>3. x \in Job
  BY <1>2 DEF Job
<1>4. /\ x.pc = "mirrors" /\ x.ver = job[w].ver /\ x.policy = job[w].policy
      /\ x.name = job[w].name
      /\ x.ptrs = job[w].ptrs \ {p} /\ x.cur = job[w].cur
  BY <1>1, <1>2 DEF Job
<1>5. JobSound(x)
  <2> HIDE DEF x
  <2>1. QED  BY <1>1, <1>2, <1>4, SameSource
<1>6. r \in Nat /\ SourceKey(w) \in Key /\ r \in 0..Len(log) /\ job[w].ver <= r
  BY <1>1, SourceFacts, Parts
<1>7. y \in Job
  BY <1>2, <1>6 DEF Job
<1>8. /\ y.pc = "check" /\ y.ver = job[w].ver /\ y.policy = job[w].policy
      /\ y.name = job[w].name
      /\ y.ptrs = job[w].ptrs \ {p} /\ y.cur = p /\ y.dat = r
  BY <1>2 DEF Job
<1>9. Live(r) => JobSound(y)
  <2> HIDE DEF y
  <2> SUFFICES ASSUME Live(r) PROVE JobSound(y)
    OBVIOUS
  <2>1. r \in 1..Len(log) /\ log[r].live /\ log[r].key = SourceKey(w)
    BY <1>6, Parts DEF Live, CacheSound
  <2>2. SourceSound(y)
    BY <1>2, <1>8 DEF SourceSound, IsSourceOf
  <2>3. PayloadSound(y)
    BY <1>6, <1>8, <2>1, EngineAssumption DEF PayloadSound, SourceKey, Nil
  <2>4. QED  BY <1>1, <1>2, <1>8, <2>2, <2>3 DEF JobSound
<1> HIDE DEF x, y
<1>10. QED  BY <1>1, <1>3, <1>5, <1>7, <1>9, Parts, LocalStep DEF clusterVars

(* A call with a mirror in hand has a sound Source and payload.              *)
LEMMA InHand ==
    ASSUME EngineInv, NEW w \in Worker, job[w].pc \in {"check", "set", "get", "write"}
    PROVE  /\ job[w] \in Job /\ JobSound(job[w])
           /\ SourceSound(job[w]) /\ PayloadSound(job[w])
           /\ job[w].cur \in Ptr /\ Allocated(job[w].cur)
           /\ \A p \in job[w].ptrs : Allocated(p)
           /\ MirrorKey(w) \in Key
<1>1. /\ job[w] \in Job /\ JobSound(job[w])
      /\ SourceSound(job[w]) /\ PayloadSound(job[w])
      /\ \A p \in job[w].ptrs : Allocated(p)
  BY Parts DEF JobSound
<1>2. job[w].cur \in Ptr /\ Allocated(job[w].cur)
  BY <1>1 DEF Job, PayloadSound, JobSound
<1>3. MirrorKey(w) \in Key
  BY <1>2 DEF MirrorKey, Key, Allocated
<1>4. QED  BY <1>1, <1>2, <1>3

(* Moving on to a later step with the same mirror in hand.                   *)
LEMMA GoSound ==
    ASSUME EngineInv, NEW w \in Worker, job[w].pc \in {"check", "set", "get", "write"},
           CanReflectToNamespace(job[w].policy, heap[job[w].cur].id.ns),
           NEW x \in Job, x.pc \in {"set", "get", "write"},
           x.ver = job[w].ver, x.policy = job[w].policy, x.name = job[w].name, x.ptrs = job[w].ptrs,
           x.cur = job[w].cur, x.dat = job[w].dat
    PROVE  JobSound(x)
<1>1. SourceSound(x)
  BY InHand DEF SourceSound, IsSourceOf
<1>2. PayloadSound(x)
  BY InHand DEF PayloadSound
<1>3. QED  BY <1>1, <1>2, InHand DEF JobSound

LEMMA ReflectSafe ==
    ASSUME EngineInv, NEW w \in Worker, Reflect(w)
    PROVE  EngineInv'
<1> DEFINE x == [job[w] EXCEPT !.pc = "mirrors", !.cur = Nil, !.dat = 0, !.got = 0]
           y == [job[w] EXCEPT !.pc = "set"]
<1>1. /\ job[w].pc = "check" /\ UNCHANGED <<clusterVars, store, heap>>
      /\ \/ job' = [job EXCEPT ![w] = x]
         \/ /\ CanReflectToNamespace(job[w].policy, heap[job[w].cur].id.ns)
            /\ job' = [job EXCEPT ![w] = y]
  BY DEF Reflect, NextMirror, Go
<1>2. job[w] \in Job /\ JobSound(job[w])
  BY Parts
<1>3. x \in Job /\ JobSound(x)
  BY <1>1, <1>2, NextMirrorSound
<1>4. /\ y \in Job /\ y.pc = "set" /\ y.ver = job[w].ver /\ y.policy = job[w].policy
      /\ y.name = job[w].name
      /\ y.ptrs = job[w].ptrs /\ y.cur = job[w].cur /\ y.dat = job[w].dat
  BY <1>2 DEF Job
<1> HIDE DEF x, y
<1>5. CanReflectToNamespace(job[w].policy, heap[job[w].cur].id.ns) => JobSound(y)
  BY <1>1, <1>4, GoSound
<1>6. QED  BY <1>1, <1>3, <1>4, <1>5, Parts, LocalStep DEF clusterVars

LEMMA GetMirrorSafe ==
    ASSUME EngineInv, NEW w \in Worker, GetMirror(w)
    PROVE  EngineInv'
<1> DEFINE r == seen[MirrorKey(w)]
           got == IF Live(r) THEN r ELSE 0
           x == [job[w] EXCEPT !.pc = "mirrors", !.cur = Nil, !.dat = 0, !.got = 0]
           y == [job[w] EXCEPT !.pc = "write", !.got = got]
<1>1. /\ job[w].pc = "get" /\ UNCHANGED <<clusterVars, store, heap>>
      /\ \/ job' = [job EXCEPT ![w] = x]
         \/ job' = [job EXCEPT ![w] = y]
  BY DEF GetMirror, NextMirror
<1>2. /\ job[w] \in Job /\ JobSound(job[w])
      /\ CanReflectToNamespace(job[w].policy, heap[job[w].cur].id.ns)
  BY <1>1, Parts DEF JobSound
<1>3. got \in Nat
  BY <1>1, InHand, Parts
<1> HIDE DEF got
<1>4. x \in Job /\ JobSound(x)
  BY <1>1, <1>2, NextMirrorSound
<1>5. /\ y \in Job /\ y.pc = "write" /\ y.ver = job[w].ver /\ y.policy = job[w].policy
      /\ y.name = job[w].name
      /\ y.ptrs = job[w].ptrs /\ y.cur = job[w].cur /\ y.dat = job[w].dat
  BY <1>2, <1>3 DEF Job
<1> HIDE DEF x, y
<1>6. JobSound(y)
  BY <1>1, <1>2, <1>5, GoSound
<1>7. QED  BY <1>1, <1>4, <1>5, <1>6, Parts, LocalStep DEF clusterVars

LEMMA WriteRejectedSafe ==
    ASSUME EngineInv, NEW w \in Worker, WriteRejected(w)
    PROVE  EngineInv'
<1> DEFINE x == [job[w] EXCEPT !.pc = "mirrors", !.cur = Nil, !.dat = 0, !.got = 0]
<1>1. /\ job[w].pc = "write" /\ UNCHANGED <<clusterVars, store, heap>>
      /\ job' = [job EXCEPT ![w] = x]
  BY DEF WriteRejected, NextMirror
<1>2. x \in Job /\ JobSound(x)
  BY <1>1, Parts, NextMirrorSound
<1> HIDE DEF x
<1>3. QED  BY <1>1, <1>2, Parts, LocalStep DEF clusterVars

(* A disturbance leaves a budget.                                            *)
LEMMA SpendType ==
    ASSUME ClusterTypeOK, NEW d \in Disturbance, Spend(d)
    PROVE  budget' \in [Disturbance -> Nat]
BY DEF ClusterTypeOK, Spend

LEMMA WriteFailsSafe ==
    ASSUME EngineInv, NEW w \in Worker, WriteFails(w)
    PROVE  EngineInv'
<1> DEFINE x == [job[w] EXCEPT !.pc = "mirrors", !.cur = Nil, !.dat = 0, !.got = 0]
<1>1. /\ job[w].pc = "write" /\ UNCHANGED <<log, head, seen, phase, nsSeen, store, heap>>
      /\ job' = [job EXCEPT ![w] = x] /\ Spend("fault")
  BY DEF WriteFails, NextMirror
<1>2. x \in Job /\ JobSound(x)
  BY <1>1, Parts, NextMirrorSound
<1> HIDE DEF x
<1>3. budget' \in [Disturbance -> Nat]
  BY <1>1, Parts, SpendType DEF Disturbance
<1>4. QED  BY <1>1, <1>2, <1>3, Parts, LocalStep

LEMMA ExecuteReturnsSafe ==
    ASSUME EngineInv, NEW w \in Worker, ExecuteReturns(w)
    PROVE  EngineInv'
<1>1. job' = [job EXCEPT ![w] = NoJob] /\ UNCHANGED <<clusterVars, store, heap>>
  BY DEF ExecuteReturns
<1>2. QED  BY <1>1, NoJobSound, Parts, LocalStep DEF clusterVars

(* SetVersion keeps the ID and the kind of the object it marks.              *)
LEMMA SetVersionSafe ==
    ASSUME EngineInv, NEW w \in Worker, SetVersion(w)
    PROVE  EngineInv'
<1> DEFINE x == [job[w] EXCEPT !.pc = "get"]
<1>1. /\ job[w].pc = "set" /\ UNCHANGED <<clusterVars, store>>
      /\ job' = [job EXCEPT ![w] = x]
      /\ heap' = [heap EXCEPT ![job[w].cur].version = job[w].ver]
  BY DEF SetVersion, Go
<1>2. /\ job[w] \in Job /\ job[w].cur \in Ptr /\ job[w].ver \in Nat
      /\ CanReflectToNamespace(job[w].policy, heap[job[w].cur].id.ns)
  BY <1>1, InHand DEF JobSound, Job
<1>3. /\ x \in Job /\ x.pc = "get" /\ x.ver = job[w].ver /\ x.policy = job[w].policy
      /\ x.name = job[w].name
      /\ x.ptrs = job[w].ptrs /\ x.cur = job[w].cur /\ x.dat = job[w].dat
  BY <1>2 DEF Job
<1> HIDE DEF x
<1>4. JobSound(x)
  BY <1>1, <1>2, <1>3, GoSound
<1>5. /\ job' \in [Worker -> Job] /\ \A u \in Worker : JobSound(job'[u])
  BY <1>1, <1>3, <1>4, Parts, JobUpdate
<1> DEFINE y == [heap[job[w].cur] EXCEPT !.version = job[w].ver]
<1>6. /\ heap' = [heap EXCEPT ![job[w].cur] = y] /\ y \in Mirror
      /\ y.id = heap[job[w].cur].id /\ y.kind = heap[job[w].cur].kind
  <2>1. heap[job[w].cur] \in Mirror
    BY <1>2, Parts
  <2>2. QED  BY <1>1, <1>2, <2>1 DEF Mirror
<1> HIDE DEF y
<1>7. heap' \in [Ptr -> Mirror]
  BY <1>2, <1>6, Parts
<1>8. \A p \in Ptr : heap'[p].id = heap[p].id /\ heap'[p].kind = heap[p].kind
  BY <1>2, <1>6, Parts
<1>9. EngineTypeOK' /\ ClusterTypeOK' /\ CacheSound'
  BY <1>1, <1>5, <1>7, Parts DEF EngineTypeOK, ClusterTypeOK, CacheSound, clusterVars
<1>10. StoreSound'
  BY <1>1, <1>8, Parts DEF StoreSound, Allocated
<1>11. Advances
  BY <1>1, Parts DEF Advances, clusterVars
<1>12. QED  BY <1>5, <1>8, <1>9, <1>10, <1>11, Parts, EngineStep

(* A registration takes an address that no call holds.                       *)
LEMMA RegisterFacts ==
    ASSUME EngineTypeOK, StoreSound, NEW id \in ID, NEW source \in ID,
           NEW kind \in Kind, NEW auto \in BOOLEAN, Register(id, source, kind, auto)
    PROVE  /\ store' \in [ID -> Ptr \cup {Nil}] /\ heap' \in [Ptr -> Mirror]
           /\ StoreSound'
           /\ \A u \in Worker : \A p \in Ptr : Holds(job[u], p) => heap'[p] = heap[p]
<1> DEFINE m == [id |-> id, source |-> source, kind |-> kind, version |-> 0, auto |-> auto]
<1>1. PICK p \in Fresh : heap' = [heap EXCEPT ![p] = m] /\ store' = [store EXCEPT ![id] = p]
  BY DEF Register
<1>2. m \in Mirror /\ m.id \in ID /\ m.kind \in Kind
  BY DEF Mirror
<1> HIDE DEF m
<1>3. /\ p \in Ptr /\ \A i \in ID : store[i] # p
      /\ \A w \in Worker : p \notin job[w].ptrs /\ p # job[w].cur
  BY <1>1 DEF Fresh
<1>4. store' \in [ID -> Ptr \cup {Nil}] /\ heap' \in [Ptr -> Mirror]
  BY <1>1, <1>2, <1>3 DEF EngineTypeOK
<1>5. \A u \in Worker : \A q \in Ptr : Holds(job[u], q) => heap'[q] = heap[q]
  BY <1>1, <1>3 DEF Holds, EngineTypeOK
<1>6. StoreSound'
  <2> SUFFICES ASSUME NEW i \in ID, store'[i] # Nil
               PROVE  heap'[store'[i]].id \in ID /\ heap'[store'[i]].kind \in Kind
    BY DEF StoreSound, Allocated
  <2>1. CASE i = id
    BY <1>1, <1>2, <1>3, <2>1 DEF EngineTypeOK
  <2>2. CASE i # id
    BY <1>1, <1>3, <2>2 DEF EngineTypeOK, StoreSound, Allocated
  <2>3. QED  BY <2>1, <2>2
<1>7. QED  BY <1>4, <1>5, <1>6

LEMMA CreateAutoMirrorSafe ==
    ASSUME EngineInv, NEW w \in Worker, CreateAutoMirror(w)
    PROVE  EngineInv'
<1> DEFINE x == [job[w] EXCEPT !.pc = AfterNamespaces(job[w].nss), !.at = NoID]
<1>1. /\ job[w].pc = "create" /\ UNCHANGED clusterVars
      /\ Register(job[w].at, SourceID(w), SourceKey(w).kind, TRUE)
      /\ job' = [job EXCEPT ![w] = x]
  BY DEF CreateAutoMirror, NextNamespace
<1>2. /\ job[w].at \in ID /\ SourceID(w) \in ID /\ SourceKey(w).kind \in Kind
  BY <1>1, Parts, SourceFacts DEF JobSound
<1>3. /\ x \in Job /\ JobSound(x) /\ x.cur = job[w].cur /\ x.ptrs = job[w].ptrs
  BY <1>1, Parts, NextNamespaceSound
<1> HIDE DEF x
<1>4. /\ store' \in [ID -> Ptr \cup {Nil}] /\ heap' \in [Ptr -> Mirror]
      /\ StoreSound'
      /\ \A u \in Worker : \A p \in Ptr : Holds(job[u], p) => heap'[p] = heap[p]
  BY <1>1, <1>2, Parts, RegisterFacts
<1>5. /\ job' \in [Worker -> Job] /\ \A u \in Worker : JobSound(job'[u])
      /\ job'[w] = x /\ \A u \in Worker : u # w => job'[u] = job[u]
  BY <1>1, <1>3, Parts, JobUpdate
<1>6. \A u \in Worker : \A p \in Ptr : Holds(job'[u], p) => heap'[p] = heap[p]
  BY <1>3, <1>4, <1>5 DEF Holds
<1>7. EngineTypeOK' /\ ClusterTypeOK' /\ CacheSound' /\ Advances
  BY <1>1, <1>4, <1>5, Parts DEF EngineTypeOK, ClusterTypeOK, CacheSound, Advances, clusterVars
<1>8. QED  BY <1>4, <1>5, <1>6, <1>7, Parts, EngineStep

LEMMA WriteMirrorSafe ==
    ASSUME EngineInv, NEW w \in Worker, WriteMirror(w)
    PROVE  EngineInv'
<1> DEFINE x == [job[w] EXCEPT !.pc = "mirrors", !.cur = Nil, !.dat = 0, !.got = 0]
           e == MirrorEntry(MirrorKey(w), log[job[w].dat].data, SourceID(w),
                            job[w].ver, heap[job[w].cur].auto)
<1>1. /\ job[w].pc = "write" /\ Commit(e) /\ job' = [job EXCEPT ![w] = x]
      /\ UNCHANGED <<seen, phase, nsSeen, budget, store, heap>>
  BY DEF WriteMirror, NextMirror
<1>2. e \in Entry
  <2>1. log[job[w].dat] \in Entry
    BY <1>1, InHand, Parts DEF PayloadSound
  <2>2. log[job[w].dat].data \in Nat
    BY <2>1, EntryFields
  <2>3. heap[job[w].cur].auto \in BOOLEAN
    BY <1>1, InHand, Parts DEF Mirror
  <2>4. MirrorKey(w) \in Key /\ SourceID(w) \in ID /\ job[w].ver \in Nat
    BY <1>1, InHand, SourceFacts
  <2>5. QED  BY <2>2, <2>3, <2>4, MirrorEntryType
<1>3. x \in Job /\ JobSound(x)
  BY <1>1, Parts, NextMirrorSound
<1> HIDE DEF x, e
<1>4. ClusterTypeOK' /\ CacheSound' /\ Advances
  BY <1>1, <1>2, Parts, CommitSound
<1>5. /\ job' \in [Worker -> Job] /\ \A u \in Worker : JobSound(job'[u])
  BY <1>1, <1>3, Parts, JobUpdate
<1>6. EngineTypeOK' /\ StoreSound'
  BY <1>1, <1>5, Parts DEF EngineTypeOK, StoreSound, Allocated
<1>7. QED  BY <1>1, <1>4, <1>5, <1>6, Parts, EngineStep

(* A step of Execute.                                                        *)
LEMMA WorkSafe ==
    ASSUME EngineInv, NEW w \in Worker, Work(w)
    PROVE  EngineInv'
BY CreateAutoMirrorIfNotExistsSafe, CheckForConflictsSafe, CreateAutoMirrorSafe,
   CleanupAutoMirrorsSafe, ForgetMirrorSafe, ListMirrorsSafe, ReadSourceSafe,
   ReflectSafe, SetVersionSafe, GetMirrorSafe, WriteMirrorSafe, WriteRejectedSafe,
   WriteFailsSafe DEF Work

LEMMA RegisterMirrorSafe ==
    ASSUME EngineInv, NEW id \in ID, NEW source \in ID, NEW kind \in Kind,
           NEW auto \in BOOLEAN, RegisterMirror(id, source, kind, auto)
    PROVE  EngineInv'
<1>1. Register(id, source, kind, auto) /\ UNCHANGED <<clusterVars, job>>
  BY DEF RegisterMirror
<1>2. /\ store' \in [ID -> Ptr \cup {Nil}] /\ heap' \in [Ptr -> Mirror]
      /\ StoreSound'
      /\ \A u \in Worker : \A p \in Ptr : Holds(job[u], p) => heap'[p] = heap[p]
  BY <1>1, Parts, RegisterFacts
<1>3. /\ \A u \in Worker : JobSound(job'[u])
      /\ \A u \in Worker : \A p \in Ptr : Holds(job'[u], p) => heap'[p] = heap[p]
  BY <1>1, <1>2, Parts
<1>4. EngineTypeOK' /\ ClusterTypeOK' /\ CacheSound' /\ Advances
  BY <1>1, <1>2, Parts DEF EngineTypeOK, ClusterTypeOK, CacheSound, Advances, clusterVars
<1>5. QED  BY <1>2, <1>3, <1>4, Parts, EngineStep

LEMMA UnregisterMirrorSafe ==
    ASSUME EngineInv, NEW id \in ID, UnregisterMirror(id)
    PROVE  EngineInv'
<1>1. /\ store' = [store EXCEPT ![id] = Nil] /\ heap' = heap
      /\ UNCHANGED <<clusterVars, job>>
  BY DEF UnregisterMirror, Unregister
<1>2. EngineTypeOK' /\ StoreSound'
  BY <1>1, Parts DEF EngineTypeOK, StoreSound, Allocated
<1>3. \A u \in Worker : JobSound(job'[u])
  BY <1>1, Parts
<1>4. ClusterTypeOK' /\ CacheSound' /\ Advances
  BY <1>1, Parts DEF ClusterTypeOK, CacheSound, Advances, clusterVars
<1>5. QED  BY <1>1, <1>2, <1>3, <1>4, Parts, EngineStep

LEMMA RestartSafe ==
    ASSUME EngineInv, Restart
    PROVE  EngineInv'
<1>1. /\ Spend("restart") /\ store' = [id \in ID |-> Nil]
      /\ heap' = [p \in Ptr |-> NoMirror] /\ job' = [w \in Worker |-> NoJob]
      /\ seen' = head /\ nsSeen' \subseteq Namespace
      /\ UNCHANGED <<log, head, phase>>
  BY DEF Restart
<1>2. budget' \in [Disturbance -> Nat]
  BY <1>1, Parts, SpendType DEF Disturbance
<1>3. ClusterTypeOK' /\ CacheSound'
  BY <1>1, <1>2, Parts DEF ClusterTypeOK, CacheSound
<1>4. Advances
  BY <1>1, Parts DEF Advances, CacheSound
<1>5. EngineTypeOK' /\ StoreSound'
  BY <1>1, NoJobSound DEF EngineTypeOK, StoreSound, NoMirror, Mirror
<1>6. \A u \in Worker : JobSound(job'[u])
  BY <1>1, NoJobSound
<1>7. \A u \in Worker : \A p \in Ptr : ~Holds(job'[u], p)
  BY <1>1, EngineAssumption DEF Holds, NoJob, Nil
<1>8. QED  BY <1>3, <1>4, <1>5, <1>6, <1>7, Parts, EngineStep

LEMMA ElsewhereSafe ==
    ASSUME EngineInv, Elsewhere
    PROVE  EngineInv'
<1>1. budget' \in [Disturbance -> Nat] /\ UNCHANGED <<log, head, seen, phase, nsSeen>>
      /\ UNCHANGED <<store, heap, job>>
  BY Parts, SpendType DEF Elsewhere, Disturbance
<1>2. ClusterTypeOK' /\ CacheSound' /\ EngineTypeOK' /\ StoreSound' /\ Advances
  BY <1>1, Parts DEF ClusterTypeOK, CacheSound, EngineTypeOK, StoreSound, Allocated, Advances
<1>3. \A u \in Worker : JobSound(job'[u])
  BY <1>1, Parts
<1>4. QED  BY <1>1, <1>2, <1>3, Parts, EngineStep

(* Whatever happens outside the operator.                                    *)
LEMMA OutsideStep ==
    ASSUME EngineInv, UNCHANGED engineVars, ClusterTypeOK', CacheSound', Advances
    PROVE  EngineInv'
<1>1. EngineTypeOK' /\ StoreSound' /\ UNCHANGED <<store, heap, job>>
  BY Parts DEF EngineTypeOK, StoreSound, Allocated, engineVars
<1>2. \A u \in Worker : JobSound(job'[u])
  BY <1>1, Parts
<1>3. QED  BY <1>1, <1>2, Parts, EngineStep

(* The revisions that users write are entries.                               *)
LEMMA ApplyEntry ==
    ASSUME ClusterTypeOK, NEW m \in Manifest
    PROVE  [key |-> m.key, live |-> TRUE, by |-> "user", data |-> Len(log) + 1,
            policy |-> m.policy, helm |-> m.helm, from |-> m.from, ver |-> 0,
            auto |-> FALSE] \in Entry
<1>1. /\ m.key \in Key /\ m.policy \in Policy /\ m.helm \in BOOLEAN
      /\ m.from \in ID \cup {NoID} /\ Len(log) + 1 \in Nat
  BY ClusterAssumption DEF ClusterTypeOK
<1>2. QED  BY <1>1 DEF Entry

LEMMA EditEntry ==
    ASSUME ClusterTypeOK, NEW k \in Key, Live(head[k])
    PROVE  /\ log[head[k]] \in Entry
           /\ [log[head[k]] EXCEPT !.by = "user", !.data = Len(log) + 1] \in Entry
           /\ [log[head[k]] EXCEPT !.by = "user", !.live = FALSE] \in Entry
<1>1. log[head[k]] \in Entry /\ Len(log) + 1 \in Nat
  BY DEF ClusterTypeOK, Live
<1>2. QED  BY <1>1 DEF Entry

(* A user commits an entry or changes the phase of a namespace.              *)
LEMMA UserSteps ==
    ASSUME ClusterTypeOK, UserStep
    PROVE  /\ budget' \in [Disturbance -> Nat]
           /\ UNCHANGED <<seen, nsSeen>>
           /\ \/ \E e \in Entry : e.by = "user" /\ Commit(e) /\ UNCHANGED phase
              \/ /\ UNCHANGED <<log, head>>
                 /\ phase' \in [Namespace -> {"active", "terminating", "gone"}]
<1> DEFINE Goal == /\ budget' \in [Disturbance -> Nat]
                   /\ UNCHANGED <<seen, nsSeen>>
                   /\ \/ \E e \in Entry : e.by = "user" /\ Commit(e) /\ UNCHANGED phase
                      \/ /\ UNCHANGED <<log, head>>
                         /\ phase' \in [Namespace -> {"active", "terminating", "gone"}]
<1>1. ASSUME NEW m \in Manifest, Apply(m) PROVE Goal
  <2> DEFINE e == [key |-> m.key, live |-> TRUE, by |-> "user", data |-> Len(log) + 1,
                   policy |-> m.policy, helm |-> m.helm, from |-> m.from, ver |-> 0,
                   auto |-> FALSE]
  <2>1. e \in Entry /\ e.by = "user"
    BY ApplyEntry
  <2>2. Commit(e) /\ Spend("apply") /\ UNCHANGED <<seen, phase, nsSeen>>
    BY <1>1 DEF Apply
  <2> HIDE DEF e
  <2>3. QED  BY <2>1, <2>2, SpendType DEF Disturbance
<1>2. ASSUME NEW k \in Key, EditData(k) PROVE Goal
  <2> DEFINE e == [log[head[k]] EXCEPT !.by = "user", !.data = Len(log) + 1]
  <2>1. /\ Live(head[k]) /\ Commit(e) /\ UNCHANGED <<seen, phase, nsSeen>>
        /\ Spend("edit") \/ Spend("tamper")
    BY <1>2 DEF EditData
  <2>2. log[head[k]] \in Entry /\ e \in Entry
    BY <2>1, EditEntry
  <2>3. e.by = "user"
    BY <2>2 DEF Entry
  <2> HIDE DEF e
  <2>4. QED  BY <2>1, <2>2, <2>3, SpendType DEF Disturbance
<1>3. ASSUME NEW k \in Key, Delete(k) \/ NamespacePurge(k) PROVE Goal
  <2> DEFINE e == [log[head[k]] EXCEPT !.by = "user", !.live = FALSE]
  <2>1. /\ Live(head[k]) /\ Commit(e) /\ UNCHANGED <<seen, phase, nsSeen>>
        /\ Spend("delete") \/ UNCHANGED budget
    BY <1>3 DEF Delete, NamespacePurge
  <2>2. log[head[k]] \in Entry /\ e \in Entry
    BY <2>1, EditEntry
  <2>3. e.by = "user"
    BY <2>2 DEF Entry
  <2> HIDE DEF e
  <2>4. budget' \in [Disturbance -> Nat]
    BY <2>1, SpendType DEF Disturbance, ClusterTypeOK
  <2>5. QED  BY <2>1, <2>2, <2>3, <2>4
<1>4. ASSUME NEW n \in Namespace,
             NamespaceTerminate(n) \/ NamespaceRemove(n) \/ NamespaceCreate(n)
      PROVE  Goal
  <2>1. /\ Spend("namespace") \/ UNCHANGED budget
        /\ \E p \in {"active", "terminating", "gone"} : phase' = [phase EXCEPT ![n] = p]
        /\ UNCHANGED <<log, head, seen, nsSeen>>
    BY <1>4 DEF NamespaceTerminate, NamespaceRemove, NamespaceCreate
  <2>2. budget' \in [Disturbance -> Nat]
    BY <2>1, SpendType DEF Disturbance, ClusterTypeOK
  <2>3. QED  BY <2>1, <2>2 DEF ClusterTypeOK
<1>5. QED  BY <1>1, <1>2, <1>3, <1>4 DEF UserStep

LEMMA UserStepSafe ==
    ASSUME EngineInv, UserStep, UNCHANGED engineVars
    PROVE  EngineInv'
<1>1. budget' \in [Disturbance -> Nat] /\ UNCHANGED <<seen, nsSeen>>
  BY Parts, UserSteps
<1>2. CASE \E e \in Entry : Commit(e) /\ UNCHANGED phase
  <2>1. ClusterTypeOK' /\ CacheSound' /\ Advances
    BY <1>1, <1>2, Parts, CommitSound
  <2>2. QED  BY <2>1, OutsideStep
<1>3. CASE /\ UNCHANGED <<log, head>>
           /\ phase' \in [Namespace -> {"active", "terminating", "gone"}]
  <2>1. ClusterTypeOK' /\ CacheSound' /\ Advances
    BY <1>1, <1>3, Parts DEF ClusterTypeOK, CacheSound, Advances
  <2>2. QED  BY <2>1, OutsideStep
<1>4. QED  BY <1>2, <1>3, Parts, UserSteps

LEMMA ObserveSafe ==
    ASSUME EngineInv, NEW k \in Key, NEW r \in 1..Len(log), Observe(k, r),
           UNCHANGED engineVars
    PROVE  EngineInv'
<1>1. /\ seen' = [seen EXCEPT ![k] = r] /\ UNCHANGED <<log, head, phase, nsSeen, budget>>
      /\ r \in (seen[k] + 1)..head[k] /\ log[r].key = k
  BY DEF Observe, NextEvent
<1>2. seen[k] \in Nat /\ head[k] \in Nat
  BY Parts
<1>3. ClusterTypeOK' /\ CacheSound' /\ Advances
  BY <1>1, <1>2, Parts DEF ClusterTypeOK, CacheSound, Advances
<1>4. QED  BY <1>3, OutsideStep

LEMMA ObserveNamespaceSafe ==
    ASSUME EngineInv, NEW n \in Namespace, ObserveNamespace(n), UNCHANGED engineVars
    PROVE  EngineInv'
<1>1. ClusterTypeOK' /\ CacheSound' /\ Advances
  BY Parts DEF ObserveNamespace, ClusterTypeOK, CacheSound, Advances
<1>2. QED  BY <1>1, OutsideStep

-----------------------------------------------------------------------------
(* The invariant.                                                            *)

LEMMA InitSafe == Init => EngineInv
<1> SUFFICES ASSUME Init PROVE EngineInv
  OBVIOUS
<1>1. ClusterTypeOK /\ CacheSound
  BY ClusterAssumption DEF Init, ClusterInit, ClusterTypeOK, CacheSound
<1>2. EngineTypeOK /\ StoreSound
  BY NoJobSound DEF Init, EngineInit, EngineTypeOK, StoreSound, NoMirror, Mirror
<1>3. JobsSound
  BY NoJobSound DEF Init, EngineInit, JobsSound
<1>4. QED  BY <1>1, <1>2, <1>3 DEF EngineInv, EngineTypes

(* One step per action of the engine and of what surrounds it.               *)
LEMMA NextSafe == EngineInv /\ [Next]_vars => EngineInv'
<1> SUFFICES ASSUME EngineInv, [Next]_vars PROVE EngineInv'
  OBVIOUS
<1>1. CASE UserStep /\ UNCHANGED engineVars
  BY <1>1, UserStepSafe
<1>2. CASE \E k \in Key, r \in 1..Len(log) : Observe(k, r) /\ UNCHANGED engineVars
  BY <1>2, ObserveSafe
<1>3. CASE \E n \in Namespace : ObserveNamespace(n) /\ UNCHANGED engineVars
  BY <1>3, ObserveNamespaceSafe
<1>4. CASE \E w \in Worker : Work(w) \/ ExecuteReturns(w)
  BY <1>4, WorkSafe, ExecuteReturnsSafe
<1>5. CASE \E w \in Worker, v \in 1..Len(log) :
              \E policy \in Sources(log[v]), name \in Name :
                 IsSourceOf(policy, v) /\ Execute(w, v, policy, name)
  BY <1>5, ExecuteSafe
<1>6. CASE \E id \in ID, source \in ID, kind \in Kind, auto \in BOOLEAN :
              RegisterMirror(id, source, kind, auto)
  BY <1>6, RegisterMirrorSafe
<1>7. CASE \E id \in ID : UnregisterMirror(id)
  BY <1>7, UnregisterMirrorSafe
<1>8. CASE Restart
  BY <1>8, RestartSafe
<1>9. CASE Elsewhere
  BY <1>9, ElsewhereSafe
<1>10. CASE UNCHANGED vars
  <2>1. UNCHANGED engineVars /\ ClusterTypeOK' /\ CacheSound' /\ Advances
    BY <1>10, Parts DEF vars, clusterVars, ClusterTypeOK, CacheSound, Advances
  <2>2. QED  BY <2>1, OutsideStep
<1>11. QED
  BY <1>1, <1>2, <1>3, <1>4, <1>5, <1>6, <1>7, <1>8, <1>9, <1>10 DEF Next

(* Every reachable state of the engine satisfies its invariant: whatever     *)
(* calls of ReflectResourcesUseCase.Execute overlap, the Source of a call is *)
(* a live revision that the cache has reached, the payload in its hand is   *)
(* not older, and the namespace it is about to write to was allowed.        *)
THEOREM EngineIsSound == Spec => []EngineInv
<1>1. QED  BY InitSafe, NextSafe, PTL DEF Spec

-----------------------------------------------------------------------------
(* The engine implements MirrorContract.                                     *)

(* The contract reads policies as the engine does.                           *)
LEMMA SamePolicy ==
    ASSUME NEW p, NEW ns
    PROVE  Contract!CanReflectToNamespace(p, ns) = CanReflectToNamespace(p, ns)
BY DEF Contract!CanReflectToNamespace, CanReflectToNamespace,
       Contract!Matches, Matches, Contract!NewAllowedNamespaces, NewAllowedNamespaces,
       Contract!Stops, Stops, Contract!NoNamespaces, NoNamespaces

(* ... and the same policies stand for a revision.                           *)
LEMMA SameSources ==
    ASSUME NEW e
    PROVE  Contract!Sources(e) = Sources(e)
<1>1. ASSUME NEW p, NEW t
      PROVE  Contract!Merged(p, t) = Merged(p, t) /\ Contract!MirrorView(p) = MirrorView(p)
  BY DEF Contract!Merged, Merged, Contract!Added, Added, Contract!MirrorView, MirrorView
<1>2. ASSUME NEW nss PROVE Contract!RulePolicy(nss) = RulePolicy(nss)
  BY DEF Contract!RulePolicy, RulePolicy, Contract!Listed, Listed, Contract!Cardinality, Cardinality
<1>3. ASSUME NEW spec, NEW nss, NEW k
      PROVE  /\ Contract!TargetNamespaces(spec, nss) = TargetNamespaces(spec, nss)
             /\ Contract!Covers(spec, k) = Covers(spec, k)
  BY DEF Contract!TargetNamespaces, TargetNamespaces, Contract!Covers, Covers,
         Contract!ProcessedTypes, ProcessedTypes
<1>4. Contract!RulePolicies(e.key) = RulePolicies(e.key)
  BY <1>2, <1>3 DEF Contract!RulePolicies, RulePolicies
<1>5. Contract!IngressPolicies(e) = IngressPolicies(e)
  BY <1>1, ZenonT(40) DEF Contract!IngressPolicies, IngressPolicies
<1>6. Contract!MirrorView(e.policy) = MirrorView(e.policy)
  BY <1>1
<1>7. QED  BY <1>4, <1>5, <1>6 DEF Contract!Sources, Sources

LEMMA SameMirrorEntry ==
    ASSUME NEW k, NEW d, NEW f, NEW v, NEW a
    PROVE  Contract!MirrorEntry(k, d, f, v, a) = MirrorEntry(k, d, f, v, a)
BY DEF Contract!MirrorEntry, MirrorEntry, Contract!NoPolicy, NoPolicy

(* A committed entry is what the contract calls appended.                    *)
LEMMA CommitGrows ==
    ASSUME ClusterTypeOK, NEW e \in Entry, Commit(e)
    PROVE  Contract!Grows /\ Contract!Appended = e
<1>1. Len(log) \in Nat /\ log' = Append(log, e) /\ Len(log') = Len(log) + 1
  BY CommitFacts DEF ClusterTypeOK, Commit
<1>2. Contract!Appended = e
  BY <1>1, CommitFacts DEF Contract!Appended
<1>3. QED  BY <1>1, <1>2 DEF Contract!Grows

(* The write of a call is an honest copy: the label is the revision its      *)
(* Source was read from, the content that of its payload.                   *)
LEMMA WriteIsHonest ==
    ASSUME EngineInv, NEW w \in Worker, WriteMirror(w)
    PROVE  Contract!MirrorWrite
<1> DEFINE v == job[w].ver
           r == job[w].dat
           e == MirrorEntry(MirrorKey(w), log[r].data, SourceID(w), v, heap[job[w].cur].auto)
<1>1. job[w].pc = "write" /\ Commit(e)
  BY DEF WriteMirror
<1>2. /\ SourceSound(job[w]) /\ PayloadSound(job[w]) /\ MirrorKey(w) \in Key
      /\ job[w].cur \in Ptr
      /\ CanReflectToNamespace(job[w].policy, heap[job[w].cur].id.ns)
  BY <1>1, InHand DEF JobSound
<1>3. /\ v \in 1..Len(log) /\ r \in 1..Len(log) /\ v <= r
      /\ log[v].live /\ log[r].live /\ log[v].key = log[r].key
  BY <1>2 DEF SourceSound, IsSourceOf, PayloadSound
<1>4. e \in Entry
  <2>1. log[r].data \in Nat
    BY <1>3, Parts, EntryFields
  <2>2. heap[job[w].cur].auto \in BOOLEAN
    BY <1>2, Parts DEF Mirror
  <2>3. SourceID(w) \in ID /\ v \in Nat
    BY <1>1, <1>3, SourceFacts
  <2>4. QED  BY <1>2, <2>1, <2>2, <2>3, MirrorEntryType
<1>5. /\ e.key = MirrorKey(w) /\ e.by = "operator"
      /\ e.auto = heap[job[w].cur].auto
      /\ e = MirrorEntry(e.key, log[r].data, log[v].key.id, v, e.auto)
  BY DEF MirrorEntry, SourceID, SourceKey
<1>6. \E policy \in Sources(log[v]) : CanReflectToNamespace(policy, e.key.id.ns)
  <2>1. job[w].policy \in Sources(log[v])
    BY <1>2 DEF SourceSound, IsSourceOf
  <2>2. e.key.id.ns = heap[job[w].cur].id.ns
    <3>1. e.key = MirrorKey(w)
      BY <1>5
    <3> HIDE DEF e
    <3>2. QED  BY <3>1 DEF MirrorKey
  <2> HIDE DEF e, v
  <2>3. CanReflectToNamespace(job[w].policy, e.key.id.ns)
    BY <1>2, <2>2
  <2>4. QED  BY <2>1, <2>3
<1> HIDE DEF e, v, r
<1>7. Contract!HonestCopy(e, v, r)
  BY <1>3, <1>5, <1>6, SamePolicy, SameSources, SameMirrorEntry DEF Contract!HonestCopy
<1>8. Contract!Grows /\ Contract!Appended = e
  BY <1>1, <1>4, Parts, CommitGrows
<1>9. QED  BY <1>3, <1>5, <1>7, <1>8 DEF Contract!MirrorWrite

(* Within Execute nothing but WriteMirror touches the log.                   *)
LEMMA WorkImplements ==
    ASSUME EngineInv, NEW w \in Worker, Work(w)
    PROVE  Contract!MirrorWrite \/ UNCHANGED log
BY WriteIsHonest DEF Work, CreateAutoMirrorIfNotExists, CheckForConflicts,
   CreateAutoMirror, CleanupAutoMirrors, ForgetMirror, ListMirrors, ReadSource,
   Reflect, SetVersion, GetMirror, WriteRejected, WriteFails, clusterVars

LEMMA UserImplements ==
    ASSUME EngineInv, UserStep
    PROVE  Contract!UserWrite \/ UNCHANGED log
<1>1. CASE \E e \in Entry : e.by = "user" /\ Commit(e)
  BY <1>1, Parts, CommitGrows DEF Contract!UserWrite
<1>2. CASE UNCHANGED log
  BY <1>2
<1>3. QED  BY <1>1, <1>2, Parts, UserSteps

LEMMA NextImplements == EngineInv /\ [Next]_vars => [Contract!Next]_log
<1> SUFFICES ASSUME EngineInv, [Next]_vars PROVE Contract!Next \/ UNCHANGED log
  OBVIOUS
<1>1. CASE UserStep
  BY <1>1, UserImplements DEF Contract!Next
<1>2. CASE \E w \in Worker : Work(w)
  BY <1>2, WorkImplements DEF Contract!Next
<1>3. CASE \E k \in Key, r \in 1..Len(log) : Observe(k, r)
  BY <1>3 DEF Observe
<1>4. CASE \E n \in Namespace : ObserveNamespace(n)
  BY <1>4 DEF ObserveNamespace
<1>5. CASE \E w \in Worker : ExecuteReturns(w)
  BY <1>5 DEF ExecuteReturns, clusterVars
<1>6. CASE \E w \in Worker, v \in 1..Len(log) :
              \E policy \in Sources(log[v]), name \in Name :
                 IsSourceOf(policy, v) /\ Execute(w, v, policy, name)
  BY <1>6 DEF Execute, clusterVars
<1>7. CASE \E id \in ID, source \in ID, kind \in Kind, auto \in BOOLEAN :
              RegisterMirror(id, source, kind, auto)
  BY <1>7 DEF RegisterMirror, clusterVars
<1>8. CASE \E id \in ID : UnregisterMirror(id)
  BY <1>8 DEF UnregisterMirror, clusterVars
<1>9. CASE Restart
  BY <1>9 DEF Restart
<1>10. CASE Elsewhere
  BY <1>10 DEF Elsewhere
<1>11. CASE UNCHANGED vars
  BY <1>11 DEF vars, clusterVars
<1>12. QED
  BY <1>1, <1>2, <1>3, <1>4, <1>5, <1>6, <1>7, <1>8, <1>9, <1>10, <1>11 DEF Next

(* Every step of the engine advances the cluster.                            *)

LEMMA SameCluster ==
    ASSUME EngineInv, UNCHANGED <<log, seen>>
    PROVE  Advances
BY Parts DEF Advances

LEMMA CommitAdvances ==
    ASSUME EngineInv, NEW e \in Entry, Commit(e), UNCHANGED seen
    PROVE  Advances
BY Parts, CommitFacts DEF Advances

LEMMA NextAdvances ==
    ASSUME EngineInv, [Next]_vars
    PROVE  Advances
<1>1. CASE UserStep
  BY <1>1, Parts, UserSteps, CommitAdvances, SameCluster
<1>2. CASE \E w \in Worker : Work(w)
  <2>1. PICK w \in Worker : Work(w)
    BY <1>2
  <2>2. CASE WriteMirror(w)
    <3>1. PICK e \in Entry : Commit(e)
      <4> DEFINE e == MirrorEntry(MirrorKey(w), log[job[w].dat].data, SourceID(w),
                                  job[w].ver, heap[job[w].cur].auto)
      <4>1. job[w].pc = "write" /\ Commit(e)
        BY <2>2 DEF WriteMirror
      <4>2. /\ MirrorKey(w) \in Key /\ SourceID(w) \in ID /\ job[w].ver \in Nat
            /\ log[job[w].dat].data \in Nat /\ heap[job[w].cur].auto \in BOOLEAN
        BY <4>1, InHand, SourceFacts, Parts, EntryFields DEF PayloadSound, Mirror
      <4>3. e \in Entry
        BY <4>2, MirrorEntryType
      <4>4. QED  BY <4>1, <4>3
    <3>2. QED  BY <2>2, <3>1, CommitAdvances DEF WriteMirror
  <2>3. CASE ~WriteMirror(w)
    BY <2>1, <2>3, SameCluster
       DEF Work, CreateAutoMirrorIfNotExists, CheckForConflicts, CreateAutoMirror,
           CleanupAutoMirrors, ForgetMirror, ListMirrors, ReadSource, Reflect, SetVersion,
           GetMirror, WriteRejected, WriteFails, clusterVars
  <2>4. QED  BY <2>2, <2>3
<1>3. CASE \E k \in Key, r \in 1..Len(log) : Observe(k, r)
  <2>1. PICK k \in Key, r \in 1..Len(log) : Observe(k, r)
    BY <1>3
  <2>2. seen' = [seen EXCEPT ![k] = r] /\ UNCHANGED log /\ r \in (seen[k] + 1)..head[k]
    BY <2>1 DEF Observe, NextEvent
  <2>3. QED  BY <2>2, Parts DEF Advances
<1>4. CASE Restart
  BY <1>4, Parts DEF Restart, Advances, CacheSound
<1>5. CASE UNCHANGED <<log, seen>>
  BY <1>5, SameCluster
<1>6. QED
  BY <1>1, <1>2, <1>3, <1>4, <1>5
     DEF Next, ObserveNamespace, ExecuteReturns, Execute, RegisterMirror,
         UnregisterMirror, Elsewhere, vars, clusterVars

(* However calls of Execute overlap with each other, with lagging caches,    *)
(* failing writes, users and restarts, the operator only ever appends        *)
(* honest copies: content and label from live revisions of one source, into  *)
(* a namespace that the labelled revision allows.                            *)
THEOREM EngineImplementsContract == Spec => Contract!Spec
<1>1. Init => Contract!Init
  BY DEF Init, ClusterInit, Contract!Init
<1>2. QED
  BY <1>1, EngineIsSound, NextImplements, PTL DEF Spec, Contract!Spec
==============================================================================
