---------------------------- MODULE MCControllers ----------------------------
(***************************************************************************)
(* Small instances of Controllers for TLC. Namespace "src" holds the        *)
(* source, "app" and "web" are targets; every object is named "n". The      *)
(* patterns are "*", the plain names "app" and "web", and "[", which does  *)
(* not compile.                                                            *)
(***************************************************************************)
EXTENDS Convergence, Provenance

MCHits == [p \in Pattern |->
             CASE p = "*" -> Namespace [] p = "[" -> {} [] OTHER -> {p} \cap Namespace]

AllWorkers == [ctl: {"source", "mirror"}, kind: Kind, id: ID]

(* The workers that a Secret pushed from "src" to "app" can notify, and an    *)
(* Ingress or a Certificate that names the source.                          *)
Third(ctl) ==
    {[ctl |-> "source", kind |-> "Secret", id |-> [ns |-> "src", name |-> "n"]],
     [ctl |-> "mirror", kind |-> "Secret", id |-> [ns |-> "app", name |-> "n"]],
     [ctl |-> ctl, kind |-> "Secret", id |-> [ns |-> "src", name |-> "n"]]}
WithCertificate == Third("certificate")
WithIngress == Third("ingress")

-----------------------------------------------------------------------------
(* Manifests.                                                               *)

Secret(ns) == [kind |-> "Secret", id |-> [ns |-> ns, name |-> "n"]]
ConfigMap(ns) == [kind |-> "ConfigMap", id |-> [ns |-> ns, name |-> "n"]]

Plain(k, policy) == [key |-> k, policy |-> policy, helm |-> FALSE, from |-> NoID]

Push(to) == [replicate |-> TRUE, to |-> to, auto |-> TRUE, autoTo |-> <<>>]
PushOnly(autoTo) == [replicate |-> TRUE, to |-> <<>>, auto |-> TRUE, autoTo |-> autoTo]

Requested == [Plain(Secret("app"), NoPolicy) EXCEPT !.from = Secret("src").id]

ToApp == Plain(Secret("src"), Push(<<"app">>))
ToNone == Plain(Secret("src"), Push(<<>>))
NotASource == Plain(Secret("src"), NoPolicy)

OneSecret == {ToApp}
SourceOrNot == {ToApp, NotASource}
TwoTargets == {Plain(Secret("src"), Push(<<"app", "web">>))}
WidenedAndRevoked == {ToApp, ToNone}
EveryRole == {ToApp, NotASource, Plain(Secret("src"), PushOnly(<<"app", "*">>)),
              Requested, [Requested EXCEPT !.helm = TRUE],
              Plain(ConfigMap("src"), Push(<<"app", "[">>)),
              Plain(ConfigMap("app"), Push(<<"*">>)), Plain(Secret("web"), Push(<<"app">>))}
IngressTemplate == {Push(<<"app">>)}

-----------------------------------------------------------------------------
(* Budgets: how often each disturbance happens.                              *)

Disturbed(f) == [d \in Disturbance |-> IF d \in DOMAIN f THEN f[d] ELSE 0]

Changes == Disturbed([apply |-> 2])
ChangesAndExpiry == Disturbed([apply |-> 2, expire |-> 1])
EditsAndEvent == Disturbed([apply |-> 1, edit |-> 1, event |-> 1])
FailedWrites == Disturbed([apply |-> 1, fault |-> 1])
FailureAndRestart == Disturbed([apply |-> 1, fault |-> 1, restart |-> 1, event |-> 1])
Deletion == Disturbed([apply |-> 2, delete |-> 1])
Lifecycle == Disturbed([apply |-> 1, tamper |-> 1, delete |-> 1, namespace |-> 2])
==============================================================================
