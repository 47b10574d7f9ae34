--------------------------- MODULE MCClusterRules ---------------------------
(***************************************************************************)
(* Small instances of ClusterRules for TLC: rules that push objects out of *)
(* "src", under their own name "n" or renamed to "m".                      *)
(***************************************************************************)
EXTENDS MCControllers, RuleReports

RuleWorkers == Request \cup RuleName

(* The workers that objects named "n" and "m" can notify.                    *)
MirrorWorkers == [ctl: {"mirror"}, kind: Kind, id: [ns: Namespace \ {"src"}, name: Name]]

PushRule == [sourceOK |-> TRUE, ns |-> "src", names |-> {"n"},
             rename |-> [x \in Name |-> x], resourceTypes |-> {}, targetOK |-> TRUE,
             includes |-> {}, matches |-> Namespace, excludes |-> {}]

(* One rule renames; one excludes the only target; one is refused by the     *)
(* webhook.                                                                *)
Renames == [PushRule EXCEPT !.rename = [x \in Name |-> "m"], !.includes = {"app"},
                            !.resourceTypes = {"Secret", "Ingress"}]
Excludes == [PushRule EXCEPT !.excludes = {"app"}]
Refused == [PushRule EXCEPT !.targetOK = FALSE]

Rules == {Renames, Excludes, Refused}
OneRule == {PushRule}

Unannotated == {NotASource}

RuleOnly == Disturbed([apply |-> 1, rule |-> 1])
RulesDisturbed == Disturbed([apply |-> 1, rule |-> 2, event |-> 1, edit |-> 1, restart |-> 1,
                             fault |-> 1])

(* Besides what happens to the rule: a resync, or an edit, or a restart and a *)
(* failing write. A disturbance is never bound to happen, so what this cuts  *)
(* off is only that it does.                                               *)
OneThingAtATime ==
    \/ budget["event"] + budget["edit"] = 2
    \/ budget["event"] + budget["edit"] = 1 /\ budget["restart"] + budget["fault"] = 2
=============================================================================
