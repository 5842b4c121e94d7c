------------------------------ MODULE MCAgents ------------------------------
(* Two rules that share the guide, one with a source of its own besides, a *)
(* rule whose only source has no snapshot, a rule that cites a source      *)
(* outside the allowlist, and a rule that the catalog lacks.               *)
EXTENDS Agents

CONSTANTS f1, f2, f3, f4, f5, r1, r2, r3, r4, r5, guide, config, blog, other

MCFindings == {f1, f2, f3, f4, f5}
MCRuleOf == f1 :> r1 @@ f2 :> r2 @@ f3 :> r3 @@ f4 :> r4 @@ f5 :> r5
MCFindingLists ==
    {<<>>, <<f1>>, <<f1, f2>>, <<f2, f1, f2>>, <<f3>>, <<f1, f3>>, <<f2, f4>>, <<f5>>, <<f5, f2>>}
MCCatalog == {r1, r2, r3, r4}
MCSources == {guide, config, blog}
MCTrusted == {guide, config}
MCCites ==
    r1 :> <<guide, config>> @@ r2 :> <<guide>> @@ r3 :> <<config>>
    @@ r4 :> <<guide, blog>> @@ r5 :> <<blog>>

Scores(a, b) == r1 :> a @@ r2 :> b @@ r3 :> a @@ r4 :> 0

(* The guide has a section for both rules and one for the second only; the *)
(* live page is one long "Overview".                                       *)
MCSnapshot ==
    guide  :> <<[heading |-> "Validators", long |-> FALSE, score |-> Scores(2, 0)],
                [heading |-> "Methods", long |-> FALSE, score |-> Scores(1, 3)],
                [heading |-> "History", long |-> FALSE, score |-> Scores(0, 1)]>>
    @@ config :> <<>> @@ blog :> <<>>

MCLive ==
    guide  :> <<[heading |-> "Overview", long |-> TRUE, score |-> Scores(1, 1)]>>
    @@ config :> <<[heading |-> "Config", long |-> FALSE, score |-> Scores(2, 0)]>>
    @@ blog   :> <<>>

Chosen(source, heading, rs) == [key |-> <<source, heading>>, rules |-> rs]

MCSelections ==
    {<<>>,
     <<Chosen(guide, "Methods", {r1, r2})>>,
     <<Chosen(guide, "Methods", {r2, r5}), Chosen(guide, "Validators", {r1})>>,
     <<Chosen(other, "Methods", {r1}), Chosen(config, "Config", {r1})>>}

MCInterpretations ==
    {{}, {[finding |-> f1, docs |-> {guide}]},
     {[finding |-> f2, docs |-> {guide, config}], [finding |-> f1, docs |-> {}]}}

=============================================================================
