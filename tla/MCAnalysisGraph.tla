-------------------------- MODULE MCAnalysisGraph --------------------------
(* Instances of AnalysisGraph for TLC: two findings of different rules,    *)
(* documentation for one of them, and documentation from a bad source.     *)
EXTENDS AnalysisGraph, TLC

CONSTANTS f1, f2, d1, d2, r1, r2

MCRuleOf == (f1 :> r1) @@ (f2 :> r2)
MCCovers == (d1 :> {r1}) @@ (d2 :> {})

(* What an LLM client may write: about everything, about one, too sure, or *)
(* with a package version of its own.                                      *)
MCTexts ==
    {[mentions |-> {f1, f2}, tone |-> "plain"],
     [mentions |-> {f1}, tone |-> "plain"],
     [mentions |-> {f1, f2}, tone |-> "definite"],
     [mentions |-> {f1, f2}, tone |-> "version"]}

=============================================================================
