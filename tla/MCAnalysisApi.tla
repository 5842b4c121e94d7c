--------------------------- MODULE MCAnalysisApi ---------------------------
(* An instance of AnalysisApi for TLC.  Without findings the graph still   *)
(* takes every route: a plan that could not be drafted is repairable, an   *)
(* empty one passes, and a missing score is structural.                    *)
EXTENDS AnalysisApi

MCRuleOf == [f \in {} |-> f]
MCCovers == [d \in {} |-> {}]
NoTexts == {}

=============================================================================
