-------------------------- MODULE MCTracingSessions --------------------------
(* Instances of TracingSessions for TLC.  Analyses are interchangeable, and *)
(* so are the nodes but for documentation_research.                        *)
EXTENDS TracingSessions, TLC

CONSTANT MaxInPlay  \* bound: child runs that two analyses have in play

Interchangeable == Permutations(Analyses) \cup Permutations(Nodes \ {Researcher})

(* The runs of an analysis that may still end, or never will.              *)
InPlay(a) == {h.run : h \in open[a]} \cup unended[a] \cup abandoned[a]

FewRuns ==
    \A a, b \in Analyses : a # b =>
        Cardinality(InPlay(a)) + Cardinality(InPlay(b)) <= MaxInPlay

=============================================================================
