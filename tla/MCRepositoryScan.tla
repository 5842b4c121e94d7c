-------------------------- MODULE MCRepositoryScan --------------------------
(* Instances of RepositoryScan for TLC: a file whose one match takes every *)
(* position the window of eight lines tells apart, and a small one beside. *)
EXTENDS RepositoryScan, TLC

CONSTANTS models, views, decorator, import, pattern

MCMatcherKind == (decorator :> "gated") @@ (import :> "ungated") @@ (pattern :> "regex")

File(lines, blank, marks, parses, imports, matches) ==
    [lines |-> lines, blank |-> blank, marks |-> marks, readable |-> TRUE,
     parses |-> parses, imports |-> imports, matches |-> matches]

At(rule, first, last, shown) == [rule |-> rule, first |-> first, last |-> last, shown |-> shown]

(* One match at the top, in the middle or at the end of a file, of one     *)
(* line, nearly the window, the window, or more; with blank lines around.  *)
Windows ==
    {File(n, blank, {}, TRUE, TRUE, {At(decorator, a, a + k, TRUE)}) :
        <<n, a, k, blank>> \in
            {<<m, b, j, empty>> \in {1, 8, 12} \X {1, 3} \X {0, 6, 7, 9} \X
                                    {{}, {2}, 2 .. 12, 11 .. 12} :
                b + j <= m /\ empty \subseteq 1 .. m
                /\ {b, b + j} \cap empty = {}}}

Small ==
    {File(0, {}, {}, TRUE, FALSE, {}),
     [File(1, {}, {}, TRUE, TRUE, {}) EXCEPT !.readable = FALSE],
     File(1, {}, {}, TRUE, FALSE, {At(decorator, 1, 1, TRUE), At(import, 1, 1, TRUE)}),
     File(2, {}, {}, TRUE, TRUE, {At(decorator, 1, 1, TRUE), At(decorator, 2, 2, FALSE)}),
     File(3, {}, {3}, TRUE, TRUE, {At(decorator, 1, 1, TRUE), At(import, 2, 2, FALSE),
                                   At(pattern, 2, 2, TRUE)}),
     File(3, {}, {}, FALSE, TRUE, {At(decorator, 1, 2, TRUE), At(import, 2, 2, FALSE)})}

MCContents == (models :> Windows) @@ (views :> Small)

Component(kind, rules, per, cap, steps, points, source) ==
    [kind |-> kind, rules |-> rules, per |-> per, cap |-> cap, steps |-> steps,
     points |-> points, source |-> source]

(* One component of every kind; of the last the pack's names are not the   *)
(* ones the code reads.                                                    *)
MCRiskRules ==
    {Component("count_scaled", {decorator}, 3, 6, <<>>, 0, "none"),
     Component("threshold_step", {}, 0, 0,
               <<[above |-> 1, points |-> 3], [above |-> 0, points |-> 1]>>, 0,
               "finding_file_count"),
     Component("boolean", {}, 0, 0, <<>>, 2, "no_test_files"),
     Component("boolean", {}, 0, 0, <<>>, 1, "no_ci_detected"),
     Component("count_scaled", {import}, 0, 0, <<>>, 0, "none")}

=============================================================================
