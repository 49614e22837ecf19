----------------------------- MODULE MCRouting -----------------------------
(***************************************************************************)
(* Routing for TLC: a periodic task, and configurations that differ in      *)
(* prefix, budget and ladder.                                               *)
(***************************************************************************)
EXTENDS Routing

Declarations == [n \in {"report"} |-> [tier |-> "low", spec |-> "interval"]]

Built == [prefix |-> "dab.tasks", budget |-> 2, ladder |-> 2]

\* The built-in configuration, one with another prefix and a budget to spare on
\* the ladder, and one whose ladder is a rung short of its budget.
Configs ==
    {Built, [Built EXCEPT !.prefix = "dab.other", !.budget = 1], [Built EXCEPT !.ladder = 1]}
=============================================================================
