----------------------------- MODULE MCContainer -----------------------------
(***************************************************************************)
(* Container for TLC: the graphs of providers that the runs go through.     *)
(***************************************************************************)
EXTENDS Container, TLC

CONSTANTS d1, d2, d3, T1, T2, c1

Callers == Permutations(Caller)

Key(d) == [key |-> d, type |-> NoType, marked |-> TRUE, default |-> FALSE]
OfType(t, default) ==
    [key |-> NoKey, type |-> t, marked |-> FALSE, default |-> default]

\* Every way to wire three keys with at most one parameter each, d2 and d3
\* being of the same type: chains, cycles of any length, ambiguous types,
\* defaults, an async provider and ready values.
Params1 ==
    {<<>>} \cup {<<s>> : s \in {Key(d) : d \in Dep} \cup
                            {OfType(T1, FALSE), OfType(T2, FALSE), OfType(T2, TRUE)}}
Providers(t, kinds) == [kind : kinds, type : {t}, params : Params1]
Chains ==
    {w \in [Dep -> UNION {Providers(T1, {"class", "async"}),
                          Providers(T2, {"class", "async"}),
                          [kind : {"value"}, type : {T2}, params : {<<>>}]}] :
        /\ w[d1].type = T1 /\ w[d2].type = T2 /\ w[d3].type = T2
        /\ \A d, e \in Dep : w[d].kind = "async" /\ w[e].kind = "async" => d = e
        \* d2 and d3 can be exchanged: one order of their kinds is enough
        /\ w[d2].kind = "async" => w[d3].kind # "class"
        /\ w[d2].kind = "value" => w[d3].kind = "value"}

\* The diamond-like graph of an application: d1 needs d2 and d3, d2 needs d3.
Shared ==
    {[d \in Dep |->
        CASE d = d1 -> [kind |-> "class", type |-> T1,
                        params |-> <<Key(d2), Key(d3)>>]
          [] d = d2 -> [kind |-> k, type |-> NoType, params |-> <<Key(d3)>>]
          [] d = d3 -> [kind |-> "async", type |-> T2, params |-> <<>>]] :
        k \in {"class", "async"}}

\* Two cyclic graphs: a ring of three, and a pair that a third one needs.
Class(t, params) == [kind |-> "class", type |-> t, params |-> params]
Rings ==
    {[d \in Dep |->
        CASE d = d1 -> Class(T1, <<Key(d2)>>)
          [] d = d2 -> Class(T2, <<Key(d3)>>)
          [] d = d3 -> Class(NoType, <<OfType(T1, FALSE)>>)],
     [d \in Dep |->
        CASE d = d1 -> Class(T1, <<OfType(T2, FALSE)>>)
          [] d = d2 -> Class(T2, <<Key(d1)>>)
          [] d = d3 -> Class(NoType, <<OfType(T2, TRUE), Key(d1)>>)]}

\* What two callers meet: shared dependencies and cycles.
Graphs == Shared \cup Rings

\* Two callers go through these, one caller through every chain.
ChainsAndGraphs == Chains \cup Graphs
MCNext ==
    /\ Next
    /\ provider \notin Graphs => \A c \in Caller \ {c1} : call'[c] = call[c]
MCInit == Init /\ (provider \notin Graphs => \A c \in Caller : call[c].mode = "sync")
MCSpec == MCInit /\ [][MCNext]_vars /\ Fairness

=============================================================================
