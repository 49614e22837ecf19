SPECIFICATION MCSpec
CONSTANTS
    d1 = d1
    d2 = d2
    d3 = d3
    T1 = T1
    T2 = T2
    c1 = c1
    Dep = {d1, d2, d3}
    Type = {T1, T2}
    NoType = NoType
    Caller = {c1, c2}
    Mode = {"sync", "async"}
    Wiring <- ChainsAndGraphs
INVARIANTS DependenciesFirst PathIsExact
PROPERTY AnswerIsRight EveryCallReturns
CHECK_DEADLOCK FALSE
