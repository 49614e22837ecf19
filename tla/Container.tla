------------------------------ MODULE Container ------------------------------
(***************************************************************************)
(* The dependency-injection container of server/depi/di.py: registration,   *)
(* lookup by key or by type, and the depth-first resolution that get, aget, *)
(* inject and ainject share.  Callers are coroutines and the threads that   *)
(* run sync views; nothing locks the container, so that their steps         *)
(* interleave.                                                              *)
(***************************************************************************)
EXTENDS Naturals, Sequences, FiniteSets

CONSTANTS
    Dep,        \* registration keys
    Type,       \* types that parameters and providers are annotated with
    NoType,     \* a provider or parameter without a usable annotation
    Caller,     \* coroutines and threads that resolve
    Mode,       \* "sync": get and inject, "async": aget and ainject
    Wiring      \* the assignments of providers to keys that are considered

Kind == {"class", "async", "value"}

\* What _introspect_params keeps of a parameter: the key of its marker (or
\* none), its type, whether it is marked at all and whether it has a default.
NoKey == "no key"
ParamSpec == [key : Dep \cup {NoKey}, type : Type \cup {NoType},
              marked : BOOLEAN, default : BOOLEAN]
Provider == [kind : Kind, type : Type \cup {NoType}, params : Seq(ParamSpec)]

ASSUME ModeAssumption == Mode \subseteq {"sync", "async"}
ASSUME NoTypeAssumption == NoType \notin Type
ASSUME WiringAssumption == Wiring \subseteq [Dep -> Provider]
ASSUME DepAssumption == IsFiniteSet(Dep)

VARIABLES
    provider,   \* the provider each key is, or will be, registered with
    registered, \* the keys of _registrations
    value,      \* the cached instance: its number (0: EMPTY) and its arguments
    built,      \* how many instances of each key were made
    call        \* what each caller is resolving

vars == <<provider, registered, value, built, call>>

-----------------------------------------------------------------------------
(* Types                                                                    *)

\* An argument is the number of an instance, 0 when the default was kept.
Instance == [no : Nat, args : Seq(Nat)]
Empty == [no |-> 0, args |-> <<>>]
Frame == [dep : Dep, args : Seq(Nat)]
Result == {"none", "ok", "skipped", "circular", "async", "missing",
           "ambiguous", "raised"}

TypeOK ==
    /\ provider \in [Dep -> Provider]
    /\ registered \in SUBSET Dep
    /\ value \in [Dep -> Instance]
    /\ built \in [Dep -> Nat]
    /\ call \in [Caller -> [mode : Mode, stack : Seq(Frame), path : SUBSET Dep,
                            asked : SUBSET Dep, result : Result]]

-----------------------------------------------------------------------------
(* Lookup: a key that was found, or the error that is raised                *)

Found(d) == [is |-> "found", dep |-> d]
Error(what) == [is |-> what]
Skipped == [is |-> "skipped"]

Typed(t) == {d \in registered : t # NoType /\ provider[d].type = t}

ByKey(k) == IF k \in registered THEN Found(k) ELSE Error("missing")
ByType(t) ==
    IF Typed(t) = {} THEN Error("missing")
    ELSE IF Cardinality(Typed(t)) > 1 THEN Error("ambiguous")
    ELSE Found(CHOOSE d \in Typed(t) : TRUE)

Marked(spec) ==
    IF spec.key # NoKey THEN ByKey(spec.key) ELSE ByType(spec.type)

\* A parameter of an injected function; an unmarked one is skipped unless a
\* dependency has its type.
ConsumerTarget(spec) ==
    IF spec.marked THEN Marked(spec)
    ELSE IF Typed(spec.type) # {} THEN ByType(spec.type)
    ELSE Skipped

\* A parameter of a provider; it must be known or have a default.
ProviderTarget(spec) ==
    IF spec.marked THEN Marked(spec)
    ELSE IF Typed(spec.type) # {} THEN ByType(spec.type)
    ELSE IF spec.default THEN Skipped
    ELSE Error("missing")

-----------------------------------------------------------------------------
(* Resolution                                                               *)

Cached(d) == value[d].no # 0
Top(s) == s[Len(s)]
Pop(s) == SubSeq(s, 1, Len(s) - 1)
Path(s) == {s[i].dep : i \in DOMAIN s}

\* How the resolution of a caller goes on: the stack is Python's, the path the
\* set that is handed down it.  An exception unwinds the stack, and the finally
\* of each frame discards its key.
Fail(x, what) == [x EXCEPT !.stack = <<>>, !.path = {}, !.result = what]
Answer(x, no) ==
    IF x.stack = <<>> THEN [x EXCEPT !.result = "ok"]
    ELSE [x EXCEPT !.stack[Len(x.stack)].args = Append(@, no)]
Push(x, d) == [x EXCEPT !.stack = Append(@, [dep |-> d, args |-> <<>>]),
                        !.path = @ \cup {d}]

\* Mutant of Return: the key stays in the path that the next parameter gets.
ReturnInPath(x) == [x EXCEPT !.stack = Pop(@)]

Return(x) == [x EXCEPT !.stack = Pop(@), !.path = @ \ {Top(x.stack).dep}]

\* Mutant of Visit: a key that is being resolved is waited for.
VisitWaits(x, d) ==
    IF Cached(d) THEN Answer(x, value[d].no)
    ELSE IF d \in x.path THEN x
    ELSE IF x.mode = "sync" /\ provider[d].kind = "async" THEN Fail(x, "async")
    ELSE Push(x, d)

\* Mutant of Visit: an async provider is called by get as well.
VisitModeless(x, d) ==
    IF Cached(d) THEN Answer(x, value[d].no)
    ELSE IF d \in x.path THEN Fail(x, "circular")
    ELSE Push(x, d)

\* _resolve_sync and _resolve_async up to the loop over the parameters.
Visit(x, d) ==
    IF Cached(d) THEN Answer(x, value[d].no)
    ELSE IF d \in x.path THEN Fail(x, "circular")
    ELSE IF x.mode = "sync" /\ provider[d].kind = "async" THEN Fail(x, "async")
    ELSE Push(x, d)

Follow(x, target) ==
    CASE target.is = "found" -> Visit(x, target.dep)
      [] target.is = "skipped" -> Answer(x, 0)
      [] OTHER -> Fail(x, target.is)

Busy(c) == call[c].stack # <<>>
Params(c) == provider[Top(call[c].stack).dep].params
Args(c) == Top(call[c].stack).args

-----------------------------------------------------------------------------
(* Actions                                                                  *)

\* A key that is registered already is refused and changes nothing.  Plugins
\* register while the application is set up, when nothing resolves.
Register(d) ==
    /\ d \notin registered
    /\ \A c \in Caller : ~Busy(c)
    /\ registered' = registered \cup {d}
    /\ value' = IF provider[d].kind = "value"
                THEN [value EXCEPT ![d] = [no |-> 1, args |-> <<>>]] ELSE value
    /\ built' = IF provider[d].kind = "value"
                THEN [built EXCEPT ![d] = 1] ELSE built
    /\ UNCHANGED <<provider, call>>

\* get, aget: a key or a type.  inject, ainject: one parameter after the
\* other, each with a path of its own.
Asked(target) == IF target.is = "found" THEN {target.dep} ELSE {}
Ask(c, spec, mode) ==
    /\ ~Busy(c)
    /\ LET target == ConsumerTarget(spec)
           x == [mode |-> mode, stack |-> <<>>, path |-> {},
                 asked |-> Asked(target), result |-> "none"]
       IN  call' = [call EXCEPT ![c] =
                        IF target = Skipped THEN Fail(x, "skipped")
                        ELSE Follow(x, target)]
    /\ UNCHANGED <<provider, registered, value, built>>

\* The next parameter of the provider on top of the stack.
NextParam(c) ==
    /\ Busy(c)
    /\ Len(Args(c)) < Len(Params(c))
    /\ call' = [call EXCEPT ![c] =
                    Follow(@, ProviderTarget(Params(c)[Len(Args(c)) + 1]))]
    /\ UNCHANGED <<provider, registered, value, built>>

\* Mutant of Build: what is built for another provider is not kept.
BuildRootOnly(c) ==
    /\ Busy(c)
    /\ Len(Args(c)) = Len(Params(c))
    /\ LET d == Top(call[c].stack).dep
           inst == [no |-> built[d] + 1, args |-> Args(c)]
       IN  /\ built' = [built EXCEPT ![d] = @ + 1]
           /\ value' = IF Len(call[c].stack) = 1 THEN [value EXCEPT ![d] = inst]
                       ELSE value
           /\ call' = [call EXCEPT ![c] = Answer(Return(call[c]), inst.no)]
    /\ UNCHANGED <<provider, registered>>

\* The provider returns; its instance becomes the cached one, whatever was
\* cached while its parameters were resolved or while it was awaited.
Build(c) ==
    /\ Busy(c)
    /\ Len(Args(c)) = Len(Params(c))
    /\ LET d == Top(call[c].stack).dep
       IN  /\ built' = [built EXCEPT ![d] = @ + 1]
           /\ value' = [value EXCEPT ![d] = [no |-> built'[d], args |-> Args(c)]]
           /\ call' = [call EXCEPT ![c] = Answer(Return(call[c]), built'[d])]
    /\ UNCHANGED <<provider, registered>>

\* The provider raises, or its caller is cancelled: nothing is cached.
ProviderRaises(c) ==
    /\ Busy(c)
    /\ Len(Args(c)) = Len(Params(c))
    /\ call' = [call EXCEPT ![c] = Fail(@, "raised")]
    /\ UNCHANGED <<provider, registered, value, built>>

-----------------------------------------------------------------------------
Init ==
    /\ provider \in Wiring
    /\ registered = {}
    /\ value = [d \in Dep |-> Empty]
    /\ built = [d \in Dep |-> 0]
    /\ call \in [Caller -> [mode : Mode, stack : {<<>>}, path : {{}},
                            asked : {{}}, result : {"none"}]]

\* The parameters a consumer can have: get(key), get(type), and the unmarked
\* ones of injected functions.
Consumer ==
    {[key |-> d, type |-> NoType, marked |-> TRUE, default |-> FALSE] : d \in Dep} \cup
    {[key |-> NoKey, type |-> t, marked |-> m, default |-> FALSE] :
        t \in Type, m \in BOOLEAN}

Resolve(c) == NextParam(c) \/ Build(c)

Next ==
    \/ \E d \in Dep : Register(d)
    \/ \E c \in Caller :
          \/ \E spec \in Consumer, mode \in Mode : Ask(c, spec, mode)
          \/ Resolve(c) \/ ProviderRaises(c)

Spec == Init /\ [][Next]_vars

\* Every coroutine and thread that resolves is scheduled again and again.
Fairness == \A c \in Caller : WF_vars(Resolve(c))
FairSpec == Spec /\ Fairness

-----------------------------------------------------------------------------
(* Properties                                                               *)

\* The keys a provider's parameters lead to.
Needs(d) ==
    {e \in Dep : \E i \in DOMAIN provider[d].params :
        ProviderTarget(provider[d].params[i]) = Found(e)}
Wired(d) ==
    \A i \in DOMAIN provider[d].params :
        ProviderTarget(provider[d].params[i]).is \in {"found", "skipped"}

\* What is cached was complete when it was cached: everything its parameters
\* led to is cached as well, whoever built it and whatever failed in between.
DependenciesFirst ==
    \A d \in Dep : Cached(d) =>
        /\ Len(value[d].args) = IF provider[d].kind = "value" THEN 0
                                ELSE Len(provider[d].params)
        /\ \A i \in DOMAIN value[d].args :
              LET target == ProviderTarget(provider[d].params[i])
              IN  value[d].args[i] # 0 /\ target.is = "found" =>
                      Cached(target.dep) /\ value[d].args[i] <= built[target.dep]

\* Between the additions and the discards of nested resolutions, of which some
\* raise, the path holds exactly the keys under construction: one too few and a
\* ring of providers is entered again, one too many and a dependency that two
\* providers share looks like a ring (path.add, path.discard).
PathIsExact ==
    \A c \in Caller :
        LET s == call[c].stack
        IN  /\ call[c].path = Path(s)
            /\ \A i, j \in DOMAIN s : s[i].dep = s[j].dep => i = j

\* "Resolve once ... cached as process-wide singletons": no key is built
\* twice.  Holds while callers take turns.
Singleton == \A d \in Dep : built[d] <= 1

\* Reference: what a caller can get, by reachability instead of recursion.
\* Cached keys are taken as they are; the rest must be wired, free of cycles
\* and, for a sync caller, of async providers.
Closed(S) == \A d \in S : Cached(d) \/ Needs(d) \subseteq S
Reach(d) == {e \in Dep : \A S \in SUBSET Dep : d \in S /\ Closed(S) => e \in S}
Fresh(d) == {e \in Reach(d) : ~Cached(e)}
Cyclic(d) ==
    \E S \in SUBSET Fresh(d) : S # {} /\ \A e \in S : Needs(e) \cap S # {}
Resolvable(d, mode) ==
    /\ \A e \in Fresh(d) : Wired(e) /\ (mode = "sync" => provider[e].kind # "async")
    /\ ~Cyclic(d)

\* A caller gets an instance exactly when there is one to get, judged when it
\* gets its answer, whatever it and others have cached by then, and an error
\* names what is really there (_resolve_sync, _resolve_async).
AnswerIsRight ==
    [][\A c \in Caller : call'[c] # call[c] /\ call'[c].stack = <<>> =>
          \A d \in call'[c].asked :
              /\ call'[c].result = "ok" => Resolvable(d, call'[c].mode)
              /\ call'[c].result \in {"circular", "async", "missing", "ambiguous"} =>
                     ~Resolvable(d, call'[c].mode)
              /\ call'[c].result = "circular" => Cyclic(d)]_vars

\* Every resolution comes to an end, also when callers overwrite each
\* other's instances.
EveryCallReturns == \A c \in Caller : Busy(c) ~> ~Busy(c)
=============================================================================
