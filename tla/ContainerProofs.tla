---------------------------- MODULE ContainerProofs ----------------------------
(***************************************************************************)
(* What holds of Container for every finite set of keys, every wiring and   *)
(* any number of callers: resolutions that overlap, fail or run in circles  *)
(* never go deeper than there are keys, and never cache an instance whose   *)
(* dependencies are not there.                                              *)
(***************************************************************************)
EXTENDS Container, FiniteSetTheorems, SequenceTheorems, WellFoundedInduction,
        TLAPS

USE ModeAssumption, NoTypeAssumption, WiringAssumption

-----------------------------------------------------------------------------
(* The inductive invariant                                                  *)

CallRecord == [mode : Mode, stack : Seq(Frame), path : SUBSET Dep,
               asked : SUBSET Dep, result : Result]
\* A call whose path is the keys of its stack.
Call == {x \in CallRecord : x.path = Path(x.stack)}

\* The keys a parameter may have been resolved to: registration adds to them.
Candidates(spec) ==
    IF spec.marked /\ spec.key # NoKey THEN {spec.key} \cap registered
    ELSE Typed(spec.type)

\* The numbers of instances that were cached, by key.
Supply == {s \in Dep \X Nat : Cached(s[1]) /\ s[2] <= built[s[1]]}

\* Each argument of an instance of d is the default or was supplied by a key
\* its parameter leads to.
Backed(d, args, S) ==
    \A k \in DOMAIN args : args[k] # 0 =>
        \E e \in Candidates(provider[d].params[k]) : <<e, args[k]>> \in S

Room(f) == Len(f.args) < Len(provider[f.dep].params)
NextSpec(f) == provider[f.dep].params[Len(f.args) + 1]

\* A stack: distinct keys under construction, each but the last waiting for
\* the next.
Simple(s) == \A i, j \in DOMAIN s : s[i].dep = s[j].dep => i = j
Sound(s, S) ==
    \A i \in DOMAIN s :
        /\ s[i].dep \in registered /\ provider[s[i].dep].kind # "value"
        /\ Len(s[i].args) <= Len(provider[s[i].dep].params)
        /\ Backed(s[i].dep, s[i].args, S)
Chained(s) ==
    \A i \in DOMAIN s : i + 1 \in DOMAIN s =>
        Room(s[i]) /\ s[i + 1].dep \in Candidates(NextSpec(s[i]))
Good(s, S) == Simple(s) /\ Sound(s, S) /\ Chained(s)

Stacks == \A c \in Caller :
              /\ Good(call[c].stack, Supply)
              /\ call[c].path = Path(call[c].stack)

\* What is cached is registered, and constants are from their registration
\* on; numbers are those of instances that were built.
Constants ==
    /\ \A d \in registered : provider[d].kind = "value" => Cached(d)
    /\ \A d \in Dep : Cached(d) => d \in registered
Numbered == \A d \in Dep : value[d].no <= built[d]

Complete ==
    \A d \in Dep : Cached(d) =>
        /\ Len(value[d].args) = IF provider[d].kind = "value" THEN 0
                                ELSE Len(provider[d].params)
        /\ Backed(d, value[d].args, Supply)

CInv == TypeOK /\ Stacks /\ Constants /\ Numbered /\ Complete

-----------------------------------------------------------------------------
(* Lookup                                                                   *)

LEMMA ProviderTargets ==
    ASSUME NEW spec \in ParamSpec
    PROVE  LET t == ProviderTarget(spec)
           IN  /\ t.is \in {"found", "skipped", "missing", "ambiguous"}
               /\ t.is = "found" => /\ t.dep \in registered
                                    /\ t.dep \in Candidates(spec)
<1>1. ASSUME NEW t \in Type \cup {NoType}
      PROVE  \/ \E d \in Typed(t) : ByType(t) = Found(d)
             \/ ByType(t) = Error("missing") \/ ByType(t) = Error("ambiguous")
  BY DEF ByType
<1>2. \A d \in Typed(spec.type) : d \in registered
  BY DEF Typed
<1>3. /\ spec.type \in Type \cup {NoType}
      /\ spec.marked \in BOOLEAN /\ spec.default \in BOOLEAN
  BY DEF ParamSpec
<1>4. CASE spec.marked /\ spec.key # NoKey
  BY <1>4 DEF ProviderTarget, Marked, ByKey, Candidates, Found, Error
<1>5. CASE ~(spec.marked /\ spec.key # NoKey)
  <2>1. \/ ProviderTarget(spec) = ByType(spec.type)
        \/ ProviderTarget(spec) = Skipped
        \/ ProviderTarget(spec) = Error("missing")
    BY <1>3, <1>5 DEF ProviderTarget, Marked
  <2> QED
    BY <1>1, <1>2, <1>3, <1>5, <2>1 DEF Candidates, Found, Error, Skipped
<1> QED
  BY <1>4, <1>5

LEMMA ConsumerTargets ==
    ASSUME NEW spec \in ParamSpec
    PROVE  LET t == ConsumerTarget(spec)
           IN  /\ t.is \in {"found", "skipped", "missing", "ambiguous"}
               /\ t.is = "found" => t.dep \in registered
<1>1. ASSUME NEW t \in Type \cup {NoType}
      PROVE  \/ \E d \in Typed(t) : ByType(t) = Found(d)
             \/ ByType(t) = Error("missing") \/ ByType(t) = Error("ambiguous")
  BY DEF ByType
<1>2. \A d \in Typed(spec.type) : d \in registered
  BY DEF Typed
<1>3. spec.type \in Type \cup {NoType}
  BY DEF ParamSpec
<1>4. \/ ConsumerTarget(spec) = ByKey(spec.key)
      \/ ConsumerTarget(spec) = ByType(spec.type)
      \/ ConsumerTarget(spec) = Skipped
  BY DEF ConsumerTarget, Marked
<1>5. CASE ConsumerTarget(spec) = ByKey(spec.key)
  BY <1>5 DEF ByKey, Found, Error
<1>6. CASE ConsumerTarget(spec) = ByType(spec.type)
  BY <1>1, <1>2, <1>3, <1>6 DEF Found, Error
<1>7. CASE ConsumerTarget(spec) = Skipped
  BY <1>7 DEF Skipped
<1> QED
  BY <1>4, <1>5, <1>6, <1>7

\* A parameter that leads to a key has no other candidate: two of its type
\* would be ambiguous.
LEMMA OneCandidate ==
    ASSUME IsFiniteSet(Dep), registered \subseteq Dep, NEW spec \in ParamSpec,
           NEW d \in Candidates(spec), ProviderTarget(spec).is = "found"
    PROVE  d = ProviderTarget(spec).dep
<1> DEFINE e == ProviderTarget(spec).dep
           T == Typed(spec.type)
<1>1. e \in Candidates(spec)
  BY ProviderTargets
<1>2. CASE spec.marked /\ spec.key # NoKey
  BY <1>1, <1>2 DEF Candidates
<1>3. CASE ~(spec.marked /\ spec.key # NoKey)
  <2>1. d \in T /\ e \in T
    BY <1>1, <1>3 DEF Candidates
  <2>2. IsFiniteSet(T)
    BY FS_Subset DEF Typed
  <2>3. ~(Cardinality(T) > 1)
    BY <1>3, <2>1 DEF ProviderTarget, Marked, ByType, Error, Skipped
  <2>4. CASE d # e
    <3>1. IsFiniteSet({d, e}) /\ Cardinality({d, e}) = 2
      <4>1. IsFiniteSet({d}) /\ Cardinality({d}) = 1
        BY FS_Singleton
      <4>2. e \notin {d} /\ {d, e} = {d} \cup {e}
        BY <2>4
      <4> HIDE DEF e
      <4>3. /\ IsFiniteSet({d} \cup {e})
            /\ Cardinality({d} \cup {e}) = Cardinality({d}) + 1
        BY <4>1, <4>2, FS_AddElement
      <4> QED
        BY <4>1, <4>2, <4>3
    <3>2. {d, e} \subseteq T
      BY <2>1
    <3>3. Cardinality({d, e}) <= Cardinality(T)
      BY <2>2, <3>2, FS_Subset
    <3>4. Cardinality(T) \in Nat
      BY <2>2, FS_CardinalityType
    <3> QED
      BY <2>3, <3>1, <3>3, <3>4
  <2> QED
    BY <2>4
<1> QED
  BY <1>2, <1>3

-----------------------------------------------------------------------------
(* How a resolution goes on                                                 *)

\* A record of which two fields, or three, are replaced.
LEMMA Replaced ==
    ASSUME NEW M, NEW S, NEW P, NEW A, NEW R,
           NEW x \in [mode : M, stack : S, path : P, asked : A, result : R],
           NEW t \in S, NEW q \in P
    PROVE  LET y == [x EXCEPT !.stack = t, !.path = q]
           IN  /\ y \in [mode : M, stack : S, path : P, asked : A, result : R]
               /\ y.stack = t /\ y.path = q
               /\ y.mode = x.mode /\ y.asked = x.asked /\ y.result = x.result
OBVIOUS

LEMMA ReplacedAll ==
    ASSUME NEW M, NEW S, NEW P, NEW A, NEW R,
           NEW x \in [mode : M, stack : S, path : P, asked : A, result : R],
           NEW t \in S, NEW q \in P, NEW r \in R
    PROVE  LET y == [x EXCEPT !.stack = t, !.path = q, !.result = r]
           IN  /\ y \in [mode : M, stack : S, path : P, asked : A, result : R]
               /\ y.stack = t /\ y.path = q
OBVIOUS

LEMMA PushFields ==
    ASSUME NEW x \in CallRecord, NEW d \in Dep
    PROVE  /\ Push(x, d) \in CallRecord
           /\ Push(x, d).stack = Append(x.stack, [dep |-> d, args |-> <<>>])
           /\ Push(x, d).path = x.path \cup {d}
           /\ Push(x, d).mode = x.mode /\ Push(x, d).asked = x.asked
           /\ Push(x, d).result = x.result
<1>1. PICK f \in Frame : f = [dep |-> d, args |-> <<>>]
  <2>1. <<>> \in Seq(Nat)
    OBVIOUS
  <2>2. [dep |-> d, args |-> <<>>] \in Frame
    BY <2>1 DEF Frame
  <2> QED
    BY <2>2
<1>2. x.stack \in Seq(Frame) /\ x.path \in SUBSET Dep
  BY DEF CallRecord
<1>3. PICK t \in Seq(Frame), q \in SUBSET Dep :
           t = Append(x.stack, f) /\ q = x.path \cup {d}
  <2>1. PICK s \in Seq(Frame) : s = x.stack
    BY <1>2
  <2>2. Append(s, f) \in Seq(Frame)
    BY <1>1
  <2>3. x.path \cup {d} \in SUBSET Dep
    BY <1>2
  <2> QED
    BY <2>1, <2>2, <2>3, Zenon
<1>4. Push(x, d) = [x EXCEPT !.stack = t, !.path = q]
  BY <1>1, <1>3, Zenon DEF Push
<1>5. PICK y : y = [x EXCEPT !.stack = t, !.path = q]
  OBVIOUS
<1>6. /\ y \in CallRecord /\ y.stack = t /\ y.path = q
      /\ y.mode = x.mode /\ y.asked = x.asked /\ y.result = x.result
  BY <1>5, Replaced, Zenon DEF CallRecord
<1> QED
  BY <1>1, <1>3, <1>4, <1>5, <1>6, Zenon

LEMMA ReturnFields ==
    ASSUME NEW x \in CallRecord, x.stack # <<>>
    PROVE  /\ Return(x) \in CallRecord
           /\ Return(x).stack = Pop(x.stack)
           /\ Return(x).path = x.path \ {Top(x.stack).dep}
           /\ Return(x).mode = x.mode /\ Return(x).asked = x.asked
           /\ Return(x).result = x.result
<1>1. x.stack \in Seq(Frame) /\ x.path \in SUBSET Dep
  BY DEF CallRecord
<1>2. PICK e : e = Top(x.stack).dep
  OBVIOUS
<1>3. Pop(x.stack) \in Seq(Frame) /\ x.path \ {e} \in SUBSET Dep
  BY <1>1 DEF Pop
<1>4. PICK t \in Seq(Frame), q \in SUBSET Dep : t = Pop(x.stack) /\ q = x.path \ {e}
  BY <1>3
<1>5. Return(x) = [x EXCEPT !.stack = t, !.path = q]
  BY <1>2, <1>4, Zenon DEF Return
<1>6. PICK y : y = [x EXCEPT !.stack = t, !.path = q]
  OBVIOUS
<1>7. /\ y \in CallRecord /\ y.stack = t /\ y.path = q
      /\ y.mode = x.mode /\ y.asked = x.asked /\ y.result = x.result
  BY <1>6, Replaced, Zenon DEF CallRecord
<1> QED
  BY <1>2, <1>4, <1>5, <1>6, <1>7, Zenon

\* The key that is discarded is not below on the stack.
LEMMA Returned ==
    ASSUME NEW x \in Call, x.stack # <<>>, Simple(x.stack)
    PROVE  Return(x) \in Call
<1>1. PICK s \in Seq(Frame), n \in Nat \ {0} : s = x.stack /\ n = Len(s) /\ DOMAIN s = 1 .. n
  BY DEF Call, CallRecord
<1>2. x \in CallRecord /\ x.path = Path(s)
  BY <1>1 DEF Call
<1>3. PICK t : t = Pop(s)
  OBVIOUS
<1>4. /\ DOMAIN t = 1 .. (n - 1) /\ \A i \in 1 .. (n - 1) : t[i] = s[i]
  BY <1>1, <1>3 DEF Pop
<1>5. Path(t) = Path(s) \ {s[n].dep}
  <2>1. \A i \in 1 .. n : i \in 1 .. (n - 1) <=> s[i].dep # s[n].dep
    BY <1>1 DEF Simple
  <2>2. \A e : e \in Path(t) <=> \E i \in 1 .. (n - 1) : e = s[i].dep
    BY <1>4 DEF Path
  <2>3. \A e : e \in Path(s) <=> \E i \in 1 .. n : e = s[i].dep
    BY <1>1 DEF Path
  <2>4. \A i \in 1 .. (n - 1) : i \in 1 .. n
    BY <1>1
  <2>5. \A e : e \in Path(t) <=> e \in Path(s) /\ e # s[n].dep
    BY <2>1, <2>2, <2>3, <2>4
  <2> QED
    BY <2>5
<1>6. Top(s) = s[n]
  BY <1>1 DEF Top
<1> QED
  BY <1>1, <1>2, <1>3, <1>5, <1>6, ReturnFields DEF Call

\* An argument for the provider on top, and nothing else.
LEMMA AnswerFrames ==
    ASSUME NEW x \in Call, NEW no \in Nat, x.stack # <<>>
    PROVE  LET s == x.stack
               n == Len(s)
               y == Answer(x, no)
           IN  /\ y \in Call /\ y.mode = x.mode /\ y.asked = x.asked
               /\ y.stack \in Seq(Frame) /\ DOMAIN y.stack = DOMAIN s
               /\ \A i \in DOMAIN s : y.stack[i].dep = s[i].dep
               /\ \A i \in DOMAIN s : i # n => y.stack[i] = s[i]
               /\ y.stack[n].args = Append(s[n].args, no)
<1> DEFINE s == x.stack
           n == Len(s)
           y == Answer(x, no)
           args == Append(s[n].args, no)
<1>1. /\ s \in Seq(Frame) /\ n \in Nat \ {0} /\ n \in DOMAIN s /\ DOMAIN s = 1 .. n
      /\ s[n] \in Frame
  BY DEF Call, CallRecord
<1>2. args \in Seq(Nat)
  <2>1. s[n].args \in Seq(Nat)
    BY <1>1 DEF Frame
  <2> HIDE DEF s, n
  <2> QED
    BY <2>1
<1>3. y = [x EXCEPT !.stack = [s EXCEPT ![n] = [s[n] EXCEPT !.args = args]]]
  BY DEF Answer
<1>4. [s[n] EXCEPT !.args = args] = [dep |-> s[n].dep, args |-> args]
  <2> HIDE DEF s, n, args
  <2> QED
    BY <1>1 DEF Frame
<1>5. y.stack = [s EXCEPT ![n] = [dep |-> s[n].dep, args |-> args]]
  BY <1>3, <1>4 DEF Call, CallRecord
<1>6. /\ y.stack \in Seq(Frame) /\ DOMAIN y.stack = DOMAIN s
      /\ \A i \in DOMAIN s : y.stack[i].dep = s[i].dep
      /\ \A i \in DOMAIN s : i # n => y.stack[i] = s[i]
      /\ y.stack[n].args = args
  <2> HIDE DEF args, n, y
  <2>1. [dep |-> s[n].dep, args |-> args] \in Frame
    BY <1>1, <1>2 DEF Frame
  <2>2. y.stack \in [1 .. n -> Frame]
    BY <1>1, <1>5, <2>1
  <2> QED
    BY <1>1, <1>5, <2>2
<1>7. y \in Call
  <2>1. y \in CallRecord /\ y.path = x.path
    BY <1>3, <1>5, <1>6 DEF Call, CallRecord
  <2>2. Path(y.stack) = Path(s)
    <3> HIDE DEF y, s
    <3> QED
      BY <1>6 DEF Path
  <2>3. x.path = Path(s)
    BY DEF Call
  <2> QED
    BY <2>1, <2>2, <2>3 DEF Call
<1>8. y.mode = x.mode /\ y.asked = x.asked
  BY <1>3 DEF Call, CallRecord
<1> HIDE DEF y
<1> QED
  BY <1>6, <1>7, <1>8 DEF y

\* An argument for the provider on top, or the answer of an empty stack.
LEMMA Answered ==
    ASSUME provider \in [Dep -> Provider], NEW S,
           NEW x \in Call, Good(x.stack, S), NEW no \in Nat,
           x.stack # <<>> =>
               /\ Room(Top(x.stack))
               /\ no # 0 => \E e \in Candidates(NextSpec(Top(x.stack))) : <<e, no>> \in S
    PROVE  /\ Answer(x, no) \in Call
           /\ Good(Answer(x, no).stack, S)
<1>1. CASE x.stack = <<>>
  <2>1. /\ Answer(x, no) \in CallRecord /\ Answer(x, no).stack = <<>>
        /\ Answer(x, no).path = x.path
    BY <1>1 DEF Answer, Call, CallRecord, Result
  <2> QED
    BY <1>1, <2>1 DEF Call, Good, Simple, Sound, Chained
<1>2. CASE x.stack # <<>>
  <2> DEFINE s == x.stack
             n == Len(s)
             y == Answer(x, no)
             args == Append(s[n].args, no)
  <2>1. /\ s \in Seq(Frame) /\ n \in Nat \ {0} /\ n \in DOMAIN s /\ DOMAIN s = 1 .. n
        /\ s[n] \in Frame /\ Top(s) = s[n]
    BY <1>2 DEF Call, CallRecord, Top
  <2>2. /\ args \in Seq(Nat)
        /\ Len(args) = Len(s[n].args) + 1
        /\ DOMAIN args = 1 .. (Len(s[n].args) + 1)
        /\ \A k \in DOMAIN s[n].args : args[k] = s[n].args[k]
        /\ args[Len(s[n].args) + 1] = no
        /\ DOMAIN s[n].args = 1 .. Len(s[n].args) /\ Len(s[n].args) \in Nat
    <3>1. s[n].args \in Seq(Nat)
      BY <2>1 DEF Frame
    <3> HIDE DEF s, n
    <3> QED
      BY <3>1
  <2>6. /\ y.stack \in Seq(Frame) /\ DOMAIN y.stack = DOMAIN s
        /\ \A i \in DOMAIN s : y.stack[i].dep = s[i].dep
        /\ \A i \in DOMAIN s : i # n => y.stack[i] = s[i]
        /\ y.stack[n].args = args
    BY <1>2, AnswerFrames
  <2>7. y \in Call
    BY <1>2, AnswerFrames
  <2>a. Room(s[n]) /\ (no # 0 => \E e \in Candidates(NextSpec(s[n])) : <<e, no>> \in S)
    BY <1>2, <2>1
  <2> HIDE DEF y
  <2>8. Simple(y.stack)
    BY <2>6 DEF Good, Simple
  <2>9. Sound(y.stack, S)
    <3>1. ASSUME NEW i \in DOMAIN s, i # n
          PROVE  /\ y.stack[i].dep \in registered
                 /\ provider[y.stack[i].dep].kind # "value"
                 /\ Len(y.stack[i].args) <= Len(provider[y.stack[i].dep].params)
                 /\ Backed(y.stack[i].dep, y.stack[i].args, S)
      BY <2>6, <3>1 DEF Good, Sound
    <3>2. /\ s[n].dep \in registered /\ provider[s[n].dep].kind # "value"
          /\ Backed(s[n].dep, s[n].args, S)
      BY <2>1 DEF Good, Sound
    <3>3. Len(args) <= Len(provider[s[n].dep].params)
      <4>1. provider[s[n].dep].params \in Seq(ParamSpec)
        BY <2>1 DEF Frame, Provider
      <4> HIDE DEF s, n, args
      <4>2. Len(provider[s[n].dep].params) \in Nat
        BY <4>1, LenProperties
      <4>3. Len(s[n].args) < Len(provider[s[n].dep].params)
        BY <2>a DEF Room
      <4>4. Len(args) = Len(s[n].args) + 1 /\ Len(s[n].args) \in Nat
        BY <2>2
      <4> QED
        BY <4>2, <4>3, <4>4
    <3>4. Backed(s[n].dep, args, S)
      <4> SUFFICES ASSUME NEW k \in DOMAIN args, args[k] # 0
                   PROVE  \E e \in Candidates(provider[s[n].dep].params[k]) :
                              <<e, args[k]>> \in S
        BY DEF Backed
      <4>1. CASE k \in DOMAIN s[n].args
        BY <2>2, <3>2, <4>1 DEF Backed
      <4>2. CASE k = Len(s[n].args) + 1
        BY <2>2, <2>a, <4>2 DEF NextSpec
      <4> HIDE DEF s, n, args
      <4>3. k \in DOMAIN s[n].args \/ k = Len(s[n].args) + 1
        BY <2>2
      <4> QED
        BY <4>1, <4>2, <4>3
    <3> QED
      BY <2>6, <3>1, <3>2, <3>3, <3>4 DEF Sound
  <2>10. Chained(y.stack)
    <3> SUFFICES ASSUME NEW i \in DOMAIN s, i + 1 \in DOMAIN s
                 PROVE  /\ Room(y.stack[i])
                        /\ y.stack[i + 1].dep \in Candidates(NextSpec(y.stack[i]))
      BY <2>6 DEF Chained
    <3>1. i # n
      BY <2>1
    <3> QED
      BY <2>6, <3>1 DEF Good, Chained
  <2> QED
    BY <2>7, <2>8, <2>9, <2>10 DEF Good, y
<1> QED
  BY <1>1, <1>2

\* A key that is not yet on the stack.
LEMMA Pushed ==
    ASSUME provider \in [Dep -> Provider], NEW S,
           NEW x \in Call, Good(x.stack, S), NEW d \in Dep \ Path(x.stack),
           d \in registered, provider[d].kind # "value",
           x.stack # <<>> => /\ Room(Top(x.stack))
                             /\ d \in Candidates(NextSpec(Top(x.stack)))
    PROVE  /\ Push(x, d) \in Call
           /\ Good(Push(x, d).stack, S)
<1> DEFINE s == x.stack
           n == Len(s)
           y == Push(x, d)
           f == [dep |-> d, args |-> <<>>]
<1>1. s \in Seq(Frame) /\ n \in Nat /\ DOMAIN s = 1 .. n /\ f \in Frame
  BY DEF Call, CallRecord, Frame
<1>2. /\ y.stack = Append(s, f) /\ y \in CallRecord
      /\ y.path = Path(s) \cup {d}
  BY PushFields DEF Call
<1>3. /\ DOMAIN y.stack = 1 .. (n + 1)
      /\ \A i \in DOMAIN s : y.stack[i] = s[i]
      /\ y.stack[n + 1] = f
  BY <1>1, <1>2
<1> HIDE DEF y
<1>4. \A i \in DOMAIN s : s[i].dep # d
  BY DEF Path
<1>a. y \in Call
  <2>1. Path(y.stack) = {y.stack[i].dep : i \in 1 .. n} \cup {y.stack[n + 1].dep}
    <3>1. \A i : i \in 1 .. (n + 1) <=> i \in 1 .. n \/ i = n + 1
      BY <1>1
    <3> QED
      BY <1>3, <3>1 DEF Path
  <2>2. Path(y.stack) = Path(s) \cup {d}
    BY <1>1, <1>3, <2>1 DEF Path
  <2> QED
    BY <1>2, <2>2 DEF Call
<1>5. Simple(y.stack)
  <2> SUFFICES ASSUME NEW i \in DOMAIN y.stack, NEW j \in DOMAIN y.stack,
                      y.stack[i].dep = y.stack[j].dep
               PROVE  i = j
    BY DEF Simple
  <2>1. CASE i \in DOMAIN s /\ j \in DOMAIN s
    BY <1>3, <2>1 DEF Good, Simple
  <2>2. CASE ~(i \in DOMAIN s /\ j \in DOMAIN s)
    BY <1>1, <1>3, <1>4, <2>2
  <2> QED
    BY <2>1, <2>2
<1>6. Sound(y.stack, S)
  <2>1. /\ Len(f.args) <= Len(provider[d].params)
        /\ Backed(d, f.args, S)
    <3>1. provider[d].params \in Seq(ParamSpec)
      BY DEF Provider
    <3> QED
      BY <3>1 DEF Backed
  <2> QED
    BY <1>1, <1>3, <2>1 DEF Good, Sound
<1>7. Chained(y.stack)
  <2> SUFFICES ASSUME NEW i \in DOMAIN y.stack, i + 1 \in DOMAIN y.stack
               PROVE  /\ Room(y.stack[i])
                      /\ y.stack[i + 1].dep \in Candidates(NextSpec(y.stack[i]))
    BY DEF Chained
  <2>1. CASE i + 1 \in DOMAIN s
    <3>1. i \in DOMAIN s
      BY <1>1, <1>3, <2>1
    <3> QED
      BY <1>3, <2>1, <3>1 DEF Good, Chained
  <2>2. CASE i + 1 \notin DOMAIN s
    <3>1. i = n /\ n # 0
      BY <1>1, <1>3, <2>2
    <3>2. s # <<>> /\ Top(s) = s[n] /\ n \in DOMAIN s
      BY <1>1, <3>1 DEF Top
    <3> QED
      BY <1>3, <3>1, <3>2
  <2> QED
    BY <2>1, <2>2
<1> QED
  BY <1>a, <1>5, <1>6, <1>7 DEF Good, y

LEMMA Failed ==
    ASSUME NEW S, NEW x \in Call, NEW what \in Result
    PROVE  /\ Fail(x, what) \in Call
           /\ Good(Fail(x, what).stack, S)
<1>1. Fail(x, what) \in Call /\ Fail(x, what).stack = <<>>
  <2>1. PICK e \in Seq(Frame) : e = <<>>
    <3>1. <<>> \in Seq(Frame)
      OBVIOUS
    <3> QED
      BY <3>1
  <2>2. PICK q \in SUBSET Dep : q = {}
    OBVIOUS
  <2>3. PICK y : y = [x EXCEPT !.stack = e, !.path = q, !.result = what]
    OBVIOUS
  <2>4. Fail(x, what) = y
    BY <2>1, <2>2, <2>3, Zenon DEF Fail
  <2>5. x \in CallRecord
    BY DEF Call
  <2>6. y \in CallRecord /\ y.stack = e /\ y.path = q
    BY <2>3, <2>5, ReplacedAll, Zenon DEF CallRecord
  <2>7. Path(e) = {}
    BY <2>1 DEF Path
  <2>8. y.path = Path(y.stack)
    BY <2>2, <2>6, <2>7
  <2> QED
    BY <2>1, <2>4, <2>6, <2>8 DEF Call
<1> QED
  BY <1>1 DEF Good, Simple, Sound, Chained

LEMMA Visited ==
    ASSUME TypeOK, Constants, Numbered,
           NEW x \in Call, Good(x.stack, Supply), NEW d \in registered,
           x.stack # <<>> => /\ Room(Top(x.stack))
                             /\ d \in Candidates(NextSpec(Top(x.stack)))
    PROVE  /\ Visit(x, d) \in Call
           /\ Good(Visit(x, d).stack, Supply)
<1>1. provider \in [Dep -> Provider] /\ d \in Dep
  BY DEF TypeOK
<1>2. CASE Cached(d)
  <2>1. value[d].no \in Nat /\ <<d, value[d].no>> \in Supply
    BY <1>1, <1>2 DEF TypeOK, Instance, Supply, Numbered
  <2>2. Visit(x, d) = Answer(x, value[d].no)
    BY <1>2 DEF Visit
  <2> QED
    BY <1>1, <2>1, <2>2, Answered
<1>3. CASE ~Cached(d)
  <2>1. provider[d].kind # "value"
    BY <1>3 DEF Constants
  <2>2. \/ Visit(x, d) = Fail(x, "circular")
        \/ Visit(x, d) = Fail(x, "async")
        \/ Visit(x, d) = Push(x, d) /\ d \notin Path(x.stack)
    BY <1>3 DEF Visit, Call
  <2>3. "circular" \in Result /\ "async" \in Result
    BY DEF Result
  <2>4. CASE Visit(x, d) = Fail(x, "circular")
    BY <2>3, <2>4, Failed
  <2>5. CASE Visit(x, d) = Fail(x, "async")
    BY <2>3, <2>5, Failed
  <2>6. CASE Visit(x, d) = Push(x, d) /\ d \notin Path(x.stack)
    BY <1>1, <2>1, <2>6, Pushed
  <2> QED
    BY <2>2, <2>4, <2>5, <2>6
<1> QED
  BY <1>2, <1>3

LEMMA Followed ==
    ASSUME TypeOK, Constants, Numbered,
           NEW x \in Call, Good(x.stack, Supply), NEW target,
           target.is \in {"found", "skipped", "missing", "ambiguous"},
           target.is = "found" => target.dep \in registered,
           x.stack # <<>> =>
               /\ Room(Top(x.stack))
               /\ target.is = "found" => target.dep \in Candidates(NextSpec(Top(x.stack)))
    PROVE  /\ Follow(x, target) \in Call
           /\ Good(Follow(x, target).stack, Supply)
<1>1. CASE target.is = "found"
  <2>1. Follow(x, target) = Visit(x, target.dep)
    BY <1>1 DEF Follow
  <2> QED
    BY <1>1, <2>1, Visited
<1>2. CASE target.is = "skipped"
  <2>1. Follow(x, target) = Answer(x, 0)
    BY <1>2 DEF Follow
  <2>2. provider \in [Dep -> Provider]
    BY DEF TypeOK
  <2> QED
    BY <2>1, <2>2, Answered
<1>3. CASE target.is \in {"missing", "ambiguous"}
  <2>1. Follow(x, target) = Fail(x, target.is) /\ target.is \in Result
    BY <1>3 DEF Follow, Result
  <2> QED
    BY <2>1, Failed
<1> QED
  BY <1>1, <1>2, <1>3

-----------------------------------------------------------------------------
(* The steps                                                                *)

LEMMA ConsumerSpec ==
    ASSUME NEW spec \in Consumer
    PROVE  spec \in ParamSpec
<1>1. CASE \E d \in Dep :
             spec = [key |-> d, type |-> NoType, marked |-> TRUE, default |-> FALSE]
  BY <1>1 DEF ParamSpec
<1>2. ASSUME NEW t \in Type, NEW m \in BOOLEAN,
             spec = [key |-> NoKey, type |-> t, marked |-> m, default |-> FALSE]
      PROVE  spec \in ParamSpec
  BY <1>2, Zenon DEF ParamSpec
<1>3. \/ \E d \in Dep :
            spec = [key |-> d, type |-> NoType, marked |-> TRUE, default |-> FALSE]
      \/ \E t \in Type, m \in BOOLEAN :
            spec = [key |-> NoKey, type |-> t, marked |-> m, default |-> FALSE]
  BY DEF Consumer
<1>4. CASE \E t \in Type, m \in BOOLEAN :
             spec = [key |-> NoKey, type |-> t, marked |-> m, default |-> FALSE]
  <2> PICK t \in Type, m \in BOOLEAN :
           spec = [key |-> NoKey, type |-> t, marked |-> m, default |-> FALSE]
    BY <1>4
  <2> QED
    BY <1>2, Zenon
<1> QED
  BY <1>1, <1>3, <1>4, Zenon

LEMMA AskCall ==
    ASSUME CInv, NEW c \in Caller, NEW spec \in Consumer, NEW mode \in Mode,
           Ask(c, spec, mode)
    PROVE  \E x \in Call : /\ call' = [call EXCEPT ![c] = x]
                           /\ Good(x.stack, Supply)
<1> DEFINE target == ConsumerTarget(spec)
           x == [mode |-> mode, stack |-> <<>>, path |-> {},
                 asked |-> Asked(target), result |-> "none"]
<1>1. spec \in ParamSpec
  BY ConsumerSpec
<1>2. /\ target.is \in {"found", "skipped", "missing", "ambiguous"}
      /\ target.is = "found" => target.dep \in registered
  BY <1>1, ConsumerTargets
<1>3. Asked(target) \subseteq Dep
  BY <1>2 DEF Asked, CInv, TypeOK
<1>4. x \in Call
  BY <1>3 DEF Call, CallRecord, Path, Result
<1>5. Good(x.stack, Supply)
  BY DEF Good, Simple, Sound, Chained
<1>6. /\ Fail(x, "skipped") \in Call /\ Good(Fail(x, "skipped").stack, Supply)
  BY <1>4, Failed DEF Result
<1>7. /\ Follow(x, target) \in Call /\ Good(Follow(x, target).stack, Supply)
  <2> HIDE DEF target
  <2>1. x.stack = <<>>
    OBVIOUS
  <2> HIDE DEF x
  <2> QED
    BY <1>2, <1>4, <1>5, <2>1, Followed DEF CInv
<1> QED
  BY <1>6, <1>7 DEF Ask

LEMMA NextParamCall ==
    ASSUME CInv, NEW c \in Caller, NextParam(c)
    PROVE  \E x \in Call : /\ call' = [call EXCEPT ![c] = x]
                           /\ Good(x.stack, Supply)
<1> DEFINE x == call[c]
           f == Top(x.stack)
           target == ProviderTarget(NextSpec(f))
<1>1. x \in Call /\ Good(x.stack, Supply) /\ x.stack # <<>>
  BY DEF CInv, TypeOK, Stacks, Call, CallRecord, NextParam, Busy
<1>2. f \in Frame
  BY <1>1 DEF Call, CallRecord, Top
<1>3. Room(f) /\ NextSpec(f) \in ParamSpec
  <2>1. provider[f.dep].params \in Seq(ParamSpec) /\ f.args \in Seq(Nat)
    BY <1>2 DEF CInv, TypeOK, Frame, Provider
  <2>2. Len(f.args) < Len(provider[f.dep].params)
    BY DEF NextParam, Args, Params
  <2> HIDE DEF f
  <2>3. Len(f.args) + 1 \in 1 .. Len(provider[f.dep].params)
    BY <2>1, <2>2, LenProperties
  <2> QED
    BY <2>1, <2>2, <2>3, ElementOfSeq DEF Room, NextSpec
<1>4. /\ target.is \in {"found", "skipped", "missing", "ambiguous"}
      /\ target.is = "found" => /\ target.dep \in registered
                                 /\ target.dep \in Candidates(NextSpec(f))
  BY <1>3, ProviderTargets
<1>5. call' = [call EXCEPT ![c] = Follow(x, target)]
  BY DEF NextParam, Args, Params, NextSpec
<1>6. Follow(x, target) \in Call /\ Good(Follow(x, target).stack, Supply)
  <2> HIDE DEF x, target
  <2> QED
    BY <1>1, <1>3, <1>4, Followed DEF CInv
<1> QED
  BY <1>5, <1>6

\* Build pops a provider and answers the one below it.
LEMMA BuildCall ==
    ASSUME CInv, NEW c \in Caller, Build(c),
           NEW S, S = Supply', Supply \subseteq S
    PROVE  \E x \in Call : /\ call' = [call EXCEPT ![c] = x]
                           /\ Good(x.stack, S)
<1> DEFINE s == call[c].stack
           n == Len(s)
           d == s[n].dep
           x == Return(call[c])
           no == built'[d]
<1>1. /\ call[c] \in Call /\ Good(s, Supply) /\ s \in Seq(Frame)
      /\ n \in Nat \ {0} /\ DOMAIN s = 1 .. n /\ n \in DOMAIN s /\ s[n] \in Frame
      /\ Top(s) = s[n] /\ provider \in [Dep -> Provider]
  BY DEF CInv, TypeOK, Stacks, Call, CallRecord, Build, Busy, Top
<1>2. d \in Dep /\ no = built[d] + 1 /\ no \in Nat \ {0} /\ value'[d].no = no
  BY <1>1 DEF Frame, Build, CInv, TypeOK
<1>3. <<d, no>> \in S
  <2>1. <<d, no>> \in Dep \X Nat
    BY <1>2
  <2>2. value'[d].no # 0 /\ no <= built'[d]
    BY <1>2
  <2> HIDE DEF no, d
  <2> QED
    BY <2>1, <2>2 DEF Supply, Cached
<1>4. /\ Pop(s) \in Seq(Frame) /\ Len(Pop(s)) = n - 1 /\ DOMAIN Pop(s) = 1 .. (n - 1)
      /\ \A i \in 1 .. (n - 1) : Pop(s)[i] = s[i]
  <2> HIDE DEF s
  <2> QED
    BY <1>1 DEF Pop
<1>5. x \in Call /\ x.stack = Pop(s)
  <2>1. s # <<>> /\ call[c] \in CallRecord /\ Simple(s)
    BY <1>1 DEF Call, Good
  <2> QED
    BY <1>1, <2>1, Returned, ReturnFields
<1>a. call' = [call EXCEPT ![c] = Answer(x, built'[Top(s).dep])]
  BY DEF Build
<1> HIDE DEF s, x
<1>6. Good(x.stack, S)
  <2>1. \A i \in DOMAIN x.stack : i \in DOMAIN s /\ x.stack[i] = s[i]
    BY <1>1, <1>4, <1>5
  <2>2. \A i \in DOMAIN x.stack : i + 1 \in DOMAIN x.stack => i + 1 \in DOMAIN s
    BY <2>1
  <2>3. Simple(x.stack)
    BY <1>1, <2>1 DEF Good, Simple
  <2>4. Sound(x.stack, S)
    BY <1>1, <2>1 DEF Good, Sound, Backed
  <2>5. Chained(x.stack)
    BY <1>1, <2>1, <2>2 DEF Good, Chained
  <2> QED
    BY <2>3, <2>4, <2>5 DEF Good
<1>7. ASSUME x.stack # <<>>
      PROVE  Room(Top(x.stack)) /\ d \in Candidates(NextSpec(Top(x.stack)))
  <2>1. n - 1 \in DOMAIN s /\ (n - 1) + 1 = n /\ Top(x.stack) = s[n - 1]
    BY <1>1, <1>4, <1>5, <1>7 DEF Top
  <2> QED
    BY <1>1, <2>1 DEF Good, Chained
<1>8. call' = [call EXCEPT ![c] = Answer(x, no)]
  BY <1>1, <1>a
<1> HIDE DEF d, no
<1>9. Answer(x, no) \in Call /\ Good(Answer(x, no).stack, S)
  BY <1>1, <1>2, <1>3, <1>5, <1>6, <1>7, Answered
<1> QED
  BY <1>8, <1>9

\* Nothing that was supplied is taken back.
LEMMA SupplyGrows == CInv /\ [Next]_vars => Supply \subseteq Supply'
<1> SUFFICES ASSUME CInv, [Next]_vars
             PROVE  Supply \subseteq Supply'
  OBVIOUS
<1>1. CASE UNCHANGED <<value, built>>
  BY <1>1 DEF Supply, Cached
<1>2. ASSUME NEW d \in Dep, Register(d)
      PROVE  Supply \subseteq Supply'
  <2>1. ~Cached(d)
    BY <1>2 DEF Register, CInv, Constants
  <2>2. \A e \in Dep : e # d => value'[e] = value[e] /\ built'[e] = built[e]
    BY <1>2 DEF Register, CInv, TypeOK
  <2> QED
    BY <2>1, <2>2 DEF Supply, Cached
<1>3. ASSUME NEW c \in Caller, Build(c)
      PROVE  Supply \subseteq Supply'
  <2> DEFINE d == Top(call[c].stack).dep
  <2>1. /\ built' = [built EXCEPT ![d] = built[d] + 1]
        /\ value' = [value EXCEPT ![d] = [no |-> built'[d], args |-> Args(c)]]
    BY <1>3 DEF Build
  <2>2. built \in [Dep -> Nat] /\ value \in [Dep -> Instance]
    BY DEF CInv, TypeOK
  <2> HIDE DEF d
  <2>3. \A e \in Dep : built'[e] >= built[e] /\ (Cached(e) => value'[e].no # 0)
    BY <2>1, <2>2 DEF Cached
  <2>4. ASSUME NEW e \in Dep, NEW m \in Nat, Cached(e), m <= built[e]
        PROVE  Cached(e)' /\ m <= built'[e]
    <3>1. built'[e] >= built[e] /\ value'[e].no # 0
      BY <2>3, <2>4
    <3>2. built[e] \in Nat /\ built'[e] \in Nat
      BY <2>1, <2>2
    <3> QED
      BY <2>4, <3>1, <3>2 DEF Cached
  <2> QED
    BY <2>4 DEF Supply, Cached
<1> QED
  BY <1>1, <1>2, <1>3 DEF Next, Ask, Resolve, NextParam, ProviderRaises, vars

\* The candidates of a parameter only grow, and so what was good stays good.
LEMMA GoodStays ==
    ASSUME CInv, [Next]_vars, NEW s, NEW S, NEW T, S \subseteq T, Good(s, S)
    PROVE  Good(s, T)'
<1>1. provider' = provider /\ registered \subseteq registered'
  BY DEF Next, Register, Ask, Resolve, NextParam, Build, ProviderRaises, vars
<1>2. \A spec : Candidates(spec) \subseteq Candidates(spec)'
  BY <1>1 DEF Candidates, Typed
<1>3. \A f : Room(f)' = Room(f) /\ NextSpec(f)' = NextSpec(f)
  BY <1>1 DEF Room, NextSpec
<1>4. \A d, args : Backed(d, args, S) => Backed(d, args, T)'
  BY <1>1, <1>2 DEF Backed
<1>5. Simple(s)'
  BY DEF Good, Simple
<1>6. Sound(s, T)'
  BY <1>1, <1>4 DEF Good, Sound
<1>7. Chained(s)'
  BY <1>2, <1>3 DEF Good, Chained
<1> QED
  BY <1>5, <1>6, <1>7 DEF Good

LEMMA StacksNext == CInv /\ [Next]_vars => call' \in [Caller -> Call] /\ Stacks'
<1> SUFFICES ASSUME CInv, [Next]_vars
             PROVE  call' \in [Caller -> Call] /\ Stacks'
  OBVIOUS
<1>1. PICK S : S = Supply'
  OBVIOUS
<1>2. Supply \subseteq S
  BY <1>1, SupplyGrows
<1>3. PICK t : t = call'
  OBVIOUS
<1>4. call \in [Caller -> Call] /\ \A c \in Caller : Good(call[c].stack, Supply)
  BY DEF CInv, TypeOK, Stacks, Call, CallRecord
<1>5. /\ t \in [Caller -> Call]
      /\ \A c \in Caller : Good(t[c].stack, Supply) \/ Good(t[c].stack, S)
  <2>1. CASE UNCHANGED call
    BY <1>3, <1>4, <2>1
  <2>2. ASSUME NEW c \in Caller, NEW x \in Call, call' = [call EXCEPT ![c] = x],
               Good(x.stack, Supply) \/ Good(x.stack, S)
        PROVE  /\ t \in [Caller -> Call]
               /\ \A k \in Caller : Good(t[k].stack, Supply) \/ Good(t[k].stack, S)
    BY <1>3, <1>4, <2>2
  <2>3. ASSUME NEW c \in Caller, NEW spec \in Consumer, NEW mode \in Mode, Ask(c, spec, mode)
        PROVE  /\ t \in [Caller -> Call]
               /\ \A k \in Caller : Good(t[k].stack, Supply) \/ Good(t[k].stack, S)
    BY <2>2, <2>3, AskCall
  <2>4. ASSUME NEW c \in Caller, NextParam(c)
        PROVE  /\ t \in [Caller -> Call]
               /\ \A k \in Caller : Good(t[k].stack, Supply) \/ Good(t[k].stack, S)
    BY <2>2, <2>4, NextParamCall
  <2>5. ASSUME NEW c \in Caller, Build(c)
        PROVE  /\ t \in [Caller -> Call]
               /\ \A k \in Caller : Good(t[k].stack, Supply) \/ Good(t[k].stack, S)
    BY <1>1, <1>2, <2>2, <2>5, BuildCall
  <2>6. ASSUME NEW c \in Caller, ProviderRaises(c)
        PROVE  /\ t \in [Caller -> Call]
               /\ \A k \in Caller : Good(t[k].stack, Supply) \/ Good(t[k].stack, S)
    <3>1. call' = [call EXCEPT ![c] = Fail(call[c], "raised")]
      BY <2>6 DEF ProviderRaises
    <3>2. Fail(call[c], "raised") \in Call /\ Good(Fail(call[c], "raised").stack, Supply)
      BY <1>4, Failed DEF Result
    <3> QED
      BY <2>2, <3>1, <3>2
  <2> QED
    BY <2>1, <2>3, <2>4, <2>5, <2>6 DEF Next, Register, Resolve, vars
<1>6. ASSUME NEW c \in Caller
      PROVE  Good(t[c].stack, S)' /\ t[c].path = Path(t[c].stack)
  BY <1>2, <1>5, GoodStays DEF Call
<1>7. Stacks'
  <2>1. \A c \in Caller : call'[c].path = Path(call'[c].stack)
    BY <1>3, <1>6
  <2>2. \A c \in Caller : Good(call[c].stack, Supply)'
    BY <1>1, <1>3, <1>6
  <2> QED
    BY <2>1, <2>2 DEF Stacks, Path
<1> QED
  BY <1>3, <1>5, <1>7

\* What Build caches.
LEMMA BuildCaches ==
    ASSUME CInv, NEW c \in Caller, Build(c)
    PROVE  \E d \in registered, args \in Seq(Nat) :
               /\ built' = [built EXCEPT ![d] = @ + 1]
               /\ value' = [value EXCEPT ![d] = [no |-> built[d] + 1, args |-> args]]
               /\ provider[d].kind # "value"
               /\ Len(args) = Len(provider[d].params)
               /\ Backed(d, args, Supply)
<1> DEFINE s == call[c].stack
           f == Top(s)
<1>1. s \in Seq(Frame) /\ s # <<>> /\ Good(s, Supply)
  BY DEF CInv, TypeOK, Stacks, Call, CallRecord, Build, Busy
<1>2. \E i \in DOMAIN s : f = s[i]
  BY <1>1 DEF Top
<1>3. f \in Frame
  BY <1>1 DEF Top
<1>4. /\ f.dep \in registered /\ provider[f.dep].kind # "value"
      /\ Backed(f.dep, f.args, Supply)
  BY <1>1, <1>2 DEF Good, Sound
<1>5. Len(f.args) = Len(provider[f.dep].params)
  BY DEF Build, Args, Params
<1>6. built' = [built EXCEPT ![f.dep] = @ + 1]
  BY DEF Build
<1>7. value' = [value EXCEPT ![f.dep] = [no |-> built'[f.dep], args |-> f.args]]
  BY DEF Build, Args
<1>8. f.dep \in Dep /\ f.args \in Seq(Nat) /\ built \in [Dep -> Nat]
  BY <1>3 DEF Frame, CInv, TypeOK
<1> HIDE DEF f
<1>9. built'[f.dep] = built[f.dep] + 1
  BY <1>6, <1>8
<1> QED
  BY <1>4, <1>5, <1>6, <1>7, <1>8, <1>9

LEMMA ValuesNext ==
    CInv /\ [Next]_vars =>
        /\ provider' \in [Dep -> Provider] /\ registered' \in SUBSET Dep
        /\ value' \in [Dep -> Instance] /\ built' \in [Dep -> Nat]
        /\ Constants' /\ Numbered' /\ Complete'
<1> SUFFICES ASSUME CInv, [Next]_vars
             PROVE  /\ provider' \in [Dep -> Provider] /\ registered' \in SUBSET Dep
                    /\ value' \in [Dep -> Instance] /\ built' \in [Dep -> Nat]
                    /\ Constants' /\ Numbered' /\ Complete'
  OBVIOUS
<1> USE DEF CInv
<1>1. provider' = provider /\ provider \in [Dep -> Provider] /\ registered \subseteq registered'
  BY DEF TypeOK, Next, Register, Ask, Resolve, NextParam, Build, ProviderRaises, vars
<1>2. registered' \in SUBSET Dep
  BY DEF TypeOK, Next, Register, Ask, Resolve, NextParam, Build, ProviderRaises, vars
<1>3. /\ value \in [Dep -> Instance] /\ built \in [Dep -> Nat]
      /\ \A d \in Dep : value[d].no \in Nat /\ value[d].no <= built[d]
  BY DEF TypeOK, Numbered, Instance
\* The instances that stay remain complete.
<1>4. ASSUME NEW d \in Dep, Cached(d), value'[d] = value[d]
      PROVE  /\ Len(value'[d].args) = IF provider[d].kind = "value" THEN 0
                                       ELSE Len(provider[d].params)
             /\ Backed(d, value[d].args, Supply)'
  <2>1. \A spec : Candidates(spec) \subseteq Candidates(spec)'
    BY <1>1 DEF Candidates, Typed
  <2>2. Supply \subseteq Supply'
    BY SupplyGrows
  <2>3. Backed(d, value[d].args, Supply)
    BY <1>4 DEF Complete
  <2> HIDE DEF CInv
  <2>4. Backed(d, value[d].args, Supply)'
    <3>1. PICK S : S = Supply
      OBVIOUS
    <3>2. PICK T : T = Supply'
      OBVIOUS
    <3>3. Backed(d, value[d].args, T)'
      BY <1>1, <1>4, <2>1, <2>2, <2>3, <3>1, <3>2 DEF Backed
    <3> QED
      BY <3>2, <3>3 DEF Backed
  <2> QED
    BY <1>4, <2>4 DEF CInv, Complete
<1>5. CASE UNCHANGED <<registered, value, built>>
  <2>1. Constants' /\ Numbered'
    BY <1>1, <1>5 DEF Constants, Numbered, Cached
  <2>2. Complete'
    BY <1>1, <1>4, <1>5 DEF Complete, Cached
  <2> QED
    BY <1>1, <1>2, <1>3, <1>5, <2>1, <2>2
<1>6. ASSUME NEW c \in Caller, Build(c)
      PROVE  /\ value' \in [Dep -> Instance] /\ built' \in [Dep -> Nat]
             /\ Constants' /\ Numbered' /\ Complete'
  <2>1. PICK d \in registered :
            \E args \in Seq(Nat) :
               /\ built' = [built EXCEPT ![d] = @ + 1]
               /\ value' = [value EXCEPT ![d] = [no |-> built[d] + 1, args |-> args]]
               /\ provider[d].kind # "value"
               /\ Len(args) = Len(provider[d].params)
               /\ Backed(d, args, Supply)
    BY <1>6, BuildCaches
  <2>2. PICK args \in Seq(Nat) :
               /\ built' = [built EXCEPT ![d] = @ + 1]
               /\ value' = [value EXCEPT ![d] = [no |-> built[d] + 1, args |-> args]]
               /\ provider[d].kind # "value"
               /\ Len(args) = Len(provider[d].params)
               /\ Backed(d, args, Supply)
    BY <2>1
  <2>3. d \in Dep /\ registered' = registered
    BY <1>6 DEF TypeOK, Build
  <2>4. /\ built'[d] = built[d] + 1 /\ built[d] + 1 \in Nat \ {0}
        /\ value'[d].no = built[d] + 1 /\ value'[d].args = args
        /\ \A e \in Dep : e # d => value'[e] = value[e] /\ built'[e] = built[e]
    BY <1>3, <2>2, <2>3
  <2>5. [no |-> built[d] + 1, args |-> args] \in Instance
    BY <2>4 DEF Instance
  <2>6. value' \in [Dep -> Instance] /\ built' \in [Dep -> Nat]
    BY <1>3, <2>2, <2>3, <2>4, <2>5
  <2>7. Constants'
    BY <1>1, <2>1, <2>3, <2>4 DEF Constants, Cached
  <2>8. Numbered'
    BY <1>3, <2>3, <2>4 DEF Numbered
  <2>9. Backed(d, value[d].args, Supply)'
    <3>1. \A spec : Candidates(spec)' = Candidates(spec)
      BY <1>1, <2>3 DEF Candidates, Typed
    <3>2. Supply \subseteq Supply'
      BY SupplyGrows
    <3>3. PICK T : T = Supply'
      OBVIOUS
    <3> HIDE DEF CInv
    <3>4. Backed(d, args, T)'
      BY <1>1, <2>2, <3>1, <3>2, <3>3 DEF Backed
    <3> QED
      BY <2>4, <3>3, <3>4 DEF Backed
  <2>10. Complete'
    <3> SUFFICES ASSUME NEW e \in Dep, Cached(e)'
                 PROVE  /\ Len(value'[e].args) = IF provider'[e].kind = "value" THEN 0
                                                  ELSE Len(provider'[e].params)
                        /\ Backed(e, value[e].args, Supply)'
      BY DEF Complete
    <3>1. CASE e = d
      BY <1>1, <2>2, <2>4, <2>9, <3>1
    <3>2. CASE e # d
      BY <1>1, <1>4, <2>4, <3>2 DEF Cached
    <3> QED
      BY <3>1, <3>2
  <2> QED
    BY <2>6, <2>7, <2>8, <2>10
<1>7. ASSUME NEW d \in Dep, Register(d)
      PROVE  /\ value' \in [Dep -> Instance] /\ built' \in [Dep -> Nat]
             /\ Constants' /\ Numbered' /\ Complete'
  <2>1. registered' = registered \cup {d} /\ ~Cached(d)
    BY <1>7 DEF Register, Constants
  <2>2. \A e \in Dep : e # d => value'[e] = value[e] /\ built'[e] = built[e]
    BY <1>3, <1>7 DEF Register
  <2>3. \/ /\ provider[d].kind = "value" /\ built'[d] = 1
           /\ value'[d].no = 1 /\ value'[d].args = <<>>
        \/ /\ provider[d].kind # "value" /\ built'[d] = built[d] /\ value'[d] = value[d]
    BY <1>3, <1>7 DEF Register
  <2>4. [no |-> 1, args |-> <<>>] \in Instance
    BY DEF Instance
  <2>5. value' \in [Dep -> Instance] /\ built' \in [Dep -> Nat]
    BY <1>3, <1>7, <2>4 DEF Register
  <2>6. Constants'
    <3>1. \A e \in registered' : provider[e].kind = "value" => value'[e].no # 0
      BY <1>2, <2>1, <2>2, <2>3 DEF Constants, Cached
    <3>2. \A e \in Dep : value'[e].no # 0 => e \in registered'
      BY <1>2, <2>1, <2>2, <2>3 DEF Constants, Cached
    <3> QED
      BY <1>1, <3>1, <3>2 DEF Constants, Cached
  <2>7. Numbered'
    BY <1>3, <2>2, <2>3 DEF Numbered
  <2>8. Complete'
    <3> SUFFICES ASSUME NEW e \in Dep, Cached(e)'
                 PROVE  /\ Len(value'[e].args) = IF provider'[e].kind = "value" THEN 0
                                                  ELSE Len(provider'[e].params)
                        /\ Backed(e, value[e].args, Supply)'
      BY DEF Complete
    <3>1. CASE e = d
      <4>1. provider[d].kind = "value" /\ value'[d].args = <<>>
        BY <2>1, <2>3, <3>1 DEF Cached
      <4> QED
        BY <1>1, <3>1, <4>1 DEF Backed
    <3>2. CASE e # d
      BY <1>1, <1>4, <2>2, <3>2 DEF Cached
    <3> QED
      BY <3>1, <3>2
  <2> QED
    BY <2>5, <2>6, <2>7, <2>8
<1> HIDE DEF CInv
<1> QED
  BY <1>1, <1>2, <1>3, <1>5, <1>6, <1>7
     DEF Next, Ask, Resolve, NextParam, ProviderRaises, vars

LEMMA CInvNext == CInv /\ [Next]_vars => CInv'
<1> SUFFICES ASSUME CInv, [Next]_vars
             PROVE  CInv'
  OBVIOUS
<1>1. /\ provider' \in [Dep -> Provider] /\ registered' \in SUBSET Dep
      /\ value' \in [Dep -> Instance] /\ built' \in [Dep -> Nat]
      /\ Constants' /\ Numbered' /\ Complete'
  BY ValuesNext
<1>2. call' \in [Caller -> Call] /\ Stacks'
  BY StacksNext
<1> QED
  BY <1>1, <1>2 DEF CInv, TypeOK, Call, CallRecord

LEMMA CInvInit == Init => CInv
<1> SUFFICES ASSUME Init
             PROVE  CInv
  OBVIOUS
<1>1. /\ provider \in [Dep -> Provider] /\ registered = {}
      /\ \A d \in Dep : value[d] = Empty /\ built[d] = 0
  BY DEF Init
<1>2. Empty \in Instance /\ \A d \in Dep : ~Cached(d)
  BY <1>1 DEF Empty, Instance, Cached
<1>3. \A c \in Caller : call[c] \in Call /\ call[c].stack = <<>>
  <2>1. <<>> \in Seq(Frame) /\ {} \in SUBSET Dep /\ "none" \in Result
    BY DEF Result
  <2> DEFINE New == [mode : Mode, stack : {<<>>}, path : {{}}, asked : {{}},
                     result : {"none"}]
  <2>2. ASSUME NEW x \in New
        PROVE  x \in Call /\ x.stack = <<>>
    <3>1. /\ x.stack = <<>> /\ x.path = {} /\ x \in CallRecord
      BY <2>1 DEF CallRecord
    <3>2. Path(x.stack) = {}
      BY <3>1 DEF Path
    <3> QED
      BY <3>1, <3>2 DEF Call
  <2> QED
    BY <2>2 DEF Init
<1>4. TypeOK
  BY <1>1, <1>2, <1>3 DEF Init, TypeOK, Call, CallRecord
<1>5. Stacks
  BY <1>3 DEF Stacks, Call, Good, Simple, Sound, Chained
<1>6. Constants /\ Numbered /\ Complete
  BY <1>1, <1>2 DEF Constants, Numbered, Complete, Empty
<1> QED
  BY <1>4, <1>5, <1>6 DEF CInv

-----------------------------------------------------------------------------
(* What a resolution has found so far                                       *)

\* The keys that can be had at once.
Ready == {d \in Dep : Cached(d)}

\* A parameter that gets its default or a key of K, and a provider all of whose
\* parameters do.
Settled(spec, K) ==
    LET target == ProviderTarget(spec)
    IN  target.is = "skipped" \/ (target.is = "found" /\ target.dep \in K)
Whole(d, K) == \A k \in DOMAIN provider[d].params : Settled(provider[d].params[k], K)
Fit(d, mode) == mode = "sync" => provider[d].kind # "async"

\* The frames lead from the key that was asked for to the one that is resolved;
\* what they have passed is settled, and if another caller has cached one of
\* them in the meantime, then with all that it needs.
JudgedFrame(f, mode, K) ==
    /\ f.dep \in K => Whole(f.dep, K)
    /\ \A k \in DOMAIN f.args : Settled(provider[f.dep].params[k], K)
    /\ Fit(f.dep, mode)
Linked(s) ==
    \A i \in DOMAIN s : i + 1 \in DOMAIN s =>
        Room(s[i]) /\ ProviderTarget(NextSpec(s[i])) = Found(s[i + 1].dep)
Judged(x, K) ==
    /\ x.stack # <<>> => x.asked = {x.stack[1].dep}
    /\ \A i \in DOMAIN x.stack : JudgedFrame(x.stack[i], x.mode, K)
    /\ Linked(x.stack)
Judging == \A c \in Caller : Judged(call[c], Ready)

LEMMA SettledStays ==
    ASSUME NEW K, NEW T, K \subseteq T, NEW spec, Settled(spec, K)
    PROVE  Settled(spec, T)
BY DEF Settled

LEMMA JudgedStays ==
    ASSUME NEW K, NEW T, K \subseteq T, \A d \in T \ K : Whole(d, T),
           NEW x, Judged(x, K)
    PROVE  Judged(x, T)
<1>1. ASSUME NEW i \in DOMAIN x.stack
      PROVE  JudgedFrame(x.stack[i], x.mode, T)
  <2>1. JudgedFrame(x.stack[i], x.mode, K)
    BY DEF Judged
  <2>2. \A spec : Settled(spec, K) => Settled(spec, T)
    BY SettledStays
  <2> QED
    BY <2>1, <2>2 DEF JudgedFrame, Whole
<1> QED
  BY <1>1 DEF Judged

LEMMA JudgedEmpty ==
    ASSUME NEW K, NEW x, x.stack = <<>>
    PROVE  Judged(x, K)
BY DEF Judged, Linked

LEMMA JudgedAnswer ==
    ASSUME NEW K, NEW x \in Call, Judged(x, K), NEW no \in Nat,
           x.stack # <<>> => /\ Room(Top(x.stack))
                             /\ Settled(NextSpec(Top(x.stack)), K)
    PROVE  Judged(Answer(x, no), K)
<1>1. CASE x.stack = <<>>
  <2>1. Answer(x, no).stack = <<>>
    BY <1>1 DEF Answer, Call, CallRecord
  <2> QED
    BY <2>1, JudgedEmpty
<1>2. CASE x.stack # <<>>
  <2> DEFINE s == x.stack
             n == Len(s)
  <2>1. PICK y : y = Answer(x, no)
    OBVIOUS
  <2>2. /\ y.mode = x.mode /\ y.asked = x.asked /\ y.stack \in Seq(Frame)
        /\ DOMAIN y.stack = DOMAIN s
        /\ \A i \in DOMAIN s : y.stack[i].dep = s[i].dep
        /\ \A i \in DOMAIN s : i # n => y.stack[i] = s[i]
        /\ y.stack[n].args = Append(s[n].args, no)
    BY <1>2, <2>1, AnswerFrames
  <2>3. /\ n \in Nat \ {0} /\ DOMAIN s = 1 .. n /\ s[n].args \in Seq(Nat) /\ Top(s) = s[n]
    <3>1. s \in Seq(Frame)
      BY DEF Call, CallRecord
    <3> HIDE DEF s
    <3>2. n \in Nat \ {0} /\ DOMAIN s = 1 .. n /\ s[n] \in Frame
      BY <1>2, <3>1 DEF s
    <3> QED
      BY <3>2 DEF Frame, Top
  <2>4. JudgedFrame(s[n], x.mode, K) /\ Settled(NextSpec(s[n]), K)
    BY <1>2, <2>3 DEF Judged
  <2>5. JudgedFrame(y.stack[n], y.mode, K)
    <3>1. PICK old \in Seq(Nat) : old = s[n].args
      BY <2>3
    <3>2. DOMAIN Append(old, no) = DOMAIN old \cup {Len(old) + 1}
      BY AppendProperties
    <3>3. y.stack[n].args = Append(old, no) /\ y.stack[n].dep = s[n].dep
      BY <2>2, <2>3, <3>1
    <3>4. \A k \in DOMAIN old : Settled(provider[s[n].dep].params[k], K)
      BY <2>4, <3>1 DEF JudgedFrame
    <3>5. Settled(provider[s[n].dep].params[Len(old) + 1], K)
      BY <2>4, <3>1 DEF NextSpec
    <3> QED
      BY <2>2, <2>4, <3>2, <3>3, <3>4, <3>5 DEF JudgedFrame
  <2>6. \A i \in DOMAIN y.stack : JudgedFrame(y.stack[i], y.mode, K)
    BY <2>2, <2>5 DEF Judged
  <2>7. Linked(y.stack)
    <3> SUFFICES ASSUME NEW i \in DOMAIN s, i + 1 \in DOMAIN s
                 PROVE  /\ Room(y.stack[i])
                        /\ ProviderTarget(NextSpec(y.stack[i])) = Found(y.stack[i + 1].dep)
      BY <2>2 DEF Linked
    <3>1. i # n
      BY <2>3
    <3> QED
      BY <2>2, <3>1 DEF Judged, Linked
  <2>8. 1 \in DOMAIN s /\ y.asked = {y.stack[1].dep}
    <3>1. 1 \in DOMAIN s
      BY <2>3
    <3> QED
      BY <1>2, <2>2, <3>1 DEF Judged
  <2> QED
    BY <2>1, <2>6, <2>7, <2>8 DEF Judged
<1> QED
  BY <1>1, <1>2

LEMMA JudgedPush ==
    ASSUME NEW K, NEW x \in Call, Judged(x, K), NEW d \in Dep, d \notin K, Fit(d, x.mode),
           x.stack = <<>> => x.asked = {d},
           x.stack # <<>> => /\ Room(Top(x.stack))
                             /\ ProviderTarget(NextSpec(Top(x.stack))) = Found(d)
    PROVE  Judged(Push(x, d), K)
<1> DEFINE s == x.stack
           n == Len(s)
<1>1. PICK f : f = [dep |-> d, args |-> <<>>]
  OBVIOUS
<1>2. PICK y : y = Push(x, d)
  OBVIOUS
<1>3. s \in Seq(Frame) /\ n \in Nat /\ DOMAIN s = 1 .. n /\ f \in Frame
  BY <1>1 DEF Call, CallRecord, Frame
<1>4. y.stack = Append(s, f) /\ y.mode = x.mode /\ y.asked = x.asked
  BY <1>1, <1>2, PushFields DEF Call
<1>5. /\ DOMAIN y.stack = 1 .. (n + 1)
      /\ \A i \in DOMAIN s : y.stack[i] = s[i]
      /\ y.stack[n + 1] = f
  BY <1>3, <1>4
<1>6. JudgedFrame(f, x.mode, K)
  BY <1>1 DEF JudgedFrame
<1>7. \A i \in DOMAIN y.stack : JudgedFrame(y.stack[i], y.mode, K)
  <2>1. \A i \in DOMAIN y.stack : i \in DOMAIN s \/ i = n + 1
    BY <1>3, <1>5
  <2> QED
    BY <1>4, <1>5, <1>6, <2>1 DEF Judged
<1>8. Linked(y.stack)
  <2> SUFFICES ASSUME NEW i \in DOMAIN y.stack, i + 1 \in DOMAIN y.stack
               PROVE  /\ Room(y.stack[i])
                      /\ ProviderTarget(NextSpec(y.stack[i])) = Found(y.stack[i + 1].dep)
    BY DEF Linked
  <2>1. CASE i + 1 \in DOMAIN s
    <3>1. i \in DOMAIN s
      BY <1>3, <1>5, <2>1
    <3> QED
      BY <1>5, <2>1, <3>1 DEF Judged, Linked
  <2>2. CASE i + 1 \notin DOMAIN s
    <3>1. i = n /\ n # 0
      BY <1>3, <1>5, <2>2
    <3>2. s # <<>> /\ Top(s) = s[n] /\ n \in DOMAIN s
      BY <1>3, <3>1 DEF Top
    <3> QED
      BY <1>1, <1>5, <3>1, <3>2
  <2> QED
    BY <2>1, <2>2
<1>9. y.asked = {y.stack[1].dep}
  <2>1. CASE s = <<>>
    BY <1>1, <1>4, <1>5, <2>1
  <2>2. CASE s # <<>>
    <3>1. 1 \in DOMAIN s
      BY <1>3, <2>2
    <3> QED
      BY <1>4, <1>5, <2>2, <3>1 DEF Judged
  <2> QED
    BY <2>1, <2>2
<1> QED
  BY <1>2, <1>7, <1>8, <1>9 DEF Judged

LEMMA FailedStack ==
    ASSUME NEW x \in Call, NEW what
    PROVE  /\ Fail(x, what).stack = <<>> /\ Fail(x, what).result = what
           /\ Fail(x, what).asked = x.asked /\ Fail(x, what).mode = x.mode
BY DEF Fail, Call, CallRecord

LEMMA JudgedVisit ==
    ASSUME TypeOK, NEW x \in Call, Judged(x, Ready), NEW d \in Dep,
           x.stack = <<>> => x.asked = {d},
           x.stack # <<>> => /\ Room(Top(x.stack))
                             /\ ProviderTarget(NextSpec(Top(x.stack))) = Found(d)
    PROVE  Judged(Visit(x, d), Ready)
<1>1. CASE Cached(d)
  <2>1. value[d].no \in Nat /\ d \in Ready
    BY <1>1 DEF TypeOK, Instance, Ready
  <2>2. x.stack # <<>> => Settled(NextSpec(Top(x.stack)), Ready)
    BY <2>1 DEF Settled, Found
  <2>3. Visit(x, d) = Answer(x, value[d].no)
    BY <1>1 DEF Visit
  <2> QED
    BY <2>1, <2>2, <2>3, JudgedAnswer
<1>2. CASE ~Cached(d)
  <2>1. \/ Visit(x, d) = Fail(x, "circular")
        \/ Visit(x, d) = Fail(x, "async")
        \/ Visit(x, d) = Push(x, d) /\ Fit(d, x.mode)
    BY <1>2 DEF Visit, Fit
  <2>2. d \notin Ready
    BY <1>2 DEF Ready
  <2>3. CASE Visit(x, d) = Push(x, d) /\ Fit(d, x.mode)
    BY <2>2, <2>3, JudgedPush
  <2> QED
    BY <2>1, <2>3, FailedStack, JudgedEmpty
<1> QED
  BY <1>1, <1>2

\* A lookup that succeeds is no more than the key it found.
LEMMA TargetIsFound ==
    ASSUME NEW spec \in ParamSpec
    PROVE  /\ ProviderTarget(spec).is = "found" =>
                  ProviderTarget(spec) = Found(ProviderTarget(spec).dep)
           /\ ConsumerTarget(spec).is = "found" =>
                  ConsumerTarget(spec) = Found(ConsumerTarget(spec).dep)
<1>1. ASSUME NEW t
      PROVE  ByType(t).is = "found" => ByType(t) = Found(ByType(t).dep)
  BY DEF ByType, Found, Error
<1>2. ASSUME NEW k
      PROVE  ByKey(k).is = "found" => ByKey(k) = Found(ByKey(k).dep)
  BY DEF ByKey, Found, Error
<1>3. \/ ProviderTarget(spec) = ByKey(spec.key) \/ ProviderTarget(spec) = ByType(spec.type)
      \/ ProviderTarget(spec) = Skipped \/ ProviderTarget(spec) = Error("missing")
  BY DEF ProviderTarget, Marked
<1>4. \/ ConsumerTarget(spec) = ByKey(spec.key) \/ ConsumerTarget(spec) = ByType(spec.type)
      \/ ConsumerTarget(spec) = Skipped
  BY DEF ConsumerTarget, Marked
<1>5. Skipped.is # "found" /\ Error("missing").is # "found"
  BY DEF Skipped, Error
<1> QED
  BY <1>1, <1>2, <1>3, <1>4, <1>5

\* The frame that waits for the one on top.
LEMMA JudgedPop ==
    ASSUME NEW K, NEW x \in Call, x.stack # <<>>, Simple(x.stack), Judged(x, K),
           NEW y, y = Return(x)
    PROVE  /\ y \in Call /\ Judged(y, K)
           /\ y.stack # <<>> =>
                 /\ Room(Top(y.stack))
                 /\ ProviderTarget(NextSpec(Top(y.stack))) = Found(Top(x.stack).dep)
<1> DEFINE s == x.stack
           n == Len(s)
<1>1. s \in Seq(Frame) /\ n \in Nat \ {0} /\ DOMAIN s = 1 .. n /\ Top(s) = s[n]
  BY DEF Call, CallRecord, Top
<1>2. /\ Pop(s) \in Seq(Frame) /\ Len(Pop(s)) = n - 1 /\ DOMAIN Pop(s) = 1 .. (n - 1)
      /\ \A i \in 1 .. (n - 1) : Pop(s)[i] = s[i]
  <2> HIDE DEF s
  <2> QED
    BY <1>1 DEF Pop
<1>3. y \in Call /\ y.stack = Pop(s) /\ y.asked = x.asked /\ y.mode = x.mode
  BY Returned, ReturnFields DEF Call
<1>4. \A i \in DOMAIN y.stack : i \in DOMAIN s /\ y.stack[i] = s[i]
  BY <1>1, <1>2, <1>3
<1>5. \A i \in DOMAIN y.stack : JudgedFrame(y.stack[i], y.mode, K)
  BY <1>3, <1>4 DEF Judged
<1>6. Linked(y.stack)
  BY <1>4 DEF Judged, Linked
<1>7. y.stack # <<>> => y.asked = {y.stack[1].dep}
  <2>1. y.stack # <<>> => 1 \in DOMAIN y.stack
    BY <1>1, <1>2, <1>3
  <2> QED
    BY <1>3, <1>4, <2>1 DEF Judged
<1>8. ASSUME y.stack # <<>>
      PROVE  /\ Room(Top(y.stack))
             /\ ProviderTarget(NextSpec(Top(y.stack))) = Found(Top(x.stack).dep)
  <2>1. n - 1 \in DOMAIN s /\ n - 1 + 1 = n /\ n \in DOMAIN s /\ Top(y.stack) = s[n - 1]
    BY <1>1, <1>2, <1>3, <1>8 DEF Top
  <2> QED
    BY <1>1, <2>1 DEF Judged, Linked
<1> QED
  BY <1>3, <1>5, <1>6, <1>7, <1>8 DEF Judged

\* The provider on top of a stack, and its next parameter.
LEMMA TopOf ==
    ASSUME CInv, NEW c \in Caller, Busy(c)
    PROVE  /\ call[c] \in Call /\ Top(call[c].stack) \in Frame
           /\ provider[Top(call[c].stack).dep].params \in Seq(ParamSpec)
           /\ NextParam(c) => /\ Room(Top(call[c].stack))
                              /\ NextSpec(Top(call[c].stack)) \in ParamSpec
<1> DEFINE f == Top(call[c].stack)
<1>1. call[c] \in Call /\ f \in Frame
  BY DEF CInv, TypeOK, Stacks, Call, CallRecord, Top, Busy
<1>2. provider[f.dep].params \in Seq(ParamSpec) /\ f.args \in Seq(Nat)
  BY <1>1 DEF CInv, TypeOK, Frame, Provider
<1>3. ASSUME NextParam(c)
      PROVE  Room(f) /\ NextSpec(f) \in ParamSpec
  <2>1. Len(f.args) < Len(provider[f.dep].params)
    BY <1>3 DEF NextParam, Args, Params
  <2> HIDE DEF f
  <2>2. Len(f.args) + 1 \in 1 .. Len(provider[f.dep].params)
    BY <1>2, <2>1, LenProperties
  <2> QED
    BY <1>2, <2>1, <2>2, ElementOfSeq DEF Room, NextSpec
<1> QED
  BY <1>1, <1>2, <1>3

\* What Ask begins with, and what it makes of it.
Begun(x, c, target, mode) ==
    /\ x.stack = <<>> /\ x.mode = mode
    /\ x.asked = IF target.is = "found" THEN {target.dep} ELSE {}
    /\ target.is = "found" => target.dep \in registered
    /\ \/ call' = [call EXCEPT ![c] = Fail(x, "skipped")]
       \/ /\ target.is = "found"
          /\ call' = [call EXCEPT ![c] = Visit(x, target.dep)]
       \/ /\ target.is # "found"
          /\ \E what : call' = [call EXCEPT ![c] = Fail(x, what)]

LEMMA Asking ==
    ASSUME CInv, NEW c \in Caller, NEW spec \in Consumer, NEW mode \in Mode,
           Ask(c, spec, mode)
    PROVE  \E x \in Call : Begun(x, c, ConsumerTarget(spec), mode)
<1> DEFINE target == ConsumerTarget(spec)
<1>1. PICK x : x = [mode |-> mode, stack |-> <<>>, path |-> {},
                    asked |-> Asked(target), result |-> "none"]
  OBVIOUS
<1>2. /\ target.is \in {"found", "skipped", "missing", "ambiguous"}
      /\ target.is = "found" => target.dep \in registered
  BY ConsumerSpec, ConsumerTargets
<1>3. Asked(target) \subseteq Dep
  BY <1>2 DEF Asked, CInv, TypeOK
<1>4. x \in Call
  <2>1. <<>> \in Seq(Frame) /\ "none" \in Result
    BY DEF Result
  <2> QED
    BY <1>1, <1>3, <2>1 DEF Call, CallRecord, Path
<1>5. call' = [call EXCEPT ![c] = IF target = Skipped THEN Fail(x, "skipped")
                                  ELSE Follow(x, target)]
  BY <1>1 DEF Ask
<1>6. /\ x.stack = <<>> /\ x.mode = mode
      /\ x.asked = IF target.is = "found" THEN {target.dep} ELSE {}
  BY <1>1 DEF Asked
<1>7. target.is = "skipped" => target = Skipped
  BY DEF ConsumerTarget, Marked, ByKey, ByType, Skipped, Found, Error
<1> HIDE DEF target
<1>8. \/ call' = [call EXCEPT ![c] = Fail(x, "skipped")]
      \/ /\ target.is = "found"
         /\ call' = [call EXCEPT ![c] = Visit(x, target.dep)]
      \/ /\ target.is # "found"
         /\ call' = [call EXCEPT ![c] = Fail(x, target.is)]
  <2>1. CASE target = Skipped
    BY <1>5, <2>1
  <2>2. CASE target # Skipped /\ target.is = "found"
    BY <1>5, <2>2 DEF Follow
  <2>3. CASE target # Skipped /\ target.is # "found"
    <3>1. Follow(x, target) = Fail(x, target.is)
      BY <1>2, <1>7, <2>3 DEF Follow
    <3> QED
      BY <1>5, <2>3, <3>1
  <2> QED
    BY <2>1, <2>2, <2>3
<1>9. Begun(x, c, target, mode)
  BY <1>2, <1>6, <1>8 DEF Begun
<1> QED
  BY <1>4, <1>9 DEF target

LEMMA AskJudged ==
    ASSUME CInv, NEW c \in Caller, NEW spec \in Consumer, NEW mode \in Mode,
           Ask(c, spec, mode)
    PROVE  \E x : call' = [call EXCEPT ![c] = x] /\ Judged(x, Ready)
<1> DEFINE target == ConsumerTarget(spec)
<1>a. PICK x \in Call : Begun(x, c, target, mode)
  BY Asking
<1> HIDE DEF target
<1>1. /\ x.stack = <<>> /\ x.mode = mode
      /\ x.asked = IF target.is = "found" THEN {target.dep} ELSE {}
      /\ target.is = "found" => target.dep \in registered
      /\ \/ call' = [call EXCEPT ![c] = Fail(x, "skipped")]
         \/ /\ target.is = "found"
            /\ call' = [call EXCEPT ![c] = Visit(x, target.dep)]
         \/ /\ target.is # "found"
            /\ \E what : call' = [call EXCEPT ![c] = Fail(x, what)]
  BY <1>a DEF Begun
<1>2. Judged(x, Ready)
  BY <1>1, JudgedEmpty
<1>3. \A what : Judged(Fail(x, what), Ready)
  BY FailedStack, JudgedEmpty
<1>4. target.is = "found" => Judged(Visit(x, target.dep), Ready)
  <2>1. TypeOK /\ registered \subseteq Dep
    BY DEF CInv, TypeOK
  <2> QED
    BY <1>1, <1>2, <2>1, JudgedVisit
<1> QED
  BY <1>1, <1>3, <1>4

LEMMA NextParamJudged ==
    ASSUME CInv, Judging, NEW c \in Caller, NextParam(c)
    PROVE  \E x : call' = [call EXCEPT ![c] = x] /\ Judged(x, Ready)
<1> DEFINE f == Top(call[c].stack)
           target == ProviderTarget(NextSpec(f))
<1>1. PICK x \in Call : x = call[c] /\ x.stack # <<>> /\ Judged(x, Ready)
  BY TopOf DEF NextParam, Busy, Judging
<1>2. Room(f) /\ NextSpec(f) \in ParamSpec
  BY TopOf DEF NextParam
<1>3. /\ target.is \in {"found", "skipped", "missing", "ambiguous"}
      /\ target.is = "found" => target.dep \in registered /\ target = Found(target.dep)
  BY <1>2, ProviderTargets, TargetIsFound
<1>4. call' = [call EXCEPT ![c] = Follow(x, target)]
  BY <1>1 DEF NextParam, Args, Params, NextSpec
<1>5. Judged(Follow(x, target), Ready)
  <2>1. CASE target.is = "found"
    <3>1. Follow(x, target) = Visit(x, target.dep)
      BY <2>1 DEF Follow
    <3>2. target.dep \in Dep /\ TypeOK
      BY <1>3, <2>1 DEF CInv, TypeOK
    <3>3. /\ Room(Top(x.stack))
          /\ ProviderTarget(NextSpec(Top(x.stack))) = Found(target.dep)
      BY <1>1, <1>2, <1>3, <2>1
    <3> HIDE DEF target
    <3>4. Judged(Visit(x, target.dep), Ready)
      BY <1>1, <3>2, <3>3, JudgedVisit
    <3> QED
      BY <3>1, <3>4
  <2>2. CASE target.is = "skipped"
    <3>1. Follow(x, target) = Answer(x, 0)
      BY <2>2 DEF Follow
    <3>2. Room(Top(x.stack)) /\ Settled(NextSpec(Top(x.stack)), Ready)
      BY <1>1, <1>2, <2>2 DEF Settled
    <3> QED
      BY <1>1, <3>1, <3>2, JudgedAnswer
  <2>3. CASE target.is \in {"missing", "ambiguous"}
    <3>1. Follow(x, target) = Fail(x, target.is)
      BY <2>3 DEF Follow
    <3> QED
      BY <3>1, FailedStack, JudgedEmpty
  <2> QED
    BY <1>3, <2>1, <2>2, <2>3
<1> QED
  BY <1>4, <1>5

LEMMA SameRegistry ==
    ASSUME UNCHANGED <<provider, registered>>, NEW x, NEW K, Judged(x, K)
    PROVE  Judged(x, K)'
<1>1. \A t : Typed(t)' = Typed(t)
  BY DEF Typed
<1>2. \A spec : ProviderTarget(spec)' = ProviderTarget(spec)
  <2>1. \A t : ByType(t)' = ByType(t)
    <3> SUFFICES ASSUME NEW t
                 PROVE  ByType(t)' = ByType(t)
      OBVIOUS
    <3>1. PICK ds : ds = Typed(t) /\ ds = Typed(t)'
      BY <1>1
    <3> QED
      BY <3>1 DEF ByType, Found, Error
  <2>2. \A k : ByKey(k)' = ByKey(k)
    BY DEF ByKey, Found, Error
  <2>3. \A spec : Marked(spec)' = Marked(spec)
    BY <2>1, <2>2 DEF Marked
  <2> QED
    BY <1>1, <2>1, <2>3 DEF ProviderTarget, Skipped, Error
<1>3. \A spec : Settled(spec, K)' <=> Settled(spec, K)
  BY <1>2 DEF Settled
<1>4. \A d : Whole(d, K)' <=> Whole(d, K)
  BY <1>3 DEF Whole
<1>5. \A f : JudgedFrame(f, x.mode, K)' <=> JudgedFrame(f, x.mode, K)
  BY <1>3, <1>4 DEF JudgedFrame, Fit
<1>6. Linked(x.stack)' <=> Linked(x.stack)
  BY <1>2 DEF Linked, Room, NextSpec
<1> QED
  BY <1>5, <1>6 DEF Judged

\* Build caches a provider all of whose parameters are settled.
LEMMA BuildJudged ==
    ASSUME CInv, Judging, NEW c \in Caller, Build(c), NEW T, T = Ready'
    PROVE  /\ Ready \subseteq T /\ \A d \in T \ Ready : Whole(d, T)
           /\ \E x : call' = [call EXCEPT ![c] = x] /\ Judged(x, T)
<1>1. PICK x \in Call : x = call[c] /\ x.stack # <<>> /\ Judged(x, Ready)
  BY TopOf DEF Build, Busy, Judging
<1>2. PICK f \in Frame : f = Top(x.stack)
  BY <1>1, TopOf DEF Build
<1>3. /\ provider[f.dep].params \in Seq(ParamSpec) /\ f.args \in Seq(Nat)
      /\ Len(f.args) = Len(provider[f.dep].params) /\ f.dep \in Dep
  BY <1>1, <1>2, TopOf DEF Build, Args, Params, Frame
<1>4. JudgedFrame(f, x.mode, Ready)
  <2>1. PICK s \in Seq(Frame) : s = x.stack
    BY DEF Call, CallRecord
  <2>2. Len(s) \in DOMAIN s
    BY <1>1, <2>1
  <2> QED
    BY <1>1, <1>2, <2>1, <2>2 DEF Judged, Top
<1>5. Whole(f.dep, Ready)
  <2>1. DOMAIN f.args = DOMAIN provider[f.dep].params
    BY <1>3, LenProperties
  <2> QED
    BY <1>4, <2>1 DEF Whole, JudgedFrame
<1>6. PICK no \in Nat \ {0} : no = built[f.dep] + 1
  BY <1>3 DEF CInv, TypeOK
<1>7. /\ built' = [built EXCEPT ![f.dep] = no]
      /\ value' = [value EXCEPT ![f.dep] = [no |-> no, args |-> Args(c)]]
      /\ call' = [call EXCEPT ![c] = Answer(Return(x), no)]
  <2>1. /\ built' = [built EXCEPT ![f.dep] = built[f.dep] + 1]
        /\ value' = [value EXCEPT ![f.dep] = [no |-> built'[f.dep], args |-> Args(c)]]
        /\ call' = [call EXCEPT ![c] = Answer(Return(x), built'[f.dep])]
    BY <1>1, <1>2 DEF Build
  <2>2. built'[f.dep] = no
    BY <1>3, <1>6, <2>1 DEF CInv, TypeOK
  <2> QED
    BY <1>6, <2>1, <2>2
<1>8. T = Ready \cup {f.dep}
  <2>1. value'[f.dep].no = no /\ \A d \in Dep : d # f.dep => value'[d] = value[d]
    BY <1>3, <1>7 DEF CInv, TypeOK
  <2>2. \A d \in Dep : d \in T <=> value'[d].no # 0
    BY DEF Ready, Cached
  <2>3. T \subseteq Dep
    BY DEF Ready
  <2> QED
    BY <1>3, <1>6, <2>1, <2>2, <2>3 DEF Ready, Cached
<1>9. Whole(f.dep, T)
  BY <1>5, <1>8, SettledStays DEF Whole
<1>10. PICK y : y = Return(x)
  OBVIOUS
<1>11. /\ y \in Call /\ Judged(y, Ready)
       /\ y.stack # <<>> =>
             /\ Room(Top(y.stack))
             /\ ProviderTarget(NextSpec(Top(y.stack))) = Found(f.dep)
  <2>1. Simple(x.stack)
    BY <1>1 DEF CInv, Stacks, Good
  <2> QED
    BY <1>1, <1>2, <1>10, <2>1, JudgedPop
<1>12. Judged(y, T)
  BY <1>8, <1>9, <1>11, JudgedStays
<1>13. y.stack # <<>> => Settled(NextSpec(Top(y.stack)), T)
  BY <1>8, <1>11 DEF Settled, Found
<1>14. Judged(Answer(y, no), T)
  BY <1>11, <1>12, <1>13, JudgedAnswer
<1> QED
  BY <1>7, <1>8, <1>9, <1>10, <1>14

LEMMA JudgingNext == CInv /\ Judging /\ [Next]_vars => Judging'
<1> SUFFICES ASSUME CInv, Judging, [Next]_vars
             PROVE  Judging'
  OBVIOUS
<1>1. PICK T, t : T = Ready' /\ t = call'
  OBVIOUS
<1>2. call \in [Caller -> Call] /\ \A c \in Caller : Judged(call[c], Ready)
  BY DEF CInv, TypeOK, Stacks, Judging, Call, CallRecord
<1>3. ASSUME UNCHANGED <<provider, registered, value>>,
             \/ UNCHANGED call
             \/ \E c \in Caller : \E x : call' = [call EXCEPT ![c] = x] /\ Judged(x, Ready)
      PROVE  Judging'
  <2>1. T = Ready
    BY <1>1, <1>3 DEF Ready, Cached
  <2>2. \A c \in Caller : Judged(t[c], T)
    BY <1>1, <1>2, <1>3, <2>1
  <2>3. \A c \in Caller : Judged(t[c], T)'
    BY <1>3, <2>2, SameRegistry
  <2> QED
    BY <1>1, <2>3 DEF Judging
<1>4. ASSUME NEW d \in Dep, Register(d)
      PROVE  Judging'
  <2>1. \A c \in Caller : t[c].stack = <<>>
    BY <1>1, <1>4 DEF Register, Busy
  <2>2. \A c \in Caller : Judged(t[c], T)'
    BY <2>1 DEF Judged, Linked
  <2> QED
    BY <1>1, <2>2 DEF Judging
<1>5. ASSUME NEW c \in Caller, Build(c)
      PROVE  Judging'
  <2>1. /\ Ready \subseteq T /\ \A d \in T \ Ready : Whole(d, T)
        /\ \E x : call' = [call EXCEPT ![c] = x] /\ Judged(x, T)
    BY <1>1, <1>5, BuildJudged
  <2>2. PICK x : call' = [call EXCEPT ![c] = x] /\ Judged(x, T)
    BY <2>1
  <2>3. \A k \in Caller : Judged(call[k], T)
    BY <1>2, <2>1, JudgedStays
  <2>4. \A k \in Caller : Judged(t[k], T)
    BY <1>1, <1>2, <2>2, <2>3
  <2>5. \A k \in Caller : Judged(t[k], T)'
    BY <1>5, <2>4, SameRegistry DEF Build
  <2> QED
    BY <1>1, <2>5 DEF Judging
<1>6. ASSUME NEW c \in Caller, NEW spec \in Consumer, NEW mode \in Mode, Ask(c, spec, mode)
      PROVE  Judging'
  <2>1. UNCHANGED <<provider, registered, value>>
    BY <1>6 DEF Ask
  <2> QED
    BY <1>3, <1>6, <2>1, AskJudged
<1>7. ASSUME NEW c \in Caller, NextParam(c)
      PROVE  Judging'
  <2>1. UNCHANGED <<provider, registered, value>>
    BY <1>7 DEF NextParam
  <2> QED
    BY <1>3, <1>7, <2>1, NextParamJudged
<1>8. ASSUME NEW c \in Caller, ProviderRaises(c)
      PROVE  Judging'
  <2>1. /\ UNCHANGED <<provider, registered, value>>
        /\ call' = [call EXCEPT ![c] = Fail(call[c], "raised")]
    BY <1>8 DEF ProviderRaises
  <2>2. Judged(Fail(call[c], "raised"), Ready)
    BY <1>2, FailedStack, JudgedEmpty
  <2> QED
    BY <1>3, <2>1, <2>2
<1>9. CASE UNCHANGED vars
  BY <1>3, <1>9 DEF vars
<1> QED
  BY <1>4, <1>5, <1>6, <1>7, <1>8, <1>9 DEF Next, Resolve

LEMMA JudgingInit == Init => Judging
<1> SUFFICES ASSUME Init, NEW c \in Caller
             PROVE  Judged(call[c], Ready)
  BY DEF Judging
<1>1. call[c].stack = <<>>
  BY DEF Init
<1> QED
  BY <1>1, JudgedEmpty

-----------------------------------------------------------------------------
(* Reachability                                                             *)

LEMMA ReachSteps ==
    ASSUME NEW d \in Dep
    PROVE  /\ d \in Reach(d)
           /\ \A e \in Reach(d) : ~Cached(e) => Needs(e) \subseteq Reach(d)
           /\ \A S \in SUBSET Dep : d \in S /\ Closed(S) => Reach(d) \subseteq S
<1>1. \A e, g : e \in Reach(d) /\ ~Cached(e) /\ g \in Needs(e) => g \in Reach(d)
  BY DEF Reach, Closed, Needs
<1> QED
  BY <1>1 DEF Reach

\* A key that is cached, or that is whole, can be had.
LEMMA ReadyResolves ==
    ASSUME NEW d \in Dep, NEW mode,
           Cached(d) \/ (Whole(d, Ready) /\ Fit(d, mode))
    PROVE  Resolvable(d, mode)
<1>1. CASE Cached(d)
  <2>1. Closed({d})
    BY <1>1 DEF Closed
  <2>2. Fresh(d) = {}
    BY <1>1, <2>1, ReachSteps DEF Fresh
  <2> QED
    BY <2>2 DEF Resolvable, Cyclic
<1>2. CASE ~Cached(d) /\ Whole(d, Ready) /\ Fit(d, mode)
  <2>1. Needs(d) \subseteq Ready
    BY <1>2 DEF Whole, Settled, Needs, Found, Skipped
  <2>2. Closed({d} \cup Needs(d))
    BY <2>1 DEF Closed, Ready
  <2>3. Fresh(d) \subseteq {d}
    <3>1. {d} \cup Needs(d) \in SUBSET Dep
      BY DEF Needs
    <3>2. Reach(d) \subseteq {d} \cup Needs(d)
      BY <2>2, <3>1, ReachSteps
    <3> QED
      BY <2>1, <3>2 DEF Fresh, Ready
  <2>4. Wired(d)
    BY <1>2 DEF Whole, Settled, Wired
  <2>5. ~Cyclic(d)
    BY <1>2, <2>1, <2>3 DEF Cyclic, Ready
  <2> QED
    BY <1>2, <2>3, <2>4, <2>5 DEF Resolvable, Fit
<1> QED
  BY <1>1, <1>2

\* The least of a set of numbers.
LEMMA LeastOf ==
    ASSUME NEW T \in SUBSET Nat, T # {}
    PROVE  \E x \in T : \A y \in T : x <= y
<1>1. IsWellFoundedOn(OpToRel(<, Nat), Nat)
  BY NatLessThanWellFounded
<1>2. PICK x \in T : \A y \in T : ~(<<y, x>> \in OpToRel(<, Nat))
  BY <1>1, WFMin
<1>3. \A y \in T : x <= y
  <2> TAKE y \in T
  <2>1. x \in Nat /\ y \in Nat
    OBVIOUS
  <2>2. ~(<<y, x>> \in OpToRel(<, Nat))
    BY <1>2
  <2>3. ~(y < x)
    BY <2>1, <2>2 DEF OpToRel
  <2> QED
    BY <2>1, <2>3
<1> QED
  BY <1>3

\* What the next parameter of a provider leads to is one of its needs.
LEMMA NeedOf ==
    ASSUME TypeOK, NEW f \in Frame, Room(f), NEW e \in Dep,
           ProviderTarget(NextSpec(f)) = Found(e)
    PROVE  e \in Needs(f.dep) /\ (Whole(f.dep, Ready) => Cached(e))
<1>1. PICK k \in DOMAIN provider[f.dep].params : NextSpec(f) = provider[f.dep].params[k]
  <2>1. provider[f.dep].params \in Seq(ParamSpec) /\ f.args \in Seq(Nat)
    BY DEF TypeOK, Frame, Provider
  <2>2. Len(f.args) + 1 \in DOMAIN provider[f.dep].params
    BY <2>1, LenProperties DEF Room
  <2> QED
    BY <2>2 DEF NextSpec
<1>2. e \in Needs(f.dep)
  BY <1>1 DEF Needs
<1>3. Settled(NextSpec(f), Ready) => Cached(e)
  BY DEF Settled, Found, Ready
<1> QED
  BY <1>1, <1>2, <1>3 DEF Whole

\* As long as the key on top is to be built, so are those that wait for it.
LEMMA StackFresh ==
    ASSUME TypeOK, NEW x \in Call, x.stack # <<>>, Judged(x, Ready),
           ~Cached(Top(x.stack).dep)
    PROVE  \A i \in DOMAIN x.stack :
               /\ x.stack[i].dep \in Fresh(x.stack[1].dep)
               /\ i + 1 \in DOMAIN x.stack => x.stack[i + 1].dep \in Needs(x.stack[i].dep)
<1>1. PICK s \in Seq(Frame), n \in Nat \ {0} : s = x.stack /\ n = Len(s)
  BY DEF Call, CallRecord
<1>2. DOMAIN s = 1 .. n /\ Top(s) = s[n]
      /\ \A i \in 1 .. n : s[i] \in Frame /\ s[i].dep \in Dep
  <2>1. DOMAIN s = 1 .. n /\ \A i \in 1 .. n : s[i] \in Frame
    BY <1>1
  <2>2. Top(s) = s[n]
    BY <1>1 DEF Top
  <2>3. \A g \in Frame : g.dep \in Dep
    BY DEF Frame
  <2> QED
    BY <2>1, <2>2, <2>3
<1>3. \A i \in 1 .. n : /\ s[i].dep \in Ready => Whole(s[i].dep, Ready)
                        /\ i + 1 \in 1 .. n => /\ Room(s[i])
                                               /\ ProviderTarget(NextSpec(s[i])) = Found(s[i + 1].dep)
  BY <1>1, <1>2 DEF Judged, JudgedFrame, Linked
<1>4. ASSUME NEW i \in 1 .. n, i + 1 \in 1 .. n
      PROVE  /\ s[i + 1].dep \in Needs(s[i].dep)
             /\ Cached(s[i].dep) => Cached(s[i + 1].dep)
  <2>1. /\ s[i + 1].dep \in Needs(s[i].dep)
        /\ Whole(s[i].dep, Ready) => Cached(s[i + 1].dep)
    BY <1>2, <1>3, <1>4, NeedOf
  <2> QED
    BY <1>2, <1>3, <2>1 DEF Ready
<1>5. ASSUME NEW i \in 1 .. n, Cached(s[i].dep)
      PROVE  FALSE
  <2> DEFINE T == {m \in Nat : m <= n /\ n - m \in 1 .. n /\ Cached(s[n - m].dep)}
  <2>1. T \in SUBSET Nat /\ n - i \in T
    <3>1. n - i \in Nat /\ n - i <= n /\ n - (n - i) = i
      OBVIOUS
    <3> QED
      BY <1>5, <3>1
  <2>2. PICK m \in T : \A k \in T : m <= k
    BY <2>1, LeastOf
  <2>3. m # 0
    BY <1>1, <1>2, <2>2
  <2>4. m - 1 \in Nat /\ m - 1 <= n /\ n - (m - 1) \in 1 .. n /\ (n - m) + 1 = n - (m - 1)
        /\ ~(m <= m - 1) /\ n - m \in 1 .. n
    BY <2>2, <2>3
  <2>5. Cached(s[n - (m - 1)].dep)
    BY <1>4, <2>2, <2>4
  <2>6. m - 1 \in T
    BY <2>4, <2>5
  <2> QED
    BY <2>2, <2>4, <2>6
<1>6. ASSUME NEW i \in 1 .. n, s[i].dep \notin Reach(s[1].dep)
      PROVE  FALSE
  <2> DEFINE T == {m \in 1 .. n : s[m].dep \notin Reach(s[1].dep)}
  <2>1. T \in SUBSET Nat /\ T # {}
    BY <1>6
  <2>2. PICK m \in T : \A k \in T : m <= k
    BY <2>1, LeastOf
  <2>3. 1 \in 1 .. n /\ s[1].dep \in Dep /\ s[1].dep \in Reach(s[1].dep)
    BY <1>2, ReachSteps
  <2>4. m # 1 /\ m \in 1 .. n /\ s[m].dep \notin Reach(s[1].dep)
    BY <2>2, <2>3
  <2>5. m - 1 \in 1 .. n /\ (m - 1) + 1 = m /\ ~(m <= m - 1)
    BY <2>4
  <2>6. s[m - 1].dep \in Reach(s[1].dep)
    BY <2>2, <2>5
  <2>7. s[m].dep \in Needs(s[m - 1].dep)
    BY <1>4, <2>4, <2>5
  <2> QED
    BY <1>5, <2>3, <2>4, <2>5, <2>6, <2>7, ReachSteps
<1> QED
  BY <1>1, <1>2, <1>4, <1>5, <1>6 DEF Fresh

\* How following a parameter can end the whole resolution.
LEMMA Refused ==
    ASSUME TypeOK, NEW x \in Call, x.stack # <<>>, NEW target,
           target.is \in {"found", "skipped", "missing", "ambiguous"},
           target.is = "found" => target.dep \in Dep,
           Follow(x, target).stack = <<>>
    PROVE  /\ Follow(x, target).asked = x.asked /\ Follow(x, target).mode = x.mode
           /\ \/ /\ target.is \in {"missing", "ambiguous"}
                 /\ Follow(x, target).result = target.is
              \/ /\ target.is = "found" /\ ~Cached(target.dep)
                 /\ \/ /\ Follow(x, target).result = "circular"
                       /\ target.dep \in Path(x.stack)
                    \/ /\ Follow(x, target).result = "async"
                       /\ ~Fit(target.dep, x.mode)
<1>1. ASSUME NEW no \in Nat, Follow(x, target) = Answer(x, no)
      PROVE  FALSE
  <2>1. DOMAIN Answer(x, no).stack = DOMAIN x.stack
    BY AnswerFrames
  <2>2. PICK s \in Seq(Frame) : s = x.stack /\ s # <<>>
    BY DEF Call, CallRecord
  <2>3. 1 \in DOMAIN s
    BY <2>2
  <2> QED
    BY <1>1, <2>1, <2>2, <2>3
<1>2. CASE target.is = "skipped"
  <2>1. Follow(x, target) = Answer(x, 0)
    BY <1>2 DEF Follow
  <2> QED
    BY <1>1, <2>1
<1>3. CASE target.is \in {"missing", "ambiguous"}
  <2>1. Follow(x, target) = Fail(x, target.is)
    BY <1>3 DEF Follow
  <2> QED
    BY <1>3, <2>1, FailedStack
<1>4. CASE target.is = "found"
  <2>1. PICK e \in Dep : e = target.dep
    BY <1>4
  <2>2. Follow(x, target) = Visit(x, e)
    BY <1>4, <2>1 DEF Follow
  <2>3. ~Cached(e)
    <3> SUFFICES ASSUME Cached(e)
                 PROVE  FALSE
      OBVIOUS
    <3>1. value[e].no \in Nat /\ Visit(x, e) = Answer(x, value[e].no)
      BY DEF TypeOK, Instance, Visit
    <3> QED
      BY <1>1, <2>2, <3>1
  <2>4. Visit(x, e) # Push(x, e)
    <3>1. PICK s \in Seq(Frame) : s = x.stack
      BY DEF Call, CallRecord
    <3>2. PICK f : f = [dep |-> e, args |-> <<>>]
      OBVIOUS
    <3>3. Push(x, e).stack = Append(s, f)
      BY <3>1, <3>2, PushFields DEF Call
    <3>4. DOMAIN Append(s, f) # {}
      BY <3>1, AppendProperties
    <3>5. DOMAIN <<>> = {}
      OBVIOUS
    <3> QED
      BY <2>2, <3>3, <3>4, <3>5
  <2>5. \/ Visit(x, e) = Fail(x, "circular") /\ e \in Path(x.stack)
        \/ Visit(x, e) = Fail(x, "async") /\ ~Fit(e, x.mode)
    BY <2>3, <2>4 DEF Visit, Fit, Call
  <2> QED
    BY <1>4, <2>1, <2>2, <2>3, <2>5, FailedStack
<1> QED
  BY <1>2, <1>3, <1>4


\* A resolution that is refused at a parameter: the key it was asked for
\* leads to what the error names.
LEMMA FailsRightly ==
    ASSUME CInv, Judging, NEW c \in Caller, NextParam(c), call'[c].stack = <<>>,
           NEW d \in call'[c].asked
    PROVE  /\ call'[c].result # "ok"
           /\ ~Resolvable(d, call'[c].mode)
           /\ call'[c].result = "circular" => Cyclic(d)
<1>1. PICK x \in Call : x = call[c] /\ x.stack # <<>> /\ Judged(x, Ready)
  BY TopOf DEF NextParam, Busy, Judging
<1>2. PICK f \in Frame : f = Top(x.stack)
  BY <1>1, TopOf DEF NextParam
<1>3. Room(f) /\ NextSpec(f) \in ParamSpec /\ TypeOK
  BY <1>1, <1>2, TopOf DEF NextParam, CInv
<1>4. PICK target : target = ProviderTarget(NextSpec(f))
  OBVIOUS
<1>5. /\ target.is \in {"found", "skipped", "missing", "ambiguous"}
      /\ target.is = "found" => target.dep \in Dep /\ target = Found(target.dep)
  BY <1>3, <1>4, ProviderTargets, TargetIsFound DEF TypeOK
<1>6. call'[c] = Follow(x, target)
  <2>1. call' = [call EXCEPT ![c] = Follow(x, target)]
    BY <1>1, <1>2, <1>4 DEF NextParam, Args, Params, NextSpec
  <2> QED
    BY <1>3, <2>1 DEF TypeOK
<1>7. /\ call'[c].asked = x.asked /\ call'[c].mode = x.mode
      /\ \/ /\ target.is \in {"missing", "ambiguous"}
            /\ call'[c].result = target.is
         \/ /\ target.is = "found" /\ ~Cached(target.dep)
            /\ \/ call'[c].result = "circular" /\ target.dep \in Path(x.stack)
               \/ call'[c].result = "async" /\ ~Fit(target.dep, x.mode)
  BY <1>1, <1>3, <1>5, <1>6, Refused
<1>8. PICK s \in Seq(Frame), n \in Nat \ {0} : s = x.stack /\ n = Len(s)
  BY <1>1 DEF Call, CallRecord
<1>9. DOMAIN s = 1 .. n /\ f = s[n] /\ f.dep \in Dep /\ d = s[1].dep /\ s[1] \in Frame
  <2>1. DOMAIN s = 1 .. n /\ s[1] \in Frame
    BY <1>8
  <2>2. f = s[n]
    BY <1>2, <1>8 DEF Top
  <2>3. f.dep \in Dep
    BY DEF Frame
  <2>4. d = s[1].dep
    BY <1>1, <1>7, <1>8 DEF Judged
  <2> QED
    BY <2>1, <2>2, <2>3, <2>4
<1>10. ~Settled(NextSpec(f), Ready)
  BY <1>4, <1>7 DEF Settled, Ready
<1>11. PICK k \in DOMAIN provider[f.dep].params : NextSpec(f) = provider[f.dep].params[k]
  <2>1. provider[f.dep].params \in Seq(ParamSpec) /\ f.args \in Seq(Nat)
    BY <1>3, <1>9 DEF TypeOK, Frame, Provider
  <2>2. Len(f.args) + 1 \in DOMAIN provider[f.dep].params
    BY <1>3, <2>1, LenProperties DEF Room
  <2> QED
    BY <2>2 DEF NextSpec
<1>12. ~Cached(f.dep)
  <2>1. ~Whole(f.dep, Ready)
    BY <1>10, <1>11 DEF Whole
  <2>2. JudgedFrame(f, x.mode, Ready)
    BY <1>1, <1>8, <1>9 DEF Judged
  <2> QED
    BY <1>9, <2>1, <2>2 DEF JudgedFrame, Ready
<1>13. \A i \in 1 .. n : /\ s[i].dep \in Fresh(d)
                         /\ i + 1 \in 1 .. n => s[i + 1].dep \in Needs(s[i].dep)
  BY <1>1, <1>2, <1>3, <1>8, <1>9, <1>12, StackFresh
<1>14. f.dep \in Fresh(d) /\ d \in Dep
  <2>1. n \in 1 .. n /\ d \in Dep
    BY <1>9 DEF Frame
  <2> QED
    BY <1>9, <1>13, <2>1
<1>15. CASE target.is \in {"missing", "ambiguous"}
  <2>1. ~Wired(f.dep)
    BY <1>4, <1>11, <1>15 DEF Wired
  <2> QED
    BY <1>7, <1>14, <1>15, <2>1 DEF Resolvable
<1>16. CASE target.is = "found"
  <2>1. PICK e \in Dep : e = target.dep /\ ~Cached(e)
    BY <1>5, <1>7, <1>16
  <2>2. e \in Needs(f.dep)
    BY <1>4, <1>5, <1>11, <1>16, <2>1 DEF Needs
  <2>3. e \in Fresh(d)
    BY <1>14, <2>1, <2>2, ReachSteps DEF Fresh
  <2>4. CASE call'[c].result = "async" /\ ~Fit(e, x.mode)
    BY <1>7, <2>3, <2>4 DEF Resolvable, Fit
  <2>5. CASE call'[c].result = "circular" /\ e \in Path(x.stack)
    <3>1. PICK j \in 1 .. n : e = s[j].dep
      BY <1>8, <1>9, <2>5 DEF Path
    <3>2. PICK S : S = {s[i].dep : i \in j .. n}
      OBVIOUS
    <3>3. S \in SUBSET Fresh(d) /\ e \in S
      <4>1. j \in j .. n /\ j .. n \subseteq 1 .. n
        OBVIOUS
      <4> QED
        BY <1>13, <3>1, <3>2, <4>1
    <3>4. \A g \in S : Needs(g) \cap S # {}
      <4> SUFFICES ASSUME NEW i \in j .. n
                   PROVE  Needs(s[i].dep) \cap S # {}
        BY <3>2
      <4>1. CASE i = n
        BY <1>9, <2>2, <3>3, <4>1
      <4>2. CASE i # n
        <5>1. i \in 1 .. n /\ i + 1 \in 1 .. n /\ i + 1 \in j .. n
          BY <4>2
        <5>2. s[i + 1].dep \in Needs(s[i].dep) /\ s[i + 1].dep \in S
          BY <1>13, <3>2, <5>1
        <5> QED
          BY <5>2
      <4> QED
        BY <4>1, <4>2
    <3>5. Cyclic(d)
      BY <3>3, <3>4 DEF Cyclic
    <3> QED
      BY <2>5, <3>5 DEF Resolvable
  <2> QED
    BY <1>7, <1>16, <2>1, <2>4, <2>5
<1> QED
  BY <1>7, <1>15, <1>16


\* What AnswerIsRight asks of a caller that is done.
Right(y) ==
    \A d \in y.asked :
        /\ y.result = "ok" => Resolvable(d, y.mode)
        /\ y.result \in {"circular", "async", "missing", "ambiguous"} =>
               ~Resolvable(d, y.mode)
        /\ y.result = "circular" => Cyclic(d)

\* A resolution that is over at once.
LEMMA AskRight ==
    ASSUME CInv, NEW c \in Caller, NEW spec \in Consumer, NEW mode \in Mode,
           Ask(c, spec, mode), call'[c].stack = <<>>
    PROVE  Right(call'[c])
<1>1. PICK target : target = ConsumerTarget(spec)
  OBVIOUS
<1>2. PICK x \in Call : Begun(x, c, target, mode)
  BY <1>1, Asking
<1>3. \A y : call' = [call EXCEPT ![c] = y] => call'[c] = y
  BY DEF CInv, TypeOK
<1>4. \/ call'[c] = Fail(x, "skipped")
      \/ target.is = "found" /\ call'[c] = Visit(x, target.dep)
      \/ target.is # "found" /\ \E what : call'[c] = Fail(x, what)
  BY <1>2, <1>3 DEF Begun
<1>5. CASE call'[c] = Fail(x, "skipped")
  BY <1>5, FailedStack DEF Right
<1>6. CASE target.is # "found" /\ \E what : call'[c] = Fail(x, what)
  <2>1. call'[c].asked = {}
    BY <1>2, <1>6, FailedStack DEF Begun
  <2> QED
    BY <2>1 DEF Right
<1>7. CASE target.is = "found" /\ call'[c] = Visit(x, target.dep)
  <2>1. PICK d \in Dep : d = target.dep /\ x.stack = <<>> /\ x.asked = {d}
    BY <1>2, <1>7 DEF Begun, CInv, TypeOK
  <2>2. CASE Cached(d)
    <3>1. call'[c] = Answer(x, value[d].no)
      BY <1>7, <2>1, <2>2 DEF Visit
    <3>2. call'[c] = [x EXCEPT !.result = "ok"]
      BY <2>1, <3>1 DEF Answer
    <3>3. call'[c].asked = {d} /\ call'[c].result = "ok"
      BY <2>1, <3>2 DEF Call, CallRecord
    <3>4. \A m : Resolvable(d, m)
      BY <2>2, ReadyResolves
    <3> QED
      BY <3>3, <3>4 DEF Right
  <2>3. CASE ~Cached(d)
    <3>1. x.path = {}
      BY <2>1 DEF Path, Call
    <3>2. Visit(x, d) # Push(x, d)
      <4>1. PICK f : f = [dep |-> d, args |-> <<>>]
        OBVIOUS
      <4>2. Push(x, d).stack = <<f>>
        BY <2>1, <4>1, PushFields DEF Call
      <4> QED
        BY <1>7, <2>1, <4>2
    <3>3. call'[c] = Fail(x, "async") /\ ~Fit(d, x.mode)
      BY <1>7, <2>1, <2>3, <3>1, <3>2 DEF Visit, Fit
    <3>4. d \in Fresh(d)
      BY <2>3, ReachSteps DEF Fresh
    <3>5. ~Resolvable(d, x.mode)
      BY <3>3, <3>4 DEF Resolvable, Fit
    <3> QED
      BY <2>1, <3>3, <3>5, FailedStack DEF Right
  <2> QED
    BY <2>2, <2>3
<1> QED
  BY <1>4, <1>5, <1>6, <1>7

\* A resolution whose last provider returns.
LEMMA BuildRight ==
    ASSUME CInv, Judging, NEW c \in Caller, Build(c), call'[c].stack = <<>>
    PROVE  Right(call'[c])
<1>1. PICK x \in Call : x = call[c] /\ x.stack # <<>> /\ Judged(x, Ready)
  BY TopOf DEF Build, Busy, Judging
<1>2. PICK f \in Frame : f = Top(x.stack)
  BY <1>1, TopOf DEF Build
<1>3. /\ provider[f.dep].params \in Seq(ParamSpec) /\ f.args \in Seq(Nat)
      /\ Len(f.args) = Len(provider[f.dep].params) /\ f.dep \in Dep
  BY <1>1, <1>2, TopOf DEF Build, Args, Params, Frame
<1>4. PICK y : y = Return(x)
  OBVIOUS
<1>5. /\ y \in Call /\ y.stack = Pop(x.stack)
      /\ y.asked = x.asked /\ y.mode = x.mode
  <2>1. Simple(x.stack)
    BY <1>1 DEF CInv, Stacks, Good
  <2> QED
    BY <1>1, <1>4, <2>1, Returned, ReturnFields DEF Call
<1>6. PICK no \in Nat : call'[c] = Answer(y, no)
  <2>1. call' = [call EXCEPT ![c] = Answer(y, built'[f.dep])]
    BY <1>1, <1>2, <1>4 DEF Build
  <2>2. built'[f.dep] \in Nat
    <3>1. built' = [built EXCEPT ![f.dep] = built[f.dep] + 1]
      BY <1>1, <1>2 DEF Build
    <3> QED
      BY <1>3, <3>1 DEF CInv, TypeOK
  <2> QED
    BY <2>1, <2>2 DEF CInv, TypeOK
<1>7. y.stack = <<>>
  <2> SUFFICES ASSUME y.stack # <<>>
               PROVE  FALSE
    OBVIOUS
  <2>1. DOMAIN call'[c].stack = DOMAIN y.stack
    BY <1>5, <1>6, AnswerFrames
  <2>2. PICK t \in Seq(Frame) : t = y.stack
    BY <1>5 DEF Call, CallRecord
  <2>3. 1 \in DOMAIN t
    BY <2>2
  <2> QED
    BY <2>1, <2>2, <2>3
<1>8. PICK s \in Seq(Frame) : s = x.stack
  BY DEF Call, CallRecord
<1>9. Len(s) = 1
  <2>1. y.stack = Pop(s)
    BY <1>5, <1>8
  <2>2. Len(s) \in Nat \ {0} /\ Len(Pop(s)) = Len(s) - 1
    BY <1>1, <1>8 DEF Pop
  <2>3. Len(Pop(s)) = 0
    BY <1>7, <2>1
  <2> QED
    BY <2>2, <2>3
<1>10. f = s[1] /\ 1 \in DOMAIN s
  BY <1>2, <1>8, <1>9 DEF Top
<1>11. /\ call'[c].result = "ok" /\ call'[c].mode = x.mode
       /\ call'[c].asked = {f.dep}
  <2>1. call'[c] = [y EXCEPT !.result = "ok"]
    BY <1>6, <1>7 DEF Answer
  <2>2. y.asked = x.asked /\ y.mode = x.mode
    BY <1>5
  <2>3. x.asked = {f.dep}
    BY <1>1, <1>8, <1>10 DEF Judged
  <2> QED
    BY <1>5, <2>1, <2>2, <2>3 DEF Call, CallRecord
<1>12. JudgedFrame(f, x.mode, Ready)
  BY <1>1, <1>8, <1>10 DEF Judged
<1>13. Whole(f.dep, Ready) /\ Fit(f.dep, x.mode)
  <2>1. DOMAIN f.args = DOMAIN provider[f.dep].params
    BY <1>3, LenProperties
  <2> QED
    BY <1>12, <2>1 DEF Whole, JudgedFrame
<1>14. Resolvable(f.dep, x.mode)
  BY <1>3, <1>13, ReadyResolves
<1> QED
  BY <1>11, <1>14 DEF Right

LEMMA AnswersRight ==
    ASSUME CInv, Judging, [Next]_vars, NEW c \in Caller,
           call'[c] # call[c], call'[c].stack = <<>>
    PROVE  Right(call'[c])
<1>1. ASSUME NEW k \in Caller, NEW y, call' = [call EXCEPT ![k] = y]
      PROVE  k = c
  BY <1>1 DEF CInv, TypeOK
<1>2. ASSUME NEW k \in Caller, NEW spec \in Consumer, NEW mode \in Mode, Ask(k, spec, mode)
      PROVE  Right(call'[c])
  <2>1. k = c
    BY <1>1, <1>2 DEF Ask
  <2> QED
    BY <1>2, <2>1, AskRight
<1>3. ASSUME NEW k \in Caller, NextParam(k)
      PROVE  Right(call'[c])
  <2>1. k = c
    BY <1>1, <1>3 DEF NextParam
  <2> QED
    BY <1>3, <2>1, FailsRightly DEF Right
<1>4. ASSUME NEW k \in Caller, Build(k)
      PROVE  Right(call'[c])
  <2>1. k = c
    BY <1>1, <1>4 DEF Build
  <2> QED
    BY <1>4, <2>1, BuildRight
<1>5. ASSUME NEW k \in Caller, ProviderRaises(k)
      PROVE  Right(call'[c])
  <2>1. k = c /\ call' = [call EXCEPT ![c] = Fail(call[c], "raised")]
    BY <1>1, <1>5 DEF ProviderRaises
  <2>2. call[c] \in Call /\ call'[c] = Fail(call[c], "raised")
    BY <2>1 DEF CInv, TypeOK, Stacks, Call, CallRecord
  <2>3. call'[c].result = "raised"
    BY <2>2, FailedStack
  <2> QED
    BY <2>3 DEF Right
<1>6. CASE UNCHANGED vars
  BY <1>6 DEF vars
<1>7. ASSUME NEW d \in Dep, Register(d)
      PROVE  FALSE
  BY <1>7 DEF Register
<1> QED
  BY <1>2, <1>3, <1>4, <1>5, <1>6, <1>7 DEF Next, Resolve


-----------------------------------------------------------------------------
\* Every variable of the container keeps its type: a resolution that goes on
\* has a registered provider on top of its stack (_resolve_sync).
THEOREM ContainerTyped == Spec => []TypeOK
<1>1. CInv => TypeOK
  BY DEF CInv
<1> QED
  BY <1>1, CInvInit, CInvNext, PTL DEF Spec

\* The path holds the keys under construction and no key is entered twice,
\* whatever is wired and whoever resolves at the same time (path.add and
\* path.discard of _resolve_sync and _resolve_async).
THEOREM PathsAreExact == Spec => []PathIsExact
<1>1. CInv => PathIsExact
  BY DEF CInv, Stacks, Good, Simple, PathIsExact
<1> QED
  BY <1>1, CInvInit, CInvNext, PTL DEF Spec

\* What is cached has its dependencies, also when resolutions overlap and
\* overwrite each other's instances or fail in the middle.
THEOREM DependenciesCached == Spec => []DependenciesFirst
<1>1. CInv => DependenciesFirst
  <2> SUFFICES ASSUME CInv, NEW d \in Dep, Cached(d)
               PROVE  /\ Len(value[d].args) = IF provider[d].kind = "value" THEN 0
                                               ELSE Len(provider[d].params)
                      /\ \A i \in DOMAIN value[d].args :
                            LET target == ProviderTarget(provider[d].params[i])
                            IN  value[d].args[i] # 0 /\ target.is = "found" =>
                                    /\ Cached(target.dep)
                                    /\ value[d].args[i] <= built[target.dep]
    BY DEF DependenciesFirst
  <2>1. /\ Len(value[d].args) = IF provider[d].kind = "value" THEN 0
                                ELSE Len(provider[d].params)
        /\ Backed(d, value[d].args, Supply)
    BY DEF CInv, Complete
  <2> SUFFICES ASSUME NEW i \in DOMAIN value[d].args, value[d].args[i] # 0,
                      ProviderTarget(provider[d].params[i]).is = "found"
               PROVE  LET e == ProviderTarget(provider[d].params[i]).dep
                      IN  Cached(e) /\ value[d].args[i] <= built[e]
    BY <2>1
  <2>2. provider[d].params \in Seq(ParamSpec) /\ value[d].args \in Seq(Nat)
    BY DEF CInv, TypeOK, Provider, Instance
  <2>3. provider[d].params[i] \in ParamSpec
    <3>1. DOMAIN value[d].args = 1 .. Len(value[d].args)
      BY <2>2
    <3>2. i \in 1 .. Len(provider[d].params)
      BY <2>1, <3>1
    <3> QED
      BY <2>2, <3>2, ElementOfSeq
  <2>4. PICK e \in Candidates(provider[d].params[i]) : <<e, value[d].args[i]>> \in Supply
    BY <2>1 DEF Backed
  <2>5. e = ProviderTarget(provider[d].params[i]).dep
    BY <2>3, OneCandidate, DepAssumption DEF CInv, TypeOK
  <2>6. Cached(e) /\ value[d].args[i] <= built[e]
    BY <2>4 DEF Supply
  <2> QED
    BY <2>5, <2>6
<1> QED
  BY <1>1, CInvInit, CInvNext, PTL DEF Spec

\* The depth-first search of _resolve_sync and _resolve_async agrees with
\* reachability: whoever resolves, overwrites or fails at the same time, a
\* caller is answered "ok" only if every provider it needs is wired, fits its
\* mode and is on no cycle, and is told of an error only if one is there.
THEOREM AnswersAreRight == Spec => AnswerIsRight
<1>1. CInv /\ Judging /\ [Next]_vars =>
          [\A c \in Caller : call'[c] # call[c] /\ call'[c].stack = <<>> =>
              \A d \in call'[c].asked :
                  /\ call'[c].result = "ok" => Resolvable(d, call'[c].mode)
                  /\ call'[c].result \in {"circular", "async", "missing", "ambiguous"} =>
                         ~Resolvable(d, call'[c].mode)
                  /\ call'[c].result = "circular" => Cyclic(d)]_vars
  BY AnswersRight DEF Right
<1> QED
  BY <1>1, CInvInit, CInvNext, JudgingInit, JudgingNext, PTL DEF Spec, AnswerIsRight
=============================================================================
