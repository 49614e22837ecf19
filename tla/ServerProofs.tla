---------------------------- MODULE ServerProofs ----------------------------
(***************************************************************************)
(* For every number of lifespans: what the wrapper answers is true of the   *)
(* contexts it was given, and no context is left open and forgotten.  For   *)
(* every place of OtelPlugin among them: the process runs the wrapper as    *)
(* Lifespan describes it, and every telemetry provider is shut down in      *)
(* time, and once unless its own shutdown() raised.                         *)
(***************************************************************************)
EXTENDS Server, SequenceTheorems, TLAPS

-----------------------------------------------------------------------------
(* The wrapper.  The invariant says where the open contexts are: on the     *)
(* exit stack while it works, in self._stack otherwise, and in both cases   *)
(* they are the first ones of the declaration in order, so that the last of *)
(* the stack is the last that was opened.                                   *)

Busy == pc \in {"enter", "unwind", "close"}
InOrder(s) == \A i \in 1 .. Len(s) : s[i] = i

\* Where the open contexts are.
Held ==
    /\ InOrder(stack)
    /\ InOrder(kept)
    /\ Busy => kept = <<>> /\ open = 1 .. Len(stack)
    /\ ~Busy => stack = <<>> /\ open = 1 .. Len(kept)

\* What was answered, and when.
Said ==
    /\ pc = "receive" =>
        \/ started /\ sent = <<"startup.complete">> /\ Len(kept) = size
        \/ ~started /\ sent = <<>> /\ kept = <<>>
    /\ pc \in {"enter", "unwind"} => ~started /\ sent = <<>>
    /\ pc = "close" => sent = <<"startup.complete">>
    /\ pc \in {"returned", "raised"} /\ kept # <<>> => sent = <<"startup.complete">>

IInv == TypeOK /\ Held /\ Said

-----------------------------------------------------------------------------
LEMMA InitIInv == Init => IInv
<1> SUFFICES ASSUME Init PROVE IInv
  OBVIOUS
<1>1. <<>> \in Seq(Contexts) /\ <<>> \in Seq(Answer)
  BY EmptySeq
<1>2. TypeOK
  BY <1>1 DEF Init, TypeOK, Exception
<1>3. Held /\ Said
  BY DEF Init, Held, Said, Busy, InOrder
<1> QED
  BY <1>2, <1>3 DEF IInv

\* All of a sequence but its last element.
LEMMA FrontLemma ==
    ASSUME NEW S, NEW s \in Seq(S), NEW n \in Nat, Len(s) = n + 1
    PROVE  /\ SubSeq(s, 1, n) \in Seq(S)
           /\ Len(SubSeq(s, 1, n)) = n
           /\ \A i \in 1 .. n : SubSeq(s, 1, n)[i] = s[i]
<1>1. \A i \in 1 .. n : s[i] \in S
  OBVIOUS
<1> QED
  BY <1>1, SubSeqProperties

\* An exit pops the context that was opened last.
LEMMA PopLemma ==
    ASSUME NEW s \in Seq(Contexts), s # <<>>, InOrder(s), size \in Nat
    PROVE  /\ Popped(s).next = Len(s)
           /\ Popped(s).left \in Seq(Contexts)
           /\ Len(Popped(s).left) = Len(s) - 1
           /\ InOrder(Popped(s).left)
<1> DEFINE n == Len(s) - 1
<1>1. n \in Nat /\ Len(s) = n + 1
  BY EmptySeq
<1>2. Popped(s).next = Len(s)
  BY <1>1 DEF Popped, Last, InOrder
<1>3. Popped(s).left = SubSeq(s, 1, n)
  BY DEF Popped, Front
<1> HIDE DEF n
<1>4. /\ SubSeq(s, 1, n) \in Seq(Contexts)
      /\ Len(SubSeq(s, 1, n)) = n
      /\ \A i \in 1 .. n : SubSeq(s, 1, n)[i] = s[i]
  BY <1>1, FrontLemma
<1> QED
  BY <1>1, <1>2, <1>3, <1>4 DEF InOrder

LEMMA NextIInv == IInv /\ [Next]_vars => IInv'
<1> SUFFICES ASSUME IInv, [Next]_vars PROVE IInv'
  OBVIOUS
<1>0. size \in Nat
  BY MaxContextsAssumption DEF IInv, TypeOK
<1>1. CASE Startup
  BY <1>1 DEF Startup, IInv, TypeOK, Held, Said, Busy, InOrder, Contexts, Answered
<1>2. CASE Enter
  BY <1>0, <1>2 DEF Enter, IInv, TypeOK, Held, Said, Busy, InOrder, Contexts
<1>3. CASE Entered
  BY <1>0, <1>3 DEF Entered, IInv, TypeOK, Held, Said, Busy, InOrder, Contexts, Answer
<1>4. CASE Unwound
  <2>1. TypeOK'
    BY <1>0, <1>4 DEF Unwound, IInv, TypeOK, Contexts, Answer
  <2>2. Held'
    BY <1>4 DEF Unwound, IInv, Held, Busy, InOrder
  <2>3. Said'
    BY <1>4 DEF Unwound, IInv, Held, Said, Busy
  <2> QED
    BY <2>1, <2>2, <2>3 DEF IInv
<1>5. ASSUME NEW e \in {"error", "cancel"}, EnterFails(e) PROVE IInv'
  BY <1>0, <1>5 DEF EnterFails, IInv, TypeOK, Held, Said, Busy, InOrder, Contexts, Exception
<1>6. ASSUME NEW x \in Exit, RunExit(x) PROVE IInv'
  <2>1. /\ Popped(stack).next = Len(stack)
        /\ Popped(stack).left \in Seq(Contexts)
        /\ Len(Popped(stack).left) = Len(stack) - 1
        /\ InOrder(Popped(stack).left)
    BY <1>0, <1>6, PopLemma DEF RunExit, IInv, TypeOK, Held
  <2>2. open' = 1 .. Len(stack')
    BY <1>0, <1>6, <2>1 DEF RunExit, IInv, TypeOK, Held, Busy
  <2>3. TypeOK'
    BY <1>0, <1>6, <2>1, <2>2 DEF RunExit, IInv, TypeOK, Contexts, Exit, Exception
  <2>4. Held' /\ Said'
    BY <1>0, <1>6, <2>1, <2>2 DEF RunExit, IInv, Held, Said, Busy, InOrder
  <2> QED
    BY <2>3, <2>4 DEF IInv
<1>7. CASE Shutdown
  <2>0. sent' \in Seq(Answer)
    <3>1. sent \in Seq(Answer) /\ "shutdown.complete" \in Answer
      BY DEF IInv, TypeOK, Answer
    <3>2. sent' = sent \/ sent' = Append(sent, "shutdown.complete")
      BY <1>7 DEF Shutdown
    <3> QED
      BY <3>1, <3>2, AppendProperties
  <2>1. TypeOK'
    BY <1>0, <1>7, <2>0, EmptySeq DEF Shutdown, IInv, TypeOK, Contexts
  <2>2. Held'
    BY <1>7 DEF Shutdown, IInv, Held, Busy, InOrder
  <2>3. Said'
    BY <1>7 DEF Shutdown, IInv, Held, Said, Busy
  <2> QED
    BY <2>1, <2>2, <2>3 DEF IInv
<1>8. CASE Closed
  <2>0. sent' \in Seq(Answer)
    <3>1. sent \in Seq(Answer) /\ "shutdown.complete" \in Answer
      BY DEF IInv, TypeOK, Answer
    <3>2. sent' = sent \/ sent' = Append(sent, "shutdown.complete")
      BY <1>8 DEF Closed
    <3> QED
      BY <3>1, <3>2, AppendProperties
  <2>1. TypeOK'
    BY <1>0, <1>8, <2>0 DEF Closed, IInv, TypeOK, Contexts
  <2>2. Held'
    BY <1>8 DEF Closed, IInv, Held, Busy, InOrder
  <2>3. Said'
    BY <1>8 DEF Closed, IInv, Held, Said, Busy
  <2> QED
    BY <2>1, <2>2, <2>3 DEF IInv
<1>9. CASE Unknown
  <2>1. TypeOK'
    BY <1>0, <1>9 DEF Unknown, IInv, TypeOK, Contexts, Answer
  <2>2. Held'
    BY <1>9 DEF Unknown, IInv, Held, Busy, InOrder
  <2>3. Said'
    BY <1>9 DEF Unknown, IInv, Held, Said, Busy
  <2> QED
    BY <2>1, <2>2, <2>3 DEF IInv
<1>10. CASE ReceiveCancelled
  <2>1. TypeOK'
    BY <1>0, <1>10 DEF ReceiveCancelled, IInv, TypeOK, Contexts, Answer
  <2>2. Held'
    BY <1>10 DEF ReceiveCancelled, IInv, Held, Busy, InOrder
  <2>3. Said'
    BY <1>10 DEF ReceiveCancelled, IInv, Held, Said, Busy
  <2> QED
    BY <2>1, <2>2, <2>3 DEF IInv
<1>11. CASE UNCHANGED vars
  BY <1>11 DEF vars, IInv, TypeOK, Held, Said, Busy, InOrder, Contexts
<1> QED
  BY <1>1, <1>2, <1>3, <1>4, <1>5, <1>6, <1>7, <1>8, <1>9, <1>10, <1>11 DEF Next

LEMMA Invariance == Spec => []IInv
BY InitIInv, NextIInv, PTL DEF Spec

-----------------------------------------------------------------------------
\* What the wrapper tells the server is true of the contexts, for any number
\* of lifespans (LifespanWrapper.__call__).
THEOREM AnswersHold == Spec => []AnswersAreTrue
<1>1. IInv => AnswersAreTrue
  BY DEF IInv, TypeOK, Held, Said, Busy, AnswersAreTrue, LastAnswer, Answered, Last, Contexts
<1> QED
  BY Invariance, <1>1, PTL

\* However the call ends, the contexts still open are those of self._stack
\* (LifespanWrapper._startup, _shutdown).
THEOREM NoLeak == Spec => []NothingLeaks
<1>1. IInv => NothingLeaks
  BY DEF IInv, TypeOK, Held, Busy, InOrder, NothingLeaks, Contexts
<1> QED
  BY Invariance, <1>1, PTL

\* Contexts are exited in the reverse of the order they were entered in.
THEOREM Reversed == Spec => ReverseOrder
<1>1. IInv /\ [Next]_vars => [\A c \in open \ open' : \A d \in open : d <= c]_vars
  <2> SUFFICES ASSUME IInv, [Next]_vars, NEW c \in open \ open', NEW d \in open PROVE d <= c
    BY DEF vars
  <2>0. size \in Nat
    BY MaxContextsAssumption DEF IInv, TypeOK
  <2>1. PICK x \in Exit : RunExit(x)
    BY DEF Next, vars, Startup, Enter, Entered, Unwound, EnterFails, Shutdown, Closed, Unknown, ReceiveCancelled
  <2>2. c = Popped(stack).next
    BY <2>1 DEF RunExit
  <2>3. Popped(stack).next = Len(stack) /\ open = 1 .. Len(stack)
    BY <2>0, <2>1, PopLemma DEF RunExit, IInv, TypeOK, Held, Busy
  <2> QED
    BY <2>2, <2>3 DEF IInv, TypeOK
<1> QED
  BY Invariance, <1>1, PTL DEF Spec, ReverseOrder

-----------------------------------------------------------------------------
(* The process.  The invariant adds to that of the wrapper when the         *)
(* providers are up: as long as OtelPlugin's context may still be entered   *)
(* or is open.                                                              *)

\* OtelPlugin's context was not exited yet.
Unexited == phase # "serving" \/ pc \in {"receive", "enter"} \/ otel \in open

Made ==
    /\ made \in 0 .. 3
    /\ held \in 0 .. made
    /\ phase = "setup" => made = 0
    /\ ~enabled => made = 0
    /\ phase \in {"ready", "serving"} /\ enabled => made = 3 /\ held = 3
\* A provider has its hook until it was shut down, or longer.
Counted ==
    /\ shut \in [Provider -> 0 .. 2]
    /\ hooks \subseteq 1 .. made
    /\ phase # "exited" =>
        /\ shut \in [Provider -> {0, 1}]
        /\ Up \subseteq hooks
        /\ \A s \in hooks : shut[s] = 1 => s \in Reached \cap KeepsHook
        /\ Unexited => \A s \in Provider : shut[s] = 0
    /\ \A s \in Provider : shut[s] = 2 => s \in Reached \cap KeepsHook
Flushed == enabled /\ entered /\ otel \notin open => \A s \in Reached : shut[s] # 0
\* Nothing swallows what the first context raises, and what is pending when the
\* stack is closed keeps the shutdown from being complete.
Reported ==
    /\ entered /\ otel = 1 /\ otel \notin open /\ enabled /\ Raises => pending # "none"
    /\ LastAnswer("shutdown.complete") /\ entered => pending = "none"
    /\ pc = "receive" /\ ~started => ~entered

Chosen ==
    /\ phase \in {"setup", "ready", "failed", "serving", "exited"}
    /\ otel \in Contexts
    /\ enabled \in BOOLEAN
    /\ broken \subseteq Provider
    /\ entered \in BOOLEAN
    /\ phase \in {"setup", "ready", "failed"} => ~entered
    /\ phase = "exited" => Up = {}

SInv == IInv /\ Chosen /\ Made /\ Counted /\ Flushed /\ Reported

-----------------------------------------------------------------------------
LEMMA Serves == [ServerNext]_serverVars => [Next]_vars
<1> SUFFICES ASSUME ServerNext PROVE [Next]_vars
  BY DEF serverVars, vars
<1>1. CASE OnAppInit \/ CreationFails \/ CreateApplication \/ ProcessExit
  BY <1>1 DEF OnAppInit, CreationFails, CreateApplication, ProcessExit
<1>2. CASE \E h \in 0 .. 2, m \in Provider \cup {0} : OnAppInitRaises(h, m)
  BY <1>2 DEF OnAppInitRaises
<1>3. CASE ServeOthers
  BY <1>3 DEF ServeOthers, Next
<1>4. CASE ServeEnter \/ \E e \in {"error", "cancel"} : ServeEnterFails(e)
  BY <1>4 DEF ServeEnter, ServeEnterFails, Next
<1>5. CASE ServeOtelExit
  BY <1>5 DEF ServeOtelExit, Next, Exit
<1> QED
  BY <1>1, <1>2, <1>3, <1>4, <1>5 DEF ServerNext, Serve

\* In the process the wrapper behaves as Lifespan says: what is proved of the
\* wrapper holds in the server.
THEOREM ServesLifespan == ServerSpec => Spec
<1>1. ServerInit => Init
  BY DEF ServerInit
<1> QED
  BY <1>1, Serves, PTL DEF ServerSpec, Spec

-----------------------------------------------------------------------------
LEMMA InitSInv == ServerInit => SInv
<1> SUFFICES ASSUME ServerInit PROVE SInv
  OBVIOUS
<1>1. IInv
  BY InitIInv DEF ServerInit
<1>2. Chosen
  BY DEF ServerInit, Chosen
<1>5. Made
  BY DEF ServerInit, Made
<1>3. Counted
  <2>1. Up = {}
    BY DEF ServerInit, Up
  <2> QED
    BY <2>1 DEF ServerInit, Counted
<1>4. Flushed /\ Reported
  BY DEF ServerInit, Init, Flushed, Reported, LastAnswer, Answered
<1> QED
  BY <1>1, <1>2, <1>3, <1>4, <1>5 DEF SInv

\* The context an exit pops is the last of the open ones.
LEMMA ExitStep ==
    ASSUME IInv, NEW x \in Exit, RunExit(x)
    PROVE  /\ Len(stack) \in Nat \ {0}
           /\ Popped(stack).next = Len(stack)
           /\ open = 1 .. Len(stack)
           /\ open' = open \ {Len(stack)}
           /\ pc \in {"unwind", "close"}
<1>0. size \in Nat
  BY MaxContextsAssumption DEF IInv, TypeOK
<1>1. Popped(stack).next = Len(stack)
  BY <1>0, PopLemma DEF RunExit, IInv, TypeOK, Held
<1>2. open = 1 .. Len(stack)
  BY DEF RunExit, IInv, Held, Busy
<1>3. stack \in Seq(Contexts) /\ stack # <<>>
  BY DEF RunExit, IInv, TypeOK
<1>4. Len(stack) \in Nat \ {0}
  BY <1>3, EmptySeq
<1> QED
  BY <1>1, <1>2, <1>4 DEF RunExit

\* While the contexts behind OtelPlugin's are open, so is OtelPlugin's.
LEMMA OpenPrefix ==
    ASSUME IInv
    PROVE  \E n \in Nat : open = 1 .. n
<1>1. stack \in Seq(Contexts) /\ kept \in Seq(Contexts)
  BY DEF IInv, TypeOK
<1>2. Len(stack) \in Nat /\ Len(kept) \in Nat
  BY <1>1
<1> QED
  BY <1>2 DEF IInv, Held, Busy

\* The steps of the process around the lifespan call.
LEMMA ProcessStep ==
    ASSUME SInv, IInv',
           \/ OnAppInit \/ CreationFails \/ CreateApplication
           \/ \E h \in 0 .. 2, m \in Provider \cup {0} : OnAppInitRaises(h, m)
    PROVE  SInv'
<1>0. /\ UNCHANGED <<vars, chosen, entered, shut>>
      /\ ~entered
      /\ phase \in {"setup", "ready"}
      /\ phase' \in {"ready", "failed", "serving"}
  BY DEF OnAppInit, CreationFails, CreateApplication, OnAppInitRaises, telemetry, SInv, Chosen
<1>1. Made'
  <2>1. CASE OnAppInit
    BY <2>1 DEF OnAppInit, SInv, Made, Chosen, chosen
  <2>2. CASE CreationFails \/ CreateApplication
    BY <2>2 DEF CreationFails, CreateApplication, SInv, Made, Chosen, chosen, telemetry
  <2>3. ASSUME NEW h \in 0 .. 2, NEW m \in Provider \cup {0}, OnAppInitRaises(h, m) PROVE Made'
    BY <2>3 DEF OnAppInitRaises, SInv, Made, Chosen, chosen, Provider
  <2> QED
    BY <2>1, <2>2, <2>3
<1>2. Chosen'
  BY <1>0 DEF SInv, Chosen, chosen, vars, Contexts
<1>3. Counted'
  <2>1. shut' = shut /\ \A s \in Provider : shut[s] = 0
    BY <1>0 DEF SInv, Counted, Unexited
  <2>2. 1 .. made' \subseteq hooks' /\ hooks' \subseteq 1 .. made'
    <3>1. phase = "setup" => made = 0
      BY DEF SInv, Made
    <3>2. 1 .. made \subseteq hooks /\ hooks \subseteq 1 .. made
      BY <1>0, <2>1 DEF SInv, Counted, Up, Made, Provider
    <3>3. CASE OnAppInit
      BY <3>2, <3>3 DEF OnAppInit, Provider
    <3>4. CASE CreationFails \/ CreateApplication
      BY <3>2, <3>4 DEF CreationFails, CreateApplication, telemetry
    <3>5. CASE \E h \in 0 .. 2, m \in Provider \cup {0} : OnAppInitRaises(h, m)
      BY <3>5 DEF OnAppInitRaises
    <3> QED
      BY <3>3, <3>4, <3>5
  <2>3. made' \in 0 .. 3
    BY <1>1 DEF Made
  <2>4. Up' \subseteq hooks'
    BY <2>2 DEF Up
  <2>5. \A s \in hooks' : shut'[s] = 0
    BY <2>1, <2>2, <2>3 DEF Provider
  <2> QED
    BY <1>0, <2>1, <2>2, <2>4, <2>5 DEF SInv, Counted
<1>4. Flushed' /\ Reported'
  BY <1>0 DEF SInv, Flushed, Reported, vars, LastAnswer, Answered
<1> QED
  BY <1>1, <1>2, <1>3, <1>4 DEF SInv

LEMMA ExitStepOfProcess ==
    ASSUME SInv, IInv', ProcessExit
    PROVE  SInv'
<1>1. Made'
  BY DEF ProcessExit, SInv, Made, chosen
<1>2. Counted' /\ Chosen'
  <2>0. phase # "exited"
    BY DEF ProcessExit
  <2>1. /\ shut \in [Provider -> {0, 1}] /\ Up \subseteq hooks
        /\ \A s \in hooks : shut[s] = 1 => s \in Reached \cap KeepsHook
    BY <2>0 DEF SInv, Counted
  <2>2. \A s \in Provider : shut'[s] = IF s \in hooks THEN shut[s] + 1 ELSE shut[s]
    BY DEF ProcessExit, ShutDown
  <2>3. shut' \in [Provider -> 0 .. 2]
    BY <2>1 DEF ProcessExit, ShutDown
  <2>4. (Reached \cap KeepsHook)' = Reached \cap KeepsHook
    BY DEF ProcessExit, Reached, KeepsHook, chosen
  <2>5. \A s \in Provider : shut'[s] = 2 => s \in (Reached \cap KeepsHook)'
    BY <2>1, <2>2, <2>4
  <2>6. Up' = {}
    <3>1. 1 .. made \subseteq Provider
      BY DEF SInv, Made, Provider
    <3>2. \A s \in 1 .. made : s \notin hooks => shut[s] # 0
      BY <2>1 DEF Up
    <3>3. \A s \in 1 .. made : shut'[s] # 0
      BY <2>1, <2>2, <3>1, <3>2
    <3> QED
      BY <3>3 DEF ProcessExit, Up
  <2>7. Counted'
    BY <2>3, <2>5 DEF ProcessExit, Counted
  <2> QED
    BY <2>6, <2>7 DEF ProcessExit, SInv, Chosen, chosen, vars, Contexts
<1>3. Flushed'
  <2>1. Reached' = Reached
    BY DEF ProcessExit, Reached, chosen
  <2>2. \A s \in Provider : shut[s] # 0 => shut'[s] # 0
    BY DEF ProcessExit, ShutDown, SInv, Counted
  <2>3. Reached \subseteq Provider
    BY DEF Reached, SInv, Made, Provider
  <2> QED
    BY <2>1, <2>2, <2>3 DEF ProcessExit, SInv, Flushed, chosen, vars
<1>4. Reported'
  BY DEF ProcessExit, SInv, Reported, chosen, vars, LastAnswer, Answered, Raises
<1> QED
  BY <1>1, <1>2, <1>3, <1>4 DEF SInv

\* Steps of the call that leave OtelPlugin's context as it is.
LEMMA CallStep ==
    ASSUME SInv, IInv', phase = "serving",
           UNCHANGED <<phase, chosen, telemetry>>,
           \/ Startup \/ Entered \/ Unwound \/ Shutdown \/ Closed \/ Unknown \/ ReceiveCancelled
           \/ \E e \in {"error", "cancel"} : EnterFails(e)
    PROVE  SInv'
<1>1. Made'
  BY DEF SInv, Made, chosen, telemetry
<1>2. open' = open /\ size' = size /\ pending' = pending
  BY DEF Startup, Entered, Unwound, Shutdown, Closed, Unknown, ReceiveCancelled, EnterFails
<1>3. Chosen'
  BY <1>2 DEF SInv, Chosen, chosen, telemetry, Contexts, Up
<1>4. Counted'
  <2>1. Unexited' => Unexited
    BY <1>2 DEF Unexited, chosen, Startup, Entered, Unwound, Shutdown, Closed, Unknown,
       ReceiveCancelled, EnterFails
  <2> QED
    BY <2>1 DEF SInv, Counted, telemetry, chosen, Up, Reached, KeepsHook
<1>5. Flushed'
  BY <1>2 DEF SInv, Flushed, chosen, telemetry, Reached
<1>6. Reported'
  <2>0. /\ Reached' = Reached /\ Raises' = Raises
        /\ UNCHANGED <<otel, enabled, entered>>
    BY DEF chosen, telemetry, Reached, Raises
  <2>1. (entered /\ otel = 1 /\ otel \notin open /\ enabled /\ Raises => pending # "none")'
    BY <1>2, <2>0 DEF SInv, Reported
  <2>2. (pc = "receive" /\ ~started => ~entered)'
    BY <2>0 DEF SInv, Reported, Startup, Entered, Unwound, Shutdown, Closed, Unknown,
       ReceiveCancelled, EnterFails
  <2>3. (LastAnswer("shutdown.complete") /\ entered => pending = "none")'
    <3>1. CASE sent' = sent
      BY <1>2, <2>0, <3>1 DEF SInv, Reported, LastAnswer, Answered
    <3>2. CASE Entered \/ Unwound
      <4>1. sent = <<>>
        BY <3>2 DEF Entered, Unwound, SInv, IInv, Said
      <4>2. sent' \in {<<>>, <<"startup.complete">>, <<"startup.failed">>}
        BY <3>2, <4>1 DEF Entered, Unwound
      <4> QED
        BY <4>2 DEF LastAnswer, Answered, Last
    <3>3. CASE Shutdown
      BY <1>2, <2>0, <3>1, <3>3 DEF Shutdown, SInv, Reported
    <3>4. CASE Closed
      BY <1>2, <3>1, <3>4 DEF Closed
    <3> QED
      BY <3>1, <3>2, <3>3, <3>4 DEF Startup, Unknown, ReceiveCancelled, EnterFails
  <2> QED
    BY <2>1, <2>2, <2>3 DEF Reported
<1> QED
  BY <1>1, <1>3, <1>4, <1>5, <1>6 DEF SInv

\* A context is entered.
LEMMA EnterStep ==
    ASSUME SInv, IInv', ServeEnter
    PROVE  SInv'
<1>0. /\ UNCHANGED <<phase, otel, enabled, broken, made, held, shut, hooks, size, pc, pending,
                    sent, started>>
      /\ open \subseteq open'
      /\ pc = "enter" /\ phase = "serving"
      /\ entered' = (entered \/ otel \in open')
  BY DEF ServeEnter, Enter, chosen
<1>1. Reached' = Reached /\ Raises' = Raises
  BY <1>0 DEF Reached, Raises
<1>2. Made' /\ Counted' /\ Chosen'
  BY <1>0 DEF SInv, Made, Counted, Chosen, Unexited, Contexts, Up, Reached, KeepsHook
<1>3. Flushed'
  BY <1>0, <1>1 DEF SInv, Flushed
<1>4. Reported'
  <2>1. (entered /\ otel = 1 /\ otel \notin open /\ enabled /\ Raises => pending # "none")'
    BY <1>0, <1>1 DEF SInv, Reported
  <2>2. ~LastAnswer("shutdown.complete")'
    BY <1>0 DEF SInv, IInv, Said, LastAnswer, Answered
  <2> QED
    BY <1>0, <2>1, <2>2 DEF Reported
<1> QED
  BY <1>2, <1>3, <1>4 DEF SInv

\* A context other than OtelPlugin's is exited.
LEMMA OtherExit ==
    ASSUME SInv, IInv', phase = "serving", NEW x \in Exit, RunExit(x),
           Popped(stack).next # otel, UNCHANGED <<phase, chosen, telemetry>>
    PROVE  SInv'
<1>0. /\ UNCHANGED <<phase, otel, enabled, broken, made, held, shut, hooks, entered, size, pc,
                    sent, started>>
      /\ otel \in open' <=> otel \in open
      /\ Len(stack) \in Nat \ {0} /\ open = 1 .. Len(stack) /\ open' = open \ {Len(stack)}
      /\ otel # Len(stack)
      /\ pc \in {"unwind", "close"}
  <2>1. /\ Len(stack) \in Nat \ {0} /\ open = 1 .. Len(stack) /\ open' = open \ {Len(stack)}
        /\ Popped(stack).next = Len(stack)
        /\ pc \in {"unwind", "close"}
    BY ExitStep DEF SInv
  <2> QED
    BY <2>1 DEF RunExit, chosen, telemetry
<1>1. Reached' = Reached /\ Raises' = Raises
  BY <1>0 DEF Reached, Raises
<1>2. Made' /\ Counted' /\ Chosen'
  BY <1>0 DEF SInv, Made, Counted, Chosen, Unexited, Contexts, Up, Reached, KeepsHook
<1>3. Flushed'
  BY <1>0, <1>1 DEF SInv, Flushed
<1>4. Reported'
  <2>1. otel = 1 => otel \in open'
    BY <1>0
  <2>2. ~LastAnswer("shutdown.complete")'
    BY <1>0 DEF SInv, IInv, Said, LastAnswer, Answered, Last
  <2> QED
    BY <1>0, <2>1, <2>2 DEF Reported
<1> QED
  BY <1>2, <1>3, <1>4 DEF SInv

\* OtelPlugin's context is exited.
LEMMA OtelExit ==
    ASSUME SInv, IInv', ServeOtelExit
    PROVE  SInv'
<1> DEFINE x == IF enabled /\ Raises THEN "error" ELSE "pass"
<1>0. x \in Exit /\ RunExit(x)
  BY DEF ServeOtelExit, Exit
<1>1. /\ UNCHANGED <<phase, otel, enabled, broken, made, held, entered, size, pc, sent, started>>
      /\ phase = "serving"
      /\ otel \in open /\ otel \notin open'
      /\ pc \in {"unwind", "close"}
  <2> HIDE DEF x
  <2>1. /\ Len(stack) \in Nat \ {0} /\ open = 1 .. Len(stack) /\ open' = open \ {Len(stack)}
        /\ Popped(stack).next = Len(stack)
        /\ pc \in {"unwind", "close"}
    BY <1>0, ExitStep DEF SInv
  <2> QED
    BY <1>0, <2>1 DEF ServeOtelExit, RunExit, chosen
<1>2. Reached' = Reached /\ Raises' = Raises
  BY <1>1 DEF Reached, Raises
<1>3. \A s \in Provider : shut[s] = 0
  BY <1>1 DEF SInv, Counted, Unexited
<1>4. Reached \subseteq Provider
  BY DEF Reached, SInv, Made, Provider
<1>5. /\ shut' \in [Provider -> {0, 1}]
      /\ \A s \in Provider : shut'[s] = IF enabled /\ s \in Reached THEN 1 ELSE 0
  BY <1>3, <1>4 DEF ServeOtelExit, OtelShutDown, ShutDown, SInv, Counted
<1>6. Made' /\ Chosen'
  BY <1>1 DEF SInv, Made, Chosen, Contexts
<1>7. Counted'
  <2>1. Up \subseteq hooks /\ hooks \subseteq 1 .. made
    BY <1>1 DEF SInv, Counted
  <2>2. 1 .. made \subseteq Provider
    BY DEF SInv, Made, Provider
  <2>3. hooks' = IF enabled THEN hooks \ (Reached \ KeepsHook) ELSE hooks
    BY DEF ServeOtelExit, OtelShutDown
  <2>4. 1 .. made \subseteq hooks
    BY <1>3, <2>1, <2>2 DEF Up
  <2>5. Up' \subseteq hooks'
    BY <1>1, <1>4, <1>5, <2>2, <2>3, <2>4 DEF Up
  <2>6. \A s \in hooks' : shut'[s] = 1 => s \in Reached \cap KeepsHook
    BY <1>5, <2>1, <2>2, <2>3
  <2>7. (Reached \cap KeepsHook)' = Reached \cap KeepsHook
    BY <1>1, <1>2 DEF KeepsHook
  <2>8. shut' \in [Provider -> 0 .. 2] /\ \A s \in Provider : shut'[s] # 2
    BY <1>5
  <2>9. hooks' \subseteq 1 .. made' /\ ~Unexited'
    BY <1>1, <2>1, <2>3 DEF Unexited
  <2> QED
    BY <1>5, <2>5, <2>6, <2>7, <2>8, <2>9 DEF Counted
<1>8. Flushed'
  BY <1>1, <1>2, <1>4, <1>5 DEF Flushed
<1>9. Reported'
  <2>1. enabled /\ Raises => pending' # "none"
    BY DEF ServeOtelExit, RunExit
  <2>2. ~LastAnswer("shutdown.complete")'
    BY <1>1 DEF SInv, IInv, Said, LastAnswer, Answered, Last
  <2> QED
    BY <1>1, <1>2, <2>1, <2>2 DEF Reported
<1> QED
  BY <1>6, <1>7, <1>8, <1>9 DEF SInv

LEMMA NextSInv == SInv /\ [ServerNext]_serverVars => SInv'
<1> SUFFICES ASSUME SInv, [ServerNext]_serverVars PROVE SInv'
  OBVIOUS
<1>0. IInv'
  BY Serves, NextIInv DEF SInv
<1>1. CASE \/ OnAppInit \/ CreationFails \/ CreateApplication
           \/ \E h \in 0 .. 2, m \in Provider \cup {0} : OnAppInitRaises(h, m)
  BY <1>0, <1>1, ProcessStep
<1>2. CASE ProcessExit
  BY <1>0, <1>2, ExitStepOfProcess
<1>3. CASE ServeOthers
  BY <1>0, <1>3, CallStep, OtherExit DEF ServeOthers
<1>4. CASE ServeEnter
  BY <1>0, <1>4, EnterStep
<1>5. CASE ServeOtelExit
  BY <1>0, <1>5, OtelExit
<1>6. CASE \E e \in {"error", "cancel"} : ServeEnterFails(e)
  BY <1>0, <1>6, CallStep DEF ServeEnterFails
<1>7. CASE UNCHANGED serverVars
  <2>1. UNCHANGED <<vars, phase, chosen, telemetry>>
    BY <1>7 DEF serverVars
  <2>2. Made' /\ Counted' /\ Chosen' /\ Flushed'
    BY <2>1 DEF vars, chosen, telemetry, SInv, Made, Counted, Unexited, Chosen, Contexts, Up,
       Flushed, Reached, KeepsHook
  <2>3. Reported'
    BY <2>1 DEF vars, chosen, telemetry, SInv, Reported, Raises, LastAnswer, Answered
  <2> QED
    BY <1>0, <2>2, <2>3 DEF SInv
<1> QED
  BY <1>1, <1>2, <1>3, <1>4, <1>5, <1>6, <1>7 DEF ServerNext, Serve

LEMMA ServerInvariance == ServerSpec => []SInv
BY InitSInv, NextSInv, PTL DEF ServerSpec

-----------------------------------------------------------------------------
\* The process and the wrapper in it keep to their types.
THEOREM ServerTyped == ServerSpec => []ServerTypeOK
<1>1. SInv => ServerTypeOK
  BY DEF SInv, IInv, Chosen, Made, Counted, ServerTypeOK
<1> QED
  BY ServerInvariance, <1>1, PTL

\* However the process ends, every provider is shut down, and once unless its
\* own shutdown() raised in the lifespan and left its hook (OtelPlugin's
\* docstring).
THEOREM OneShutDown == ServerSpec => []OnceUnlessItRaised
<1>1. SInv => OnceUnlessItRaised
  <2>1. SInv => \A s \in Provider : shut[s] \in 0 .. 2 /\ (shut[s] = 2 => s \in Reached \cap KeepsHook)
    BY DEF SInv, Counted
  <2> QED
    BY <2>1 DEF SInv, Chosen, OnceUnlessItRaised
<1> QED
  BY ServerInvariance, <1>1, PTL

\* The plugins declared behind OtelPlugin have telemetry until their contexts
\* are exited, wherever OtelPlugin stands.
THEOREM Outlives == ServerSpec => []TelemetryOutlives
<1>1. SInv => TelemetryOutlives
  <2> SUFFICES ASSUME SInv, phase = "serving", enabled, NEW c \in open, c > otel
               PROVE  Up = Provider
    BY DEF TelemetryOutlives
  <2>1. otel \in open
    <3>1. size \in Nat
      BY MaxContextsAssumption DEF SInv, IInv, TypeOK
    <3>2. otel \in Nat /\ 1 <= otel
      BY <3>1 DEF SInv, Chosen, Contexts
    <3> QED
      BY <3>2, OpenPrefix DEF SInv
  <2> QED
    BY <2>1 DEF SInv, Counted, Unexited, Made, Up, Provider
<1> QED
  BY ServerInvariance, <1>1, PTL

\* A shutdown that is reported complete has flushed the telemetry.
THEOREM Complete == ServerSpec => []CompleteMeansFlushed
<1>1. SInv => CompleteMeansFlushed
  <2> SUFFICES ASSUME SInv, LastAnswer("shutdown.complete"), entered, otel = 1 \/ broken = {}
               PROVE  Up = {}
    BY DEF CompleteMeansFlushed
  <2>1. open = {}
    BY DEF SInv, IInv, TypeOK, Held, Said, Busy, LastAnswer, Answered, Last, Contexts
  <2>2. CASE ~enabled
    BY <2>2 DEF SInv, Made, Up
  <2>3. CASE enabled
    <3>1. ~Raises
      BY <2>1, <2>3 DEF SInv, Reported, Raises
    <3>2. phase \in {"serving", "exited"}
      BY DEF SInv, Chosen
    <3>3. CASE phase = "serving"
      <4>1. Reached = 1 .. made
        <5>1. made = 3 /\ held = 3
          BY <2>3, <3>3 DEF SInv, Made
        <5>2. broken = {}
          BY <3>1, <5>1 DEF Raises, SInv, Chosen, Provider
        <5> QED
          BY <5>1, <5>2 DEF Reached
      <4> QED
        BY <2>1, <2>3, <4>1 DEF SInv, Flushed, Up
    <3>4. CASE phase = "exited"
      BY <3>4 DEF SInv, Chosen
    <3> QED
      BY <3>2, <3>3, <3>4
  <2> QED
    BY <2>2, <2>3 DEF SInv, Chosen
<1> QED
  BY ServerInvariance, <1>1, PTL
=============================================================================
