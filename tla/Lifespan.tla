------------------------------ MODULE Lifespan ------------------------------
(***************************************************************************)
(* The ASGI lifespan wrapper (server/core/lifespan.py): one lifespan call,  *)
(* in which the server asks for a startup and later for a shutdown, and the *)
(* wrapper enters the context managers of the plugins in order and exits    *)
(* them in reverse through an AsyncExitStack.  Entering and exiting are     *)
(* awaits: each may succeed, raise, or be cut by the cancellation of the    *)
(* whole call.  The contexts are 1 .. size, in the order of declaration.    *)
(***************************************************************************)
EXTENDS Naturals, Sequences, SequencesExt

CONSTANT MaxContexts
ASSUME MaxContextsAssumption == MaxContexts \in Nat

VARIABLES
    size,      \* how many lifespans the wrapper was built with
    pc,        \* where the call is
    stack,     \* the AsyncExitStack at work, the oldest context first
    kept,      \* self._stack, empty for None
    started,   \* the local flag of __call__
    cause,     \* the exception that stopped the startup
    pending,   \* the exception the exit stack is carrying
    open,      \* the contexts that were entered and not exited
    sent       \* the answers to the server

vars == <<size, pc, stack, kept, started, cause, pending, open, sent>>

Exception == {"none", "error", "cancel"}
\* What an exit does with the exception that is pending: it lets it pass, it
\* swallows it (__exit__ returns true), or it raises one of its own.
Exit == {"pass", "swallow", "error", "cancel"}
Answer == {"startup.complete", "startup.failed", "shutdown.complete"}

Contexts == 1 .. size
Answered == sent # <<>>
LastAnswer(a) == Answered /\ Last(sent) = a

-----------------------------------------------------------------------------
Init ==
    /\ size \in 0 .. MaxContexts
    /\ pc = "receive"
    /\ stack = <<>>
    /\ kept = <<>>
    /\ started = FALSE
    /\ cause = "none"
    /\ pending = "none"
    /\ open = {}
    /\ sent = <<>>

\* The server asks for the startup, once and before any other message.
Startup ==
    /\ pc = "receive"
    /\ ~Answered
    /\ pc' = "enter"
    /\ UNCHANGED <<size, stack, kept, started, cause, pending, open, sent>>

\* The next factory is called and its context entered.
Enter ==
    /\ pc = "enter"
    /\ Len(stack) < size
    /\ stack' = Append(stack, Len(stack) + 1)
    /\ open' = open \cup {Len(stack) + 1}
    /\ UNCHANGED <<size, pc, kept, started, cause, pending, sent>>

\* Mutants of EnterFails: only an Exception unwinds the stack, a cancelled
\* startup leaves it; or the stack is dropped without being closed.
EnterFailsUncaught(e) ==
    /\ pc = "enter"
    /\ Len(stack) < size
    /\ cause' = e
    /\ pc' = IF e = "error" THEN "unwind" ELSE "raised"
    /\ UNCHANGED <<size, stack, kept, started, pending, open, sent>>

EnterFailsUnclosed(e) ==
    /\ pc = "enter"
    /\ Len(stack) < size
    /\ cause' = e
    /\ pc' = "unwind"
    /\ stack' = <<>>
    /\ UNCHANGED <<size, kept, started, pending, open, sent>>

\* A factory or an __enter__ raises, or the call is cancelled in its await.
EnterFails(e) ==
    /\ pc = "enter"
    /\ Len(stack) < size
    /\ cause' = e
    /\ pc' = "unwind"
    /\ UNCHANGED <<size, stack, kept, started, pending, open, sent>>

\* Every context is open: the stack is kept and the server told.
Entered ==
    /\ pc = "enter"
    /\ Len(stack) = size
    /\ kept' = stack
    /\ stack' = <<>>
    /\ started' = TRUE
    /\ sent' = Append(sent, "startup.complete")
    /\ pc' = "receive"
    /\ UNCHANGED <<size, cause, pending, open>>

\* Mutant of Popped: the stack is closed in the order it was filled.
PoppedOldest(s) == [next |-> Head(s), left |-> Tail(s)]

\* The callback the exit stack pops, and what stays on it.
Popped(s) == [next |-> Last(s), left |-> Front(s)]

\* One step of AsyncExitStack.aclose(): a context is exited, whatever the
\* exits before it raised.
RunExit(x) ==
    /\ pc \in {"unwind", "close"}
    /\ stack # <<>>
    /\ stack' = Popped(stack).left
    /\ open' = open \ {Popped(stack).next}
    /\ pending' = CASE x = "pass"    -> pending
                    [] x = "swallow" -> "none"
                    [] OTHER         -> x
    /\ UNCHANGED <<size, pc, kept, started, cause, sent>>

\* Mutant of Failure: an exception of an exit is not taken for the failure.
FailureOfExitEscapes == IF pending # "none" THEN "cancel" ELSE cause

\* The exception that leaves _startup: the one aclose() raises, if any, and
\* the first one again otherwise.
Failure == IF pending # "none" THEN pending ELSE cause

\* __call__ reports an Exception to the server; a cancellation passes through.
Unwound ==
    /\ pc = "unwind"
    /\ stack = <<>>
    /\ IF Failure = "cancel"
       THEN pc' = "raised" /\ UNCHANGED sent
       ELSE pc' = "returned" /\ sent' = Append(sent, "startup.failed")
    /\ UNCHANGED <<size, stack, kept, started, cause, pending, open>>

\* The server asks for the shutdown: the kept stack is taken and closed, or
\* there was no startup and nothing is to be closed.
Shutdown ==
    /\ pc = "receive"
    /\ IF started
       THEN pc' = "close" /\ stack' = kept /\ kept' = <<>> /\ UNCHANGED sent
       ELSE /\ pc' = "returned"
            /\ sent' = Append(sent, "shutdown.complete")
            /\ UNCHANGED <<stack, kept>>
    /\ UNCHANGED <<size, started, cause, pending, open>>

\* The stack is closed.  An exception it raises leaves __call__ unanswered.
Closed ==
    /\ pc = "close"
    /\ stack = <<>>
    /\ IF pending = "none"
       THEN pc' = "returned" /\ sent' = Append(sent, "shutdown.complete")
       ELSE pc' = "raised" /\ UNCHANGED sent
    /\ UNCHANGED <<size, stack, kept, started, cause, pending, open>>

\* A message of an unknown type ends the call, a cancellation of receive() too.
Unknown ==
    /\ pc = "receive"
    /\ pc' = "returned"
    /\ UNCHANGED <<size, stack, kept, started, cause, pending, open, sent>>

ReceiveCancelled ==
    /\ pc = "receive"
    /\ pc' = "raised"
    /\ UNCHANGED <<size, stack, kept, started, cause, pending, open, sent>>

Next ==
    \/ Startup \/ Enter \/ Entered \/ Unwound
    \/ \E e \in {"error", "cancel"} : EnterFails(e)
    \/ \E x \in Exit : RunExit(x)
    \/ Shutdown \/ Closed \/ Unknown \/ ReceiveCancelled

Spec == Init /\ [][Next]_vars

\* The awaits of a startup and of a shutdown end, and the loop then goes on.
Progress ==
    \/ Enter \/ Entered \/ Unwound \/ Closed
    \/ \E x \in Exit : RunExit(x)

-----------------------------------------------------------------------------
\* Type invariant: the stacks list contexts of this wrapper, and every state
\* variable has the values the code gives it.
TypeOK ==
    /\ size \in 0 .. MaxContexts
    /\ pc \in {"receive", "enter", "unwind", "close", "returned", "raised"}
    /\ stack \in Seq(Contexts)
    /\ kept \in Seq(Contexts)
    /\ started \in BOOLEAN
    /\ cause \in Exception
    /\ pending \in Exception
    /\ open \subseteq Contexts
    /\ sent \in Seq(Answer)

\* What the wrapper tells the server is true of the resources: after
\* startup.complete, and until the shutdown is asked for, every context is
\* open; after startup.failed or shutdown.complete none is
\* (LifespanWrapper.__call__).
AnswersAreTrue ==
    /\ LastAnswer("startup.complete") /\ pc = "receive" => open = Contexts
    /\ LastAnswer("startup.failed") => open = {}
    /\ LastAnswer("shutdown.complete") => open = {}

\* However the call ends - a failed or cancelled startup, an exit that raises
\* in the middle of the others - no context stays open that self._stack has
\* forgotten (LifespanWrapper._startup, _shutdown).
NothingLeaks == pc \in {"returned", "raised"} => open = {kept[i] : i \in DOMAIN kept}

\* Contexts are exited one at a time, each before all those that were entered
\* before it (the class docstring: "exited in reverse").
ReverseOrder ==
    [][ \A c \in open \ open' : \A d \in open : d <= c ]_vars

\* A server that asked for a startup gets an answer, whatever raises in the
\* enters and in the exits that undo them, unless the call is cancelled.
StartupIsAnswered ==
    pc = "enter" ~> Answered \/ cause = "cancel" \/ pending = "cancel"
=============================================================================
