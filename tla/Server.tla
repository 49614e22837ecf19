------------------------------- MODULE Server -------------------------------
(***************************************************************************)
(* A server process whose plugins include OtelPlugin (plugins/otel.py):     *)
(* setup() runs its on_app_init, create_application (asgi.py) makes the     *)
(* lifespan wrapper over the lifespans of the plugins, the ASGI server runs *)
(* one lifespan call, and the interpreter exits.  The wrapper is Lifespan,  *)
(* whose actions are taken while the process serves.                        *)
(*                                                                          *)
(* The three telemetry providers are numbered as the plugin makes them: 1   *)
(* traces, 2 metrics, 3 logs.                                               *)
(***************************************************************************)
EXTENDS Lifespan

VARIABLES
    phase,      \* how far the process is
    otel,       \* the place of OtelPlugin's lifespan among the contexts
    enabled,    \* config.otel.enabled
    broken,     \* the providers whose shutdown() raises
    made,       \* how many providers were constructed ...
    held,       \* ... and how many the plugin holds
    entered,    \* whether OtelPlugin's lifespan was entered
    shut,       \* how often each provider was shut down
    hooks       \* the providers whose atexit hook is registered

telemetry == <<made, held, entered, shut, hooks>>
chosen == <<otel, enabled, broken>>
serverVars == <<vars, phase, chosen, telemetry>>

Provider == 1 .. 3
Up == {s \in 1 .. made : shut[s] = 0}

-----------------------------------------------------------------------------
ServerInit ==
    /\ Init
    /\ phase = "setup"
    /\ otel \in Contexts
    /\ enabled \in BOOLEAN
    /\ broken \in SUBSET Provider
    /\ made = 0
    /\ held = 0
    /\ entered = FALSE
    /\ shut = [s \in Provider |-> 0]
    /\ hooks = {}

\* setup() calls on_app_init, which does nothing unless telemetry is enabled.
OnAppInit ==
    /\ phase = "setup"
    /\ phase' = "ready"
    /\ IF enabled THEN made' = 3 /\ held' = 3 /\ hooks' = Provider
       ELSE UNCHANGED <<made, held, hooks>>
    /\ UNCHANGED <<vars, chosen, entered, shut>>

\* One of its steps raises, and setup() with it.  The exporter of the traces
\* and that of the logs are made when their provider is there already, the one
\* of the metrics is made before.
OnAppInitRaises(h, m) ==
    /\ phase = "setup"
    /\ enabled
    /\ \/ m = h
       \/ m = h + 1 /\ h # 1
    /\ phase' = "failed"
    /\ held' = h
    /\ made' = m
    /\ hooks' = 1 .. m
    /\ UNCHANGED <<vars, chosen, entered, shut>>

\* A hook of a later plugin raises, or Django cannot make its application.
CreationFails ==
    /\ phase = "ready"
    /\ phase' = "failed"
    /\ UNCHANGED <<vars, chosen, telemetry>>

CreateApplication ==
    /\ phase = "ready"
    /\ phase' = "serving"
    /\ UNCHANGED <<vars, chosen, telemetry>>

\* The steps of the wrapper that run no code of a plugin, or of another one.
ServeOthers ==
    /\ phase = "serving"
    /\ \/ Startup \/ Entered \/ Unwound \/ Shutdown \/ Closed \/ Unknown \/ ReceiveCancelled
       \/ \E x \in Exit : RunExit(x) /\ Popped(stack).next # otel
    /\ UNCHANGED <<phase, chosen, telemetry>>

\* A context is entered; OtelPlugin's instruments Django and requests.
ServeEnter ==
    /\ phase = "serving"
    /\ Enter
    /\ entered' = (entered \/ otel \in open')
    /\ UNCHANGED <<phase, chosen, made, held, shut, hooks>>

\* A context is not.  The instrumentation stands before the try of OtelPlugin's
\* lifespan: when it raises, nothing is shut down.
ServeEnterFails(e) ==
    /\ phase = "serving"
    /\ EnterFails(e)
    /\ e = "cancel" => Len(stack) + 1 # otel
    /\ UNCHANGED <<phase, chosen, telemetry>>

\* What shutdown() gets to: the providers up to the first one that raises.
Reached == {s \in 1 .. held : \A t \in broken : s <= t}
Raises == broken \cap 1 .. held # {}

\* The providers of traces and logs unregister their hook when their processors
\* have been shut down, that of metrics before it raises what its readers did.
KeepsHook == broken \ {2}

ShutDown(S) == [s \in Provider |-> IF s \in S THEN shut[s] + 1 ELSE shut[s]]
OtelShutDown ==
    /\ shut' = IF enabled THEN ShutDown(Reached) ELSE shut
    /\ hooks' = IF enabled THEN hooks \ (Reached \ KeepsHook) ELSE hooks

\* Mutants of ServeOtelExit: the shutdown stands behind the yield without a
\* finally; or also where the exception of another context arrives.
ServeOtelExitUnprotected ==
    /\ phase = "serving"
    /\ RunExit(IF enabled /\ pending = "none" /\ Raises THEN "error" ELSE "pass")
    /\ Popped(stack).next = otel
    /\ IF pending = "none" THEN OtelShutDown ELSE UNCHANGED <<shut, hooks>>
    /\ UNCHANGED <<phase, chosen, made, held, entered>>

ServeOtelExitAgain ==
    /\ phase = "serving"
    /\ RunExit(IF enabled /\ Raises THEN "error" ELSE "pass")
    /\ Popped(stack).next = otel
    /\ shut' = IF ~enabled THEN shut
               ELSE [s \in Provider |-> IF s \notin Reached THEN 0
                                       ELSE IF pending = "none" THEN 1 ELSE 2]
    /\ hooks' = IF enabled THEN hooks \ (Reached \ KeepsHook) ELSE hooks
    /\ UNCHANGED <<phase, chosen, made, held, entered>>

\* The lifespan of OtelPlugin is exited: it shuts the providers down, whatever
\* the exits before it raised.  It awaits nothing that could be cancelled.
ServeOtelExit ==
    /\ phase = "serving"
    /\ RunExit(IF enabled /\ Raises THEN "error" ELSE "pass")
    /\ Popped(stack).next = otel
    /\ OtelShutDown
    /\ UNCHANGED <<phase, chosen, made, held, entered>>

\* The interpreter exits: every hook that is still registered runs, whatever
\* another one raises.
ProcessExit ==
    /\ \/ phase = "failed"
       \/ phase = "serving" /\ pc \in {"returned", "raised"}
    /\ phase' = "exited"
    /\ shut' = ShutDown(hooks)
    /\ hooks' = {}
    /\ UNCHANGED <<vars, chosen, made, held, entered>>

Serve ==
    \/ ServeOthers \/ ServeEnter \/ ServeOtelExit
    \/ \E e \in {"error", "cancel"} : ServeEnterFails(e)

ServerNext ==
    \/ OnAppInit \/ CreationFails \/ CreateApplication \/ ProcessExit
    \/ \E h \in 0 .. 2, m \in Provider \cup {0} : OnAppInitRaises(h, m)
    \/ Serve

ServerSpec == ServerInit /\ [][ServerNext]_serverVars

\* The awaits of a startup and of a shutdown end, and the loop then goes on.
FairServerSpec == ServerSpec /\ WF_serverVars(Serve /\ Progress)

-----------------------------------------------------------------------------
\* Type invariant, of the process and of the wrapper in it.
ServerTypeOK ==
    /\ TypeOK
    /\ phase \in {"setup", "ready", "failed", "serving", "exited"}
    /\ otel \in Contexts
    /\ enabled \in BOOLEAN
    /\ broken \subseteq Provider
    /\ made \in 0 .. 3
    /\ held \in 0 .. made
    /\ entered \in BOOLEAN
    /\ shut \in [Provider -> Nat]
    /\ hooks \subseteq 1 .. made

\* "The two paths cannot double-run", and one of them does run: however the
\* process ended - a failed setup, a failed startup, an exit that raised - every
\* provider that was made has been shut down, and once (OtelPlugin's docstring).
\* The exception the docstring does not know: the provider at which the
\* plugin's shutdown() broke off, if it has kept its hook.
OnceUnlessItRaised ==
    /\ \A s \in Provider :
          shut[s] <= IF s \in Reached \cap KeepsHook THEN 2 ELSE 1
    /\ phase = "exited" => Up = {}

\* Plugins declared after OtelPlugin can still log and trace in their exits,
\* at the shutdown and when a startup is undone (OtelPlugin.__lifespan__ and
\* the order of the exit stack).
TelemetryOutlives ==
    phase = "serving" /\ enabled /\ (\E c \in open : c > otel) => Up = Provider

\* The server is told that the shutdown is complete only when no telemetry is
\* left in a provider, unless a context declared before OtelPlugin swallowed
\* what its shutdown() raised.
CompleteMeansFlushed ==
    LastAnswer("shutdown.complete") /\ entered /\ (otel = 1 \/ broken = {}) => Up = {}
=============================================================================
