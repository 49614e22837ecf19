------------------------------ MODULE Assembly ------------------------------
(***************************************************************************)
(* The composition root (server/setup.py, AppConfigCore) and the            *)
(* applications made from it (asgi.py).  A process builds several roots:    *)
(* the command line builds one and the ASGI factory it starts another.  The *)
(* first setup() configures Django, runs the hooks of its plugins in the    *)
(* order they were registered and collects their lifespans; every later     *)
(* one, in a process whose settings are configured, adopts that root.       *)
(*                                                                          *)
(* There is one thread, but a setup is not atomic: it may raise at every    *)
(* step and be tried again, and while it runs django.setup() or a hook, the *)
(* code it calls may build and set up another root.                         *)
(***************************************************************************)
EXTENDS Naturals, Sequences, SequencesExt

CONSTANTS
    Root,           \* the AppConfigCore objects of the process
    NoRoot,         \* None
    Plugin,         \* the plugins there are, by name
    Facet,          \* Facet[p]: what plugin p implements
    MaxPlugins      \* how many plugins a root is given

Hooks == <<"app", "cli", "lifespan">>

ASSUME NoRootAssumption == NoRoot \notin Root
ASSUME FacetAssumption == Facet \in [Plugin -> SUBSET {"app", "cli", "lifespan"}]
ASSUME MaxPluginsAssumption == MaxPlugins \in Nat

VARIABLES
    configured,     \* django.conf.settings.configured
    assembled,      \* AppConfigCore._assembled
    core,           \* the fields of each root, and where its setup() is
    lifespans,      \* the lifespans of the AssemblyContext each root made
    called,         \* the hooks that were called, in order
    app,            \* the lifespans of the application made from each root
    cut             \* the roots whose last assembly was cut short by an exception

vars == <<configured, assembled, core, lifespans, called, app, cut>>

Registration == SeqOf(Plugin, MaxPlugins)

\* Mutant of Runs: the tests of the facets exclude one another.
RunsOne(p, k) == Hooks[k] \in Facet[p] /\ \A j \in 1 .. k - 1 : Hooks[j] \notin Facet[p]

\* The k-th test that setup() makes of a plugin: does it have on_app_init,
\* on_cli_init, __lifespan__?
Runs(p, k) == Hooks[k] \in Facet[p]

\* The loop of setup() over the plugins: it is at test at[2] of plugin at[1].
Start == <<1, 1>>
After(at) == IF at[2] < Len(Hooks) THEN <<at[1], at[2] + 1>> ELSE <<at[1] + 1, 1>>

\* What setup() calls next for the root r, if it is anything.
PluginOf(r) == core[r].plugins[core[r].at[1]]
HookOf(r) == Hooks[core[r].at[2]]
Looping(r) == core[r].pc = "hooks" /\ core[r].at[1] <= Len(core[r].plugins)
Due(r) == Looping(r) /\ Runs(PluginOf(r), core[r].at[2])

\* Code outside a root runs, unless a root is between the test of
\* settings.configured and settings.configure().
Idle == \A r \in Root : core[r].pc # "building"

-----------------------------------------------------------------------------
Init ==
    /\ configured = FALSE
    /\ assembled = NoRoot
    /\ core = [r \in Root |->
                 [pc |-> "unborn", plugins |-> <<>>, assembly |-> NoRoot, at |-> Start]]
    /\ lifespans = [r \in Root |-> <<>>]
    /\ called = <<>>
    /\ app = [r \in Root |-> <<>>]
    /\ cut = {}

\* Mutant of Construct: the registry takes a name twice.
ConstructUnchecked(r, ps) ==
    /\ core[r].pc = "unborn" /\ Idle
    /\ core' = [core EXCEPT ![r].plugins = ps, ![r].pc = "new"]
    /\ UNCHANGED <<configured, assembled, lifespans, called, app, cut>>

\* AppConfigCore(*plugins): two plugins of one name raise DuplicatePluginError.
Construct(r, ps) ==
    /\ core[r].pc = "unborn" /\ Idle
    /\ core' = [core EXCEPT ![r].plugins = ps,
                            ![r].pc = IF IsInjective(ps) THEN "new" ELSE "refused"]
    /\ UNCHANGED <<configured, assembled, lifespans, called, app, cut>>

\* Django is configured by someone else, the test runner for one.
ConfiguredElsewhere ==
    /\ ~configured /\ Idle
    /\ configured' = TRUE
    /\ UNCHANGED <<assembled, core, lifespans, called, app, cut>>

\* Mutant of Adopted: the registry of the assembled root is not taken over.
AdoptedAssembly(r) ==
    IF assembled \in {NoRoot, r} THEN core[r]
    ELSE [core[r] EXCEPT !.assembly = core[assembled].assembly]

\* What _adopt_assembled makes of the fields of r.
Adopted(r) ==
    IF assembled \in {NoRoot, r} THEN core[r]
    ELSE [core[r] EXCEPT !.plugins = core[assembled].plugins,
                         !.assembly = core[assembled].assembly]

\* setup() in a configured process.
Adopt(r) ==
    /\ core[r].pc \in {"new", "returned", "failed"} /\ Idle
    /\ configured
    /\ core' = [core EXCEPT ![r] = [Adopted(r) EXCEPT !.pc = "returned"]]
    /\ UNCHANGED <<configured, assembled, lifespans, called, app, cut>>

\* setup() in a process that is not: the root is published, then assembled.
Begin(r) ==
    /\ core[r].pc \in {"new", "failed"} /\ Idle
    /\ ~configured
    /\ assembled' = r
    /\ core' = [core EXCEPT ![r].pc = "building", ![r].assembly = r]
    /\ lifespans' = [lifespans EXCEPT ![r] = <<>>]
    /\ cut' = cut \ {r}
    /\ UNCHANGED <<configured, called, app>>

\* The settings are built and Django configured with them.
Configure(r) ==
    /\ core[r].pc = "building"
    /\ configured' = TRUE
    /\ core' = [core EXCEPT ![r].pc = "django"]
    /\ UNCHANGED <<assembled, lifespans, called, app, cut>>

\* django.setup() is over.
DjangoReady(r) ==
    /\ core[r].pc = "django"
    /\ core' = [core EXCEPT ![r].pc = "hooks", ![r].at = Start]
    /\ UNCHANGED <<configured, assembled, lifespans, called, app, cut>>

\* The next test: the hook it finds returns; a lifespan is only collected.
RunHook(r) ==
    /\ Looping(r)
    /\ lifespans' = IF Due(r) /\ HookOf(r) = "lifespan"
                    THEN [lifespans EXCEPT ![core[r].assembly] = Append(@, PluginOf(r))]
                    ELSE lifespans
    /\ called' = IF Due(r) /\ HookOf(r) # "lifespan"
                 THEN Append(called, <<PluginOf(r), HookOf(r)>>)
                 ELSE called
    /\ core' = [core EXCEPT ![r].at = After(@)]
    /\ UNCHANGED <<configured, assembled, app, cut>>

\* setup() raises: the settings are refused (a reserved key, a redelivery
\* ladder too short), django.setup() fails, or a hook raises (PluginSetupError).
SetupRaises(r) ==
    /\ \/ core[r].pc \in {"building", "django"} /\ UNCHANGED called
       \/ /\ Due(r) /\ HookOf(r) # "lifespan"
          /\ called' = Append(called, <<PluginOf(r), HookOf(r)>>)
    /\ core' = [core EXCEPT ![r].pc = "failed", ![r].at = Start]
    /\ cut' = cut \cup {r}
    /\ UNCHANGED <<configured, assembled, lifespans, app>>

Return(r) ==
    /\ core[r].pc = "hooks" /\ ~Looping(r)
    /\ core' = [core EXCEPT ![r].pc = "returned", ![r].at = Start]
    /\ UNCHANGED <<configured, assembled, lifespans, called, app, cut>>

\* The lifespans of the assembly a root holds.
Collected(r) ==
    IF core[r].assembly = NoRoot THEN <<>> ELSE lifespans[core[r].assembly]

\* create_application(), once setup() has returned: the wrapper gets a copy of
\* the list as it is now.
Create(r) ==
    /\ core[r].pc = "returned" /\ Idle
    /\ core' = [core EXCEPT ![r].pc = "serving"]
    /\ app' = [app EXCEPT ![r] = Collected(r)]
    /\ UNCHANGED <<configured, assembled, lifespans, called, cut>>

Next ==
    \/ ConfiguredElsewhere
    \/ \E r \in Root :
        \/ \E ps \in Registration : Construct(r, ps)
        \/ Adopt(r) \/ Begin(r) \/ Configure(r) \/ DjangoReady(r)
        \/ RunHook(r) \/ SetupRaises(r) \/ Return(r) \/ Create(r)

Spec == Init /\ [][Next]_vars

-----------------------------------------------------------------------------
PC == {"unborn", "refused", "new", "building", "django", "hooks", "returned",
       "serving", "failed"}

SetUp(r) == core[r].pc \in {"returned", "serving"}

\* Type invariant: and a root that is being set up has a context of its own.
TypeOK ==
    /\ configured \in BOOLEAN
    /\ assembled \in Root \cup {NoRoot}
    /\ core \in [Root -> [pc : PC, plugins : Seq(Plugin), assembly : Root \cup {NoRoot},
                          at : (Nat \ {0}) \X DOMAIN Hooks]]
    /\ \A r \in Root :
        core[r].pc \in {"building", "django", "hooks"} => core[r].assembly = r
    /\ lifespans \in [Root -> Seq(Plugin)]
    /\ called \in Seq(Plugin \X {"app", "cli"})
    /\ app \in [Root -> Seq(Plugin)]
    /\ cut \subseteq Root

\* Whatever failed, was retried or was adopted in the middle, the roots whose
\* setup() returned agree: one assembly and one registry per process
\* (_adopt_assembled).
OneAssembly ==
    \A r, s \in Root : SetUp(r) /\ SetUp(s) =>
        /\ core[r].assembly = core[s].assembly
        /\ core[r].assembly # NoRoot => core[r].plugins = core[s].plugins

\* No hook of a plugin is called twice in a process: its registrations in the
\* container and on the command group would collide (setup, PluginRegistry).
HookedOnce == IsInjective(called)

\* An application is made from an assembled root, and not from within a setup.
Created(r) ==
    /\ core[r].pc = "returned" /\ core'[r].pc = "serving"
    /\ core[r].assembly # NoRoot
    /\ \A s \in Root : core[s].pc \notin {"django", "hooks"}

\* The lifespans of the plugins ps, each once and in the order of ps.
Follows(ls, ps) ==
    /\ IsInjective(ls)
    /\ ToSet(ls) = {p \in ToSet(ps) : "lifespan" \in Facet[p]}
    /\ \A i, j \in DOMAIN ls, m, n \in DOMAIN ps :
          ls[i] = ps[m] /\ ls[j] = ps[n] /\ m < n => i < j

\* Unless the setup that assembled the process raised, an application made from
\* any root has the lifespans of every plugin of that root, in the order of
\* registration (setup, _adopt_assembled, create_application).
ApplicationsFollowRegistry ==
    [][ \A r \in Root : Created(r) /\ core[r].assembly \notin cut =>
            Follows(app'[r], core[r].plugins) ]_vars
=============================================================================
