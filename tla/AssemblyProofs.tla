--------------------------- MODULE AssemblyProofs ---------------------------
(***************************************************************************)
(* For every number of roots, any plugins and facets, and whatever fails,   *)
(* is tried again or adopted in the middle: the roots of a process agree on *)
(* one assembly, no hook of a plugin is called twice, and the applications  *)
(* have the lifespans of their registry.  For any command line: the worker  *)
(* gets the concurrency the operator chose or the quota of its tier.        *)
(***************************************************************************)
EXTENDS CeleryWorker, FiniteSetTheorems, SequenceTheorems, WellFoundedInduction, TLAPS

-----------------------------------------------------------------------------
(* Type correctness                                                         *)

Building == {"building", "django", "hooks"}

CoreType == [pc : PC, plugins : Seq(Plugin), assembly : Root \cup {NoRoot},
             at : (Nat \ {0}) \X DOMAIN Hooks]

LEMMA HooksAre ==
    /\ DOMAIN Hooks = 1 .. 3 /\ Len(Hooks) = 3
    /\ Hooks[1] = "app" /\ Hooks[2] = "cli" /\ Hooks[3] = "lifespan"
BY DEF Hooks

LEMMA RegistrationType ==
    ASSUME NEW ps \in Registration
    PROVE  ps \in Seq(Plugin)
<1>1. PICK m \in 0 .. MaxPlugins : ps \in [1 .. m -> Plugin]
  BY MaxPluginsAssumption DEF Registration, SeqOf
<1> QED
  BY <1>1

\* What the loop is at, and where it goes.
LEMMA LoopType ==
    ASSUME TypeOK, NEW r \in Root
    PROVE  /\ core[r].at \in (Nat \ {0}) \X (1 .. 3)
           /\ After(core[r].at) \in (Nat \ {0}) \X (1 .. 3)
           /\ Start \in (Nat \ {0}) \X (1 .. 3)
           /\ Looping(r) => /\ PluginOf(r) \in Plugin
                            /\ core[r].at[1] \in DOMAIN core[r].plugins
           /\ HookOf(r) \in {"app", "cli", "lifespan"}
<1>1. core[r] \in CoreType
  BY DEF TypeOK, CoreType
<1>2. core[r].at \in (Nat \ {0}) \X (1 .. 3) /\ core[r].plugins \in Seq(Plugin)
  BY <1>1, HooksAre DEF CoreType
<1>3. After(core[r].at) \in (Nat \ {0}) \X (1 .. 3) /\ Start \in (Nat \ {0}) \X (1 .. 3)
  BY <1>2, HooksAre DEF After, Start
<1>4. Looping(r) => core[r].at[1] \in 1 .. Len(core[r].plugins)
  BY <1>2 DEF Looping
<1>5. Looping(r) => PluginOf(r) \in Plugin
  BY <1>2, <1>4, ElementOfSeq DEF PluginOf
<1>6. HookOf(r) \in {"app", "cli", "lifespan"}
  BY <1>2, HooksAre DEF HookOf
<1> QED
  BY <1>2, <1>3, <1>4, <1>5, <1>6

\* What a step makes of the fields of a root.
Moved(r, pc, plugins, assembly, at) ==
    /\ core'[r].pc = pc /\ core'[r].plugins = plugins
    /\ core'[r].assembly = assembly /\ core'[r].at = at
    /\ \A s \in Root : s # r => core'[s] = core[s]

\* The types of the fields it leaves alone.
LEMMA Fields ==
    ASSUME TypeOK, NEW r \in Root
    PROVE  /\ core \in [Root -> CoreType]
           /\ core[r].pc \in PC /\ core[r].plugins \in Seq(Plugin)
           /\ core[r].assembly \in Root \cup {NoRoot}
           /\ core[r].at \in (Nat \ {0}) \X (1 .. 3)
<1>1. core \in [Root -> CoreType]
  BY DEF TypeOK, CoreType
<1> QED
  BY <1>1, HooksAre DEF CoreType

LEMMA ConstructMoves ==
    ASSUME TypeOK, NEW r \in Root, NEW ps, Construct(r, ps)
    PROVE  Moved(r, IF IsInjective(ps) THEN "new" ELSE "refused", ps, core[r].assembly, core[r].at)
BY Fields DEF Construct, Moved, CoreType

LEMMA AdoptMoves ==
    ASSUME TypeOK, NEW r \in Root, Adopt(r)
    PROVE  Moved(r, "returned", Adopted(r).plugins, Adopted(r).assembly, core[r].at)
BY Fields DEF Adopt, Moved, CoreType, Adopted

LEMMA BeginMoves ==
    ASSUME TypeOK, NEW r \in Root, Begin(r)
    PROVE  Moved(r, "building", core[r].plugins, r, core[r].at)
BY Fields DEF Begin, Moved, CoreType

LEMMA ConfigureMoves ==
    ASSUME TypeOK, NEW r \in Root, Configure(r)
    PROVE  Moved(r, "django", core[r].plugins, core[r].assembly, core[r].at)
BY Fields DEF Configure, Moved, CoreType

LEMMA ReadyMoves ==
    ASSUME TypeOK, NEW r \in Root, DjangoReady(r)
    PROVE  Moved(r, "hooks", core[r].plugins, core[r].assembly, Start)
BY Fields DEF DjangoReady, Moved, CoreType

LEMMA HookMoves ==
    ASSUME TypeOK, NEW r \in Root, RunHook(r)
    PROVE  Moved(r, "hooks", core[r].plugins, core[r].assembly, After(core[r].at))
BY Fields DEF RunHook, Moved, CoreType, Looping

LEMMA RaiseMoves ==
    ASSUME TypeOK, NEW r \in Root, SetupRaises(r)
    PROVE  Moved(r, "failed", core[r].plugins, core[r].assembly, Start)
BY Fields DEF SetupRaises, Moved, CoreType

LEMMA ReturnMoves ==
    ASSUME TypeOK, NEW r \in Root, Return(r)
    PROVE  Moved(r, "returned", core[r].plugins, core[r].assembly, Start)
BY Fields DEF Return, Moved, CoreType

LEMMA CreateMoves ==
    ASSUME TypeOK, NEW r \in Root, Create(r)
    PROVE  Moved(r, "serving", core[r].plugins, core[r].assembly, core[r].at)
BY Fields DEF Create, Moved, CoreType

\* One field of one root, or two.
LEMMA OneField ==
    ASSUME NEW f \in [Root -> CoreType], NEW r \in Root
    PROVE  /\ \A pc \in PC : [f EXCEPT ![r].pc = pc] \in [Root -> CoreType]
           /\ \A ps \in Seq(Plugin) : [f EXCEPT ![r].plugins = ps] \in [Root -> CoreType]
           /\ \A a \in Root \cup {NoRoot} : [f EXCEPT ![r].assembly = a] \in [Root -> CoreType]
           /\ \A at \in (Nat \ {0}) \X (1 .. 3) : [f EXCEPT ![r].at = at] \in [Root -> CoreType]
<1>1. \A pc \in PC : [f EXCEPT ![r].pc = pc] \in [Root -> CoreType]
  BY DEF CoreType
<1>2. \A ps \in Seq(Plugin) : [f EXCEPT ![r].plugins = ps] \in [Root -> CoreType]
  BY DEF CoreType
<1>3. \A a \in Root \cup {NoRoot} : [f EXCEPT ![r].assembly = a] \in [Root -> CoreType]
  BY DEF CoreType
<1>4. \A at \in (Nat \ {0}) \X (1 .. 3) : [f EXCEPT ![r].at = at] \in [Root -> CoreType]
  BY HooksAre DEF CoreType
<1> QED
  BY <1>1, <1>2, <1>3, <1>4

LEMMA TwoFields ==
    ASSUME TypeOK, NEW r \in Root, NEW pc \in PC
    PROVE  /\ \A at \in (Nat \ {0}) \X (1 .. 3) :
                 [core EXCEPT ![r].pc = pc, ![r].at = at] \in [Root -> CoreType]
           /\ \A a \in Root \cup {NoRoot} :
                 [core EXCEPT ![r].pc = pc, ![r].assembly = a] \in [Root -> CoreType]
           /\ \A ps \in Seq(Plugin) :
                 [core EXCEPT ![r].plugins = ps, ![r].pc = pc] \in [Root -> CoreType]
<1>1. PICK f : f = [core EXCEPT ![r].pc = pc]
  OBVIOUS
<1>2. f \in [Root -> CoreType]
  BY <1>1, Fields, OneField
<1>3. ASSUME NEW at \in (Nat \ {0}) \X (1 .. 3)
      PROVE  [core EXCEPT ![r].pc = pc, ![r].at = at] \in [Root -> CoreType]
  BY <1>1, <1>2, OneField
<1>4. ASSUME NEW a \in Root \cup {NoRoot}
      PROVE  [core EXCEPT ![r].pc = pc, ![r].assembly = a] \in [Root -> CoreType]
  BY <1>1, <1>2, OneField
<1>5. ASSUME NEW ps \in Seq(Plugin)
      PROVE  [core EXCEPT ![r].plugins = ps, ![r].pc = pc] \in [Root -> CoreType]
  <2>1. PICK g : g = [core EXCEPT ![r].plugins = ps]
    OBVIOUS
  <2>2. g \in [Root -> CoreType]
    BY <2>1, Fields, OneField
  <2> QED
    BY <2>1, <2>2, OneField
<1> QED
  BY <1>3, <1>4, <1>5

LEMMA CoreNext ==
    ASSUME TypeOK, Next
    PROVE  core' \in [Root -> CoreType]
<1>1. CASE ConfiguredElsewhere
  BY <1>1 DEF ConfiguredElsewhere, TypeOK, CoreType
<1>2. ASSUME NEW r \in Root, NEW ps \in Registration, Construct(r, ps)
      PROVE  core' \in [Root -> CoreType]
  BY <1>2, RegistrationType, TwoFields DEF Construct, PC
<1>3. ASSUME NEW r \in Root, Adopt(r)
      PROVE  core' \in [Root -> CoreType]
  <2>1. Adopted(r) \in CoreType
    <3>1. assembled \in Root \cup {NoRoot}
      BY DEF TypeOK
    <3>2. CASE assembled \in {NoRoot, r}
      BY <3>2, Fields DEF Adopted
    <3>3. CASE assembled \notin {NoRoot, r}
      <4>1. PICK c \in CoreType, d \in CoreType : c = core[r] /\ d = core[assembled]
        BY <3>1, <3>3, Fields
      <4>2. [c EXCEPT !.plugins = d.plugins, !.assembly = d.assembly] \in CoreType
        BY DEF CoreType
      <4> QED
        BY <3>3, <4>1, <4>2 DEF Adopted
    <3> QED
      BY <3>2, <3>3
  <2>2. PICK c \in CoreType : c = Adopted(r)
    BY <2>1
  <2>3. [c EXCEPT !.pc = "returned"] \in CoreType
    BY DEF CoreType, PC
  <2>4. core' = [core EXCEPT ![r] = [c EXCEPT !.pc = "returned"]]
    BY <1>3, <2>2 DEF Adopt
  <2> QED
    BY <2>3, <2>4, Fields
<1>4. ASSUME NEW r \in Root, Begin(r)
      PROVE  core' \in [Root -> CoreType]
  <2>1. "building" \in PC /\ r \in Root \cup {NoRoot}
    BY DEF PC
  <2> QED
    BY <1>4, <2>1, TwoFields DEF Begin
<1>5. ASSUME NEW r \in Root, Configure(r) \/ Create(r)
      PROVE  core' \in [Root -> CoreType]
  <2>1. {"django", "serving"} \subseteq PC
    BY DEF PC
  <2> QED
    BY <1>5, <2>1, Fields, OneField DEF Configure, Create
<1>6. ASSUME NEW r \in Root, DjangoReady(r) \/ SetupRaises(r) \/ Return(r)
      PROVE  core' \in [Root -> CoreType]
  <2>1. {"hooks", "failed", "returned"} \subseteq PC
    BY DEF PC
  <2>2. Start \in (Nat \ {0}) \X (1 .. 3)
    BY LoopType
  <2>3. ASSUME NEW pc \in PC
        PROVE  [core EXCEPT ![r].pc = pc, ![r].at = Start] \in [Root -> CoreType]
    BY <2>2, TwoFields
  <2>4. CASE DjangoReady(r)
    BY <2>1, <2>3, <2>4 DEF DjangoReady
  <2>5. CASE SetupRaises(r)
    BY <2>1, <2>3, <2>5 DEF SetupRaises
  <2>6. CASE Return(r)
    BY <2>1, <2>3, <2>6 DEF Return
  <2> QED
    BY <1>6, <2>4, <2>5, <2>6
<1>7. ASSUME NEW r \in Root, RunHook(r)
      PROVE  core' \in [Root -> CoreType]
  <2>1. core' = [core EXCEPT ![r].at = After(core[r].at)]
    BY <1>7 DEF RunHook
  <2> QED
    BY <2>1, Fields, LoopType, OneField
<1> QED
  BY <1>1, <1>2, <1>3, <1>4, <1>5, <1>6, <1>7 DEF Next

LEMMA AssemblyTypeNext ==
    ASSUME TypeOK, [Next]_vars
    PROVE  TypeOK'
<1>1. CASE UNCHANGED vars
  BY <1>1 DEF TypeOK, vars
<1>2. ASSUME Next
      PROVE  TypeOK'
  <2>1. core' \in [Root -> CoreType]
    BY <1>2, CoreNext
  <2>2. \A r \in Root : core'[r].pc \in Building => core'[r].assembly = r
    <3> SUFFICES ASSUME NEW s \in Root, core'[s].pc \in Building
                 PROVE  core'[s].assembly = s
      OBVIOUS
    <3>1. core[s].pc \in Building => core[s].assembly = s
      BY DEF TypeOK, Building
    <3>2. CASE ConfiguredElsewhere
      BY <3>1, <3>2 DEF ConfiguredElsewhere
    <3>3. ASSUME NEW r \in Root, NEW ps \in Registration, Construct(r, ps)
          PROVE  core'[s].assembly = s
      BY <3>1, <3>3, ConstructMoves DEF Moved, Building
    <3>4. ASSUME NEW r \in Root, Adopt(r) \/ SetupRaises(r) \/ Return(r) \/ Create(r)
          PROVE  core'[s].assembly = s
      BY <3>1, <3>4, AdoptMoves, RaiseMoves, ReturnMoves, CreateMoves DEF Moved, Building
    <3>5. ASSUME NEW r \in Root, Begin(r) \/ Configure(r) \/ DjangoReady(r) \/ RunHook(r)
          PROVE  core'[s].assembly = s
      BY <3>1, <3>5, BeginMoves, ConfigureMoves, ReadyMoves, HookMoves
         DEF Moved, Building, Configure, DjangoReady, RunHook, Looping
    <3> QED
      BY <1>2, <3>2, <3>3, <3>4, <3>5 DEF Next
  <2>3. assembled' \in Root \cup {NoRoot} /\ configured' \in BOOLEAN /\ cut' \subseteq Root
    BY <1>2 DEF TypeOK, Next, ConfiguredElsewhere, Construct, Adopt, Begin, Configure,
                DjangoReady, RunHook, SetupRaises, Return, Create
  <2>4. lifespans' \in [Root -> Seq(Plugin)] /\ called' \in Seq(Plugin \X {"app", "cli"})
    <3>1. lifespans \in [Root -> Seq(Plugin)] /\ called \in Seq(Plugin \X {"app", "cli"})
      BY DEF TypeOK
    <3>2. CASE UNCHANGED <<lifespans, called>>
      BY <3>1, <3>2
    <3>3. ASSUME NEW r \in Root, Begin(r)
          PROVE  lifespans' \in [Root -> Seq(Plugin)] /\ UNCHANGED called
      BY <3>1, <3>3 DEF Begin
    <3>4. ASSUME NEW r \in Root, RunHook(r)
          PROVE  lifespans' \in [Root -> Seq(Plugin)] /\ called' \in Seq(Plugin \X {"app", "cli"})
      <4>1. PluginOf(r) \in Plugin /\ HookOf(r) \in {"app", "cli", "lifespan"}
        BY <3>4, LoopType DEF RunHook
      <4>2. lifespans' = lifespans
              \/ lifespans' = [lifespans EXCEPT ![core[r].assembly] =
                                 Append(lifespans[core[r].assembly], PluginOf(r))]
        BY <3>4 DEF RunHook
      <4>3. HookOf(r) # "lifespan" => <<PluginOf(r), HookOf(r)>> \in Plugin \X {"app", "cli"}
        BY <4>1
      <4>4. \/ called' = called
            \/ /\ HookOf(r) # "lifespan"
               /\ called' = Append(called, <<PluginOf(r), HookOf(r)>>)
        BY <3>4 DEF RunHook
      <4>a. core[r].assembly \in Root
        BY <3>4 DEF RunHook, Looping, TypeOK
      <4>b. Append(lifespans[core[r].assembly], PluginOf(r)) \in Seq(Plugin)
        BY <3>1, <4>1, <4>a
      <4>5. lifespans' \in [Root -> Seq(Plugin)]
        BY <3>1, <4>b, <4>2
      <4>6. called' \in Seq(Plugin \X {"app", "cli"})
        <5>1. CASE HookOf(r) # "lifespan"
                   /\ called' = Append(called, <<PluginOf(r), HookOf(r)>>)
          <6>1. PICK e \in Plugin \X {"app", "cli"} : e = <<PluginOf(r), HookOf(r)>>
            BY <4>3, <5>1
          <6>2. called' = Append(called, e)
            BY <5>1, <6>1
          <6> QED
            BY <3>1, <6>2
        <5> QED
          BY <3>1, <4>4, <5>1
      <4> QED
        BY <4>5, <4>6
    <3>5. ASSUME NEW r \in Root, SetupRaises(r)
          PROVE  UNCHANGED lifespans /\ called' \in Seq(Plugin \X {"app", "cli"})
      <4>1. Due(r) => PluginOf(r) \in Plugin /\ HookOf(r) \in {"app", "cli", "lifespan"}
        BY LoopType DEF Due
      <4>2. UNCHANGED lifespans
        BY <3>5 DEF SetupRaises
      <4>3. CASE UNCHANGED called
        BY <3>1, <4>2, <4>3
      <4>4. CASE Due(r) /\ HookOf(r) # "lifespan"
                   /\ called' = Append(called, <<PluginOf(r), HookOf(r)>>)
        <5>1. <<PluginOf(r), HookOf(r)>> \in Plugin \X {"app", "cli"}
          BY <4>1, <4>4
        <5> QED
          BY <3>1, <4>2, <4>4, <5>1
      <4> QED
        BY <3>5, <4>3, <4>4 DEF SetupRaises
    <3>6. CASE ConfiguredElsewhere
      BY <3>2, <3>6 DEF ConfiguredElsewhere
    <3>7. ASSUME NEW r \in Root, NEW ps \in Registration, Construct(r, ps)
          PROVE  UNCHANGED <<lifespans, called>>
      BY <3>7 DEF Construct
    <3>8. ASSUME NEW r \in Root,
                 Adopt(r) \/ Configure(r) \/ DjangoReady(r) \/ Return(r) \/ Create(r)
          PROVE  UNCHANGED <<lifespans, called>>
      BY <3>8 DEF Adopt, Configure, DjangoReady, Return, Create
    <3> QED
      BY <1>2, <3>1, <3>2, <3>3, <3>4, <3>5, <3>6, <3>7, <3>8 DEF Next
  <2>5. app' \in [Root -> Seq(Plugin)]
    <3>1. ASSUME NEW r \in Root
          PROVE  Collected(r) \in Seq(Plugin)
      BY Fields DEF Collected, TypeOK
    <3>2. app' = app \/ \E r \in Root : app' = [app EXCEPT ![r] = Collected(r)]
      BY <1>2 DEF Next, ConfiguredElsewhere, Construct, Adopt, Begin, Configure, DjangoReady,
                  RunHook, SetupRaises, Return, Create
    <3> QED
      BY <3>1, <3>2 DEF TypeOK
  <2> QED
    BY <2>1, <2>2, <2>3, <2>4, <2>5 DEF TypeOK, CoreType, Building
<1> QED
  BY <1>1, <1>2

LEMMA AssemblyTypeInit == Init => TypeOK
<1> SUFFICES ASSUME Init
             PROVE  TypeOK
  OBVIOUS
<1>1. Start \in (Nat \ {0}) \X DOMAIN Hooks
  BY HooksAre DEF Start
<1>2. <<>> \in Seq(Plugin) /\ <<>> \in Seq(Plugin \X {"app", "cli"})
  BY EmptySeq
<1>3. core \in [Root -> CoreType]
  BY <1>1, <1>2 DEF Init, CoreType, PC
<1>4. \A r \in Root : core[r].pc = "unborn"
  BY DEF Init
<1> QED
  BY <1>2, <1>3, <1>4 DEF Init, TypeOK, CoreType

-----------------------------------------------------------------------------
(* One assembly                                                             *)

\* A root that was set up has the assembly and the plugins of the published
\* one, which exchanges neither; nothing is published once Django is configured.
RootAgrees(r) ==
    /\ core[r].pc = "building" => ~configured
    /\ core[r].pc \in {"django", "hooks"} => configured
    /\ core[r].pc \in Building => assembled = r
    /\ SetUp(r) => configured /\ core[r].assembly = assembled
    /\ SetUp(r) /\ assembled # NoRoot => core[r].plugins = core[assembled].plugins
    /\ assembled = NoRoot => core[r].assembly = NoRoot
    /\ assembled = r =>
          core[r].assembly = r /\ core[r].pc \notin {"unborn", "refused", "new"}
RootsAgree == \A r \in Root : RootAgrees(r)

LEMMA RootsNext ==
    ASSUME TypeOK, RootsAgree, [Next]_vars
    PROVE  RootsAgree'
<1> SUFFICES ASSUME NEW s \in Root
             PROVE  RootAgrees(s)'
  BY DEF RootsAgree
<1>a. assembled \in Root \cup {NoRoot} /\ NoRoot \notin Root
  BY NoRootAssumption DEF TypeOK
<1>s. RootAgrees(s)
  BY DEF RootsAgree
<1> USE DEF RootAgrees, SetUp, Building
<1>0. CASE UNCHANGED vars
  BY <1>0, <1>s DEF vars
<1>1. CASE ConfiguredElsewhere
  <2>1. UNCHANGED <<assembled, core>> /\ configured' /\ core[s].pc # "building"
    BY <1>1 DEF ConfiguredElsewhere, Idle
  <2> QED
    BY <1>s, <2>1
<1>2. ASSUME NEW r \in Root, NEW ps \in Registration, Construct(r, ps)
      PROVE  RootAgrees(s)'
  <2>1. /\ core[r].pc = "unborn" /\ UNCHANGED <<configured, assembled>>
        /\ RootAgrees(r)
    BY <1>2 DEF Construct, RootsAgree
  <2>2. assembled # r
    BY <2>1
  <2> QED
    BY <1>a, <1>s, <1>2, <2>1, <2>2, ConstructMoves DEF Moved
<1>3. ASSUME NEW r \in Root, Adopt(r)
      PROVE  RootAgrees(s)'
  <2>1. /\ configured /\ core[r].pc \in {"new", "returned", "failed"}
        /\ UNCHANGED <<configured, assembled>> /\ RootAgrees(r)
    BY <1>3 DEF Adopt, RootsAgree
  <2>2. Moved(r, "returned", Adopted(r).plugins, Adopted(r).assembly, core[r].at)
    BY <1>3, AdoptMoves
  <2>3. CASE assembled \in {NoRoot, r}
    <3>1. core'[r].plugins = core[r].plugins /\ core'[r].assembly = core[r].assembly
      BY <2>2, <2>3 DEF Moved, Adopted
    <3> QED
      BY <1>a, <1>s, <2>1, <2>2, <2>3, <3>1 DEF Moved
  <2>4. CASE assembled \notin {NoRoot, r}
    <3>1. RootAgrees(assembled) /\ assembled \in Root
      BY <1>a, <2>4 DEF RootsAgree
    <3>2. Adopted(r).plugins = core[assembled].plugins /\ Adopted(r).assembly = assembled
      BY <2>4, <3>1, Fields DEF Adopted, CoreType
    <3>3. core'[assembled] = core[assembled]
      BY <2>2, <2>4, <3>1 DEF Moved
    <3> QED
      BY <1>a, <1>s, <2>1, <2>2, <2>4, <3>2, <3>3 DEF Moved
  <2> QED
    BY <2>3, <2>4
<1>4. ASSUME NEW r \in Root, Begin(r)
      PROVE  RootAgrees(s)'
  <2>1. /\ ~configured /\ ~configured' /\ assembled' = r
        /\ core[s].pc # "building"
    BY <1>4 DEF Begin, Idle
  <2>2. Moved(r, "building", core[r].plugins, r, core[r].at)
    BY <1>4, BeginMoves
  <2> QED
    BY <1>a, <1>s, <2>1, <2>2 DEF Moved
<1>5. ASSUME NEW r \in Root, Configure(r)
      PROVE  RootAgrees(s)'
  <2>1. /\ core[r].pc = "building" /\ configured' /\ UNCHANGED assembled /\ RootAgrees(r)
    BY <1>5 DEF Configure, RootsAgree
  <2>2. Moved(r, "django", core[r].plugins, core[r].assembly, core[r].at)
    BY <1>5, ConfigureMoves
  <2> QED
    BY <1>a, <1>s, <2>1, <2>2 DEF Moved
<1>6. ASSUME NEW r \in Root, DjangoReady(r) \/ RunHook(r) \/ Return(r)
      PROVE  RootAgrees(s)'
  <2>1. /\ core[r].pc \in {"django", "hooks"} /\ UNCHANGED <<configured, assembled>>
        /\ RootAgrees(r)
    BY <1>6 DEF DjangoReady, RunHook, Looping, Return, RootsAgree
  <2>2. /\ core'[r].pc \in {"hooks", "returned"} /\ core'[r].plugins = core[r].plugins
        /\ core'[r].assembly = core[r].assembly
        /\ \A q \in Root : q # r => core'[q] = core[q]
    BY <1>6, ReadyMoves, HookMoves, ReturnMoves DEF Moved
  <2> QED
    BY <1>a, <1>s, <2>1, <2>2
<1>7. ASSUME NEW r \in Root, SetupRaises(r)
      PROVE  RootAgrees(s)'
  <2>1. /\ core[r].pc \in Building /\ UNCHANGED <<configured, assembled>> /\ RootAgrees(r)
    BY <1>7 DEF SetupRaises, Due, Looping, RootsAgree
  <2>2. Moved(r, "failed", core[r].plugins, core[r].assembly, Start)
    BY <1>7, RaiseMoves
  <2> QED
    BY <1>a, <1>s, <2>1, <2>2 DEF Moved
<1>8. ASSUME NEW r \in Root, Create(r)
      PROVE  RootAgrees(s)'
  <2>1. core[r].pc = "returned" /\ UNCHANGED <<configured, assembled>> /\ RootAgrees(r)
    BY <1>8 DEF Create, RootsAgree
  <2>2. Moved(r, "serving", core[r].plugins, core[r].assembly, core[r].at)
    BY <1>8, CreateMoves
  <2> QED
    BY <1>a, <1>s, <2>1, <2>2 DEF Moved
<1> QED
  BY <1>0, <1>1, <1>2, <1>3, <1>4, <1>5, <1>6, <1>7, <1>8 DEF Next

-----------------------------------------------------------------------------
(* Hooks are called once                                                    *)

Registered ==
    \A r \in Root : core[r].pc \notin {"unborn", "refused"} => IsInjective(core[r].plugins)

LEMMA RegisteredNext ==
    ASSUME TypeOK, RootsAgree, Registered, [Next]_vars
    PROVE  Registered'
<1> SUFFICES ASSUME NEW s \in Root, core'[s].pc \notin {"unborn", "refused"}
             PROVE  IsInjective(core'[s].plugins)
  BY DEF Registered
<1>s. core[s].pc \notin {"unborn", "refused"} => IsInjective(core[s].plugins)
  BY DEF Registered
<1>1. CASE UNCHANGED core
  BY <1>s, <1>1
<1>2. ASSUME NEW r \in Root, NEW ps \in Registration, Construct(r, ps)
      PROVE  IsInjective(core'[s].plugins)
  BY <1>s, <1>2, ConstructMoves DEF Moved
<1>3. ASSUME NEW r \in Root, Adopt(r)
      PROVE  IsInjective(core'[s].plugins)
  <2>1. /\ core[r].pc \in {"new", "returned", "failed"}
        /\ Moved(r, "returned", Adopted(r).plugins, Adopted(r).assembly, core[r].at)
    BY <1>3, AdoptMoves DEF Adopt
  <2>2. CASE assembled \in {NoRoot, r}
    BY <1>s, <2>1, <2>2 DEF Moved, Adopted
  <2>3. CASE assembled \notin {NoRoot, r}
    <3>1. assembled \in Root
      BY <2>3 DEF TypeOK
    <3>2. core[assembled].pc \notin {"unborn", "refused"}
      BY <3>1 DEF RootsAgree, RootAgrees
    <3>3. Adopted(r).plugins = core[assembled].plugins
      BY <2>3, Fields DEF Adopted, CoreType
    <3> QED
      BY <1>s, <2>1, <3>1, <3>2, <3>3 DEF Moved, Registered
  <2> QED
    BY <2>2, <2>3
<1>4. ASSUME NEW r \in Root,
             \/ Begin(r) \/ Configure(r) \/ DjangoReady(r) \/ RunHook(r)
             \/ SetupRaises(r) \/ Return(r) \/ Create(r)
      PROVE  IsInjective(core'[s].plugins)
  <2>1. /\ core'[r].plugins = core[r].plugins
        /\ \A q \in Root : q # r => core'[q] = core[q]
    BY <1>4, BeginMoves, ConfigureMoves, ReadyMoves, HookMoves, RaiseMoves, ReturnMoves,
       CreateMoves DEF Moved
  <2>2. core[r].pc \notin {"unborn", "refused"}
    BY <1>4 DEF Begin, Configure, DjangoReady, RunHook, SetupRaises, Return, Create, Due, Looping
  <2> QED
    BY <1>s, <2>1, <2>2 DEF Registered
<1> QED
  BY <1>1, <1>2, <1>3, <1>4 DEF Next, vars, ConfiguredElsewhere

\* The tests of the loop at "at" that are over: each hook that was called stands
\* at one of them, so that the next is called for the first time.
Passed(at, i, k) == i < at[1] \/ (i = at[1] /\ k < at[2])

CalledFrom(r) ==
    \A n \in DOMAIN called :
        \E i \in DOMAIN core[r].plugins, k \in DOMAIN Hooks :
            /\ called[n] = <<core[r].plugins[i], Hooks[k]>>
            /\ Passed(core[r].at, i, k)
HooksInOrder ==
    /\ IsInjective(called)
    /\ ~configured => called = <<>>
    /\ \A r \in Root : core[r].pc = "django" => called = <<>>
    /\ \A r \in Root : core[r].pc = "hooks" => CalledFrom(r)

\* No test comes twice.
LEMMA AfterPassed ==
    ASSUME TypeOK, NEW r \in Root, NEW i \in Nat, NEW k \in 1 .. 3
    PROVE  /\ Passed(core[r].at, i, k) => Passed(After(core[r].at), i, k)
           /\ Passed(After(core[r].at), core[r].at[1], core[r].at[2])
           /\ ~Passed(core[r].at, core[r].at[1], core[r].at[2])
<1>1. PICK m \in Nat \ {0}, l \in 1 .. 3 : core[r].at = <<m, l>>
  BY LoopType
<1>2. After(core[r].at) = IF l < 3 THEN <<m, l + 1>> ELSE <<m + 1, 1>>
  BY <1>1, HooksAre DEF After
<1> QED
  BY <1>1, <1>2 DEF Passed

\* The hook at the loop's place is a new one.
LEMMA NewHook ==
    ASSUME TypeOK, RootsAgree, Registered, HooksInOrder, NEW r \in Root, Due(r)
    PROVE  IsInjective(Append(called, <<PluginOf(r), HookOf(r)>>))
<1>1. core[r].pc = "hooks" /\ CalledFrom(r) /\ IsInjective(core[r].plugins)
  BY DEF Due, Looping, HooksInOrder, Registered
<1>2. /\ core[r].at \in (Nat \ {0}) \X (1 .. 3)
      /\ core[r].at[1] \in DOMAIN core[r].plugins
      /\ core[r].plugins \in Seq(Plugin) /\ called \in Seq(Plugin \X {"app", "cli"})
  BY LoopType, Fields DEF Due, TypeOK
<1>3. ASSUME NEW n \in DOMAIN called, called[n] = <<PluginOf(r), HookOf(r)>>
      PROVE  FALSE
  <2>1. PICK i \in DOMAIN core[r].plugins, k \in DOMAIN Hooks :
           /\ called[n] = <<core[r].plugins[i], Hooks[k]>>
           /\ Passed(core[r].at, i, k)
    BY <1>1 DEF CalledFrom
  <2>2. core[r].plugins[i] = PluginOf(r) /\ Hooks[k] = HookOf(r)
    BY <1>3, <2>1
  <2>3. i = core[r].at[1]
    BY <1>1, <1>2, <2>2 DEF IsInjective, PluginOf
  <2>4. k = core[r].at[2]
    BY <1>2, <2>2, HooksAre DEF HookOf
  <2> QED
    BY <1>2, <2>1, <2>3, <2>4 DEF Passed
<1>4. IsInjective(called)
  BY DEF HooksInOrder
<1>5. PICK e : e = <<PluginOf(r), HookOf(r)>>
  OBVIOUS
<1>6. \A n \in 1 .. Len(called) : called[n] # e
  BY <1>2, <1>3, <1>5
<1>7. IsInjective(Append(called, e))
  BY <1>2, <1>4, <1>6 DEF IsInjective
<1> QED
  BY <1>5, <1>7

\* A hook was called, or its test was passed over.
LEMMA CalledNext ==
    ASSUME TypeOK, NEW r \in Root, CalledFrom(r), Looping(r),
           core'[r].plugins = core[r].plugins, core'[r].at = After(core[r].at),
           \/ UNCHANGED called
           \/ called' = Append(called, <<PluginOf(r), HookOf(r)>>)
    PROVE  CalledFrom(r)'
<1> SUFFICES ASSUME NEW n \in DOMAIN called'
             PROVE  \E i \in DOMAIN core[r].plugins, k \in 1 .. 3 :
                        /\ called'[n] = <<core[r].plugins[i], Hooks[k]>>
                        /\ Passed(After(core[r].at), i, k)
  BY HooksAre DEF CalledFrom
<1>1. /\ core[r].at \in (Nat \ {0}) \X (1 .. 3)
      /\ core[r].at[1] \in DOMAIN core[r].plugins
      /\ core[r].plugins \in Seq(Plugin) /\ called \in Seq(Plugin \X {"app", "cli"})
  BY LoopType, Fields DEF TypeOK
<1>2. CASE n \in DOMAIN called /\ called'[n] = called[n]
  <2>1. PICK i \in DOMAIN core[r].plugins, k \in 1 .. 3 :
           /\ called[n] = <<core[r].plugins[i], Hooks[k]>>
           /\ Passed(core[r].at, i, k)
    BY <1>2, HooksAre DEF CalledFrom
  <2>2. Passed(After(core[r].at), i, k)
    BY <1>1, <2>1, AfterPassed
  <2> QED
    BY <1>2, <2>1, <2>2
<1>3. CASE called'[n] = <<PluginOf(r), HookOf(r)>>
  <2>1. Passed(After(core[r].at), core[r].at[1], core[r].at[2])
    BY AfterPassed
  <2>2. called'[n] = <<core[r].plugins[core[r].at[1]], Hooks[core[r].at[2]]>>
    BY <1>3 DEF PluginOf, HookOf
  <2> QED
    BY <1>1, <2>1, <2>2
<1>4. (n \in DOMAIN called /\ called'[n] = called[n])
         \/ called'[n] = <<PluginOf(r), HookOf(r)>>
  <2>1. CASE UNCHANGED called
    BY <2>1
  <2>2. CASE called' = Append(called, <<PluginOf(r), HookOf(r)>>)
    <3>1. PICK e : e = <<PluginOf(r), HookOf(r)>>
      OBVIOUS
    <3>2. called' = Append(called, e)
      BY <2>2, <3>1
    <3>3. (n \in DOMAIN called /\ called'[n] = called[n]) \/ called'[n] = e
      BY <1>1, <3>2
    <3> QED
      BY <3>1, <3>3
  <2> QED
    BY <2>1, <2>2
<1> QED
  BY <1>2, <1>3, <1>4

LEMMA HooksNext ==
    ASSUME TypeOK, RootsAgree, Registered, HooksInOrder, [Next]_vars
    PROVE  HooksInOrder'
<1>0. CASE UNCHANGED vars
  BY <1>0 DEF HooksInOrder, CalledFrom, vars
<1>1. ASSUME UNCHANGED called,
             \A r \in Root : core'[r].pc = "django" => called = <<>>,
             \A r \in Root : core'[r].pc = "hooks" => called = <<>> \/
                 (core[r].pc = "hooks" /\ core'[r] = core[r]),
             configured => configured'
      PROVE  HooksInOrder'
  <2>1. ASSUME NEW r \in Root, core'[r].pc = "hooks"
        PROVE  CalledFrom(r)'
    <3>1. CASE called = <<>>
      BY <1>1, <3>1 DEF CalledFrom
    <3>2. CASE core[r].pc = "hooks" /\ core'[r] = core[r]
      BY <1>1, <3>2 DEF CalledFrom, HooksInOrder
    <3> QED
      BY <1>1, <2>1, <3>1, <3>2
  <2> QED
    BY <1>1, <2>1 DEF HooksInOrder
<1>2. CASE ConfiguredElsewhere
  BY <1>1, <1>2 DEF ConfiguredElsewhere, HooksInOrder
<1>3. ASSUME NEW r \in Root, NEW ps \in Registration, Construct(r, ps)
      PROVE  HooksInOrder'
  <2>1. /\ core'[r].pc \in {"new", "refused"} /\ UNCHANGED <<called, configured>>
        /\ \A q \in Root : q # r => core'[q] = core[q]
    BY <1>3, ConstructMoves DEF Construct, Moved
  <2> QED
    BY <1>1, <2>1 DEF HooksInOrder
<1>4. ASSUME NEW r \in Root, Adopt(r) \/ Return(r) \/ Create(r)
      PROVE  HooksInOrder'
  <2>1. /\ core'[r].pc \in {"returned", "serving"} /\ UNCHANGED <<called, configured>>
        /\ \A q \in Root : q # r => core'[q] = core[q]
    BY <1>4, AdoptMoves, ReturnMoves, CreateMoves DEF Moved, Adopt, Return, Create
  <2> QED
    BY <1>1, <2>1 DEF HooksInOrder
<1>5. ASSUME NEW r \in Root, Begin(r)
      PROVE  HooksInOrder'
  <2>1. /\ core'[r].pc = "building" /\ UNCHANGED <<called, configured>>
        /\ \A q \in Root : q # r => core'[q] = core[q]
    BY <1>5, BeginMoves DEF Moved, Begin
  <2> QED
    BY <1>1, <2>1 DEF HooksInOrder
<1>6. ASSUME NEW r \in Root, Configure(r)
      PROVE  HooksInOrder'
  <2>1. /\ core'[r].pc = "django" /\ UNCHANGED called /\ configured'
        /\ \A q \in Root : q # r => core'[q] = core[q]
    BY <1>6, ConfigureMoves DEF Moved, Configure
  <2>2. called = <<>>
    BY <1>6 DEF Configure, RootsAgree, RootAgrees, HooksInOrder
  <2> QED
    BY <1>1, <2>1, <2>2
<1>7. ASSUME NEW r \in Root, DjangoReady(r)
      PROVE  HooksInOrder'
  <2>1. /\ core'[r].pc = "hooks" /\ UNCHANGED <<called, configured>>
        /\ \A q \in Root : q # r => core'[q] = core[q]
    BY <1>7, ReadyMoves DEF Moved, DjangoReady
  <2>2. called = <<>>
    BY <1>7 DEF DjangoReady, HooksInOrder
  <2> QED
    BY <1>1, <2>1, <2>2
<1>8. ASSUME NEW r \in Root, RunHook(r) \/ SetupRaises(r)
      PROVE  HooksInOrder'
  <2>1. \A s \in Root : s # r => core[s].pc \notin Building
    <3>1. core[r].pc \in Building
      BY <1>8 DEF RunHook, SetupRaises, Due, Looping, Building
    <3> QED
      BY <3>1 DEF RootsAgree, RootAgrees
  <2>2. UNCHANGED configured /\ \A s \in Root : s # r => core'[s] = core[s]
    BY <1>8, HookMoves, RaiseMoves DEF Moved, RunHook, SetupRaises
  <2>3. \A s \in Root : s # r => core'[s].pc \notin Building
    BY <2>1, <2>2
  <2>4. CASE UNCHANGED called /\ core'[r].pc = "failed"
    BY <1>1, <2>2, <2>3, <2>4 DEF Building
  <2>5. CASE /\ Looping(r) /\ core'[r].pc \in {"hooks", "failed"}
             /\ \/ UNCHANGED called
                \/ Due(r) /\ called' = Append(called, <<PluginOf(r), HookOf(r)>>)
             /\ core'[r].plugins = core[r].plugins
             /\ core'[r].pc = "hooks" => core'[r].at = After(core[r].at)
    <3>1. core[r].pc = "hooks" /\ configured
      BY <2>5 DEF Looping, RootsAgree, RootAgrees
    <3>2. IsInjective(called')
      BY <2>5, NewHook DEF HooksInOrder
    <3>3. core'[r].pc = "hooks" => CalledFrom(r)'
      BY <2>5, <3>1, CalledNext DEF HooksInOrder
    <3> QED
      BY <2>2, <2>3, <2>5, <3>1, <3>2, <3>3 DEF HooksInOrder, Building
  <2>6. CASE RunHook(r)
    <3>1. Moved(r, "hooks", core[r].plugins, core[r].assembly, After(core[r].at))
      BY <2>6, HookMoves
    <3>2. \/ UNCHANGED called
          \/ Due(r) /\ called' = Append(called, <<PluginOf(r), HookOf(r)>>)
      BY <2>6 DEF RunHook
    <3> QED
      BY <2>5, <2>6, <3>1, <3>2 DEF RunHook, Moved
  <2>7. CASE SetupRaises(r)
    <3>1. Moved(r, "failed", core[r].plugins, core[r].assembly, Start)
      BY <2>7, RaiseMoves
    <3>2. \/ UNCHANGED called
          \/ Due(r) /\ called' = Append(called, <<PluginOf(r), HookOf(r)>>)
      BY <2>7 DEF SetupRaises
    <3> QED
      BY <2>4, <2>5, <3>1, <3>2 DEF Moved, Due
  <2> QED
    BY <1>8, <2>6, <2>7
<1> QED
  BY <1>0, <1>2, <1>3, <1>4, <1>5, <1>6, <1>7, <1>8 DEF Next

-----------------------------------------------------------------------------
(* Applications have their lifespans                                        *)

\* The lifespans of the first n - 1 plugins of ps.
FollowsTo(ls, ps, n) ==
    /\ IsInjective(ls)
    /\ \A p \in Plugin :
          p \in ToSet(ls) <=> "lifespan" \in Facet[p] /\ \E m \in DOMAIN ps : m < n /\ ps[m] = p
    /\ \A i, j \in DOMAIN ls, l, m \in DOMAIN ps :
          ls[i] = ps[l] /\ ls[j] = ps[m] /\ l < m => i < j

\* The loop collects them in the order of its plugins; when it is over, and
\* was not cut short, they are all there.
Gathered ==
    \A r \in Root :
        /\ core[r].pc \in {"building", "django"} => lifespans[r] = <<>>
        /\ core[r].pc = "hooks" => FollowsTo(lifespans[r], core[r].plugins, core[r].at[1])
        /\ assembled = r /\ r \notin cut /\ core[r].pc \notin Building =>
              Follows(lifespans[r], core[r].plugins)

LEMMA NothingYet ==
    ASSUME NEW ps \in Seq(Plugin)
    PROVE  FollowsTo(<<>>, ps, 1)
BY DEF FollowsTo, IsInjective, ToSet

LEMMA AllFollow ==
    ASSUME NEW ps \in Seq(Plugin), NEW ls \in Seq(Plugin), NEW n \in Nat, n > Len(ps),
           FollowsTo(ls, ps, n)
    PROVE  Follows(ls, ps)
<1>1. \A p \in Plugin : p \in ToSet(ls) <=> "lifespan" \in Facet[p] /\ p \in ToSet(ps)
  BY DEF FollowsTo, ToSet
<1>2. ToSet(ls) \subseteq Plugin /\ ToSet(ps) \subseteq Plugin
  BY DEF ToSet
<1>3. ToSet(ls) = {p \in ToSet(ps) : "lifespan" \in Facet[p]}
  BY <1>1, <1>2
<1> QED
  BY <1>3 DEF FollowsTo, Follows

\* The n-th plugin has no lifespan ...
LEMMA NoneFollows ==
    ASSUME NEW ps \in Seq(Plugin), NEW ls \in Seq(Plugin), NEW n \in DOMAIN ps,
           FollowsTo(ls, ps, n), "lifespan" \notin Facet[ps[n]]
    PROVE  FollowsTo(ls, ps, n + 1)
<1>1. ASSUME NEW p \in Plugin
      PROVE  ("lifespan" \in Facet[p] /\ \E m \in DOMAIN ps : m < n + 1 /\ ps[m] = p)
               <=> ("lifespan" \in Facet[p] /\ \E m \in DOMAIN ps : m < n /\ ps[m] = p)
  <2>1. \A m \in DOMAIN ps : m < n + 1 <=> m < n \/ m = n
    OBVIOUS
  <2> QED
    BY <2>1
<1> QED
  BY <1>1 DEF FollowsTo

\* ... or it has one, which comes last.
LEMMA OneFollows ==
    ASSUME NEW ps \in Seq(Plugin), NEW ls \in Seq(Plugin), NEW n \in DOMAIN ps,
           IsInjective(ps), FollowsTo(ls, ps, n), "lifespan" \in Facet[ps[n]]
    PROVE  FollowsTo(Append(ls, ps[n]), ps, n + 1)
<1> DEFINE new == Append(ls, ps[n])
<1>1. /\ new \in Seq(Plugin) /\ Len(new) = Len(ls) + 1 /\ new[Len(ls) + 1] = ps[n]
      /\ \A i \in 1 .. Len(ls) : new[i] = ls[i]
  OBVIOUS
<1> HIDE DEF new
<1>2. \A p \in Plugin :
         p \in ToSet(ls) <=> "lifespan" \in Facet[p] /\ \E m \in DOMAIN ps : m < n /\ ps[m] = p
  BY DEF FollowsTo
<1>3. ps[n] \notin ToSet(ls)
  BY <1>2 DEF IsInjective
<1>4. IsInjective(new)
  BY <1>1, <1>3 DEF IsInjective, FollowsTo, ToSet
<1>5. ASSUME NEW p \in Plugin
      PROVE  p \in ToSet(new) <=>
                "lifespan" \in Facet[p] /\ \E m \in DOMAIN ps : m < n + 1 /\ ps[m] = p
  <2>1. p \in ToSet(new) <=> p \in ToSet(ls) \/ p = ps[n]
    BY <1>1 DEF ToSet
  <2>2. \A m \in DOMAIN ps : m < n + 1 <=> m < n \/ m = n
    OBVIOUS
  <2> QED
    BY <1>2, <2>1, <2>2
<1>6. ASSUME NEW i \in DOMAIN new, NEW j \in DOMAIN new, NEW l \in DOMAIN ps, NEW m \in DOMAIN ps,
             new[i] = ps[l], new[j] = ps[m], l < m
      PROVE  i < j
  <2>1. CASE i \in 1 .. Len(ls) /\ j \in 1 .. Len(ls)
    BY <1>1, <1>6, <2>1 DEF FollowsTo
  <2>2. CASE i = Len(ls) + 1
    <3>1. l = n
      BY <1>1, <1>6, <2>2 DEF IsInjective
    <3>2. "lifespan" \in Facet[ps[m]] /\ m < n
      <4>1. CASE j = Len(ls) + 1
        BY <1>1, <1>6, <3>1, <4>1 DEF IsInjective
      <4>2. CASE j \in 1 .. Len(ls)
        <5>1. ps[m] \in ToSet(ls)
          BY <1>1, <1>6, <4>2 DEF ToSet
        <5>2. PICK k \in DOMAIN ps : k < n /\ ps[k] = ps[m]
          BY <1>2, <5>1
        <5> QED
          BY <1>2, <5>1, <5>2 DEF IsInjective
      <4> QED
        BY <1>1, <4>1, <4>2
    <3> QED
      BY <1>6, <3>1, <3>2
  <2>3. CASE i \in 1 .. Len(ls) /\ j = Len(ls) + 1
    BY <2>3
  <2> QED
    BY <1>1, <2>1, <2>2, <2>3
<1>7. FollowsTo(new, ps, n + 1)
  BY <1>4, <1>5, <1>6 DEF FollowsTo
<1> QED
  BY <1>7 DEF new

LEMMA HookGathers ==
    ASSUME TypeOK, RootsAgree, Registered, Gathered, NEW r \in Root, RunHook(r)
    PROVE  /\ FollowsTo(lifespans'[r], core[r].plugins, After(core[r].at)[1])
           /\ \A s \in Root : s # r => lifespans'[s] = lifespans[s]
<1>1. PICK n \in Nat \ {0}, k \in 1 .. 3 : core[r].at = <<n, k>>
  BY LoopType
<1>a. core[r].pc = "hooks" /\ n <= Len(core[r].plugins)
  BY <1>1 DEF RunHook, Looping
<1>b. core[r].assembly = r /\ core[r].plugins \in Seq(Plugin)
  BY <1>a, Fields DEF TypeOK
<1>c. IsInjective(core[r].plugins)
  BY <1>a DEF Registered
<1>d. FollowsTo(lifespans[r], core[r].plugins, n)
  BY <1>a, <1>1 DEF Gathered
<1>e. PluginOf(r) = core[r].plugins[n] /\ HookOf(r) = Hooks[k]
  BY <1>1 DEF PluginOf, HookOf
<1>f. Due(r) <=> Hooks[k] \in Facet[core[r].plugins[n]]
  BY <1>1, <1>e DEF RunHook, Due, Runs
<1>2. /\ core[r].pc = "hooks" /\ core[r].assembly = r /\ IsInjective(core[r].plugins)
      /\ FollowsTo(lifespans[r], core[r].plugins, n)
      /\ n \in DOMAIN core[r].plugins /\ PluginOf(r) = core[r].plugins[n]
      /\ HookOf(r) = Hooks[k] /\ (Due(r) <=> Hooks[k] \in Facet[core[r].plugins[n]])
  BY <1>a, <1>b, <1>c, <1>d, <1>e, <1>f
<1>3. lifespans \in [Root -> Seq(Plugin)] /\ core[r].plugins \in Seq(Plugin)
  BY Fields DEF TypeOK
<1>4. \/ UNCHANGED lifespans
      \/ lifespans' = [lifespans EXCEPT ![r] = Append(lifespans[r], core[r].plugins[n])]
  BY <1>2 DEF RunHook
<1>5. CASE k < 3
  <2>1. UNCHANGED lifespans /\ After(core[r].at)[1] = n
    BY <1>1, <1>2, <1>5, HooksAre DEF RunHook, After
  <2> QED
    BY <1>2, <2>1
<1>6. CASE k = 3
  <2>1. Hooks[k] = "lifespan" /\ After(core[r].at)[1] = n + 1
    BY <1>1, <1>6, HooksAre DEF After
  <2>2. CASE "lifespan" \in Facet[core[r].plugins[n]]
    <3>1. lifespans' = [lifespans EXCEPT ![r] = Append(lifespans[r], core[r].plugins[n])]
      BY <1>2, <2>1, <2>2 DEF RunHook
    <3>2. FollowsTo(Append(lifespans[r], core[r].plugins[n]), core[r].plugins, n + 1)
      BY <1>2, <1>3, <2>2, OneFollows
    <3> QED
      BY <1>3, <2>1, <3>1, <3>2
  <2>3. CASE "lifespan" \notin Facet[core[r].plugins[n]]
    <3>1. UNCHANGED lifespans
      BY <1>2, <2>1, <2>3 DEF RunHook
    <3>2. FollowsTo(lifespans[r], core[r].plugins, n + 1)
      BY <1>2, <1>3, <2>3, NoneFollows
    <3> QED
      BY <2>1, <3>1, <3>2
  <2> QED
    BY <2>2, <2>3
<1> QED
  BY <1>5, <1>6

LEMMA GatheredNext ==
    ASSUME TypeOK, RootsAgree, Registered, Gathered, [Next]_vars
    PROVE  Gathered'
<1> SUFFICES ASSUME NEW s \in Root
             PROVE  /\ core'[s].pc \in {"building", "django"} => lifespans'[s] = <<>>
                    /\ core'[s].pc = "hooks" =>
                          FollowsTo(lifespans'[s], core'[s].plugins, core'[s].at[1])
                    /\ assembled' = s /\ s \notin cut' /\ core'[s].pc \notin Building =>
                          Follows(lifespans'[s], core'[s].plugins)
  BY DEF Gathered
<1>s. /\ core[s].pc \in {"building", "django"} => lifespans[s] = <<>>
      /\ core[s].pc = "hooks" => FollowsTo(lifespans[s], core[s].plugins, core[s].at[1])
      /\ assembled = s /\ s \notin cut /\ core[s].pc \notin Building =>
            Follows(lifespans[s], core[s].plugins)
  BY DEF Gathered
<1>t. lifespans \in [Root -> Seq(Plugin)] /\ core[s].plugins \in Seq(Plugin)
  BY Fields DEF TypeOK
<1> USE DEF Building
<1>0. CASE UNCHANGED vars
  BY <1>0, <1>s DEF vars
<1>1. CASE ConfiguredElsewhere
  BY <1>1, <1>s DEF ConfiguredElsewhere
<1>2. ASSUME NEW r \in Root, NEW ps \in Registration, Construct(r, ps)
      PROVE  Gathered'
  <2>1. /\ core'[r].pc \in {"new", "refused"} /\ assembled # r
        /\ UNCHANGED <<lifespans, assembled, cut>>
        /\ \A q \in Root : q # r => core'[q] = core[q]
    BY <1>2, ConstructMoves DEF Construct, Moved, RootsAgree, RootAgrees
  <2> QED
    BY <2>1 DEF Gathered
<1>3. ASSUME NEW r \in Root, Adopt(r) \/ Create(r)
      PROVE  Gathered'
  <2>1. /\ core[r].pc \notin Building /\ core'[r].pc \in {"returned", "serving"}
        /\ UNCHANGED <<lifespans, assembled, cut>>
        /\ \A q \in Root : q # r => core'[q] = core[q]
        /\ assembled = r => core'[r].plugins = core[r].plugins
    BY <1>3, AdoptMoves, CreateMoves DEF Adopt, Create, Adopted, Moved
  <2> QED
    BY <2>1 DEF Gathered
<1>4. ASSUME NEW r \in Root, Begin(r)
      PROVE  Gathered'
  <2>1. /\ core'[r].pc = "building" /\ assembled' = r
        /\ lifespans'[r] = <<>> /\ \A q \in Root : q # r => lifespans'[q] = lifespans[q]
        /\ \A q \in Root : q # r => core'[q] = core[q]
    BY <1>4, <1>t, BeginMoves DEF Begin, Moved
  <2> QED
    BY <2>1 DEF Gathered
<1>5. ASSUME NEW r \in Root, Configure(r)
      PROVE  Gathered'
  <2>1. /\ core[r].pc = "building" /\ core'[r].pc = "django"
        /\ UNCHANGED <<lifespans, assembled, cut>>
        /\ \A q \in Root : q # r => core'[q] = core[q]
    BY <1>5, ConfigureMoves DEF Configure, Moved
  <2> QED
    BY <2>1 DEF Gathered
<1>6. ASSUME NEW r \in Root, DjangoReady(r)
      PROVE  Gathered'
  <2>1. /\ core[r].pc = "django" /\ core'[r].pc = "hooks" /\ core'[r].plugins = core[r].plugins
        /\ core'[r].at = <<1, 1>> /\ UNCHANGED <<lifespans, assembled, cut>>
        /\ \A q \in Root : q # r => core'[q] = core[q]
    BY <1>6, ReadyMoves DEF DjangoReady, Moved, Start
  <2>2. lifespans[r] = <<>> /\ core[r].plugins \in Seq(Plugin)
    BY <2>1, Fields DEF Gathered
  <2>3. FollowsTo(lifespans'[r], core'[r].plugins, core'[r].at[1])
    BY <2>1, <2>2, NothingYet
  <2> QED
    BY <2>1, <2>3 DEF Gathered
<1>7. ASSUME NEW r \in Root, RunHook(r)
      PROVE  Gathered'
  <2>1. /\ core'[r].pc = "hooks" /\ core'[r].plugins = core[r].plugins
        /\ core'[r].at = After(core[r].at) /\ UNCHANGED <<assembled, cut>>
        /\ \A q \in Root : q # r => core'[q] = core[q]
    BY <1>7, HookMoves DEF RunHook, Moved
  <2>2. /\ FollowsTo(lifespans'[r], core[r].plugins, After(core[r].at)[1])
        /\ \A q \in Root : q # r => lifespans'[q] = lifespans[q]
    BY <1>7, HookGathers
  <2> QED
    BY <2>1, <2>2 DEF Gathered
<1>8. ASSUME NEW r \in Root, SetupRaises(r)
      PROVE  Gathered'
  <2>1. /\ core'[r].pc = "failed" /\ r \in cut' /\ cut \subseteq cut'
        /\ UNCHANGED <<lifespans, assembled>>
        /\ \A q \in Root : q # r => core'[q] = core[q]
    BY <1>8, RaiseMoves DEF SetupRaises, Moved
  <2> QED
    BY <2>1 DEF Gathered
<1>9. ASSUME NEW r \in Root, Return(r)
      PROVE  Gathered'
  <2>1. /\ core[r].pc = "hooks" /\ core'[r].pc = "returned" /\ core'[r].plugins = core[r].plugins
        /\ ~(core[r].at[1] <= Len(core[r].plugins)) /\ UNCHANGED <<lifespans, assembled, cut>>
        /\ \A q \in Root : q # r => core'[q] = core[q]
    BY <1>9, ReturnMoves DEF Return, Looping, Moved
  <2>2. PICK n \in Nat \ {0}, k \in 1 .. 3 : core[r].at = <<n, k>>
    BY LoopType
  <2>3. n > Len(core[r].plugins) /\ core[r].plugins \in Seq(Plugin)
    BY <2>1, <2>2, Fields
  <2>4. Follows(lifespans[r], core[r].plugins)
    BY <1>t, <2>1, <2>2, <2>3, AllFollow DEF Gathered
  <2> QED
    BY <2>1, <2>4 DEF Gathered
<1> QED
  BY <1>0, <1>1, <1>2, <1>3, <1>4, <1>5, <1>6, <1>7, <1>8, <1>9 DEF Next, Gathered

-----------------------------------------------------------------------------
(* The theorems about the roots                                             *)

AInv == TypeOK /\ RootsAgree /\ Registered /\ HooksInOrder /\ Gathered

LEMMA AssemblyInit == Init => AInv
<1> SUFFICES ASSUME Init
             PROVE  AInv
  OBVIOUS
<1>1. TypeOK
  BY AssemblyTypeInit
<1>2. \A r \in Root : core[r].pc = "unborn" /\ core[r].assembly = NoRoot
  BY DEF Init
<1>3. assembled = NoRoot /\ called = <<>> /\ lifespans = [r \in Root |-> <<>>]
  BY DEF Init
<1>4. RootsAgree
  BY <1>2, <1>3, NoRootAssumption DEF RootsAgree, RootAgrees, SetUp, Building
<1>5. Registered
  BY <1>2 DEF Registered
<1>6. HooksInOrder
  BY <1>2, <1>3 DEF HooksInOrder, IsInjective
<1>7. Gathered
  BY <1>2, <1>3, NoRootAssumption DEF Gathered
<1> QED
  BY <1>1, <1>4, <1>5, <1>6, <1>7 DEF AInv

LEMMA AssemblyNext == AInv /\ [Next]_vars => AInv'
<1> SUFFICES ASSUME AInv, [Next]_vars
             PROVE  AInv'
  OBVIOUS
<1> USE DEF AInv
<1> QED
  BY AssemblyTypeNext, RootsNext, RegisteredNext, HooksNext, GatheredNext

LEMMA AssemblyInvariant == Spec => []AInv
<1> QED
  BY AssemblyInit, AssemblyNext, PTL DEF Spec

\* The fields of every root, the lists of lifespans, the hooks and the
\* applications are what TypeOK says, and a root that is being set up holds the
\* context it made itself (AppConfigCore.setup).
THEOREM AssemblyTypes == Spec => []TypeOK
<1>1. AInv => TypeOK
  BY DEF AInv
<1> QED
  BY <1>1, AssemblyInvariant, PTL

\* However many roots a process makes, and whatever failed, was tried again or
\* was adopted while another was set up: those whose setup() returned agree on
\* one assembly and, unless Django was configured elsewhere, on one registry
\* (AppConfigCore._adopt_assembled).
THEOREM RootsOfOneAssembly == Spec => []OneAssembly
<1>1. AInv => OneAssembly
  <2> SUFFICES ASSUME AInv, NEW r \in Root, NEW s \in Root, SetUp(r), SetUp(s)
               PROVE  /\ core[r].assembly = core[s].assembly
                      /\ core[r].assembly # NoRoot => core[r].plugins = core[s].plugins
    BY DEF OneAssembly
  <2>1. RootAgrees(r) /\ RootAgrees(s)
    BY DEF AInv, RootsAgree
  <2> QED
    BY <2>1 DEF RootAgrees
<1> QED
  BY <1>1, AssemblyInvariant, PTL

\* No hook of a plugin is called twice in a process, not by the setup that is
\* tried again after one that raised either (AppConfigCore.setup).
THEOREM HooksOnce == Spec => []HookedOnce
<1>1. AInv => HookedOnce
  BY DEF AInv, HooksInOrder, HookedOnce
<1> QED
  BY <1>1, AssemblyInvariant, PTL

\* Every application made from an assembled root, outside a setup, has the
\* lifespans of all the plugins of that root, each once and in the order of
\* registration, unless the setup that assembled the process raised
\* (AppConfigCore.setup, create_application).
THEOREM LifespansFollow == Spec => ApplicationsFollowRegistry
<1>1. ASSUME AInv, [Next]_vars
      PROVE  [\A r \in Root : Created(r) /\ core[r].assembly \notin cut =>
                 Follows(app'[r], core[r].plugins)]_vars
  <2> SUFFICES ASSUME Next, NEW r \in Root, Created(r), core[r].assembly \notin cut
               PROVE  Follows(app'[r], core[r].plugins)
    BY <1>1
  <2>1. TypeOK /\ RootAgrees(r) /\ Gathered /\ RootsAgree
    BY <1>1 DEF AInv, RootsAgree
  <2>2. /\ core[r].pc = "returned" /\ core'[r].pc = "serving" /\ core[r].assembly # NoRoot
        /\ \A s \in Root : core[s].pc \notin {"django", "hooks"}
    BY DEF Created
  <2>3. Create(r)
    <3>1. CASE ConfiguredElsewhere
      BY <2>2, <3>1 DEF ConfiguredElsewhere
    <3>2. ASSUME NEW s \in Root, NEW ps \in Registration, Construct(s, ps)
          PROVE  FALSE
      BY <2>1, <2>2, <3>2, ConstructMoves DEF Moved
    <3>3. ASSUME NEW s \in Root, Adopt(s)
          PROVE  FALSE
      BY <2>1, <2>2, <3>3, AdoptMoves DEF Moved
    <3>4. ASSUME NEW s \in Root, Begin(s)
          PROVE  FALSE
      BY <2>1, <2>2, <3>4, BeginMoves DEF Moved
    <3>5. ASSUME NEW s \in Root, Configure(s) \/ DjangoReady(s)
          PROVE  FALSE
      BY <2>1, <2>2, <3>5, ConfigureMoves, ReadyMoves DEF Moved
    <3>6. ASSUME NEW s \in Root, RunHook(s) \/ SetupRaises(s) \/ Return(s)
          PROVE  FALSE
      BY <2>1, <2>2, <3>6, HookMoves, RaiseMoves, ReturnMoves DEF Moved
    <3>7. ASSUME NEW s \in Root, Create(s)
          PROVE  s = r
      BY <2>1, <2>2, <3>7, CreateMoves DEF Moved
    <3> QED
      BY <3>1, <3>2, <3>3, <3>4, <3>5, <3>6, <3>7 DEF Next
  <2>4. PICK a \in Root : a = core[r].assembly
    BY <2>1, <2>2, Fields
  <2>5. /\ a = assembled /\ core[r].plugins = core[a].plugins
    BY <2>1, <2>2, <2>4, NoRootAssumption DEF RootAgrees, SetUp
  <2>6. core[a].pc \notin Building
    BY <2>2, <2>3 DEF Create, Idle, Building
  <2>7. Follows(lifespans[a], core[a].plugins)
    BY <2>1, <2>4, <2>5, <2>6 DEF Gathered
  <2>8. app'[r] = lifespans[a]
    BY <2>1, <2>2, <2>3, <2>4 DEF Create, Collected, TypeOK
  <2> QED
    BY <2>5, <2>7, <2>8
<1> QED
  BY <1>1, AssemblyInvariant, PTL DEF Spec, ApplicationsFollowRegistry

-----------------------------------------------------------------------------
(* The command line of the worker                                           *)

\* Max and Min of the places of an option.
LEMMA LastPlace ==
    ASSUME NEW n \in Nat, NEW S \in SUBSET (1 .. n), S # {}
    PROVE  Max(S) \in S /\ \A y \in S : y <= Max(S)
<1> DEFINE T == {n - i : i \in S}
<1>1. T \subseteq Nat /\ T # {}
  <2>1. \A i \in S : i \in 1 .. n
    OBVIOUS
  <2>2. \A i \in S : n - i \in Nat
    BY <2>1
  <2> QED
    BY <2>2
<1>2. IsWellFoundedOn(OpToRel(<, Nat), Nat)
  BY NatLessThanWellFounded
<1>3. PICK x \in T : \A y \in T : ~(<<y, x>> \in OpToRel(<, Nat))
  BY <1>1, <1>2, WFMin
<1>4. PICK i \in S : x = n - i
  BY <1>3
<1>5. \A j \in S : j <= i
  <2> TAKE j \in S
  <2>1. n - j \in T
    OBVIOUS
  <2>2. ~(n - j < n - i)
    BY <1>1, <1>3, <1>4, <2>1 DEF OpToRel
  <2> QED
    BY <2>2
<1>6. \E m \in S : \A y \in S : m >= y
  BY <1>5
<1>7. Max(S) \in S /\ \A y \in S : Max(S) >= y
  BY <1>6 DEF Max
<1> QED
  BY <1>7

LEMMA OnlyPlace ==
    ASSUME NEW n \in Nat, NEW S \in SUBSET (1 .. n), S # {}, ~(Cardinality(S) > 1)
    PROVE  Min(S) = Max(S) /\ Max(S) \in S
<1>1. IsFiniteSet(S) /\ Cardinality(S) \in Nat
  <2>1. IsFiniteSet(1 .. n)
    BY FS_Interval
  <2>2. IsFiniteSet(S)
    BY <2>1, FS_Subset
  <2> QED
    BY <2>2, FS_CardinalityType
<1>2. PICK x \in S : TRUE
  OBVIOUS
<1>3. ASSUME NEW y \in S, y # x
      PROVE  FALSE
  <2>1. IsFiniteSet({x}) /\ Cardinality({x}) = 1
    BY FS_Singleton
  <2>2. Cardinality({x} \cup {y}) = 2
    BY <1>3, <2>1, FS_AddElement
  <2>3. Cardinality({x} \cup {y}) <= Cardinality(S)
    BY <1>1, FS_Subset
  <2> QED
    BY <1>1, <2>2, <2>3
<1>4. S = {x}
  BY <1>3
<1>5. Max({x}) = x /\ Min({x}) = x
  <2>1. \A y \in {x} : x >= y /\ x <= y
    OBVIOUS
  <2> QED
    BY <2>1 DEF Max, Min
<1> QED
  BY <1>4, <1>5

\* Inside the test, the code and Celery see the same options.
LEMMA SamePlaces ==
    ASSUME NEW words \in Seq(STRING \X STRING), ~OutsideOfTheTest(words)
    PROVE  /\ Spelled(words, ConcurrencyFlags) = {i \in DOMAIN words : words[i][1] \in ConcurrencyFlags}
           /\ Spelled(words, QueueFlags) = {i \in DOMAIN words : words[i][1] \in QueueFlags}
           /\ ~(Cardinality(Spelled(words, QueueFlags)) > 1)
<1>1. \A i \in DOMAIN words : words[i][1] \in {"-c", "-Q"} => words[i][2] = ""
  BY DEF OutsideOfTheTest
<1>2. ASSUME NEW i \in DOMAIN words, words[i][1] \in ConcurrencyFlags \cup QueueFlags
      PROVE  Bare(words[i]) \/ Joined(words[i])
  BY <1>1, <1>2 DEF Bare, Joined, ConcurrencyFlags, QueueFlags
<1>3. ~(Cardinality(Spelled(words, QueueFlags)) > 1)
  BY DEF OutsideOfTheTest
<1> QED
  BY <1>2, <1>3 DEF Spelled

LEMMA SameQueues ==
    ASSUME NEW words \in Seq(STRING \X STRING), ~OutsideOfTheTest(words)
    PROVE  QueueValue(words) = Reading(words, QueueFlags)
<1> DEFINE S == Spelled(words, QueueFlags)
<1>1. S = {i \in DOMAIN words : words[i][1] \in QueueFlags} /\ ~(Cardinality(S) > 1)
  BY SamePlaces
<1>2. S \in SUBSET (1 .. Len(words)) /\ Len(words) \in Nat
  BY DEF Spelled
<1>3. S # {} => Min(S) = Max(S)
  BY <1>1, <1>2, OnlyPlace
<1> QED
  BY <1>1, <1>3 DEF QueueValue, Reading

LEMMA WordIs ==
    ASSUME NEW w \in STRING \X STRING
    PROVE  w = <<w[1], w[2]>>
OBVIOUS

\* An option that is there has a value.
LEMMA ExplicitIsRead ==
    ASSUME NEW words \in CommandLine, ~OutsideOfTheTest(words)
    PROVE  Explicit(words) <=> Reading(words, ConcurrencyFlags) # ""
<1>a. \A i \in DOMAIN words : words[i] \in {<<"-c", "">>, <<"--concurrency", "">>} =>
         i < Len(words) /\ words[i + 1][2] # ""
  BY CommandLineAssumption
<1>1. words \in Seq(STRING \X STRING)
  BY CommandLineAssumption
<1>l. DOMAIN words = 1 .. Len(words) /\ Len(words) \in Nat
  BY <1>1, LenProperties
<1> DEFINE S == Spelled(words, ConcurrencyFlags)
<1>2. S = {i \in DOMAIN words : words[i][1] \in ConcurrencyFlags}
  BY <1>1, SamePlaces
<1>3. S \in SUBSET (1 .. Len(words)) /\ Len(words) \in Nat
  BY <1>2, <1>l
<1>4. CASE S = {}
  BY <1>2, <1>4 DEF Explicit, Reading
<1>5. CASE S # {}
  <2>1. Max(S) \in S
    BY <1>3, <1>5, LastPlace
  <2>2. PICK i \in DOMAIN words : i = Max(S)
    BY <1>2, <2>1
  <2>3. words[i][1] \in ConcurrencyFlags
    BY <1>2, <2>1, <2>2
  <2>a. words[i] \in STRING \X STRING
    BY <1>1, <1>l, ElementOfSeq
  <2>b. words[i] = <<words[i][1], words[i][2]>>
    BY <2>a, WordIs
  <2>4. ValueAt(words, i) # ""
    <3>1. CASE words[i][2] # ""
      BY <3>1 DEF ValueAt
    <3>2. CASE words[i][2] = ""
      <4>1. words[i] \in {<<"-c", "">>, <<"--concurrency", "">>}
        <5>1. words[i][1] = "-c" \/ words[i][1] = "--concurrency"
          BY <2>3 DEF ConcurrencyFlags
        <5>2. words[i] = <<"-c", "">> \/ words[i] = <<"--concurrency", "">>
          BY <2>b, <3>2, <5>1
        <5> QED
          BY <5>2
      <4>a. i < Len(words)
        BY <1>a, <4>1
      <4>2. words[i + 1][2] # ""
        BY <1>a, <4>1
      <4>3. i + 1 \in DOMAIN words
        <5>1. i \in Nat /\ i >= 1
          BY <1>l, <2>2
        <5> QED
          BY <1>l, <4>a, <5>1
      <4> QED
        BY <3>2, <4>2, <4>3 DEF ValueAt
    <3> QED
      BY <3>1, <3>2
  <2>5. Reading(words, ConcurrencyFlags) = ValueAt(words, i)
    BY <1>2, <1>5, <2>2 DEF Reading
  <2> QED
    BY <1>5, <2>4, <2>5 DEF Explicit
<1> QED
  BY <1>4, <1>5

\* What Celery makes of the two words that are added.
LEMMA AddedIsRead ==
    ASSUME NEW words \in Seq(STRING \X STRING), NEW quota
    PROVE  Reading(words \o << <<"-c", "">>, <<"", quota>> >>, ConcurrencyFlags) = quota
<1> DEFINE n == Len(words)
           added == << <<"-c", "">>, <<"", quota>> >>
           new == words \o added
           S == {i \in DOMAIN new : new[i][1] \in ConcurrencyFlags}
<1>1. /\ n \in Nat /\ DOMAIN new = 1 .. n + 2
      /\ new[n + 1][1] = "-c" /\ new[n + 1][2] = ""
      /\ new[n + 2][1] = "" /\ new[n + 2][2] = quota
  <2>a. PICK c : c = <<"-c", "">>
    OBVIOUS
  <2>b. PICK q : q = <<"", quota>>
    OBVIOUS
  <2> DEFINE Word == (STRING \X STRING) \cup {c, q}
  <2>1. <<c, q>> \in Seq(Word) /\ Len(<<c, q>>) = 2
    OBVIOUS
  <2>2. words \in Seq(Word)
    <3>1. words \in [1 .. Len(words) -> STRING \X STRING] /\ Len(words) \in Nat
      BY LenProperties
    <3>2. words \in [1 .. Len(words) -> Word]
      BY <3>1
    <3> QED
      BY <3>1, <3>2
  <2> HIDE DEF Word
  <2>3. /\ Len(words \o <<c, q>>) = Len(words) + 2 /\ words \o <<c, q>> \in Seq(Word)
        /\ \A i \in 1 .. Len(words) + 2 :
              (words \o <<c, q>>)[i] = IF i <= Len(words) THEN words[i] ELSE <<c, q>>[i - Len(words)]
    BY <2>1, <2>2, ConcatProperties
  <2>4. Len(words) \in Nat
    BY LenProperties
  <2> DEFINE w == words \o <<c, q>>
  <2>5. new = w
    BY <2>a, <2>b
  <2>6. w[n + 1] = c /\ w[n + 2] = q
    BY <2>3, <2>4
  <2>7. n \in Nat /\ DOMAIN w = 1 .. n + 2
    BY <2>3, <2>4, LenProperties
  <2> HIDE DEF w, n, new
  <2>8. c[1] = "-c" /\ c[2] = "" /\ q[1] = "" /\ q[2] = quota
    BY <2>a, <2>b
  <2> QED
    BY <2>5, <2>6, <2>7, <2>8
<1> HIDE DEF n, added, new
<1>n. n \in Nat /\ DOMAIN new = 1 .. n + 2
  BY <1>1
<1>w. new[n + 1][1] = "-c" /\ new[n + 1][2] = "" /\ new[n + 2][1] = "" /\ new[n + 2][2] = quota
  BY <1>1
<1>2. S \in SUBSET (1 .. n + 2) /\ n + 2 \in Nat
  BY <1>n
<1>p. n + 1 \in DOMAIN new /\ n + 2 \in DOMAIN new
  BY <1>n
<1>3. n + 1 \in S /\ n + 2 \notin S
  BY <1>w, <1>p DEF ConcurrencyFlags
<1>4. Max(S) \in S /\ \A y \in S : y <= Max(S)
  BY <1>2, <1>3, LastPlace
<1>5. Max(S) = n + 1
  <2>1. Max(S) \in 1 .. n + 2 /\ n + 1 <= Max(S) /\ Max(S) # n + 2
    BY <1>2, <1>3, <1>4
  <2> QED
    BY <1>n, <2>1
<1>6. ValueAt(new, n + 1) = quota
  <2>1. n + 1 + 1 = n + 2
    BY <1>n
  <2> QED
    BY <1>w, <1>p, <2>1 DEF ValueAt
<1>7. Reading(new, ConcurrencyFlags) = quota
  BY <1>3, <1>5, <1>6 DEF Reading
<1> QED
  BY <1>7 DEF new, added

\* apply_worker_concurrency does what is asked of it, for one command line.
LEMMA ConcurrencyOf ==
    ASSUME NEW words \in CommandLine, words # <<>>, ~OutsideOfTheTest(words)
    PROVE  LET chosen == Reading(words, ConcurrencyFlags)
               queues == Reading(words, QueueFlags)
           IN  Reading(ApplyConcurrency(words), ConcurrencyFlags) =
                 IF chosen # "" THEN chosen
                 ELSE IF words[1] = <<"", "worker">> /\ queues # ""
                         /\ QueueNames[queues][1] \in DOMAIN Quota
                      THEN Quota[QueueNames[queues][1]]
                      ELSE ""
<1> DEFINE queues == Reading(words, QueueFlags)
           Ranked == words[1] = <<"", "worker">> /\ queues # ""
                     /\ QueueNames[queues][1] \in DOMAIN Quota
<1>1. words \in Seq(STRING \X STRING)
  BY CommandLineAssumption
<1>2. QueueValue(words) = queues
  BY <1>1, SameQueues
<1>3. Explicit(words) <=> Reading(words, ConcurrencyFlags) # ""
  BY ExplicitIsRead
<1>4. CASE Explicit(words) \/ ~Ranked
  <2>1. ApplyConcurrency(words) = words
    BY <1>2, <1>4 DEF ApplyConcurrency
  <2> HIDE DEF Ranked
  <2>2. ~Explicit(words) => ~Ranked /\ Reading(words, ConcurrencyFlags) = ""
    BY <1>3, <1>4
  <2> QED
    BY <1>3, <2>1, <2>2 DEF Ranked
<1>5. CASE ~Explicit(words) /\ Ranked
  <2>1. PICK quota : quota = Quota[QueueNames[queues][1]]
    OBVIOUS
  <2>2. ApplyConcurrency(words) = words \o << <<"-c", "">>, <<"", quota>> >>
    BY <1>2, <1>5, <2>1 DEF ApplyConcurrency
  <2>3. Reading(ApplyConcurrency(words), ConcurrencyFlags) = quota
    BY <1>1, <2>2, AddedIsRead
  <2> QED
    BY <1>3, <1>5, <2>1, <2>3
<1> QED
  BY <1>4, <1>5

\* Celery is started once, with a command line of the deployment.
Started ==
    given # <<>> => given \in CommandLine /\ argv = ApplyConcurrency(given)

\* The Celery process does to its roots what any process does: everything that
\* is proved of them above holds of it too (celery_entrypoint).
THEOREM WorkerAssembles == WorkerSpec => Spec
<1>1. WorkerInit => Init
  BY DEF WorkerInit
<1>2. [WorkerNext]_workerVars => [Next]_vars
  <2> SUFFICES ASSUME [WorkerNext]_workerVars
               PROVE  [Next]_vars
    OBVIOUS
  <2>1. CASE UNCHANGED workerVars
    BY <2>1 DEF workerVars
  <2>2. ASSUME NEW r \in Root, NEW words \in CommandLine, StartCelery(r, words)
        PROVE  UNCHANGED vars
    BY <2>2 DEF StartCelery
  <2> QED
    BY <2>1, <2>2 DEF WorkerNext
<1> QED
  BY <1>1, <1>2, PTL DEF WorkerSpec, Spec

\* For any command line that Celery accepts, any queues and any quotas, unless
\* a flag is attached to its value without "=" or the queues are named twice:
\* the worker has the concurrency the operator chose, or else the quota of the
\* tier it serves, or none (Scheduler.apply_worker_concurrency).
THEOREM WorkerConcurrency == WorkerSpec => []ConcurrencyIsChosen
<1>1. WorkerInit => Started
  BY DEF WorkerInit, Started
<1>2. ASSUME Started, [WorkerNext]_workerVars
      PROVE  Started'
  <2>1. CASE UNCHANGED <<given, argv>>
    BY <1>2, <2>1 DEF Started
  <2>2. ASSUME NEW r \in Root, NEW words \in CommandLine, StartCelery(r, words)
        PROVE  Started'
    BY <2>2 DEF StartCelery, Started
  <2> QED
    BY <1>2, <2>1, <2>2 DEF WorkerNext, workerVars
<1>3. Started => ConcurrencyIsChosen
  <2> SUFFICES ASSUME Started, given # <<>>, ~OutsideOfTheTest(given)
               PROVE  ConcurrencyIsChosen
    BY DEF ConcurrencyIsChosen
  <2>1. given \in CommandLine /\ argv = ApplyConcurrency(given)
    BY DEF Started
  <2> QED
    BY <2>1, ConcurrencyOf DEF ConcurrencyIsChosen
<1> QED
  BY <1>1, <1>2, <1>3, PTL DEF WorkerSpec
=============================================================================
