----------------------------- MODULE RoutingProofs -----------------------------
(***************************************************************************)
(* What holds of Routing for every set of configurations and declarations,  *)
(* any plugins and any number of edits of config.yaml.                      *)
(***************************************************************************)
EXTENDS Routing, TLAPS

USE ConfigAssumption, BoundAssumption, NoFileAssumption, DeclAssumption

-----------------------------------------------------------------------------
(* The inductive invariant                                                  *)

Loadable == Config \cup {Default}
Prefix == {c.prefix : c \in Loadable} \cup {None}
Place == {None, "queue", "dlq", "stuck", "row", "failed", "buried"}
Envelope == [at : Place, prefix : Prefix, tier : Tier, rows : Nat]

\* TypeOK, with the variables functions and the message a record.
Typed ==
    /\ file \in Config \cup {NoFile}
    /\ edits \in 0 .. MaxEdits
    /\ cached \in [Proc -> {Default, NoFile}]
    /\ settings \in [Proc -> Loadable \cup {NoFile}]
    /\ imported \in [Proc -> SUBSET Name]
    /\ msg \in Envelope
    /\ batch \in Prefix
    /\ \A p \in Proc : settings[p] # NoFile => settings[p].ladder >= settings[p].budget

\* A process with a schedule was set up, and while config.yaml is as it was
\* at the start, so is what a process that was set up loads.
Bootstrapped == \A p \in Proc : schedule[p] # <<>> => settings[p] # NoFile
Validated ==
    edits = 0 => \A p \in Proc : settings[p] # NoFile => Load(p).ladder >= Load(p).budget
ScheduleTyped == schedule = [p \in Proc |-> schedule[p]]

\* A batch is drained by a process that was set up.
Draining == batch # None => settings["internal"] # NoFile

RInv == /\ Typed /\ Bootstrapped /\ Validated /\ ScheduleTyped /\ Draining
        /\ TicksAreScheduled /\ LadderCoversBudget

LEMMA LoadType ==
    ASSUME Typed, NEW p \in Proc
    PROVE  /\ Load(p) \in Loadable
           /\ Load(p).budget \in Nat /\ Load(p).ladder \in Nat
           /\ Load(p).prefix \in Prefix
<1>1. Load(p) \in Loadable
  BY DEF Load, Typed, Loadable
<1> QED
  BY <1>1 DEF Loadable, Prefix

\* A process that loads the configuration keeps it, or nothing.
LEMMA LoadsType ==
    ASSUME Typed, NEW p \in Proc, Loads(p)
    PROVE  cached' \in [Proc -> {Default, NoFile}]
<1>1. Cached(p) \in {Default, NoFile}
  BY DEF Cached, Typed
<1> QED
  BY <1>1 DEF Loads, Typed

\* The next message of the batch is a message, and the tier it gets is its own
\* or the default one.
LEMMA HandledType ==
    ASSUME Typed, HandleMessage
    PROVE  msg' \in Envelope /\ batch' \in Prefix
<1>1. msg \in Envelope
  BY DEF Typed
<1>2. batch' \in Prefix
  BY DEF HandleMessage, Typed, Prefix
<1>3. CASE msg' = [msg EXCEPT !.at = "buried"]
  BY <1>1, <1>2, <1>3 DEF Envelope, Place
<1>4. CASE msg' = [msg EXCEPT !.at = "stuck"]
  BY <1>1, <1>2, <1>4 DEF Envelope, Place
<1>5. ASSUME NEW u \in Tier, msg' = [msg EXCEPT !.at = "row", !.rows = @ + 1, !.tier = u]
      PROVE  msg' \in Envelope
  <2>1. PICK a \in Place, x \in Prefix, t \in Tier, r \in Nat :
             msg = [at |-> a, prefix |-> x, tier |-> t, rows |-> r]
    BY <1>1 DEF Envelope
  <2>2. msg' = [at |-> "row", prefix |-> x, tier |-> u, rows |-> r + 1]
    BY <1>5, <2>1
  <2> QED
    BY <2>2 DEF Envelope, Place
<1>6. TierFromXDeath(Load("internal").prefix) \in Tier
  BY <1>1 DEF TierFromXDeath, Envelope, Tier
<1>7. \/ msg' = [msg EXCEPT !.at = "buried"]
      \/ msg' = [msg EXCEPT !.at = "stuck"]
      \/ msg' = [msg EXCEPT !.at = "row", !.rows = @ + 1,
                            !.tier = TierFromXDeath(Load("internal").prefix)]
  BY DEF HandleMessage
<1> QED
  BY <1>2, <1>3, <1>4, <1>5, <1>6, <1>7

LEMMA TypedNext ==
    ASSUME Typed, [Next]_vars
    PROVE  Typed'
<1> USE DEF Typed
<1>1. ASSUME NEW c \in Config \cup {NoFile}, Edit(c)
      PROVE  Typed'
  BY <1>1 DEF Edit
<1>2. ASSUME NEW p \in Proc, Setup(p)
      PROVE  Typed'
  <2>1. Load(p) \in Loadable /\ Load(p).ladder >= Load(p).budget
    BY <1>2, LoadType DEF Setup
  <2>2. cached' \in [Proc -> {Default, NoFile}]
    BY <1>2, LoadsType DEF Setup
  <2>3. /\ settings' \in [Proc -> Loadable \cup {NoFile}]
        /\ \A q \in Proc : settings'[q] # NoFile => settings'[q].ladder >= settings'[q].budget
    BY <1>2, <2>1 DEF Setup
  <2> QED
    BY <1>2, <2>2, <2>3 DEF Setup
<1>3. ASSUME NEW p \in Proc, NEW n \in Name, Import(p, n)
      PROVE  Typed'
  BY <1>3 DEF Import
<1>4. ASSUME NEW p \in Proc, Bootstrap(p) \/ CeleryStarts(p)
      PROVE  Typed'
  <2>1. CASE Bootstrap(p)
    <3>1. cached' \in [Proc -> {Default, NoFile}]
      BY <2>1, LoadsType DEF Bootstrap
    <3> QED
      BY <2>1, <3>1 DEF Bootstrap
  <2>2. CASE CeleryStarts(p)
    BY <2>2 DEF CeleryStarts
  <2> QED
    BY <1>4, <2>1, <2>2
<1>5. ASSUME NEW n \in Name, NEW t \in Tier \cup {None}, NEW q \in Priority \cup {None},
             Dispatch(n, t, q)
      PROVE  Typed'
  <2>1. Resolve("web", n, t, q) \in Tier
    BY DEF Resolve, TierOf, Declared, Priority, Tier, None, Name
  <2>2. Load("web").prefix \in Prefix
    BY LoadType DEF Proc
  <2>3. msg' \in Envelope
    BY <1>5, <2>1, <2>2 DEF Dispatch, Envelope, Place
  <2>4. cached' \in [Proc -> {Default, NoFile}]
    BY <1>5, LoadsType DEF Dispatch, Proc
  <2> QED
    BY <1>5, <2>3, <2>4 DEF Dispatch
<1>6. CASE DeadLetter \/ DrainAgain
  <2>1. msg' \in Envelope
    BY <1>6 DEF DeadLetter, DrainAgain, Envelope, Place
  <2> QED
    BY <1>6, <2>1 DEF DeadLetter, DrainAgain
<1>7. CASE DrainStarts \/ HandleMessage \/ DrainEnds
  <2>1. CASE DrainStarts
    <3>1. cached' \in [Proc -> {Default, NoFile}] /\ batch' \in Prefix
      BY <2>1, LoadsType, LoadType DEF DrainStarts, Proc
    <3> QED
      BY <2>1, <3>1 DEF DrainStarts
  <2>2. CASE HandleMessage
    <3>1. cached' \in [Proc -> {Default, NoFile}]
      BY <2>2, LoadsType DEF HandleMessage, Proc
    <3>2. UNCHANGED <<file, edits, settings, imported>>
      BY <2>2 DEF HandleMessage
    <3>3. msg' \in Envelope /\ batch' \in Prefix
      BY <2>2, HandledType
    <3> QED
      BY <3>1, <3>2, <3>3
  <2>3. CASE DrainEnds
    BY <2>3 DEF DrainEnds, Prefix
  <2> QED
    BY <1>7, <2>1, <2>2, <2>3
<1>8. CASE DispatchDue
  <2>1. Load("internal").prefix \in Prefix
    BY LoadType DEF Proc
  <2>2. msg' \in Envelope
    BY <1>8, <2>1 DEF DispatchDue, Envelope, Place
  <2>3. cached' \in [Proc -> {Default, NoFile}]
    BY <1>8, LoadsType DEF DispatchDue, Proc
  <2> QED
    BY <1>8, <2>2, <2>3 DEF DispatchDue
<1>9. CASE UNCHANGED vars
  BY <1>9 DEF vars
<1> QED
  BY <1>1, <1>2, <1>3, <1>4, <1>5, <1>6, <1>7, <1>8, <1>9 DEF Next

\* What a process loads changes with config.yaml only.
LEMMA LoadStays ==
    ASSUME Typed, [Next]_vars, edits' = 0, NEW p \in Proc
    PROVE  edits = 0 /\ Load(p)' = Load(p)
<1>1. edits = 0 /\ file' = file
  BY DEF Next, Edit, Setup, Import, Bootstrap, CeleryStarts, Dispatch, DeadLetter,
         DrainStarts, HandleMessage, DrainEnds, DrainAgain, DispatchDue, vars, Typed
<1>2. ASSUME NEW q \in Proc, Loads(q)
      PROVE  Load(p)' = Load(p)
  <2>1. cached'[p] = IF p = q THEN Cached(p) ELSE cached[p]
    BY <1>2 DEF Loads, Typed
  <2> QED
    BY <1>1, <2>1 DEF Load, Cached
<1>3. \/ UNCHANGED cached
      \/ \E q \in Proc : Loads(q)
  BY DEF Next, Edit, Setup, Import, Bootstrap, CeleryStarts, Dispatch, DeadLetter,
         DrainStarts, HandleMessage, DrainEnds, DrainAgain, DispatchDue, vars, Proc
<1> QED
  BY <1>1, <1>2, <1>3 DEF Load

LEMMA RInvNext == RInv /\ [Next]_vars => RInv'
<1> SUFFICES ASSUME RInv, [Next]_vars
             PROVE  RInv'
  OBVIOUS
<1> USE DEF RInv
<1>1. Typed'
  BY TypedNext
<1>a. \/ UNCHANGED schedule
      \/ \E p \in Proc : Bootstrap(p)
  BY DEF Next, Edit, Setup, Import, CeleryStarts, Dispatch, DeadLetter, DrainStarts,
         HandleMessage, DrainEnds, DrainAgain, DispatchDue, vars
<1>b. \/ UNCHANGED settings
      \/ \E p \in Proc : Setup(p)
  BY DEF Next, Edit, Bootstrap, Import, CeleryStarts, Dispatch, DeadLetter, DrainStarts,
         HandleMessage, DrainEnds, DrainAgain, DispatchDue, vars
<1>c. \A p \in Proc : settings[p] # NoFile => settings'[p] # NoFile
  <2>1. ASSUME NEW q \in Proc, Setup(q)
        PROVE  \A p \in Proc : settings[p] # NoFile => settings'[p] # NoFile
    BY <2>1 DEF Setup, Typed
  <2> QED
    BY <1>b, <2>1
<1>2. Bootstrapped' /\ ScheduleTyped' /\ TicksAreScheduled'
  <2>1. CASE UNCHANGED schedule
    BY <1>c, <2>1 DEF Bootstrapped, ScheduleTyped, TicksAreScheduled
  <2>2. ASSUME NEW p \in Proc, Bootstrap(p)
        PROVE  Bootstrapped' /\ ScheduleTyped' /\ TicksAreScheduled'
    <3>1. /\ schedule' = [schedule EXCEPT ![p] = Scheduled(p)]
          /\ settings' = settings /\ settings[p] # NoFile
          /\ plugins \cap Tick = {}
      BY <2>2 DEF Bootstrap, Conflicts
    <3>2. /\ Tick \subseteq DOMAIN Scheduled(p)
          /\ \A t \in Tick : Scheduled(p)[t][2] = "internal"
      BY <3>1 DEF Scheduled
    <3> HIDE DEF RInv
    <3>3. ScheduleTyped'
      BY <3>1 DEF RInv, ScheduleTyped
    <3>4. \A q \in Proc : schedule'[q] = IF q = p THEN Scheduled(p) ELSE schedule[q]
      BY <3>1 DEF RInv, ScheduleTyped
    <3>5. Bootstrapped'
      BY <3>1, <3>4 DEF RInv, Bootstrapped
    <3>6. TicksAreScheduled'
      BY <3>2, <3>4 DEF RInv, TicksAreScheduled
    <3> QED
      BY <3>3, <3>5, <3>6
  <2> QED
    BY <1>a, <2>1, <2>2
<1>3. Validated'
  <2> SUFFICES ASSUME edits' = 0, NEW p \in Proc, settings'[p] # NoFile
               PROVE  Load(p)'.ladder >= Load(p)'.budget
    BY DEF Validated
  <2>1. edits = 0 /\ Load(p)' = Load(p)
    BY LoadStays
  <2>2. CASE settings[p] # NoFile
    BY <2>1, <2>2 DEF Validated
  <2>3. CASE settings[p] = NoFile
    <3>1. Setup(p)
      <4>1. ASSUME NEW q \in Proc, Setup(q), q # p
            PROVE  settings'[p] = settings[p]
        BY <4>1 DEF Setup, Typed
      <4> QED
        BY <1>b, <2>3, <4>1
    <3> QED
      BY <2>1, <3>1 DEF Setup
  <2> QED
    BY <2>2, <2>3
<1>4. LadderCoversBudget'
  <2> SUFFICES ASSUME edits' = 0
               PROVE  msg'.at # "stuck"
    BY DEF LadderCoversBudget
  <2>1. edits = 0
    BY LoadStays DEF Proc
  <2>2. msg.at # "stuck" /\ msg \in Envelope
    BY <2>1 DEF LadderCoversBudget, Typed
  <2>3. CASE HandleMessage
    <3> DEFINE c == Load("internal")
    <3>1. settings["internal"] # NoFile => c.ladder >= c.budget
      BY <2>1 DEF Validated, Proc
    <3>2. c.ladder \in Nat /\ c.budget \in Nat /\ msg.rows \in Nat
      BY <2>2, LoadType DEF Envelope, Proc
    <3>3. settings["internal"] # NoFile
      BY <2>3 DEF HandleMessage, Draining
    <3> HIDE DEF c
    <3>4. ~(InBudget(msg.rows + 1, c) /\ msg.rows + 1 > c.ladder)
      BY <3>1, <3>2, <3>3 DEF InBudget
    <3>5. \/ msg' = [msg EXCEPT !.at = "buried"]
          \/ msg' = [msg EXCEPT !.at = "row", !.rows = @ + 1,
                                !.tier = TierFromXDeath(c.prefix)]
      BY <2>3, <3>4 DEF HandleMessage, c
    <3> QED
      BY <2>2, <3>5 DEF Envelope
  <2>4. CASE ~HandleMessage
    <3>1. \/ msg' = msg
          \/ DeadLetter \/ DrainAgain \/ DispatchDue
          \/ \E n \in Name, t \in Tier \cup {None}, q \in Priority \cup {None} :
                Dispatch(n, t, q)
      BY <2>4 DEF Next, Edit, Setup, Import, Bootstrap, CeleryStarts, DrainStarts,
         DrainEnds, vars
    <3>2. CASE DeadLetter \/ DrainAgain
      BY <2>2, <3>2 DEF DeadLetter, DrainAgain, Envelope
    <3>3. CASE DispatchDue
      BY <2>2, <3>3 DEF DispatchDue, Envelope
    <3>4. ASSUME NEW n \in Name, NEW t \in Tier \cup {None}, NEW q \in Priority \cup {None},
                 Dispatch(n, t, q)
          PROVE  msg'.at # "stuck"
      BY <3>4 DEF Dispatch
    <3> QED
      BY <2>2, <3>1, <3>2, <3>3, <3>4
  <2> QED
    BY <2>3, <2>4
<1>5. Draining'
  <2>1. settings["internal"] # NoFile => settings'["internal"] # NoFile
    BY <1>c DEF Proc
  <2>2. batch' # None => batch # None \/ DrainStarts
    BY DEF Next, Edit, Setup, Bootstrap, Import, CeleryStarts, Dispatch, DeadLetter,
       HandleMessage, DrainEnds, DrainAgain, DispatchDue, vars
  <2>3. DrainStarts => settings["internal"] # NoFile
    BY DEF DrainStarts, Running, Bootstrapped, Proc
  <2> QED
    BY <2>1, <2>2, <2>3 DEF Draining
<1> QED
  BY <1>1, <1>2, <1>3, <1>4, <1>5

LEMMA RInvInit == Init => RInv
<1> SUFFICES ASSUME Init
             PROVE  RInv
  OBVIOUS
<1>1. msg \in Envelope
  BY DEF Init, NoMessage, Envelope, Place, Prefix, Tier, None
<1>2. Typed
  BY <1>1 DEF Init, Typed, Prefix
<1>3. Bootstrapped /\ Validated /\ TicksAreScheduled /\ ScheduleTyped /\ Draining
  BY DEF Init, Bootstrapped, Validated, TicksAreScheduled, ScheduleTyped, Draining
<1>4. LadderCoversBudget
  BY DEF Init, LadderCoversBudget, NoMessage, None
<1> QED
  BY <1>2, <1>3, <1>4 DEF RInv

-----------------------------------------------------------------------------
\* A process that runs was started with a valid configuration, and keeps it.
THEOREM RoutingTyped == Spec => []TypeOK
<1>1. RInv => TypeOK
  BY DEF RInv, Typed, TypeOK, Loadable, Envelope, Place, Prefix
<1> QED
  BY <1>1, RInvInit, RInvNext, PTL DEF Spec

\* No declaration and no plugin replaces a tick of the runtime: a process
\* refuses to start with an entry of that name.
THEOREM TicksSurvive == Spec => []TicksAreScheduled
<1>1. RInv => TicksAreScheduled
  BY DEF RInv
<1> QED
  BY <1>1, RInvInit, RInvNext, PTL DEF Spec

\* Without an edit every redelivery within the budget has a rung, for any
\* budget and ladder that the start of the process lets through.
THEOREM LadderSuffices == Spec => []LadderCoversBudget
<1>1. RInv => LadderCoversBudget
  BY DEF RInv
<1> QED
  BY <1>1, RInvInit, RInvNext, PTL DEF Spec

\* The tier of a task on its way changes in handle_message() only, and there
\* only for the default one, under a prefix that is not the batch's any more.
THEOREM TierKept == Spec => TierNeverChanges
<1> DEFINE Tiers == msg.at # None /\ msg'.tier # msg.tier
                        => Overtaken /\ msg'.tier = "default"
<1>1. RInv /\ [Next]_vars => [Tiers]_vars
  <2> SUFFICES ASSUME RInv, Next, msg.at # None, msg'.tier # msg.tier
               PROVE  Overtaken /\ msg'.tier = "default"
    OBVIOUS
  <2>1. msg \in Envelope
    BY DEF RInv, Typed
  <2>2. HandleMessage
    BY <2>1 DEF Next, Edit, Setup, Import, Bootstrap, CeleryStarts, Dispatch,
       DeadLetter, DrainStarts, DrainEnds, DrainAgain, DispatchDue, Envelope
  <2>3. msg'.tier = TierFromXDeath(Load("internal").prefix)
    BY <2>1, <2>2 DEF HandleMessage, Envelope
  <2>4. batch # None /\ batch = msg.prefix
    BY <2>2 DEF HandleMessage
  <2> QED
    BY <2>3, <2>4 DEF TierFromXDeath, Overtaken
<1> QED
  BY <1>1, RInvInit, RInvNext, PTL DEF Spec, TierNeverChanges
=============================================================================
