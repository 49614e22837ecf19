------------------------------ MODULE Routing ------------------------------
(***************************************************************************)
(* Which queue a task goes to (tasks/decorators.py, scheduler.py, enums.py, *)
(* the queues of server/settings.py) and what that decision is made from:   *)
(* the tiers declared by the modules a process has imported, and the        *)
(* configuration, which is loaded again at every use.                       *)
(*                                                                          *)
(* Three processes: "web" publishes tasks; "beat" and "internal" bootstrap  *)
(* and hand over to Celery, which imports the task modules, the first to    *)
(* publish the schedule, the second to drain dead letters and to dispatch   *)
(* redeliveries.  One dispatched task is followed.  A queue is a pair of    *)
(* the configured prefix and a name.                                        *)
(***************************************************************************)
EXTENDS Naturals, FiniteSets

CONSTANTS
    Config,         \* configurations: [prefix, budget, ladder]
    Default,        \* the one of a process that finds no config.yaml
    NoFile,         \* no config.yaml
    Decl,           \* what the decorator of each task declares, by name
    MaxEntries,     \* bound: how many beat entries plugins contribute
    MaxEdits        \* bound: how often config.yaml is written

Proc == {"web", "beat", "internal"}
Tier == {"urgent", "high", "default", "low"}
Priority == {"LOW", "DEFAULT", "HIGH", "URGENT"}
Tick == {"drain_dlq", "dispatch_due_redeliveries"}
None == "none"

ASSUME ConfigAssumption ==
    \A c \in Config \cup {Default} :
        /\ DOMAIN c = {"prefix", "budget", "ladder"}
        /\ c.budget \in Nat /\ c.ladder \in Nat
ASSUME BoundAssumption == MaxEntries \in Nat /\ MaxEdits \in Nat
ASSUME NoFileAssumption == NoFile \notin Config
ASSUME DeclAssumption ==
    \A n \in DOMAIN Decl :
        /\ Decl[n].tier \in Tier
        /\ Decl[n].spec \in {None, "crontab", "interval", "malformed"}

Name == DOMAIN Decl

VARIABLES
    file,       \* config.yaml
    edits,      \* how often it was written
    cached,     \* AppConfig._instance of each process
    settings,   \* the configuration each process built its settings from
    imported,   \* the tasks whose module each process has imported
    plugins,    \* the names of the beat entries that plugins contribute
    schedule,   \* the beat schedule of the processes that bootstrapped
    batch,      \* the prefix drain() has read for the batch it is in, or None
    msg         \* the dispatched task: where its message or row is

vars == <<file, edits, cached, settings, imported, plugins, schedule, batch, msg>>

NoMessage == [at |-> None, prefix |-> None, tier |-> "default", rows |-> 0]

-----------------------------------------------------------------------------
TierOf(priority) ==
    CASE priority = "LOW"     -> "low"
      [] priority = "DEFAULT" -> "default"
      [] priority = "HIGH"    -> "high"
      [] priority = "URGENT"  -> "urgent"

\* DECLARED_TIERS of a process: what the decorators it has run have put there.
Declared(p, n) == IF n \in imported[p] THEN Decl[n].tier ELSE None

\* explicit > priority > declared > default
Resolve(p, name, tier, priority) ==
    IF tier # None THEN tier
    ELSE IF priority # None THEN TierOf(priority)
    ELSE IF Declared(p, name) # None THEN Declared(p, name)
    ELSE "default"

\* AppConfig.load(): the instance if there is one, the file if there is one.
Load(p) ==
    IF cached[p] # NoFile THEN cached[p]
    ELSE IF file # NoFile THEN file
    ELSE Default

\* What load() leaves in _instance: a configuration that was read from a file
\* is returned and not kept.
Cached(p) == IF cached[p] = NoFile /\ file = NoFile THEN Default ELSE cached[p]

\* The process loads the configuration, once or more often.
Loads(p) == cached' = [cached EXCEPT ![p] = Cached(p)]

\* PERIODIC_ENTRIES of a process.
Periodic(p) == {n \in imported[p] : Decl[n].spec # None}

\* build_beat_schedule(), the ticks over the declared entries, and then what
\* plugins contribute, which has no queue of its own.
Scheduled(p) ==
    [n \in Tick \cup Periodic(p) \cup plugins |->
        <<Load(p).prefix, IF n \in plugins THEN "default"
                          ELSE IF n \in Tick THEN "internal"
                          ELSE Decl[n].tier>>]

-----------------------------------------------------------------------------
Init ==
    /\ file \in Config \cup {NoFile}
    /\ edits = 0
    /\ cached = [p \in Proc |-> NoFile]
    /\ settings = [p \in Proc |-> NoFile]
    /\ imported = [p \in Proc |-> {}]
    /\ plugins \in {N \in SUBSET (Name \cup Tick \cup {"plugin.tick"}) :
                        Cardinality(N) <= MaxEntries}
    /\ schedule = [p \in Proc |-> <<>>]
    /\ batch = None
    /\ msg = NoMessage

\* Someone writes config.yaml, or removes it.
Edit(c) ==
    /\ edits < MaxEdits
    /\ file' = c
    /\ edits' = edits + 1
    /\ UNCHANGED <<cached, settings, imported, schedule, batch, msg, plugins>>

\* A process starts: the settings are built once, from a valid configuration.
Setup(p) ==
    /\ settings[p] = NoFile
    /\ Load(p).ladder >= Load(p).budget
    /\ settings' = [settings EXCEPT ![p] = Load(p)]
    /\ Loads(p)
    /\ UNCHANGED <<file, edits, imported, schedule, batch, msg, plugins>>

\* Application code imports the module of a task: a view that dispatches it, an
\* app that is loaded by django.setup().
Import(p, n) ==
    /\ settings[p] # NoFile
    /\ n \notin imported[p]
    /\ imported' = [imported EXCEPT ![p] = @ \cup {n}]
    /\ UNCHANGED <<file, edits, cached, settings, schedule, batch, msg, plugins>>

\* Mutant of Conflicts: a plugin's entry is compared with the declared ones only.
ConflictsDeclared(p) == plugins \cap Periodic(p) # {}

\* An entry of a plugin has the name of a declared one or of a tick.
Conflicts(p) == plugins \cap (Tick \cup Periodic(p)) # {}

\* Scheduler.bootstrap(): the schedule is built.  A malformed crontab or a
\* conflict raises and the process ends.
Bootstrap(p) ==
    /\ p # "web" /\ settings[p] # NoFile /\ schedule[p] = <<>>
    /\ \A n \in Periodic(p) : Decl[n].spec # "malformed"
    /\ ~Conflicts(p)
    /\ schedule' = [schedule EXCEPT ![p] = Scheduled(p)]
    /\ Loads(p)
    /\ UNCHANGED <<file, edits, settings, imported, batch, msg, plugins>>

\* cl.start(): the worker or the beat imports the modules of CELERY_IMPORTS.
CeleryStarts(p) ==
    /\ schedule[p] # <<>> /\ imported[p] # Name
    /\ imported' = [imported EXCEPT ![p] = Name]
    /\ UNCHANGED <<file, edits, cached, settings, schedule, batch, msg, plugins>>

Running(p) == schedule[p] # <<>> /\ imported[p] = Name

\* A process may publish to the queues of its settings only
\* (CELERY_TASK_CREATE_MISSING_QUEUES is off): send_task raises for others.
Publishes(p) == Load(p).prefix = settings[p].prefix

\* dispatch() by name: the tier is resolved from what this process knows.
Dispatch(n, tier, priority) ==
    /\ settings["web"] # NoFile /\ msg.at = None
    /\ Publishes("web")
    /\ msg' = [at |-> "queue", prefix |-> Load("web").prefix, rows |-> 0,
               tier |-> Resolve("web", n, tier, priority)]
    /\ Loads("web")
    /\ UNCHANGED <<file, edits, settings, imported, schedule, batch, plugins>>

\* The broker dead-letters it; x-death keeps the name of the queue.
DeadLetter ==
    /\ msg.at = "queue"
    /\ msg' = [msg EXCEPT !.at = "dlq"]
    /\ UNCHANGED <<file, edits, cached, settings, imported, schedule, batch, plugins>>

\* Mutant of TierFromXDeath: the prefix is compared with the settings' one.
TierFromOldPrefix(prefix) == IF prefix = Default.prefix THEN msg.tier ELSE "default"

\* The tier of the queue x-death names, if it is one of this prefix.
TierFromXDeath(prefix) == IF prefix = msg.prefix THEN msg.tier ELSE "default"

\* Mutant of InBudget: off by one.
InBudgetPlusOne(attempt, config) == attempt <= config.budget + 1

InBudget(attempt, config) == attempt <= config.budget

\* drain() reads the configuration once, for the dead-letter queue it takes up
\* to fifty messages from.
DrainStarts ==
    /\ Running("internal") /\ batch = None
    /\ batch' = Load("internal").prefix
    /\ Loads("internal")
    /\ UNCHANGED <<file, edits, settings, imported, schedule, msg, plugins>>

\* The queue is empty, or the batch is full.
DrainEnds ==
    /\ batch # None
    /\ batch' = None
    /\ UNCHANGED <<file, edits, cached, settings, imported, schedule, msg, plugins>>

\* The batch comes to the message, and handle_message() reads the configuration
\* anew.  Within the budget the message becomes a row, in the tier that x-death
\* names under the prefix just read, if the ladder has a rung for it; else it
\* is buried.  The IndexError of a ladder that is too short ends the batch and
\* leaves the message.  (A file that is not valid at all is TaskRuntime's.)
HandleMessage ==
    LET config == Load("internal") IN
    /\ batch # None
    /\ msg.at = "dlq" /\ msg.prefix = batch
    /\ \/ /\ ~InBudget(msg.rows + 1, config)
          /\ msg' = [msg EXCEPT !.at = "buried"]
          /\ UNCHANGED batch
       \/ /\ InBudget(msg.rows + 1, config) /\ msg.rows + 1 <= config.ladder
          /\ msg' = [msg EXCEPT !.at = "row", !.rows = @ + 1,
                                !.tier = TierFromXDeath(config.prefix)]
          /\ UNCHANGED batch
       \/ /\ InBudget(msg.rows + 1, config) /\ msg.rows + 1 > config.ladder
          /\ msg' = [msg EXCEPT !.at = "stuck"]
          /\ batch' = None
    /\ Loads("internal")
    /\ UNCHANGED <<file, edits, settings, imported, schedule, plugins>>

\* The next tick tries the message that was left once more.
DrainAgain ==
    /\ msg.at = "stuck"
    /\ msg' = [msg EXCEPT !.at = "dlq"]
    /\ UNCHANGED <<file, edits, cached, settings, imported, schedule, batch, plugins>>

\* dispatch_due() sends the row to the queue of its tier under the current
\* prefix; if the settings do not know that queue the row is marked failed.
DispatchDue ==
    /\ Running("internal")
    /\ msg.at = "row"
    /\ msg' = IF Publishes("internal")
              THEN [msg EXCEPT !.at = "queue", !.prefix = Load("internal").prefix]
              ELSE [msg EXCEPT !.at = "failed"]
    /\ Loads("internal")
    /\ UNCHANGED <<file, edits, settings, imported, schedule, batch, plugins>>

Next ==
    \/ \E c \in Config \cup {NoFile} : Edit(c)
    \/ \E p \in Proc : Setup(p) \/ Bootstrap(p) \/ CeleryStarts(p)
    \/ \E p \in Proc, n \in Name : Import(p, n)
    \/ \E n \in Name, t \in Tier \cup {None}, q \in Priority \cup {None} : Dispatch(n, t, q)
    \/ DeadLetter \/ DrainAgain \/ DispatchDue
    \/ DrainStarts \/ HandleMessage \/ DrainEnds

Spec == Init /\ [][Next]_vars

-----------------------------------------------------------------------------
\* Type invariant: a process that runs was started with a valid configuration.
TypeOK ==
    /\ file \in Config \cup {NoFile}
    /\ edits \in 0 .. MaxEdits
    /\ \A p \in Proc :
        /\ cached[p] \in {Default, NoFile}
        /\ settings[p] \in Config \cup {Default, NoFile}
        /\ settings[p] # NoFile => settings[p].ladder >= settings[p].budget
        /\ imported[p] \subseteq Name
    /\ msg.at \in {None, "queue", "dlq", "stuck", "row", "failed", "buried"}
    /\ msg.tier \in Tier
    /\ msg.rows \in Nat
    /\ batch # None => batch \in {c.prefix : c \in Config \cup {Default}}

\* config.yaml replaced by one of another prefix since drain() has read it.
Overtaken == batch # None /\ batch # Load("internal").prefix

\* Whatever is written to config.yaml while the task is on its way, it stays in
\* the tier it was dispatched to, through queue, dead letter and row: a worker
\* of another tier never runs it.  The one exception is an edit of the prefix
\* under a batch of drain(), after which _tier_from_xdeath knows none of the
\* batch's queues and the redelivery goes to the default tier.
TierNeverChanges ==
    [][ msg.at # None /\ msg'.tier # msg.tier => Overtaken /\ msg'.tier = "default" ]_vars

\* A process that has bootstrapped schedules both ticks, to the queue of the
\* internal worker: no declaration and no plugin replaces them, or redeliveries
\* would never be drained (build_beat_schedule, bootstrap).
TicksAreScheduled ==
    \A p \in Proc : schedule[p] # <<>> =>
        /\ Tick \subseteq DOMAIN schedule[p]
        /\ \A t \in Tick : schedule[p][t][2] = "internal"

\* As long as nobody edits config.yaml under the running processes, which
\* validate it only when they start, every redelivery within the budget has a
\* rung on the ladder: a dead letter is never left in the queue for want of
\* one, where it blocks those behind it (validate_redelivery, handle_message).
LadderCoversBudget == edits = 0 => msg.at # "stuck"
=============================================================================
