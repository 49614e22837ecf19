---------------------------- MODULE CeleryWorker ----------------------------
(***************************************************************************)
(* The Celery process: celery_entrypoint (asgi.py) sets up a root and hands *)
(* the command line to Celery, after Scheduler.apply_worker_concurrency     *)
(* (tasks/scheduler.py) has added the quota of the tier the worker serves.  *)
(*                                                                          *)
(* A word of the command line is <<flag, value>>: <<"-c", "">> is an option *)
(* on its own, <<"", "8">> a plain word and <<"-c", "8">> both in one, as   *)
(* -c8 and --concurrency=8 are.  A list of queues is one value.             *)
(***************************************************************************)
EXTENDS Assembly

CONSTANTS
    CommandLine,    \* the command lines, sequences of words
    QueueNames,     \* QueueNames[v]: the queues in the value v, in order
    Quota           \* Quota[q]: the configured concurrency of q, a tier's queue

VARIABLES
    given,          \* sys.argv[1:], <<>> while Celery has not been started
    argv            \* what cl.start() is called with

workerVars == <<vars, given, argv>>

QueueFlags == {"-Q", "--queues"}
ConcurrencyFlags == {"-c", "--concurrency"}

\* Celery refuses a command line in which a concurrency option has no value.
ASSUME CommandLineAssumption ==
    \A words \in CommandLine :
        /\ words \in Seq(STRING \X STRING)
        /\ \A i \in DOMAIN words : words[i] \in {<<"-c", "">>, <<"--concurrency", "">>} =>
              i < Len(words) /\ words[i + 1][2] # ""

\* A flag on its own, and a long flag with its value after "=".
Bare(w) == w[1] # "" /\ w[2] = ""
Joined(w) == w[1] \in {"--queues", "--concurrency"} /\ w[2] # ""
Spelled(words, flags) ==
    {i \in DOMAIN words : words[i][1] \in flags /\ (Bare(words[i]) \/ Joined(words[i]))}

\* The value of the option at i: its own, or the next word.
ValueAt(words, i) ==
    IF words[i][2] # "" THEN words[i][2]
    ELSE IF i + 1 \in DOMAIN words THEN words[i + 1][2] ELSE ""

\* Mutant of Explicit: only the short flag and the long one with its value.
ExplicitWithoutLong(words) ==
    \E i \in DOMAIN words : \/ words[i] = <<"-c", "">>
                            \/ words[i][1] = "--concurrency" /\ words[i][2] # ""

\* "-c" or "--concurrency" is there, or "--concurrency=" begins a word.
Explicit(words) == Spelled(words, ConcurrencyFlags) # {}

\* The value of the first option that names queues.
QueueValue(words) ==
    LET places == Spelled(words, QueueFlags)
    IN  IF places = {} THEN "" ELSE ValueAt(words, Min(places))

\* apply_worker_concurrency.
ApplyConcurrency(words) ==
    LET value == QueueValue(words)
    IN  IF \/ words = <<>> \/ words[1] # <<"", "worker">>
           \/ Explicit(words)
           \/ value = "" \/ QueueNames[value][1] \notin DOMAIN Quota
        THEN words
        ELSE words \o << <<"-c", "">>, <<"", Quota[QueueNames[value][1]]>> >>

\* What Celery makes of an option: any spelling of it, the last one it meets.
Reading(words, flags) ==
    LET places == {i \in DOMAIN words : words[i][1] \in flags}
    IN  IF places = {} THEN "" ELSE ValueAt(words, Max(places))

-----------------------------------------------------------------------------
WorkerInit == Init /\ given = <<>> /\ argv = <<>>

\* celery_entrypoint, in a process of its own (no other root was made before):
\* it goes on in Celery and does not come back to its root.
StartCelery(r, words) ==
    /\ given = <<>>
    /\ core[r].pc = "returned"
    /\ \A s \in Root \ {r} : core[s].pc = "unborn"
    /\ given' = words
    /\ argv' = ApplyConcurrency(words)
    /\ UNCHANGED vars

WorkerNext ==
    \/ given = <<>> /\ Next /\ UNCHANGED <<given, argv>>
    \/ \E r \in Root, words \in CommandLine : StartCelery(r, words)

WorkerSpec == WorkerInit /\ [][WorkerNext]_workerVars

-----------------------------------------------------------------------------
\* A flag is attached to its value without "=", as in -c8: the code does not
\* look for that.  Or the queues are named twice: the code goes by the first,
\* Celery by the last.
OutsideOfTheTest(words) ==
    \/ \E i \in DOMAIN words : words[i][1] \in {"-c", "-Q"} /\ words[i][2] # ""
    \/ Cardinality(Spelled(words, QueueFlags)) > 1

\* The worker that Celery makes of the extended command line has the
\* concurrency the operator chose, in either spelling and wherever it stands,
\* and without one the quota of the first queue it consumes, if that is a
\* tier's; other commands and other queues get none (apply_worker_concurrency).
ConcurrencyIsChosen ==
    given # <<>> /\ ~OutsideOfTheTest(given) =>
        LET chosen == Reading(given, ConcurrencyFlags)
            queues == Reading(given, QueueFlags)
        IN  Reading(argv, ConcurrencyFlags) =
              IF chosen # "" THEN chosen
              ELSE IF given[1] = <<"", "worker">> /\ queues # ""
                      /\ QueueNames[queues][1] \in DOMAIN Quota
                   THEN Quota[QueueNames[queues][1]]
                   ELSE ""
=============================================================================
