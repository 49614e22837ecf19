----------------------------- MODULE MCAssembly -----------------------------
(***************************************************************************)
(* CeleryWorker, and with it Assembly, for TLC: a plugin of the application *)
(* and the command line, one that only has a lifespan, and one that has     *)
(* everything, as OtelPlugin does with its own lifespan.                    *)
(***************************************************************************)
EXTENDS CeleryWorker, TLC

CONSTANTS p1, p2, p3

Facets == (p1 :> {"app", "cli"}) @@ (p2 :> {"app", "lifespan"}) @@ (p3 :> {"lifespan"})

Roots == Permutations(Root)

\* Two tiers and the queue of the ticks, which is no tier's.
Quotas == ("dab.high" :> "16") @@ ("dab.low" :> "2")
Queues == ("dab.high" :> <<"dab.high">>) @@ ("dab.internal" :> <<"dab.internal">>)
            @@ ("dab.low,dab.high" :> <<"dab.low", "dab.high">>)
            @@ ("dab.internal,dab.low" :> <<"dab.internal", "dab.low">>)

\* Every spelling of an option with its value.
Spellings(short, long, values) ==
    {<< <<f, "">>, <<"", v>> >> : f \in {short, long}, v \in values}
        \cup {<< <<f, v>> >> : f \in {short, long}, v \in values}

Options == Spellings("-Q", "--queues", DOMAIN Queues)
             \cup Spellings("-c", "--concurrency", {"8"})
             \cup {<< <<"--loglevel", "info">> >>}

\* A worker with up to two options, the last of which may lack its value,
\* another command, and one in front of which there is an option of Celery's.
CommandLines ==
    {<< <<"", "worker">> >> \o tail :
        tail \in {<<>>} \cup Options \cup {a \o b : a, b \in Options}
                   \cup {a \o << <<"-Q", "">> >> : a \in Options}}
      \cup {<< <<"", "beat">> >> \o tail : tail \in Options}
      \cup {<< <<"--quiet", "">>, <<"", "worker">>, <<"-Q", "">>, <<"", "dab.high">> >>}
=============================================================================
