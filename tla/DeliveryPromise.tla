--------------------------- MODULE DeliveryPromise ---------------------------
(***************************************************************************)
(* What the runtime promises a caller of dispatch, without brokers, rows or *)
(* processes: a dispatched task is redelivered at most Budget times, it is  *)
(* buried only when the budget is used up, and nothing is taken back.  What *)
(* it does not promise is an end: a redelivery may not be published and a   *)
(* dead letter may be dropped.                                              *)
(***************************************************************************)
EXTENDS Naturals

CONSTANTS Task, Budget

VARIABLES
    dispatched,     \* tasks whose message was published
    redeliveries,   \* dead letters that were scheduled for another delivery
    outcome         \* how the task ended, so far: "success", "dead",
                    \* "undelivered" or "dropped"

pvars == <<dispatched, redeliveries, outcome>>

Init ==
    /\ dispatched = {}
    /\ redeliveries = [t \in Task |-> 0]
    /\ outcome = [t \in Task |-> {}]

Dispatch(t) ==
    /\ t \notin dispatched
    /\ dispatched' = dispatched \cup {t}
    /\ UNCHANGED <<redeliveries, outcome>>

Redeliver(t) ==
    /\ t \in dispatched
    /\ redeliveries[t] < Budget
    /\ redeliveries' = [redeliveries EXCEPT ![t] = @ + 1]
    /\ UNCHANGED <<dispatched, outcome>>

Succeed(t) ==
    /\ t \in dispatched
    /\ outcome' = [outcome EXCEPT ![t] = @ \cup {"success"}]
    /\ UNCHANGED <<dispatched, redeliveries>>

Bury(t) ==
    /\ t \in dispatched
    /\ redeliveries[t] = Budget
    /\ outcome' = [outcome EXCEPT ![t] = @ \cup {"dead"}]
    /\ UNCHANGED <<dispatched, redeliveries>>

\* A dead letter was acked unread, or discarded by the broker.
Drop(t) ==
    /\ t \in dispatched
    /\ outcome' = [outcome EXCEPT ![t] = @ \cup {"dropped"}]
    /\ UNCHANGED <<dispatched, redeliveries>>

\* A batch of redeliveries could not be published.
GiveUp(S) ==
    /\ \A t \in S : t \in dispatched /\ redeliveries[t] > 0
    /\ outcome' = [t \in Task |-> IF t \in S THEN outcome[t] \cup {"undelivered"}
                                             ELSE outcome[t]]
    /\ UNCHANGED <<dispatched, redeliveries>>

Next ==
    \/ \E t \in Task :
          Dispatch(t) \/ Redeliver(t) \/ Succeed(t) \/ Bury(t) \/ Drop(t)
    \/ \E S \in SUBSET Task : GiveUp(S)

Spec == Init /\ [][Next]_pvars
=============================================================================
