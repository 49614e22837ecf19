----------------------------- MODULE TaskPromise -----------------------------
(***************************************************************************)
(* The task runtime implements DeliveryPromise: what a caller of dispatch    *)
(* sees of its producers, rows and acknowledgements.                        *)
(***************************************************************************)
EXTENDS TaskRuntime

Dispatched == {t \in Task : producer[t] # "idle"}
Redeliveries == [t \in Task |-> Len(rows[t])]
Ended == [t \in Task |->
             settled[t] \cup (IF GivenUp(t) THEN {"undelivered"} ELSE {})]

Promise == INSTANCE DeliveryPromise WITH
    dispatched <- Dispatched, redeliveries <- Redeliveries, outcome <- Ended

\* The runtime keeps the promise: it redelivers within the budget, buries a
\* task only when the budget is used up, settles nothing that was not
\* dispatched and takes no settlement back.  Holds with one internal child,
\* as RedeliveryLadder does.
KeepsPromise == Promise!Spec
=============================================================================
