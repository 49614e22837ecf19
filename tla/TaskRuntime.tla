----------------------------- MODULE TaskRuntime -----------------------------
(***************************************************************************)
(* The task runtime of tasks/handlers.py as one system: producers that      *)
(* dispatch tasks, worker children that execute deliveries and write the    *)
(* trace through Celery's signals, the broker's tier queue and dead letter  *)
(* queue, and the children of the internal worker, which drain the dead     *)
(* letter queue (drain / handle_message) and republish due redeliveries     *)
(* (dispatch_due).                                                          *)
(*                                                                          *)
(* Every database statement and every broker call is an action of its own,  *)
(* because no transaction spans them except the one of dispatch_due.  The   *)
(* tiers are one queue: each has its own workers and the same arguments.    *)
(***************************************************************************)
EXTENDS TaskTrace, Integers, Sequences, FiniteSets

CONSTANTS
    Task,           \* the logical runs, one per call of dispatch
    Worker,         \* children of the tier's workers
    Internal,       \* children of the internal worker
    Budget,         \* celery.dlq_redelivery_budget
    MaxRetries,     \* RetriableTask.max_retries
    DeliveryLimit,  \* x-delivery-limit: redeliveries after a lost worker
    DlqLimit,       \* how often the broker takes one dead letter back
    MaxFaults       \* bound: crashes, failing hooks and failing calls of a run

ASSUME BudgetAssumption == Budget \in Nat
ASSUME RetriesAssumption == MaxRetries \in Nat
ASSUME LimitAssumption == DeliveryLimit \in Nat
ASSUME DlqLimitAssumption == DlqLimit \in Nat
ASSUME FaultsAssumption == MaxFaults \in Nat

VARIABLES
    trace,      \* the TaskTrace table: the row of a task, or NoRow
    rows,       \* the DelayedRedelivery rows of a task, in creation order
    queue,      \* tier queue: how many copies of each message are ready
    dlq,        \* dead letter queue: how many ready dead letters of each task
    producer,   \* where the dispatch of a task stands
    wk,         \* what each worker child is doing
    internal,   \* what each internal child is doing
    announced,  \* tasks whose dead letter webhook was attempted
    settled,    \* how messages of a task left the broker for good
    runs,       \* executions of each task that were started
    faults      \* faults used up so far

vars == <<trace, rows, queue, dlq, producer, wk, internal, announced, settled,
          runs, faults>>

-----------------------------------------------------------------------------
(* Types                                                                    *)

\* What the broker and Celery keep per message: how often a lost worker gave
\* it back, and the autoretry count in its headers.
Message == [task : Task, deliveries : 0 .. DeliveryLimit,
            retries : 0 .. MaxRetries]
Fresh(t) == [task |-> t, deliveries |-> 0, retries |-> 0]
\* The copy that retry publishes: the same task_id, one retry more.
Retried(m) ==
    [task |-> m.task, deliveries |-> 0, retries |-> m.retries + 1]
Requeued(m) ==
    [task |-> m.task, deliveries |-> m.deliveries + 1, retries |-> m.retries]

Redelivery == [no : Nat, state : {"pending", "sent", "failed"}, due : BOOLEAN]

Free == [pc |-> "idle"]
EarlyPC == {"prerun", "prerun_save", "body"}
LatePC == {"post", "post_save", "settle"}
BusyWorker ==
    [pc : EarlyPC, msg : Message, held : TraceRow \cup {NoRow},
     outcome : {"none"}] \cup
    [pc : LatePC, msg : Message, held : TraceRow \cup {NoRow},
     outcome : Outcome]
WorkerState == [pc : {"idle"}] \cup BusyWorker

DrainPC == {"count", "insert", "finalize", "finalize_save", "notify", "ack"}
DrainState ==
    [pc : DrainPC, task : Task, no : Nat, held : TraceRow \cup {NoRow}]
RowKey == Task \X Nat
DispatchState ==
    [pc : {"send"}, todo : SUBSET RowKey, sent : SUBSET RowKey,
     failed : SUBSET RowKey]
InternalState == [pc : {"idle"}] \cup DrainState \cup DispatchState

TypeOK ==
    /\ trace \in [Task -> TraceRow \cup {NoRow}]
    /\ rows \in [Task -> Seq(Redelivery)]
    /\ queue \in [Message -> Nat]
    /\ dlq \in [Task -> Nat]
    /\ producer \in [Task -> {"idle", "sent", "done"}]
    /\ wk \in [Worker -> WorkerState]
    /\ internal \in [Internal -> InternalState]
    /\ announced \in SUBSET Task
    /\ settled \in [Task -> SUBSET {"success", "dead", "dropped"}]
    /\ runs \in [Task -> Nat]
    /\ faults \in 0 .. MaxFaults

-----------------------------------------------------------------------------
(* Helpers                                                                  *)

Put(q, k) == [q EXCEPT ![k] = @ + 1]
Take(q, k) == [q EXCEPT ![k] = @ - 1]

\* A crash, an exception or a failing call, within the bound.
Fault == faults < MaxFaults /\ faults' = faults + 1

\* The rows a transaction of dispatch_due has locked.
LockedBy(i) ==
    IF internal[i].pc = "send"
    THEN internal[i].todo \cup internal[i].sent \cup internal[i].failed
    ELSE {}
Locked == UNION {LockedBy(i) : i \in Internal}

AllRows == UNION {{t} \X DOMAIN rows[t] : t \in Task}
Row(r) == rows[r[1]][r[2]]

-----------------------------------------------------------------------------
(* Producers: TaskHandler.dispatch and adispatch                            *)

\* send_task comes first: the message is out before any row exists.
Send(t) ==
    /\ producer[t] = "idle"
    /\ queue' = Put(queue, Fresh(t))
    /\ producer' = [producer EXCEPT ![t] = "sent"]
    /\ UNCHANGED <<trace, rows, dlq, wk, internal, announced, settled, runs,
                   faults>>

\* Mutant of RecordInitial: an upsert instead of get_or_create.
RecordInitialUpserts(t) ==
    /\ producer[t] = "sent"
    /\ trace' = [trace EXCEPT ![t] = NewRow]
    /\ producer' = [producer EXCEPT ![t] = "done"]
    /\ UNCHANGED <<rows, queue, dlq, wk, internal, announced, settled, runs,
                   faults>>

RecordInitial(t) ==
    /\ producer[t] = "sent"
    /\ trace' = [trace EXCEPT ![t] = RowOrCreate(@)]
    /\ producer' = [producer EXCEPT ![t] = "done"]
    /\ UNCHANGED <<rows, queue, dlq, wk, internal, announced, settled, runs,
                   faults>>

\* The producer dies, or its database call fails, after the message is out.
ProducerDies(t) ==
    /\ producer[t] = "sent"
    /\ Fault
    /\ producer' = [producer EXCEPT ![t] = "done"]
    /\ UNCHANGED <<trace, rows, queue, dlq, wk, internal, announced, settled,
                   runs>>

-----------------------------------------------------------------------------
(* Worker children: one delivery at a time (acks_late, prefetch 1)          *)

Deliver(w, m) ==
    /\ wk[w].pc = "idle"
    /\ queue[m] > 0
    /\ queue' = Take(queue, m)
    /\ wk' = [wk EXCEPT ![w] = [pc |-> "prerun", msg |-> m, held |-> NoRow,
                                outcome |-> "none"]]
    /\ runs' = [runs EXCEPT ![m.task] = @ + 1]
    /\ UNCHANGED <<trace, rows, dlq, producer, internal, announced, settled,
                   faults>>

\* record_running reads (or creates) the row; a frozen row ends the hook.
PrerunFetch(w) ==
    /\ wk[w].pc = "prerun"
    /\ LET t == wk[w].msg.task
           row == RowOrCreate(trace[t])
       IN  /\ trace' = [trace EXCEPT ![t] = row]
           /\ wk' = [wk EXCEPT ![w].held = row,
                               ![w].pc = IF Frozen(row, "running")
                                         THEN "body" ELSE "prerun_save"]
    /\ UNCHANGED <<rows, queue, dlq, producer, internal, announced, settled,
                   runs, faults>>

\* ... and saves every column of the row it read.
PrerunSave(w) ==
    /\ wk[w].pc = "prerun_save"
    /\ trace' = [trace EXCEPT ![wk[w].msg.task] = RunningRow(wk[w].held)]
    /\ wk' = [wk EXCEPT ![w].pc = "body"]
    /\ UNCHANGED <<rows, queue, dlq, producer, internal, announced, settled,
                   runs, faults>>

\* The task's own code.  A transient error with retries left publishes the
\* next attempt as a new message BEFORE this delivery is recorded or acked.
BodySucceeds(w) ==
    /\ wk[w].pc = "body"
    /\ wk' = [wk EXCEPT ![w].pc = "post", ![w].outcome = "success"]
    /\ UNCHANGED <<trace, rows, queue, dlq, producer, internal, announced,
                   settled, runs, faults>>

\* Mutant of BodyRetries: the autoretry count restarts with every message.
BodyRetriesForever(w) ==
    /\ wk[w].pc = "body"
    /\ wk[w].msg.retries < MaxRetries
    /\ queue' = Put(queue, [wk[w].msg EXCEPT !.deliveries = 0])
    /\ wk' = [wk EXCEPT ![w].pc = "post", ![w].outcome = "retrying"]
    /\ UNCHANGED <<trace, rows, dlq, producer, internal, announced, settled,
                   runs, faults>>

BodyRetries(w) ==
    /\ wk[w].pc = "body"
    /\ wk[w].msg.retries < MaxRetries
    /\ queue' = Put(queue, Retried(wk[w].msg))
    /\ wk' = [wk EXCEPT ![w].pc = "post", ![w].outcome = "retrying"]
    /\ UNCHANGED <<trace, rows, dlq, producer, internal, announced, settled,
                   runs, faults>>

BodyFails(w) ==
    /\ wk[w].pc = "body"
    /\ wk' = [wk EXCEPT ![w].pc = "post", ![w].outcome = "failed"]
    /\ UNCHANGED <<trace, rows, queue, dlq, producer, internal, announced,
                   settled, runs, faults>>

\* record_success, record_retry or record_failure: the read ...
PostFetch(w) ==
    /\ wk[w].pc = "post"
    /\ LET t == wk[w].msg.task
           row == RowOrCreate(trace[t])
       IN  /\ trace' = [trace EXCEPT ![t] = row]
           /\ wk' = [wk EXCEPT ![w].held = row,
                               ![w].pc = IF Frozen(row, wk[w].outcome)
                                         THEN "settle" ELSE "post_save"]
    /\ UNCHANGED <<rows, queue, dlq, producer, internal, announced, settled,
                   runs, faults>>

\* ... and the save.
PostSave(w) ==
    /\ wk[w].pc = "post_save"
    /\ trace' = [trace EXCEPT ![wk[w].msg.task] =
                     Recorded(wk[w].held, wk[w].outcome)]
    /\ wk' = [wk EXCEPT ![w].pc = "settle"]
    /\ UNCHANGED <<rows, queue, dlq, producer, internal, announced, settled,
                   runs, faults>>

\* A hook raises (the database is down): the exception is logged and the
\* execution goes on.
HookFails(w) ==
    /\ wk[w].pc \in {"prerun", "prerun_save", "post", "post_save"}
    /\ Fault
    /\ wk' = [wk EXCEPT ![w].pc = IF @ \in {"prerun", "prerun_save"}
                                  THEN "body" ELSE "settle"]
    /\ UNCHANGED <<trace, rows, queue, dlq, producer, internal, announced,
                   settled, runs>>

\* Celery settles the delivery last: a success and a retry are acked, a
\* failure is rejected without requeue, which dead-letters it at once.  (The
\* comment of the settings has the broker redeliver a failure up to
\* x-delivery-limit; it does so for lost workers only, see Crash.)
Settle(w) ==
    /\ wk[w].pc = "settle"
    /\ LET t == wk[w].msg.task
           outcome == wk[w].outcome
       IN  /\ dlq' = IF outcome = "failed" THEN Put(dlq, t) ELSE dlq
           /\ settled' = IF outcome = "success"
                         THEN [settled EXCEPT ![t] = @ \cup {"success"}]
                         ELSE settled
    /\ wk' = [wk EXCEPT ![w] = Free]
    /\ UNCHANGED <<trace, rows, queue, producer, internal, announced, runs,
                   faults>>

\* The child or its channel is lost: the broker gives the message back, and
\* dead-letters it once the delivery limit is passed.
Crash(w) ==
    /\ wk[w].pc # "idle"
    /\ Fault
    /\ LET m == wk[w].msg
       IN  IF m.deliveries < DeliveryLimit
           THEN /\ queue' = Put(queue, Requeued(m))
                /\ UNCHANGED dlq
           ELSE /\ dlq' = Put(dlq, m.task)
                /\ UNCHANGED queue
    /\ wk' = [wk EXCEPT ![w] = Free]
    /\ UNCHANGED <<trace, rows, producer, internal, announced, settled, runs>>

-----------------------------------------------------------------------------
(* Internal children: DeadLetterHandler.drain and handle_message            *)

\* basic_get: the dead letter stays unacked until the handler is through.
DlqGet(i, t) ==
    /\ internal[i].pc = "idle"
    /\ dlq[t] > 0
    /\ dlq' = Take(dlq, t)
    /\ internal' = [internal EXCEPT ![i] =
                        [pc |-> "count", task |-> t, no |-> 0, held |-> NoRow]]
    /\ UNCHANGED <<trace, rows, queue, producer, wk, announced, settled, runs,
                   faults>>

\* Mutants of InBudget: one redelivery too few, one too many.
InBudgetStrict(no) == no < Budget
InBudgetPlusOne(no) == no <= Budget + 1

InBudget(no) == no <= Budget

\* The attempt number is one more than the rows the task has NOW.
CountRows(i) ==
    /\ internal[i].pc = "count"
    /\ LET no == Len(rows[internal[i].task]) + 1
       IN  internal' = [internal EXCEPT ![i].no = no,
                                        ![i].pc = IF InBudget(no) THEN "insert"
                                                  ELSE "finalize"]
    /\ UNCHANGED <<trace, rows, queue, dlq, producer, wk, announced, settled,
                   runs, faults>>

\* schedule_redelivery
InsertRow(i) ==
    /\ internal[i].pc = "insert"
    /\ LET t == internal[i].task
       IN  rows' = [rows EXCEPT ![t] =
                        Append(@, [no |-> internal[i].no, state |-> "pending",
                                   due |-> FALSE])]
    /\ internal' = [internal EXCEPT ![i].pc = "ack"]
    /\ UNCHANGED <<trace, queue, dlq, producer, wk, announced, settled, runs,
                   faults>>

\* finalize_dead reads the row, and asks no Frozen ...
FinalizeFetch(i) ==
    /\ internal[i].pc = "finalize"
    /\ LET t == internal[i].task
           row == RowOrCreate(trace[t])
       IN  /\ trace' = [trace EXCEPT ![t] = row]
           /\ internal' = [internal EXCEPT ![i].held = row,
                                           ![i].pc = "finalize_save"]
    /\ UNCHANGED <<rows, queue, dlq, producer, wk, announced, settled, runs,
                   faults>>

\* ... and saves it dead.
FinalizeSave(i) ==
    /\ internal[i].pc = "finalize_save"
    /\ trace' = [trace EXCEPT ![internal[i].task] = DeadRow(internal[i].held)]
    /\ internal' = [internal EXCEPT ![i].pc = "notify"]
    /\ UNCHANGED <<rows, queue, dlq, producer, wk, announced, settled, runs,
                   faults>>

\* Mutant of Notify: a dead letter is acked without the webhook.
NotifySkipped(i) ==
    /\ internal[i].pc = "notify"
    /\ internal' = [internal EXCEPT ![i].pc = "ack"]
    /\ UNCHANGED <<trace, rows, queue, dlq, producer, wk, announced, settled,
                   runs, faults>>

\* notify_dead_letter: three attempts, then it gives up; either way it returns.
Notify(i) ==
    /\ internal[i].pc = "notify"
    /\ announced' = announced \cup {internal[i].task}
    /\ internal' = [internal EXCEPT ![i].pc = "ack"]
    /\ UNCHANGED <<trace, rows, queue, dlq, producer, wk, settled, runs,
                   faults>>

\* Mutant of Ack: the dead letter is left on the channel, whose close gives
\* it back.
AckForgotten(i) ==
    /\ internal[i].pc = "ack"
    /\ dlq' = Put(dlq, internal[i].task)
    /\ internal' = [internal EXCEPT ![i] = Free]
    /\ UNCHANGED <<trace, rows, queue, producer, wk, announced, settled, runs,
                   faults>>

\* basic_ack, after everything else.
Ack(i) ==
    /\ internal[i].pc = "ack"
    /\ settled' = IF InBudget(internal[i].no) THEN settled
                  ELSE [settled EXCEPT ![internal[i].task] = @ \cup {"dead"}]
    /\ internal' = [internal EXCEPT ![i] = Free]
    /\ UNCHANGED <<trace, rows, queue, dlq, producer, wk, announced, runs,
                   faults>>

\* Mutant of DrainAborts: the message was taken with no_ack.
DrainAbortsNoAck(i) ==
    /\ internal[i].pc \in DrainPC
    /\ Fault
    /\ internal' = [internal EXCEPT ![i] = Free]
    /\ UNCHANGED <<trace, rows, queue, dlq, producer, wk, announced, settled,
                   runs>>

\* Any exception of the handler but a ValueError, or the death of the child:
\* the channel is closed and the broker takes the unacked dead letter back.
DrainAborts(i) ==
    /\ internal[i].pc \in DrainPC
    /\ Fault
    /\ dlq' = Put(dlq, internal[i].task)
    /\ internal' = [internal EXCEPT ![i] = Free]
    /\ UNCHANGED <<trace, rows, queue, producer, wk, announced, settled, runs>>

\* The dead letter leaves the broker before the handler was through with it.
Discard(i) ==
    /\ Fault
    /\ settled' = [settled EXCEPT ![internal[i].task] = @ \cup {"dropped"}]
    /\ internal' = [internal EXCEPT ![i] = Free]
    /\ UNCHANGED <<trace, rows, queue, dlq, producer, wk, announced, runs>>

\* A ValueError of the handler counts as an unreadable message, which is acked:
\* AppConfig.load() of a file that no longer validates raises one (pydantic),
\* at the start of handle_message and of notify_dead_letter, and so does the
\* request for a malformed webhook URL.
DrainDrops(i) == internal[i].pc \in {"count", "notify"} /\ Discard(i)

\* The dead letter queue sets no delivery limit and no dead letter exchange of
\* its own: the broker's default limit holds, and a dead letter given back
\* more often is discarded.  Each return is a fault.  (At "ack" nothing is
\* left to be lost: the step ends like Ack.)
BrokerDrops(i) ==
    /\ internal[i].pc \in DrainPC \ {"ack"}
    /\ faults >= DlqLimit
    /\ Discard(i)

DrainFails(i) == DrainAborts(i) \/ DrainDrops(i) \/ BrokerDrops(i)

-----------------------------------------------------------------------------
(* Internal children: DeadLetterHandler.dispatch_due                        *)

\* The clock passes a row's scheduled_at.
BecomesDue(t, k) ==
    /\ k \in DOMAIN rows[t]
    /\ rows[t][k].state = "pending" /\ ~rows[t][k].due
    /\ rows' = [rows EXCEPT ![t] = [@ EXCEPT ![k].due = TRUE]]
    /\ UNCHANGED <<trace, queue, dlq, producer, wk, internal, announced,
                   settled, runs, faults>>

DueRows == {r \in AllRows : Row(r).state = "pending" /\ Row(r).due}

\* Mutant of Unlocked: SELECT without FOR UPDATE SKIP LOCKED.
UnlockedIgnored == DueRows

Unlocked == DueRows \ Locked

\* The transaction opens with SELECT ... FOR UPDATE SKIP LOCKED.
SelectDue(i) ==
    /\ internal[i].pc = "idle"
    /\ Unlocked # {}
    /\ internal' = [internal EXCEPT ![i] =
                        [pc |-> "send", todo |-> Unlocked, sent |-> {},
                         failed |-> {}]]
    /\ UNCHANGED <<trace, rows, queue, dlq, producer, wk, announced, settled,
                   runs, faults>>

\* send_task publishes at once, the row's new state waits for the commit.
\* The message is a new one: same task_id, no retry or delivery count.
SendDue(i, r) ==
    /\ internal[i].pc = "send"
    /\ r \in internal[i].todo
    /\ queue' = Put(queue, Fresh(r[1]))
    /\ internal' = [internal EXCEPT ![i].todo = @ \ {r},
                                    ![i].sent = @ \cup {r}]
    /\ UNCHANGED <<trace, rows, dlq, producer, wk, announced, settled, runs,
                   faults>>

\* send_task raises: the row is marked failed, and no scan selects it again.
SendFails(i, r) ==
    /\ internal[i].pc = "send"
    /\ r \in internal[i].todo
    /\ Fault
    /\ internal' = [internal EXCEPT ![i].todo = @ \ {r},
                                    ![i].failed = @ \cup {r}]
    /\ UNCHANGED <<trace, rows, queue, dlq, producer, wk, announced, settled,
                   runs>>

\* What the transaction of i leaves in a row.
Committed(i, r) ==
    CASE r \in internal[i].sent   -> [Row(r) EXCEPT !.state = "sent"]
      [] r \in internal[i].failed -> [Row(r) EXCEPT !.state = "failed"]
      [] OTHER                    -> Row(r)

CommitDue(i) ==
    /\ internal[i].pc = "send"
    /\ internal[i].todo = {}
    /\ rows' = [t \in Task |-> [k \in DOMAIN rows[t] |-> Committed(i, <<t, k>>)]]
    /\ internal' = [internal EXCEPT ![i] = Free]
    /\ UNCHANGED <<trace, queue, dlq, producer, wk, announced, settled, runs,
                   faults>>

\* The child dies or a save fails: every row of the batch is rolled back to
\* pending, the messages already published stay published.
DispatchAborts(i) ==
    /\ internal[i].pc = "send"
    /\ Fault
    /\ internal' = [internal EXCEPT ![i] = Free]
    /\ UNCHANGED <<trace, rows, queue, dlq, producer, wk, announced, settled,
                   runs>>

-----------------------------------------------------------------------------
Init ==
    /\ trace = [t \in Task |-> NoRow]
    /\ rows = [t \in Task |-> <<>>]
    /\ queue = [m \in Message |-> 0]
    /\ dlq = [t \in Task |-> 0]
    /\ producer = [t \in Task |-> "idle"]
    /\ wk = [w \in Worker |-> Free]
    /\ internal = [i \in Internal |-> Free]
    /\ announced = {}
    /\ settled = [t \in Task |-> {}]
    /\ runs = [t \in Task |-> 0]
    /\ faults = 0

ProducerStep(t) == Send(t) \/ RecordInitial(t)

WorkerStep(w) ==
    \/ \E m \in Message : Deliver(w, m)
    \/ PrerunFetch(w) \/ PrerunSave(w)
    \/ BodySucceeds(w) \/ BodyRetries(w) \/ BodyFails(w)
    \/ PostFetch(w) \/ PostSave(w)
    \/ Settle(w)

DrainStep(i) ==
    \/ \E t \in Task : DlqGet(i, t)
    \/ CountRows(i) \/ InsertRow(i)
    \/ FinalizeFetch(i) \/ FinalizeSave(i) \/ Notify(i)
    \/ Ack(i)

DispatchStep(i) ==
    \/ SelectDue(i)
    \/ \E r \in LockedBy(i) : SendDue(i, r)
    \/ CommitDue(i)

FaultStep ==
    \/ \E t \in Task : ProducerDies(t)
    \/ \E w \in Worker : HookFails(w) \/ Crash(w)
    \/ \E i \in Internal :
          \/ DrainFails(i) \/ DispatchAborts(i)
          \/ \E r \in LockedBy(i) : SendFails(i, r)

Clock == \E t \in Task : \E k \in DOMAIN rows[t] : BecomesDue(t, k)

Next ==
    \/ \E t \in Task : ProducerStep(t)
    \/ \E w \in Worker : WorkerStep(w)
    \/ \E i \in Internal : DrainStep(i) \/ DispatchStep(i)
    \/ Clock
    \/ FaultStep

Spec == Init /\ [][Next]_vars

\* Workers and internal children take what is ready and finish what they
\* began, the beat ticks drive drain and dispatch_due for ever, and time
\* passes.  A producer may stop anywhere, and no fault has to happen.
Fairness ==
    /\ \A w \in Worker : WF_vars(WorkerStep(w))
    /\ \A i \in Internal : WF_vars(DrainStep(i)) /\ WF_vars(DispatchStep(i))
    /\ WF_vars(Clock)

FairSpec == Spec /\ Fairness

-----------------------------------------------------------------------------
(* Properties                                                               *)

\* DEAD is written only after the DLQ budget is exhausted: a dead task has
\* used up every redelivery, whichever children raced over its dead letters
\* and whichever stale copy of the row was saved.
DeadOnlyAfterBudget ==
    \A t \in Task : trace[t].state = "dead" => Len(rows[t]) >= Budget

\* The count that handle_message takes and the row it inserts later agree:
\* the redeliveries of a task are numbered 1, 2, ... without a gap or a
\* repetition, and there are at most Budget of them, so that each one waits
\* its own step of redelivery_backoff.  Holds with one internal child.
RedeliveryLadder ==
    \A t \in Task : \A k \in DOMAIN rows[t] :
        rows[t][k].no = k /\ k <= Budget

\* get_or_create lets the producer's enqueued write race the worker's writes:
\* a row never goes back to enqueued and never disappears.
RowNeverRegresses ==
    [][\A t \in Task :
          /\ trace[t] # NoRow => trace'[t] # NoRow
          /\ trace'[t].state = "enqueued" => trace[t].state \in {"none", "enqueued"}]_vars

\* Where the continuation of a task may be.  A worker that has published the
\* next attempt, a drainer that has inserted its row and a row whose message
\* is already out no longer carry it.
InQueue(t) == \E m \in Message : m.task = t /\ queue[m] > 0
Executing(w, t) ==
    wk[w].pc # "idle" /\ wk[w].msg.task = t /\ wk[w].outcome # "retrying"
Draining(i, t) ==
    /\ internal[i].pc \in DrainPC
    /\ internal[i].task = t
    /\ internal[i].pc = "ack" => internal[i].no > Budget
Published(i, r) == internal[i].pc = "send" /\ r \in internal[i].sent
Scheduled(t, k) ==
    /\ rows[t][k].state = "pending"
    /\ \A i \in Internal : ~Published(i, <<t, k>>)
GivenUp(t) == \E k \in DOMAIN rows[t] : rows[t][k].state = "failed"
Finished(t) == "success" \in settled[t] \/ "dead" \in settled[t]
Dropped(t) == "dropped" \in settled[t]

\* Where a dispatched task can be: at every moment it is in a queue, in the
\* hands of a child, scheduled or finished, whatever crashes - unless the code
\* has let go of it in one of two ways: a redelivery row marked failed, which
\* dispatch_due never looks at again, and a dead letter that drain acked after
\* a ValueError or that the broker discarded.
Accounted(t) ==
    \/ producer[t] = "idle"
    \/ Finished(t)
    \/ InQueue(t)
    \/ dlq[t] > 0
    \/ \E w \in Worker : Executing(w, t)
    \/ \E i \in Internal : Draining(i, t)
    \/ \E k \in DOMAIN rows[t] : Scheduled(t, k)
    \/ GivenUp(t) \/ Dropped(t)
NoTaskLost == \A t \in Task : Accounted(t)

\* Every place that holds a continuation of t.
Places(t) ==
    {<<"queue", m>> : m \in {n \in Message : n.task = t /\ queue[n] > 0}} \cup
    {<<"dlq", s>> : s \in {u \in {t} : dlq[u] > 0}} \cup
    {<<"worker", w>> : w \in {v \in Worker : Executing(v, t)}} \cup
    {<<"internal", i>> : i \in {j \in Internal : Draining(j, t)}} \cup
    {<<"row", k>> : k \in {n \in DOMAIN rows[t] : Scheduled(t, n)}}

\* Without a fault the broker, the workers, the drainers and the scheduler
\* hand one single continuation of a task to each other, and none is left
\* when the task is settled: nothing is delivered twice and nothing is left
\* over, with any number of children on both sides.
ExactlyOneCopy ==
    faults = 0 =>
        \A t \in Task :
            /\ \A m \in Message : m.task = t => queue[m] <= 1
            /\ dlq[t] <= 1
            /\ Cardinality(Places(t)) =
                  IF producer[t] = "idle" \/ settled[t] # {} THEN 0 ELSE 1

\* "Terminal states are frozen": a row that is SUCCESS or DEAD stays so.
TerminalFrozen ==
    [][\A t \in Task :
          trace[t].state \in Terminal => trace'[t].state = trace[t].state]_vars

\* What one worker child per tier keeps of it through lost workers, failing
\* hooks and redelivered messages: only finalize_dead replaces a SUCCESS.
SuccessOnlyBuried ==
    [][\A t \in Task :
          trace[t].state = "success" => trace'[t].state \in Terminal]_vars

\* Without a fault, and with one worker child, the attempts column counts the
\* executions of the task: no increment is lost and none is made twice.
AttemptsMatchRuns ==
    faults = 0 =>
        \A t \in Task :
            (\A w \in Worker : wk[w].pc = "idle" \/ wk[w].msg.task # t)
                => trace[t].attempts = runs[t]

\* How many messages a fault can add: a lost worker's message comes back once,
\* a batch of dispatch_due that is rolled back is published again.
Dearest == IF Budget = 0 THEN 1 ELSE Budget

\* "The effective execution bound is (1 + autoretry) per broker delivery": a
\* task is executed at most 1 + MaxRetries times for its dispatch, for each
\* redelivery of its budget and for each message that a fault has added.  A
\* failure is no such fault: it is dead-lettered, never redelivered by the
\* broker.  Holds with one internal child.
ExecutionBound ==
    \A t \in Task :
        runs[t] <= (1 + MaxRetries) * (1 + Budget + faults * Dearest)

\* Every dispatched task is settled in the end: it succeeds or is buried, or
\* the code has let go of it (a redelivery marked failed, a dead letter
\* dropped on a ValueError or discarded by the broker).
DispatchedIsSettled ==
    \A t \in Task :
        producer[t] = "sent" ~> Finished(t) \/ GivenUp(t) \/ Dropped(t)

\* A trace that is DEAD is announced to the webhook, also when the drainer
\* dies between the two, unless its dead letter was dropped there.
DeadIsAnnounced ==
    \A t \in Task :
        trace[t].state = "dead" ~> t \in announced \/ Dropped(t)
=============================================================================
