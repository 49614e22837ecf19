-------------------------- MODULE TaskRuntimeProofs --------------------------
(***************************************************************************)
(* What holds of TaskRuntime for every number of tasks, workers and         *)
(* internal children, every budget, retry count and delivery limit, and any *)
(* number of faults: the types, what the store and the broker keep, and     *)
(* that no task is lost.  With one internal child, as compose.yaml deploys  *)
(* it, the redeliveries of a task are numbered without a gap and within the *)
(* budget, and the runtime implements DeliveryPromise.                      *)
(***************************************************************************)
EXTENDS TaskPromise, TLAPS

USE BudgetAssumption, RetriesAssumption, LimitAssumption, DlqLimitAssumption,
    FaultsAssumption

-----------------------------------------------------------------------------
(* The operators of TaskTrace keep rows rows.                               *)

LEMMA RowOrCreateType ==
    ASSUME NEW row \in TraceRow \cup {NoRow}
    PROVE  RowOrCreate(row) \in TraceRow /\ RowOrCreate(row) # NoRow
BY DEF RowOrCreate, TraceRow, NoRow, NewRow, TaskState

LEMMA RecordedType ==
    ASSUME NEW row \in TraceRow \cup {NoRow}, NEW o \in Outcome
    PROVE  /\ RunningRow(row) \in TraceRow
           /\ Recorded(row, o) \in TraceRow
           /\ DeadRow(row) \in TraceRow
           /\ RunningRow(row).state = "running"
           /\ Recorded(row, o).state = o
           /\ DeadRow(row).state = "dead"
BY DEF Recorded, RunningRow, SuccessRow, RetryingRow, FailedRow, DeadRow,
       Outcome, TraceRow, NoRow, TaskState

-----------------------------------------------------------------------------
(* Type correctness                                                         *)

\* A child that is not idle holds a message, a dead letter or a transaction.
LEMMA Holding ==
    ASSUME TypeOK
    PROVE  /\ \A w \in Worker : wk[w].pc # "idle" => wk[w] \in BusyWorker
           /\ \A i \in Internal :
                 /\ internal[i].pc \in DrainPC => internal[i] \in DrainState
                 /\ internal[i].pc = "send" => internal[i] \in DispatchState
BY DEF TypeOK, WorkerState, BusyWorker, InternalState, DrainState,
       DispatchState, DrainPC

LEMMA MessageType ==
    /\ \A t \in Task : Fresh(t) \in Message /\ Fresh(t).task = t
    /\ \A m \in Message :
          /\ m.task \in Task
          /\ m.deliveries < DeliveryLimit =>
                Requeued(m) \in Message /\ Requeued(m).task = m.task
          /\ m.retries < MaxRetries =>
                Retried(m) \in Message /\ Retried(m).task = m.task
<1>1. \A t \in Task : Fresh(t) \in Message /\ Fresh(t).task = t
  BY DEF Message, Fresh
<1>2. ASSUME NEW m \in Message
      PROVE  /\ m.task \in Task
             /\ m.deliveries \in 0 .. DeliveryLimit
             /\ m.retries \in 0 .. MaxRetries
             /\ m = [task |-> m.task, deliveries |-> m.deliveries,
                     retries |-> m.retries]
  BY DEF Message
<1>3. ASSUME NEW m \in Message, m.deliveries < DeliveryLimit
      PROVE  Requeued(m) \in Message /\ Requeued(m).task = m.task
  <2>1. m.deliveries + 1 \in 0 .. DeliveryLimit
    BY <1>2, <1>3
  <2> QED
    BY <1>2, <2>1 DEF Message, Requeued
<1>4. ASSUME NEW m \in Message, m.retries < MaxRetries
      PROVE  Retried(m) \in Message /\ Retried(m).task = m.task
  <2>1. m.retries + 1 \in 0 .. MaxRetries /\ 0 \in 0 .. DeliveryLimit
    BY <1>2, <1>4
  <2> QED
    BY <1>2, <2>1 DEF Message, Retried
<1> QED
  BY <1>1, <1>2, <1>3, <1>4

LEMMA BagType ==
    ASSUME NEW S, NEW q \in [S -> Nat], NEW k \in S
    PROVE  /\ Put(q, k) \in [S -> Nat]
           /\ q[k] > 0 => Take(q, k) \in [S -> Nat]
           /\ Put(q, k)[k] > 0
           /\ \A j \in S : Put(q, k)[j] >= q[j]
           /\ \A j \in S : j # k => Put(q, k)[j] = q[j] /\ Take(q, k)[j] = q[j]
BY DEF Put, Take

\* Rows that keep their numbers and places stay a sequence of rows.
LEMMA RowsType ==
    ASSUME NEW s \in Seq(Redelivery), NEW g,
           g = [k \in DOMAIN s |-> g[k]],
           \A k \in DOMAIN s : g[k] \in Redelivery
    PROVE  g \in Seq(Redelivery) /\ Len(g) = Len(s) /\ DOMAIN g = DOMAIN s
<1>1. DOMAIN s = 1 .. Len(s) /\ Len(s) \in Nat
  OBVIOUS
<1> QED
  BY <1>1

LEMMA FaultType == TypeOK /\ Fault => faults' \in 0 .. MaxFaults
BY DEF TypeOK, Fault

LEMMA TypeInit == Init => TypeOK
BY DEF Init, TypeOK, Free, WorkerState, InternalState, TraceRow

LEMMA TypeNext == TypeOK /\ [Next]_vars => TypeOK'
<1> SUFFICES ASSUME TypeOK, [Next]_vars
             PROVE  TypeOK'
  OBVIOUS
<1>a. ASSUME NEW w \in Worker, wk[w].pc # "idle"
      PROVE  /\ wk[w] \in BusyWorker
             /\ wk[w].msg \in Message /\ wk[w].msg.task \in Task
             /\ RowOrCreate(trace[wk[w].msg.task]) \in TraceRow
  <2>1. wk[w] \in BusyWorker
    BY <1>a, Holding
  <2>2. wk[w].msg \in Message /\ wk[w].msg.task \in Task
    BY <2>1, MessageType DEF BusyWorker
  <2> QED
    BY <2>1, <2>2, RowOrCreateType DEF TypeOK
<1>b. ASSUME NEW i \in Internal, internal[i].pc \in DrainPC
      PROVE  /\ internal[i] \in DrainState
             /\ internal[i].task \in Task
             /\ RowOrCreate(trace[internal[i].task]) \in TraceRow
  <2>1. internal[i] \in DrainState /\ internal[i].task \in Task
    BY <1>b, Holding DEF DrainState
  <2> QED
    BY <2>1, RowOrCreateType DEF TypeOK
<1>1. ASSUME NEW t \in Task, Send(t)
      PROVE  TypeOK'
  BY <1>1, MessageType DEF TypeOK, Send, Put
<1>2. ASSUME NEW t \in Task, RecordInitial(t)
      PROVE  TypeOK'
  BY <1>2, RowOrCreateType DEF TypeOK, RecordInitial
<1>3. ASSUME NEW t \in Task, ProducerDies(t)
      PROVE  TypeOK'
  BY <1>3 DEF TypeOK, ProducerDies, Fault
<1>4. ASSUME NEW w \in Worker, NEW m \in Message, Deliver(w, m)
      PROVE  TypeOK'
  BY <1>4, MessageType
     DEF TypeOK, Deliver, Take, WorkerState, BusyWorker, EarlyPC, LatePC
<1>5. ASSUME NEW w \in Worker, PrerunFetch(w)
      PROVE  TypeOK'
  <2> DEFINE row == RowOrCreate(trace[wk[w].msg.task])
  <2>1. wk[w] \in BusyWorker /\ row \in TraceRow
    BY <1>5, <1>a DEF PrerunFetch
  <2>2. trace' \in [Task -> TraceRow \cup {NoRow}]
    BY <1>5, <2>1 DEF PrerunFetch, TypeOK
  <2>3. wk' \in [Worker -> WorkerState]
    <3> HIDE DEF row
    <3> QED
      BY <1>5, <2>1 DEF PrerunFetch, row, TypeOK, WorkerState, BusyWorker, EarlyPC, LatePC
  <2> QED
    BY <1>5, <2>2, <2>3 DEF PrerunFetch, TypeOK
<1>6. ASSUME NEW w \in Worker, PrerunSave(w)
      PROVE  TypeOK'
  <2>1. wk[w] \in BusyWorker /\ RunningRow(wk[w].held) \in TraceRow
    BY <1>6, <1>a, RecordedType DEF PrerunSave, BusyWorker, Outcome
  <2> QED
    BY <1>6, <2>1 DEF PrerunSave, TypeOK, WorkerState, BusyWorker, EarlyPC, LatePC
<1>7. ASSUME NEW w \in Worker, BodySucceeds(w) \/ BodyFails(w)
      PROVE  TypeOK'
  <2>1. wk[w] \in BusyWorker
    BY <1>7, <1>a DEF BodySucceeds, BodyFails
  <2>2. CASE BodySucceeds(w)
    BY <2>1, <2>2 DEF BodySucceeds, Outcome, TypeOK, WorkerState, BusyWorker,
                      EarlyPC, LatePC
  <2>3. CASE BodyFails(w)
    BY <2>1, <2>3 DEF BodyFails, Outcome, TypeOK, WorkerState, BusyWorker,
                      EarlyPC, LatePC
  <2> QED
    BY <1>7, <2>2, <2>3
<1>8. ASSUME NEW w \in Worker, BodyRetries(w)
      PROVE  TypeOK'
  <2>1. wk[w] \in BusyWorker /\ Retried(wk[w].msg) \in Message
    BY <1>8, <1>a, MessageType DEF BodyRetries
  <2>2. queue' \in [Message -> Nat]
    BY <1>8, <2>1 DEF BodyRetries, Put, TypeOK
  <2> QED
    BY <1>8, <2>1, <2>2 DEF BodyRetries, Outcome, TypeOK, WorkerState,
                            BusyWorker, EarlyPC, LatePC
<1>9. ASSUME NEW w \in Worker, PostFetch(w)
      PROVE  TypeOK'
  <2> DEFINE row == RowOrCreate(trace[wk[w].msg.task])
  <2>1. wk[w] \in BusyWorker /\ row \in TraceRow
    BY <1>9, <1>a DEF PostFetch
  <2>2. trace' \in [Task -> TraceRow \cup {NoRow}]
    BY <1>9, <2>1 DEF PostFetch, TypeOK
  <2>3. wk' \in [Worker -> WorkerState]
    <3> HIDE DEF row
    <3> QED
      BY <1>9, <2>1 DEF PostFetch, row, TypeOK, WorkerState, BusyWorker, EarlyPC, LatePC
  <2> QED
    BY <1>9, <2>2, <2>3 DEF PostFetch, TypeOK
<1>10. ASSUME NEW w \in Worker, PostSave(w)
       PROVE  TypeOK'
  <2>1. /\ wk[w] \in BusyWorker
        /\ wk[w].msg.task \in Task
        /\ Recorded(wk[w].held, wk[w].outcome) \in TraceRow
    BY <1>10, <1>a, RecordedType DEF PostSave, BusyWorker, EarlyPC, LatePC
  <2>2. trace' \in [Task -> TraceRow \cup {NoRow}]
    BY <1>10, <2>1 DEF PostSave, TypeOK
  <2> QED
    BY <1>10, <2>1, <2>2 DEF PostSave, TypeOK, WorkerState, BusyWorker,
                             EarlyPC, LatePC
<1>11. ASSUME NEW w \in Worker, HookFails(w)
       PROVE  TypeOK'
  <2>1. wk[w] \in BusyWorker
    BY <1>11, <1>a DEF HookFails
  <2>2. \/ wk[w].pc \in EarlyPC /\ wk' = [wk EXCEPT ![w].pc = "body"]
        \/ wk[w].pc \in LatePC /\ wk' = [wk EXCEPT ![w].pc = "settle"]
    BY <1>11 DEF HookFails, EarlyPC, LatePC
  <2>3. wk' \in [Worker -> WorkerState]
    <3>1. CASE wk[w].pc \in EarlyPC /\ wk' = [wk EXCEPT ![w].pc = "body"]
      <4>1. [wk[w] EXCEPT !.pc = "body"] \in BusyWorker
        BY <2>1, <3>1 DEF BusyWorker, EarlyPC, LatePC
      <4> QED
        BY <3>1, <4>1 DEF TypeOK, WorkerState
    <3>2. CASE wk[w].pc \in LatePC /\ wk' = [wk EXCEPT ![w].pc = "settle"]
      <4>1. [wk[w] EXCEPT !.pc = "settle"] \in BusyWorker
        BY <2>1, <3>2 DEF BusyWorker, EarlyPC, LatePC
      <4> QED
        BY <3>2, <4>1 DEF TypeOK, WorkerState
    <3> QED
      BY <2>2, <3>1, <3>2
  <2>4. Fault /\ UNCHANGED <<trace, rows, queue, dlq, producer, internal,
                             announced, settled, runs>>
    BY <1>11 DEF HookFails
  <2> QED
    BY <2>3, <2>4, FaultType DEF TypeOK
<1>12. ASSUME NEW w \in Worker, Settle(w)
       PROVE  TypeOK'
  <2>1. wk[w].msg.task \in Task
    BY <1>12, <1>a DEF Settle
  <2>2. dlq' \in [Task -> Nat]
    BY <1>12, <2>1 DEF Settle, Put, TypeOK
  <2>3. settled' \in [Task -> SUBSET {"success", "dead", "dropped"}]
    BY <1>12, <2>1 DEF Settle, TypeOK
  <2> QED
    BY <1>12, <2>2, <2>3 DEF Settle, Free, TypeOK, WorkerState
<1>13. ASSUME NEW w \in Worker, Crash(w)
       PROVE  TypeOK'
  <2>1. wk[w].msg \in Message /\ wk[w].msg.task \in Task
    BY <1>13, <1>a DEF Crash
  <2>2. wk[w].msg.deliveries < DeliveryLimit => Requeued(wk[w].msg) \in Message
    BY <2>1, MessageType
  <2>3. \/ /\ wk[w].msg.deliveries < DeliveryLimit
           /\ queue' = Put(queue, Requeued(wk[w].msg)) /\ dlq' = dlq
        \/ dlq' = Put(dlq, wk[w].msg.task) /\ queue' = queue
    BY <1>13 DEF Crash
  <2>4. queue' \in [Message -> Nat] /\ dlq' \in [Task -> Nat]
    <3>1. CASE /\ wk[w].msg.deliveries < DeliveryLimit
               /\ queue' = Put(queue, Requeued(wk[w].msg)) /\ dlq' = dlq
      BY <2>2, <3>1 DEF Put, TypeOK
    <3>2. CASE dlq' = Put(dlq, wk[w].msg.task) /\ queue' = queue
      BY <2>1, <3>2 DEF Put, TypeOK
    <3> QED
      BY <2>3, <3>1, <3>2
  <2>5. /\ Fault /\ wk' = [wk EXCEPT ![w] = Free]
        /\ UNCHANGED <<trace, rows, producer, internal, announced, settled, runs>>
    BY <1>13 DEF Crash
  <2> QED
    BY <2>4, <2>5, FaultType DEF Free, TypeOK, WorkerState
<1>14. ASSUME NEW i \in Internal, NEW t \in Task, DlqGet(i, t)
       PROVE  TypeOK'
  BY <1>14 DEF DlqGet, Take, TypeOK, InternalState, DrainState, DrainPC
<1>15. ASSUME NEW i \in Internal, CountRows(i)
       PROVE  TypeOK'
  <2> DEFINE no == Len(rows[internal[i].task]) + 1
  <2>1. internal[i] \in DrainState /\ no \in Nat
    BY <1>15, <1>b DEF CountRows, DrainPC, TypeOK
  <2> HIDE DEF no
  <2> QED
    BY <1>15, <2>1 DEF CountRows, no, TypeOK, InternalState, DrainState, DrainPC
<1>16. ASSUME NEW i \in Internal, InsertRow(i)
       PROVE  TypeOK'
  <2> DEFINE row == [no |-> internal[i].no, state |-> "pending", due |-> FALSE]
  <2>1. /\ internal[i] \in DrainState /\ internal[i].task \in Task
        /\ row \in Redelivery
    BY <1>16, <1>b DEF InsertRow, DrainPC, DrainState, Redelivery
  <2>2. Append(rows[internal[i].task], row) \in Seq(Redelivery)
    BY <2>1 DEF TypeOK
  <2>3. rows' \in [Task -> Seq(Redelivery)]
    BY <1>16, <2>1, <2>2 DEF InsertRow, TypeOK
  <2> QED
    BY <1>16, <2>1, <2>3 DEF InsertRow, TypeOK, InternalState, DrainState, DrainPC
<1>17. ASSUME NEW i \in Internal, FinalizeFetch(i)
       PROVE  TypeOK'
  <2> DEFINE row == RowOrCreate(trace[internal[i].task])
  <2>1. internal[i] \in DrainState /\ row \in TraceRow
    BY <1>17, <1>b DEF FinalizeFetch, DrainPC
  <2>2. trace' \in [Task -> TraceRow \cup {NoRow}]
    BY <1>17, <2>1 DEF FinalizeFetch, TypeOK
  <2>3. internal' \in [Internal -> InternalState]
    <3> HIDE DEF row
    <3> QED
      BY <1>17, <2>1 DEF FinalizeFetch, row, TypeOK, InternalState, DrainState, DrainPC
  <2> QED
    BY <1>17, <2>2, <2>3 DEF FinalizeFetch, TypeOK
<1>18. ASSUME NEW i \in Internal, FinalizeSave(i)
       PROVE  TypeOK'
  <2>1. /\ internal[i] \in DrainState
        /\ DeadRow(internal[i].held) \in TraceRow
    BY <1>18, <1>b, RecordedType DEF FinalizeSave, DrainPC, DrainState, Outcome
  <2> QED
    BY <1>18, <2>1 DEF FinalizeSave, TypeOK, InternalState, DrainState, DrainPC
<1>19. ASSUME NEW i \in Internal, Notify(i)
       PROVE  TypeOK'
  <2>1. internal[i] \in DrainState /\ internal[i].task \in Task
    BY <1>19, <1>b DEF Notify, DrainPC
  <2> QED
    BY <1>19, <2>1 DEF Notify, TypeOK, InternalState, DrainState, DrainPC
<1>20. ASSUME NEW i \in Internal, Ack(i)
       PROVE  TypeOK'
  BY <1>20 DEF Ack, Free, TypeOK, InternalState
<1>21. ASSUME NEW i \in Internal, DrainFails(i)
       PROVE  TypeOK'
  <2>1. internal[i].task \in Task
    BY <1>21, <1>b DEF DrainFails, DrainAborts, DrainDrops, BrokerDrops, DrainPC
  <2>2. CASE DrainAborts(i)
    BY <2>1, <2>2, FaultType DEF DrainAborts, Free, Put, TypeOK, InternalState
  <2>3. CASE Discard(i)
    BY <2>1, <2>3, FaultType DEF Discard, Free, TypeOK, InternalState
  <2> QED
    BY <1>21, <2>2, <2>3 DEF DrainFails, DrainDrops, BrokerDrops
<1>22. ASSUME NEW t \in Task, NEW k \in DOMAIN rows[t], BecomesDue(t, k)
       PROVE  TypeOK'
  <2>1. rows[t] \in Seq(Redelivery) /\ rows[t][k] \in Redelivery
    BY DEF TypeOK
  <2>2. [rows[t][k] EXCEPT !.due = TRUE] \in Redelivery
    BY <2>1 DEF Redelivery
  <2>3. [rows[t] EXCEPT ![k].due = TRUE] \in Seq(Redelivery)
    BY <2>1, <2>2, RowsType
  <2> QED
    BY <1>22, <2>3 DEF BecomesDue, TypeOK
<1>23. ASSUME NEW i \in Internal, SelectDue(i)
       PROVE  TypeOK'
  <2>1. Unlocked \in SUBSET RowKey
    BY DEF Unlocked, DueRows, AllRows, RowKey, TypeOK
  <2> QED
    BY <1>23, <2>1 DEF SelectDue, TypeOK, InternalState, DispatchState
<1>24. ASSUME NEW i \in Internal, NEW r \in LockedBy(i),
              SendDue(i, r) \/ SendFails(i, r)
       PROVE  TypeOK'
  <2>1. internal[i] \in DispatchState
    BY <1>24, Holding DEF SendDue, SendFails
  <2>2. r \in RowKey /\ r[1] \in Task
    BY <1>24, <2>1 DEF SendDue, SendFails, DispatchState, RowKey
  <2>3. CASE SendDue(i, r)
    <3>1. queue' \in [Message -> Nat]
      <4>1. Fresh(r[1]) \in Message
        BY <2>2, MessageType
      <4> QED
        BY <2>3, <4>1 DEF SendDue, Put, TypeOK
    <3>2. internal' \in [Internal -> InternalState]
      BY <2>1, <2>2, <2>3 DEF SendDue, TypeOK, InternalState, DispatchState
    <3> QED
      BY <2>3, <3>1, <3>2 DEF SendDue, TypeOK
  <2>4. CASE SendFails(i, r)
    <3>1. internal' = [internal EXCEPT ![i] =
                         [internal[i] EXCEPT !.todo = internal[i].todo \ {r},
                                             !.failed = internal[i].failed \cup {r}]]
      BY <2>4 DEF SendFails
    <3>a. [internal[i] EXCEPT !.todo = internal[i].todo \ {r},
                              !.failed = internal[i].failed \cup {r}] \in DispatchState
      BY <2>1, <2>2 DEF DispatchState
    <3>2. internal' \in [Internal -> InternalState]
      BY <3>1, <3>a DEF TypeOK, InternalState
    <3>3. Fault /\ UNCHANGED <<trace, rows, queue, dlq, producer, wk,
                               announced, settled, runs>>
      BY <2>4 DEF SendFails
    <3> QED
      BY <3>2, <3>3, FaultType DEF TypeOK
  <2> QED
    BY <1>24, <2>3, <2>4
<1>25. ASSUME NEW i \in Internal, CommitDue(i)
       PROVE  TypeOK'
  <2>1. ASSUME NEW t \in Task
        PROVE  rows'[t] \in Seq(Redelivery)
    <3>1. /\ rows[t] \in Seq(Redelivery)
          /\ \A k \in DOMAIN rows[t] : rows[t][k] \in Redelivery
      BY DEF TypeOK
    <3>2. \A k \in DOMAIN rows[t] : Committed(i, <<t, k>>) \in Redelivery
      BY <3>1 DEF Committed, Row, Redelivery
    <3>3. /\ DOMAIN rows'[t] = DOMAIN rows[t]
          /\ \A k \in DOMAIN rows[t] : rows'[t][k] = Committed(i, <<t, k>>)
          /\ rows'[t] = [k \in DOMAIN rows[t] |-> rows'[t][k]]
      BY <1>25 DEF CommitDue
    <3> QED
      BY <3>1, <3>2, <3>3, RowsType
  <2>2. rows' \in [Task -> Seq(Redelivery)]
    BY <1>25, <2>1 DEF CommitDue
  <2> QED
    BY <1>25, <2>2 DEF CommitDue, Free, TypeOK, InternalState
<1>26. ASSUME NEW i \in Internal, DispatchAborts(i)
       PROVE  TypeOK'
  BY <1>26, FaultType DEF DispatchAborts, Free, TypeOK, InternalState
<1>27. CASE UNCHANGED vars
  BY <1>27 DEF vars, TypeOK
<1> QED
  BY <1>1, <1>2, <1>3, <1>4, <1>5, <1>6, <1>7, <1>8, <1>9, <1>10, <1>11,
     <1>12, <1>13, <1>14, <1>15, <1>16, <1>17, <1>18, <1>19, <1>20, <1>21,
     <1>22, <1>23, <1>24, <1>25, <1>26, <1>27
     DEF Next, ProducerStep, WorkerStep, DrainStep, DispatchStep, FaultStep, Clock

\* Every variable keeps its type: the counters of the queues never become
\* negative, a child holds what its program counter says, and every row that
\* is saved is a row.
THEOREM TypeCorrect == Spec => []TypeOK
<1>1. Init => TypeOK
  BY TypeInit
<1>2. TypeOK /\ [Next]_vars => TypeOK'
  BY TypeNext
<1> QED
  BY <1>1, <1>2, PTL DEF Spec

-----------------------------------------------------------------------------
(* What a step does to the two tables                                       *)

\* The only ways a trace row changes: it is created, a hook records a state
\* that is neither enqueued nor dead, or a drainer finalizes it.
LEMMA TraceStep ==
    ASSUME TypeOK, [Next]_vars, NEW t \in Task
    PROVE  \/ trace'[t] = trace[t]
           \/ trace[t] = NoRow /\ trace'[t] = NewRow
           \/ trace'[t].state \in {"running"} \cup Outcome
           \/ /\ trace'[t].state = "dead"
              /\ \E i \in Internal : /\ internal[i].pc = "finalize_save"
                                     /\ internal[i].task = t
<1> DEFINE Goal == \/ trace'[t] = trace[t]
                   \/ trace[t] = NoRow /\ trace'[t] = NewRow
                   \/ trace'[t].state \in {"running"} \cup Outcome
                   \/ /\ trace'[t].state = "dead"
                      /\ \E i \in Internal : /\ internal[i].pc = "finalize_save"
                                             /\ internal[i].task = t
<1>1. ASSUME NEW s \in Task, trace' = [trace EXCEPT ![s] = RowOrCreate(trace[s])]
      PROVE  Goal
  BY <1>1 DEF RowOrCreate, TypeOK
<1>2. ASSUME NEW s, NEW r \in TraceRow, trace' = [trace EXCEPT ![s] = r],
             r.state \in {"running"} \cup Outcome
      PROVE  Goal
  BY <1>2 DEF TypeOK
<1>3. ASSUME NEW w \in Worker, PrerunFetch(w) \/ PostFetch(w)
      PROVE  Goal
  <2>1. wk[w].msg.task \in Task
    BY <1>3, Holding, MessageType DEF PrerunFetch, PostFetch, BusyWorker
  <2>2. trace' = [trace EXCEPT ![wk[w].msg.task] = RowOrCreate(trace[wk[w].msg.task])]
    BY <1>3 DEF PrerunFetch, PostFetch
  <2> QED
    BY <1>1, <2>1, <2>2
<1>4. ASSUME NEW w \in Worker, PrerunSave(w) \/ PostSave(w)
      PROVE  Goal
  <2>1. wk[w] \in BusyWorker
    BY <1>4, Holding DEF PrerunSave, PostSave
  <2>2. CASE PrerunSave(w)
    <3>1. /\ RunningRow(wk[w].held) \in TraceRow
          /\ RunningRow(wk[w].held).state = "running"
      BY <2>1, RecordedType DEF BusyWorker, RunningRow, Outcome
    <3> QED
      BY <1>2, <2>2, <3>1 DEF PrerunSave
  <2>3. CASE PostSave(w)
    <3>1. /\ Recorded(wk[w].held, wk[w].outcome) \in TraceRow
          /\ Recorded(wk[w].held, wk[w].outcome).state \in Outcome
      <4>1. wk[w].held \in TraceRow \cup {NoRow} /\ wk[w].outcome \in Outcome
        BY <2>1, <2>3 DEF PostSave, BusyWorker, EarlyPC, LatePC
      <4> QED
        BY <4>1, RecordedType
    <3> QED
      BY <1>2, <2>3, <3>1 DEF PostSave
  <2> QED
    BY <1>4, <2>2, <2>3
<1>5. ASSUME NEW i \in Internal, FinalizeFetch(i)
      PROVE  Goal
  <2>1. internal[i].task \in Task
    BY <1>5, Holding DEF FinalizeFetch, DrainState, DrainPC
  <2>2. trace' = [trace EXCEPT ![internal[i].task] = RowOrCreate(trace[internal[i].task])]
    BY <1>5 DEF FinalizeFetch
  <2> QED
    BY <1>1, <2>1, <2>2
<1>6. ASSUME NEW i \in Internal, FinalizeSave(i)
      PROVE  Goal
  <2>1. DeadRow(internal[i].held) \in TraceRow /\ DeadRow(internal[i].held).state = "dead"
    BY <1>6, Holding, RecordedType DEF FinalizeSave, DrainState, DrainPC, Outcome
  <2>2. trace' = [trace EXCEPT ![internal[i].task] = DeadRow(internal[i].held)]
    BY <1>6 DEF FinalizeSave
  <2>3. t # internal[i].task => trace'[t] = trace[t]
    BY <2>2 DEF TypeOK
  <2>4. t = internal[i].task => trace'[t].state = "dead"
    BY <2>1, <2>2 DEF TypeOK
  <2> QED
    BY <1>6, <2>3, <2>4 DEF FinalizeSave
<1>7. ASSUME NEW s \in Task, RecordInitial(s)
      PROVE  Goal
  BY <1>1, <1>7 DEF RecordInitial
<1> HIDE DEF Goal
<1>8. ASSUME NEW s \in Task, ProducerStep(s)
      PROVE  Goal
  BY <1>7, <1>8 DEF ProducerStep, Send, Goal
<1>9. ASSUME NEW w \in Worker, WorkerStep(w)
      PROVE  Goal
  <2>1. \/ UNCHANGED trace \/ PrerunFetch(w) \/ PostFetch(w) \/ PrerunSave(w)
        \/ PostSave(w)
    BY <1>9 DEF WorkerStep, Deliver, BodySucceeds, BodyRetries, BodyFails, Settle
  <2> QED
    BY <1>3, <1>4, <2>1 DEF Goal
<1>10. ASSUME NEW i \in Internal, DrainStep(i) \/ DispatchStep(i)
       PROVE  Goal
  <2>1. UNCHANGED trace \/ FinalizeFetch(i) \/ FinalizeSave(i)
    BY <1>10 DEF DrainStep, DispatchStep, DlqGet, CountRows, InsertRow, Notify,
                 Ack, SelectDue, SendDue, CommitDue
  <2> QED
    BY <1>5, <1>6, <2>1 DEF Goal
<1>11. Clock \/ FaultStep => UNCHANGED trace
  BY DEF Clock, BecomesDue, FaultStep, ProducerDies, HookFails, Crash,
         DrainFails, DrainAborts, DrainDrops, BrokerDrops,
         Discard, DispatchAborts, SendFails
<1>12. UNCHANGED vars => UNCHANGED trace
  BY DEF vars
<1>13. Goal
  BY <1>8, <1>9, <1>10, <1>11, <1>12 DEF Next, Goal
<1> QED
  BY <1>13 DEF Goal

\* The only way the redelivery rows of a task change in number is the insert
\* of a drainer; everything else keeps each row's place and attempt number.
LEMMA RowsStep ==
    ASSUME TypeOK, [Next]_vars, NEW t \in Task
    PROVE  \/ /\ Len(rows'[t]) = Len(rows[t])
              /\ \A k \in DOMAIN rows[t] : rows'[t][k].no = rows[t][k].no
           \/ \E i \in Internal :
                 /\ internal[i].pc = "insert"
                 /\ internal[i].task = t
                 /\ rows'[t] = Append(rows[t], [no |-> internal[i].no,
                                   state |-> "pending", due |-> FALSE])
<1> DEFINE Kept == /\ Len(rows'[t]) = Len(rows[t])
                   /\ \A k \in DOMAIN rows[t] : rows'[t][k].no = rows[t][k].no
           Inserted(i) == /\ internal[i].pc = "insert"
                          /\ internal[i].task = t
                          /\ rows'[t] = Append(rows[t], [no |-> internal[i].no,
                                            state |-> "pending", due |-> FALSE])
<1>1. UNCHANGED rows => Kept
  OBVIOUS
<1>2. ASSUME NEW i \in Internal, InsertRow(i)
      PROVE  Kept \/ Inserted(i)
  <2>1. internal[i].task \in Task
    BY <1>2, Holding DEF InsertRow, DrainState, DrainPC
  <2>2. CASE internal[i].task = t
    BY <1>2, <2>2 DEF InsertRow, TypeOK
  <2>3. CASE internal[i].task # t
    <3>1. rows'[t] = rows[t]
      BY <1>2, <2>3 DEF InsertRow, TypeOK
    <3> QED
      BY <3>1
  <2> QED
    BY <2>2, <2>3
<1>3. ASSUME NEW s \in Task, NEW k \in DOMAIN rows[s], BecomesDue(s, k)
      PROVE  Kept
  <2>1. \/ rows'[t] = rows[t]
        \/ k \in DOMAIN rows[t] /\ rows'[t] = [rows[t] EXCEPT ![k].due = TRUE]
    BY <1>3 DEF BecomesDue, TypeOK
  <2>2. /\ rows[t] \in Seq(Redelivery)
        /\ \A j \in DOMAIN rows[t] : rows[t][j] \in Redelivery
    BY DEF TypeOK
  <2>3. CASE k \in DOMAIN rows[t] /\ rows'[t] = [rows[t] EXCEPT ![k].due = TRUE]
    <3>1. /\ DOMAIN rows'[t] = DOMAIN rows[t]
          /\ rows'[t] = [j \in DOMAIN rows[t] |-> rows'[t][j]]
          /\ \A j \in DOMAIN rows[t] :
                rows'[t][j] = IF j = k THEN [rows[t][k] EXCEPT !.due = TRUE]
                                       ELSE rows[t][j]
      BY <2>3
    <3>2. \A j \in DOMAIN rows[t] : /\ rows'[t][j] \in Redelivery
                                    /\ rows'[t][j].no = rows[t][j].no
      <4>1. rows[t][k] \in Redelivery
        BY <2>2, <2>3
      <4>2. /\ [rows[t][k] EXCEPT !.due = TRUE] \in Redelivery
            /\ [rows[t][k] EXCEPT !.due = TRUE].no = rows[t][k].no
        BY <4>1 DEF Redelivery
      <4> QED
        BY <2>2, <3>1, <4>2
    <3> QED
      BY <2>2, <3>1, <3>2, RowsType
  <2> QED
    BY <2>1, <2>2, <2>3
<1>4. ASSUME NEW i \in Internal, CommitDue(i)
      PROVE  Kept
  <2>1. /\ rows[t] \in Seq(Redelivery)
        /\ \A k \in DOMAIN rows[t] : rows[t][k] \in Redelivery
    BY DEF TypeOK
  <2>2. rows'[t] = [k \in DOMAIN rows[t] |-> Committed(i, <<t, k>>)]
    BY <1>4 DEF CommitDue
  <2>3. \A k \in DOMAIN rows[t] : /\ Committed(i, <<t, k>>) \in Redelivery
                                  /\ Committed(i, <<t, k>>).no = rows[t][k].no
    BY <2>1 DEF Committed, Row, Redelivery
  <2>4. Len(rows'[t]) = Len(rows[t])
    <3>1. /\ rows'[t] = [k \in DOMAIN rows[t] |-> rows'[t][k]]
          /\ \A k \in DOMAIN rows[t] : rows'[t][k] \in Redelivery
      BY <2>2, <2>3
    <3> QED
      BY <2>1, <3>1, RowsType
  <2> QED
    BY <2>2, <2>3, <2>4
<1> HIDE DEF Kept, Inserted
<1>5. ASSUME NEW s \in Task, ProducerStep(s)
      PROVE  Kept
  BY <1>1, <1>5 DEF ProducerStep, Send, RecordInitial
<1>6. ASSUME NEW w \in Worker, WorkerStep(w)
      PROVE  Kept
  BY <1>1, <1>6 DEF WorkerStep, Deliver, PrerunFetch, PrerunSave, BodySucceeds,
                    BodyRetries, BodyFails, PostFetch, PostSave, Settle
<1>7. ASSUME NEW i \in Internal, DrainStep(i) \/ DispatchStep(i)
      PROVE  Kept \/ \E j \in Internal : Inserted(j)
  <2>1. UNCHANGED rows \/ InsertRow(i) \/ CommitDue(i)
    BY <1>7 DEF DrainStep, DispatchStep, DlqGet, CountRows, FinalizeFetch,
                FinalizeSave, Notify, Ack, SelectDue, SendDue
  <2> QED
    BY <1>1, <1>2, <1>4, <2>1
<1>8. FaultStep => UNCHANGED rows
  BY DEF FaultStep, ProducerDies, HookFails, Crash, DrainFails, DrainAborts, DrainDrops, BrokerDrops,
         Discard,
         DispatchAborts, SendFails
<1>9. UNCHANGED vars => UNCHANGED rows
  BY DEF vars
<1>10. Kept \/ \E i \in Internal : Inserted(i)
  BY <1>1, <1>3, <1>5, <1>6, <1>7, <1>8, <1>9 DEF Next, Clock
<1> QED
  BY <1>10 DEF Kept, Inserted

-----------------------------------------------------------------------------
(* A dead task has used up its redeliveries                                 *)

\* DeadOnlyAfterBudget is not inductive: the drainer decides on the count and
\* finalizes two statements later, so what it saw must still be true then.
\* It is, because rows are never deleted.
Exhausted(t) == Len(rows[t]) >= Budget
Finalizing(i) == internal[i].pc \in {"finalize", "finalize_save"}
FinalizeJustified ==
    \A i \in Internal : Finalizing(i) => Exhausted(internal[i].task)
DeadInv == TypeOK /\ DeadOnlyAfterBudget /\ FinalizeJustified

LEMMA ExhaustedStays ==
    ASSUME TypeOK, [Next]_vars, NEW t \in Task
    PROVE  Exhausted(t) => Exhausted(t)'
<1>1. rows[t] \in Seq(Redelivery)
  BY DEF TypeOK
<1>2. Len(rows'[t]) = Len(rows[t]) \/ Len(rows'[t]) = Len(rows[t]) + 1
  <2>1. ASSUME NEW i \in Internal, internal[i].pc = "insert"
        PROVE  [no |-> internal[i].no, state |-> "pending", due |-> FALSE]
                  \in Redelivery
    <3>1. internal[i].no \in Nat
      BY <2>1, Holding DEF DrainState, DrainPC
    <3> QED
      BY <3>1 DEF Redelivery
  <2>2. \A r \in Redelivery : Len(Append(rows[t], r)) = Len(rows[t]) + 1
    BY <1>1
  <2>3. CASE Len(rows'[t]) = Len(rows[t])
    BY <2>3
  <2>4. ASSUME NEW i \in Internal, internal[i].pc = "insert",
               rows'[t] = Append(rows[t], [no |-> internal[i].no,
                              state |-> "pending", due |-> FALSE])
        PROVE  Len(rows'[t]) = Len(rows[t]) + 1
    BY <2>1, <2>2, <2>4
  <2> QED
    BY <2>3, <2>4, RowsStep
<1> QED
  BY <1>1, <1>2 DEF Exhausted

\* A drainer comes to finalize a task by counting its rows, and from one
\* statement of finalize_dead to the next.
LEMMA FinalizingStep ==
    ASSUME TypeOK, [Next]_vars, NEW i \in Internal, Finalizing(i)'
    PROVE  /\ internal[i].pc \in DrainPC
           /\ internal'[i].task = internal[i].task
           /\ Finalizing(i) \/ Exhausted(internal[i].task)
<1> DEFINE Goal == /\ internal[i].pc \in DrainPC
                   /\ internal'[i].task = internal[i].task
                   /\ Finalizing(i) \/ Exhausted(internal[i].task)
<1>1. internal'[i] = internal[i] => Goal
  BY DEF Finalizing, DrainPC
<1>2. ASSUME NEW j \in Internal, DrainStep(j)
      PROVE  Goal
  <2>1. CASE i # j
    <3>1. internal'[i] = internal[i]
      BY <1>2, <2>1 DEF DrainStep, DlqGet, CountRows, InsertRow, FinalizeFetch,
                        FinalizeSave, Notify, Ack, TypeOK
    <3> QED
      BY <1>1, <3>1
  <2>2. CASE i = j
    <3>1. CASE CountRows(i)
      <4> DEFINE no == Len(rows[internal[i].task]) + 1
      <4>1. internal[i] \in DrainState /\ internal[i].task \in Task
        BY <3>1, Holding DEF CountRows, DrainPC, DrainState
      <4>2. /\ internal'[i].task = internal[i].task
            /\ internal'[i].pc = IF InBudget(no) THEN "insert" ELSE "finalize"
        BY <3>1, <4>1 DEF CountRows, TypeOK, DrainState
      <4>3. no > Budget
        BY <4>1, <4>2 DEF Finalizing, InBudget, TypeOK
      <4>4. Exhausted(internal[i].task)
        BY <4>1, <4>3 DEF Exhausted, TypeOK
      <4> QED
        BY <3>1, <4>2, <4>4 DEF CountRows, DrainPC
    <3>2. CASE FinalizeFetch(i)
      <4>1. internal[i] \in DrainState
        BY <3>2, Holding DEF FinalizeFetch, DrainPC
      <4>2. internal'[i].task = internal[i].task
        BY <3>2, <4>1 DEF FinalizeFetch, TypeOK, DrainState
      <4> QED
        BY <3>2, <4>2 DEF FinalizeFetch, Finalizing, DrainPC
    <3>3. CASE ~CountRows(i) /\ ~FinalizeFetch(i)
      <4>1. internal'[i].pc \in {"count", "ack", "notify", "idle"}
        <5>1. ASSUME NEW s \in Task, DlqGet(i, s)
              PROVE  internal'[i].pc = "count"
          BY <5>1 DEF DlqGet, TypeOK
        <5>2. ASSUME InsertRow(i) \/ FinalizeSave(i) \/ Notify(i)
              PROVE  internal'[i].pc \in {"ack", "notify"}
          <6>1. internal[i] \in DrainState
            BY <5>2, Holding DEF InsertRow, FinalizeSave, Notify, DrainPC
          <6>2. internal' = [internal EXCEPT ![i].pc = "ack"]
                \/ internal' = [internal EXCEPT ![i].pc = "notify"]
            BY <5>2 DEF InsertRow, FinalizeSave, Notify
          <6> QED
            BY <6>1, <6>2 DEF TypeOK, DrainState
        <5>3. Ack(i) => internal'[i].pc = "idle"
          BY DEF Ack, Free, TypeOK
        <5> QED
          BY <1>2, <2>2, <3>3, <5>1, <5>2, <5>3 DEF DrainStep
      <4> QED
        BY <4>1 DEF Finalizing
    <3> QED
      BY <3>1, <3>2, <3>3
  <2> QED
    BY <2>1, <2>2
<1>3. ASSUME NEW j \in Internal, DispatchStep(j)
      PROVE  Goal
  <2>1. internal'[i] = internal[i] \/ internal'[i].pc \in {"send", "idle"}
    <3>1. ASSUME SelectDue(j) \/ CommitDue(j)
          PROVE  internal'[i] = internal[i] \/ internal'[i].pc \in {"send", "idle"}
      <4>1. \/ internal' = [internal EXCEPT ![j] = Free]
            \/ internal' = [internal EXCEPT ![j] =
                               [pc |-> "send", todo |-> Unlocked, sent |-> {},
                                failed |-> {}]]
        BY <3>1 DEF SelectDue, CommitDue
      <4> QED
        BY <4>1 DEF Free, TypeOK
    <3>2. ASSUME NEW r \in LockedBy(j), SendDue(j, r)
          PROVE  internal'[i] = internal[i] \/ internal'[i].pc \in {"send", "idle"}
      <4>1. internal[j] \in DispatchState
        BY <3>2, Holding DEF SendDue
      <4> QED
        BY <3>2, <4>1 DEF SendDue, TypeOK, DispatchState
    <3> QED
      BY <1>3, <3>1, <3>2 DEF DispatchStep
  <2> QED
    BY <1>1, <2>1 DEF Finalizing
<1>4. ASSUME FaultStep
      PROVE  Goal
  <2>1. internal'[i] = internal[i] \/ internal'[i].pc \in {"send", "idle"}
    <3>1. ASSUME NEW j \in Internal, DrainFails(j) \/ DispatchAborts(j)
          PROVE  internal'[i] = internal[i] \/ internal'[i].pc \in {"send", "idle"}
      <4>1. internal' = [internal EXCEPT ![j] = Free]
        BY <3>1 DEF DrainFails, DrainAborts, DrainDrops, BrokerDrops,
         Discard, DispatchAborts
      <4> QED
        BY <4>1 DEF Free, TypeOK
    <3>2. ASSUME NEW j \in Internal, NEW r \in LockedBy(j), SendFails(j, r)
          PROVE  internal'[i] = internal[i] \/ internal'[i].pc \in {"send", "idle"}
      <4>1. internal[j] \in DispatchState
        BY <3>2, Holding DEF SendFails
      <4>2. internal' = [internal EXCEPT ![j].todo = @ \ {r},
                                         ![j].failed = @ \cup {r}]
        BY <3>2 DEF SendFails
      <4> QED
        BY <4>1, <4>2 DEF TypeOK, DispatchState
    <3>3. (\E t \in Task : ProducerDies(t)) \/ (\E w \in Worker : HookFails(w) \/ Crash(w))
             => UNCHANGED internal
      BY DEF ProducerDies, HookFails, Crash
    <3> QED
      BY <1>4, <3>1, <3>2, <3>3 DEF FaultStep
  <2> QED
    BY <1>1, <2>1 DEF Finalizing
<1>5. UNCHANGED internal => Goal
  BY <1>1
<1> HIDE DEF Goal
<1>6. (\E s \in Task : ProducerStep(s)) => UNCHANGED internal
  BY DEF ProducerStep, Send, RecordInitial
<1>7. (\E w \in Worker : WorkerStep(w)) => UNCHANGED internal
  BY DEF WorkerStep, Deliver, PrerunFetch, PrerunSave, BodySucceeds,
         BodyRetries, BodyFails, PostFetch, PostSave, Settle
<1>8. Clock \/ UNCHANGED vars => UNCHANGED internal
  BY DEF Clock, BecomesDue, vars
<1>9. Goal
  BY <1>2, <1>3, <1>4, <1>5, <1>6, <1>7, <1>8 DEF Next
<1> QED
  BY <1>9 DEF Goal

LEMMA DeadNext == DeadInv /\ [Next]_vars => DeadInv'
<1> SUFFICES ASSUME DeadInv, [Next]_vars
             PROVE  DeadInv'
  OBVIOUS
<1> USE DEF DeadInv
<1>1. TypeOK'
  BY TypeNext
<1>2. ASSUME NEW t \in Task, trace'[t].state = "dead"
      PROVE  Exhausted(t)'
  <2>1. \/ trace[t].state = "dead"
        \/ \E i \in Internal : Finalizing(i) /\ internal[i].task = t
    BY <1>2, TraceStep DEF Finalizing, Outcome, NewRow
  <2>2. Exhausted(t)
    BY <2>1 DEF DeadOnlyAfterBudget, FinalizeJustified, Exhausted
  <2> QED
    BY <2>2, ExhaustedStays
<1>3. ASSUME NEW i \in Internal, Finalizing(i)'
      PROVE  Exhausted(internal[i].task)'
  <2>1. internal[i].task \in Task /\ internal'[i].task = internal[i].task
    BY <1>3, FinalizingStep, Holding DEF DrainState
  <2>2. Exhausted(internal[i].task)
    BY <1>3, FinalizingStep DEF FinalizeJustified
  <2> QED
    BY <2>1, <2>2, ExhaustedStays DEF Exhausted
<1>4. DeadOnlyAfterBudget'
  BY <1>2 DEF DeadOnlyAfterBudget, Exhausted
<1>5. FinalizeJustified'
  BY <1>3 DEF FinalizeJustified, Exhausted, Finalizing
<1> QED
  BY <1>1, <1>4, <1>5

\* DEAD is written only after the DLQ budget is exhausted, however many
\* drainers and workers race, crash and save stale rows.
THEOREM DeadAfterBudget == Spec => []DeadOnlyAfterBudget
<1>1. Init => DeadInv
  BY TypeInit DEF Init, DeadInv, DeadOnlyAfterBudget, FinalizeJustified,
                  Finalizing, NoRow, Free
<1>2. DeadInv /\ [Next]_vars => DeadInv'
  BY DeadNext
<1>3. DeadInv => DeadOnlyAfterBudget
  BY DEF DeadInv
<1> QED
  BY <1>1, <1>2, <1>3, PTL DEF Spec

-----------------------------------------------------------------------------
(* The producer's write races the worker's writes safely                    *)

\* Once created a row never disappears and never goes back to enqueued: the
\* only write of ENQUEUED is get_or_create, which does not touch a row that
\* exists, and no save of a row that was read earlier writes it.
THEOREM NoRegression == Spec => RowNeverRegresses
<1>1. ASSUME TypeOK, [Next]_vars, NEW t \in Task
      PROVE  /\ trace[t] # NoRow => trace'[t] # NoRow
             /\ trace'[t].state = "enqueued" => trace[t].state \in {"none", "enqueued"}
  BY <1>1, TraceStep DEF Outcome, NoRow, NewRow
<1>2. TypeOK /\ [Next]_vars =>
        [\A t \in Task :
          /\ trace[t] # NoRow => trace'[t] # NoRow
          /\ trace'[t].state = "enqueued" => trace[t].state \in {"none", "enqueued"}]_vars
  BY <1>1
<1> QED
  BY <1>2, TypeCorrect, PTL DEF Spec, RowNeverRegresses

-----------------------------------------------------------------------------
(* No task is lost                                                          *)

\* What a drainer does with a dead letter is what the number it has counted
\* allows: an ack after "insert" finds a row, one after "notify" a burial.
BudgetChecked ==
    \A i \in Internal :
        /\ internal[i].pc = "insert" => internal[i].no <= Budget
        /\ internal[i].pc \in {"finalize", "finalize_save", "notify"} =>
              internal[i].no > Budget

\* The rows of a batch exist and nobody has changed them since they were
\* selected: the batches of two children are disjoint (SKIP LOCKED).
LocksPending ==
    \A i \in Internal : \A r \in LockedBy(i) :
        r \in AllRows /\ Row(r).state = "pending"
LocksApart ==
    \A i, j \in Internal : i # j => LockedBy(i) \cap LockedBy(j) = {}

\* Accounted with the three ways out of the broker taken together.
Carried(t) ==
    \/ producer[t] = "idle"
    \/ settled[t] # {}
    \/ InQueue(t)
    \/ dlq[t] > 0
    \/ \E w \in Worker : Executing(w, t)
    \/ \E i \in Internal : Draining(i, t)
    \/ \E k \in DOMAIN rows[t] : Scheduled(t, k)
    \/ GivenUp(t)

LEMMA AccountedCarried ==
    ASSUME TypeOK, NEW t \in Task
    PROVE  Accounted(t) <=> Carried(t)
<1>1. settled[t] # {} <=> Finished(t) \/ Dropped(t)
  BY DEF TypeOK, Finished, Dropped
<1> QED
  BY <1>1 DEF Accounted, Carried

LostInv == TypeOK /\ NoTaskLost /\ BudgetChecked /\ LocksPending /\ LocksApart

-----------------------------------------------------------------------------
(* What carries a task depends on one or two variables only.                *)

LEMMA Unmoved ==
    ASSUME NEW t \in Task
    PROVE  /\ UNCHANGED queue => (InQueue(t) => InQueue(t)')
           /\ UNCHANGED wk => \A w \in Worker : Executing(w, t) => Executing(w, t)'
           /\ UNCHANGED internal =>
                 \A i \in Internal : Draining(i, t) => Draining(i, t)'
           /\ UNCHANGED <<rows, internal>> =>
                 \A k \in DOMAIN rows[t] : Scheduled(t, k) => Scheduled(t, k)'
           /\ UNCHANGED rows => (GivenUp(t) => GivenUp(t)')
BY DEF InQueue, Executing, Draining, Scheduled, Published, GivenUp

\* A message that is put into the queue keeps what was there before.
LEMMA QueueGrows ==
    ASSUME TypeOK, NEW m \in Message, queue' = Put(queue, m), NEW t \in Task
    PROVE  /\ InQueue(t) => InQueue(t)'
           /\ m.task = t => InQueue(t)'
<1>1. queue \in [Message -> Nat]
  BY DEF TypeOK
<1>2. /\ queue'[m] > 0
      /\ \A n \in Message : queue'[n] >= queue[n] /\ queue[n] \in Nat /\ queue'[n] \in Nat
  BY <1>1, BagType
<1> QED
  BY <1>1, <1>2 DEF InQueue

LEMMA DlqGrows ==
    ASSUME TypeOK, NEW s \in Task, dlq' = Put(dlq, s), NEW t \in Task
    PROVE  (dlq[t] > 0 => dlq'[t] > 0) /\ dlq'[s] > 0
BY DEF TypeOK, Put

\* A worker child that moves on keeps its message.
LEMMA WorkerKeeps ==
    ASSUME TypeOK, NEW w \in Worker, NEW t \in Task,
           \A v \in Worker \ {w} : wk'[v] = wk[v],
           wk[w].pc # "idle" =>
              /\ wk'[w].pc # "idle"
              /\ wk'[w].msg = wk[w].msg
              /\ wk'[w].outcome = "retrying" => wk[w].outcome = "retrying"
    PROVE  \A v \in Worker : Executing(v, t) => Executing(v, t)'
BY DEF Executing

\* A step of one internal child leaves what the others carry.
LEMMA InternalKeeps ==
    ASSUME NEW i \in Internal, NEW t \in Task,
           \A j \in Internal \ {i} : internal'[j] = internal[j]
    PROVE  /\ \A j \in Internal \ {i} : Draining(j, t) => Draining(j, t)'
           /\ UNCHANGED rows =>
                 \A k \in DOMAIN rows[t] :
                    Scheduled(t, k) /\ ~Published(i, <<t, k>>)' => Scheduled(t, k)'
BY DEF Draining, Scheduled, Published

-----------------------------------------------------------------------------
(* Every step hands a task from one place to the next.                      *)

LEMMA ProducerHandsOver ==
    ASSUME TypeOK, NEW t \in Task, Carried(t), NEW s \in Task,
           ProducerStep(s) \/ ProducerDies(s)
    PROVE  Carried(t)'
<1>1. CASE Send(s)
  <2>1. Fresh(s) \in Message /\ Fresh(s).task = s
    BY MessageType
  <2>2. /\ InQueue(t) => InQueue(t)'
        /\ s = t => InQueue(t)'
    BY <1>1, <2>1, QueueGrows DEF Send
  <2>3. s # t => producer'[t] = producer[t]
    BY <1>1 DEF Send, TypeOK
  <2>4. UNCHANGED <<settled, dlq, wk, internal, rows>>
    BY <1>1 DEF Send
  <2> QED
    BY <2>2, <2>3, <2>4, Unmoved DEF Carried
<1>2. CASE RecordInitial(s) \/ ProducerDies(s)
  <2>1. producer[t] = "idle" => producer'[t] = "idle"
    BY <1>2 DEF RecordInitial, ProducerDies, TypeOK
  <2>2. UNCHANGED <<settled, queue, dlq, wk, internal, rows>>
    BY <1>2 DEF RecordInitial, ProducerDies
  <2> QED
    BY <2>1, <2>2, Unmoved DEF Carried
<1> QED
  BY <1>1, <1>2 DEF ProducerStep

LEMMA WorkerHandsOver ==
    ASSUME TypeOK, NEW t \in Task, Carried(t), NEW w \in Worker,
           WorkerStep(w) \/ HookFails(w) \/ Crash(w)
    PROVE  Carried(t)'
<1>1. ASSUME NEW m \in Message, Deliver(w, m)
      PROVE  Carried(t)'
  <2>1. UNCHANGED <<producer, settled, dlq, internal, rows>>
    BY <1>1 DEF Deliver
  <2>2. \A v \in Worker : Executing(v, t) => Executing(v, t)'
    BY <1>1 DEF Deliver, Executing, TypeOK
  <2>3. m.task = t => Executing(w, t)'
    BY <1>1 DEF Deliver, Executing, TypeOK
  <2>4. InQueue(t) => InQueue(t)' \/ m.task = t
    BY <1>1 DEF Deliver, InQueue, Take, TypeOK
  <2> QED
    BY <2>1, <2>2, <2>3, <2>4, Unmoved DEF Carried
<1>2. CASE \/ PrerunFetch(w) \/ PrerunSave(w) \/ BodySucceeds(w) \/ BodyFails(w)
           \/ PostFetch(w) \/ PostSave(w) \/ HookFails(w)
  <2>1. UNCHANGED <<producer, settled, queue, dlq, internal, rows>>
    BY <1>2 DEF PrerunFetch, PrerunSave, BodySucceeds, BodyFails, PostFetch,
                PostSave, HookFails
  <2>2. wk[w].pc # "idle" /\ wk[w] \in BusyWorker
    BY <1>2, Holding DEF PrerunFetch, PrerunSave, BodySucceeds, BodyFails, PostFetch,
                PostSave, HookFails
  <2>3. /\ \A v \in Worker \ {w} : wk'[v] = wk[v]
        /\ wk'[w].pc # "idle"
        /\ wk'[w].msg = wk[w].msg
        /\ wk'[w].outcome \in {wk[w].outcome, "success", "failed"}
    <3>1. CASE PrerunFetch(w)
      BY <2>2, <3>1 DEF PrerunFetch, TypeOK, BusyWorker
    <3>2. CASE PrerunSave(w) \/ PostSave(w) \/ HookFails(w)
      BY <2>2, <3>2 DEF PrerunSave, PostSave, HookFails, TypeOK, BusyWorker
    <3>3. CASE BodySucceeds(w) \/ BodyFails(w)
      BY <2>2, <3>3 DEF BodySucceeds, BodyFails, TypeOK, BusyWorker
    <3>4. CASE PostFetch(w)
      BY <2>2, <3>4 DEF PostFetch, TypeOK, BusyWorker
    <3> QED
      BY <1>2, <3>1, <3>2, <3>3, <3>4
  <2>4. \A v \in Worker : Executing(v, t) => Executing(v, t)'
    BY <2>3, WorkerKeeps
  <2> QED
    BY <2>1, <2>4, Unmoved DEF Carried
<1>3. CASE BodyRetries(w)
  <2>1. wk[w] \in BusyWorker /\ wk[w].msg \in Message
    BY <1>3, Holding DEF BodyRetries, BusyWorker
  <2>2. Retried(wk[w].msg) \in Message /\ Retried(wk[w].msg).task = wk[w].msg.task
    BY <1>3, <2>1, MessageType DEF BodyRetries
  <2>3. /\ InQueue(t) => InQueue(t)'
        /\ wk[w].msg.task = t => InQueue(t)'
    BY <1>3, <2>2, QueueGrows DEF BodyRetries
  <2>4. \A v \in Worker : v # w /\ Executing(v, t) => Executing(v, t)'
    BY <1>3 DEF BodyRetries, Executing, TypeOK
  <2>5. Executing(w, t) => wk[w].msg.task = t
    BY DEF Executing
  <2>6. UNCHANGED <<producer, settled, dlq, internal, rows>>
    BY <1>3 DEF BodyRetries
  <2> QED
    BY <2>3, <2>4, <2>5, <2>6, Unmoved DEF Carried
<1>4. CASE Settle(w)
  <2>1. wk[w] \in BusyWorker /\ wk[w].msg.task \in Task /\ wk[w].outcome \in Outcome
    BY <1>4, Holding, MessageType DEF Settle, BusyWorker, EarlyPC, LatePC
  <2>2. Executing(w, t) => settled'[t] # {} \/ dlq'[t] > 0
    <3> SUFFICES ASSUME Executing(w, t)
                 PROVE  settled'[t] # {} \/ dlq'[t] > 0
      OBVIOUS
    <3>1. wk[w].msg.task = t
      BY DEF Executing
    <3>2. CASE wk[w].outcome = "success"
      BY <1>4, <3>1, <3>2 DEF Settle, TypeOK
    <3>3. CASE wk[w].outcome = "failed"
      <4>1. dlq' = Put(dlq, t)
        BY <1>4, <3>1, <3>3 DEF Settle
      <4> QED
        BY <4>1, DlqGrows
    <3> QED
      BY <2>1, <3>2, <3>3 DEF Executing, Outcome
  <2>3. dlq[t] > 0 => dlq'[t] > 0
    BY <1>4, <2>1 DEF Settle, Put, TypeOK
  <2>4. settled[t] # {} => settled'[t] # {}
    BY <1>4 DEF Settle, TypeOK
  <2>5. \A v \in Worker : v # w /\ Executing(v, t) => Executing(v, t)'
    BY <1>4 DEF Settle, Executing, TypeOK
  <2>6. UNCHANGED <<producer, queue, internal, rows>>
    BY <1>4 DEF Settle
  <2> QED
    BY <2>2, <2>3, <2>4, <2>5, <2>6, Unmoved DEF Carried
<1>5. CASE Crash(w)
  <2>1. wk[w] \in BusyWorker /\ wk[w].msg \in Message /\ wk[w].msg.task \in Task
    BY <1>5, Holding, MessageType DEF Crash, BusyWorker
  <2>2. UNCHANGED <<producer, settled, internal, rows>>
    BY <1>5 DEF Crash
  <2>3. \A v \in Worker : v # w /\ Executing(v, t) => Executing(v, t)'
    BY <1>5 DEF Crash, Executing, TypeOK
  <2>4. CASE wk[w].msg.deliveries < DeliveryLimit
    <3>1. Requeued(wk[w].msg) \in Message /\ Requeued(wk[w].msg).task = wk[w].msg.task
      BY <2>1, <2>4, MessageType
    <3>2. queue' = Put(queue, Requeued(wk[w].msg)) /\ UNCHANGED dlq
      BY <1>5, <2>4 DEF Crash
    <3>3. (InQueue(t) => InQueue(t)') /\ (wk[w].msg.task = t => InQueue(t)')
      BY <3>1, <3>2, QueueGrows
    <3>4. Executing(w, t) => wk[w].msg.task = t
      BY DEF Executing
    <3> QED
      BY <2>2, <2>3, <3>2, <3>3, <3>4, Unmoved DEF Carried
  <2>5. CASE ~(wk[w].msg.deliveries < DeliveryLimit)
    <3>1. dlq' = Put(dlq, wk[w].msg.task) /\ UNCHANGED queue
      BY <1>5, <2>5 DEF Crash
    <3>2. (dlq[t] > 0 => dlq'[t] > 0) /\ (wk[w].msg.task = t => dlq'[t] > 0)
      BY <2>1, <3>1, DlqGrows
    <3>3. Executing(w, t) => wk[w].msg.task = t
      BY DEF Executing
    <3> QED
      BY <2>2, <2>3, <3>1, <3>2, <3>3, Unmoved DEF Carried
  <2> QED
    BY <2>4, <2>5
<1> QED
  BY <1>1, <1>2, <1>3, <1>4, <1>5 DEF WorkerStep

LEMMA DrainHandsOver ==
    ASSUME TypeOK, BudgetChecked, LocksPending, NEW t \in Task, Carried(t),
           NEW i \in Internal, DrainStep(i) \/ DrainFails(i)
    PROVE  Carried(t)'
<1>0. /\ internal \in [Internal -> InternalState]
      /\ \A x : internal' = [internal EXCEPT ![i] = x] =>
            internal'[i] = x /\ \A j \in Internal \ {i} : internal'[j] = internal[j]
  BY DEF TypeOK
<1>a. ASSUME internal[i].pc # "send", internal'[i].pc # "send", UNCHANGED rows,
             \A j \in Internal \ {i} : internal'[j] = internal[j]
      PROVE  /\ \A j \in Internal \ {i} : Draining(j, t) => Draining(j, t)'
             /\ \A k \in DOMAIN rows[t] : Scheduled(t, k) => Scheduled(t, k)'
             /\ GivenUp(t) => GivenUp(t)'
  <2>1. \A k : ~Published(i, <<t, k>>)'
    BY <1>a DEF Published
  <2> QED
    BY <1>a, <2>1, InternalKeeps, Unmoved
<1>1. ASSUME NEW s \in Task, DlqGet(i, s)
      PROVE  Carried(t)'
  <2>1. /\ internal[i].pc = "idle"
        /\ internal'[i] = [pc |-> "count", task |-> s, no |-> 0, held |-> NoRow]
        /\ \A j \in Internal \ {i} : internal'[j] = internal[j]
        /\ UNCHANGED <<producer, settled, queue, wk, rows>>
    BY <1>0, <1>1 DEF DlqGet
  <2>2. dlq[t] > 0 => dlq'[t] > 0 \/ Draining(i, t)'
    <3>1. s # t => dlq'[t] = dlq[t]
      BY <1>1 DEF DlqGet, Take, TypeOK
    <3>2. s = t => Draining(i, t)'
      BY <2>1 DEF Draining, DrainPC
    <3> QED
      BY <3>1, <3>2
  <2>3. ~Draining(i, t)
    BY <2>1 DEF Draining, DrainPC
  <2> QED
    BY <1>a, <2>1, <2>2, <2>3, Unmoved DEF Carried
<1>2. CASE CountRows(i) \/ FinalizeFetch(i) \/ FinalizeSave(i) \/ Notify(i)
  <2>1. internal[i] \in DrainState /\ internal[i].pc \notin {"ack", "send"}
    BY <1>2, Holding DEF CountRows, FinalizeFetch, FinalizeSave, Notify, DrainPC
  <2>2. /\ UNCHANGED <<producer, settled, queue, dlq, wk, rows>>
    BY <1>2 DEF CountRows, FinalizeFetch, FinalizeSave, Notify
  <2>3. /\ \A j \in Internal \ {i} : internal'[j] = internal[j]
        /\ internal'[i].pc \in DrainPC
        /\ internal'[i].task = internal[i].task
        /\ internal'[i].pc = "ack" => internal'[i].no > Budget
    <3>1. CASE CountRows(i)
      BY <1>0, <2>1, <3>1 DEF CountRows, DrainState, DrainPC
    <3>2. CASE FinalizeFetch(i)
      BY <1>0, <2>1, <3>2 DEF FinalizeFetch, DrainState, DrainPC
    <3>3. CASE FinalizeSave(i)
      BY <1>0, <2>1, <3>3 DEF FinalizeSave, DrainState, DrainPC
    <3>4. CASE Notify(i)
      BY <1>0, <2>1, <3>4 DEF Notify, DrainState, DrainPC, BudgetChecked
    <3> QED
      BY <1>2, <3>1, <3>2, <3>3, <3>4
  <2>4. Draining(i, t) => Draining(i, t)'
    BY <2>3 DEF Draining
  <2>5. internal'[i].pc # "send"
    BY <2>3 DEF DrainPC
  <2> QED
    BY <1>a, <2>1, <2>2, <2>3, <2>4, <2>5, Unmoved DEF Carried
<1>3. CASE InsertRow(i)
  <2> DEFINE s == internal[i].task
             row == [no |-> internal[i].no, state |-> "pending", due |-> FALSE]
  <2>1. internal[i] \in DrainState /\ s \in Task /\ internal[i].pc = "insert"
    BY <1>3, Holding DEF InsertRow, DrainState, DrainPC
  <2>2. /\ UNCHANGED <<producer, settled, queue, dlq, wk>>
        /\ rows' = [rows EXCEPT ![s] = Append(@, row)]
        /\ internal'[i].pc = "ack"
        /\ \A j \in Internal \ {i} : internal'[j] = internal[j]
    BY <1>0, <1>3, <2>1 DEF InsertRow, DrainState
  <2>3. \A k \in DOMAIN rows[t] : k \in DOMAIN rows'[t] /\ rows'[t][k] = rows[t][k]
    <3>1. rows[t] \in Seq(Redelivery) /\ (rows'[t] = rows[t] \/ rows'[t] = Append(rows[t], row))
      BY <2>1, <2>2 DEF TypeOK
    <3> HIDE DEF row
    <3> QED
      BY <3>1
  <2>4. \A k \in DOMAIN rows[t] : Scheduled(t, k) => k \in DOMAIN rows'[t] /\ Scheduled(t, k)'
    <3>1. \A j \in Internal, k \in DOMAIN rows[t] :
             Published(j, <<t, k>>)' => Published(j, <<t, k>>)
      BY <2>1, <2>2 DEF Published
    <3> QED
      BY <2>3, <3>1 DEF Scheduled
  <2>5. GivenUp(t) => GivenUp(t)'
    BY <2>3 DEF GivenUp
  <2>6. \A j \in Internal \ {i} : Draining(j, t) => Draining(j, t)'
    BY <2>2, InternalKeeps
  <2>7. Draining(i, t) => \E k \in DOMAIN rows'[t] : Scheduled(t, k)'
    <3> SUFFICES ASSUME s = t
                 PROVE  \E k \in DOMAIN rows'[t] : Scheduled(t, k)'
      BY DEF Draining
    <3>0. PICK n \in Nat : n = Len(rows[t]) + 1
      BY DEF TypeOK
    <3>1. /\ rows[t] \in Seq(Redelivery)
          /\ rows'[t] = Append(rows[t], row)
      BY <2>1, <2>2 DEF TypeOK
    <3>2. n \in DOMAIN rows'[t] /\ n \notin DOMAIN rows[t] /\ rows'[t][n] = row
      <4> HIDE DEF row
      <4> QED
        BY <3>0, <3>1
    <3>3. \A j \in Internal : <<t, n>> \notin LockedBy(j)
      <4>1. <<t, n>> \notin AllRows
        BY <3>2 DEF AllRows
      <4> QED
        BY <4>1 DEF LocksPending
    <3>4. ASSUME NEW j \in Internal
          PROVE  ~Published(j, <<t, n>>)'
      <4>1. CASE j = i
        BY <2>2, <4>1 DEF Published
      <4>2. CASE j # i
        <5>1. internal'[j] = internal[j]
          BY <2>2, <4>2
        <5> QED
          BY <3>3, <5>1 DEF Published, LockedBy
      <4> QED
        BY <4>1, <4>2
    <3>5. rows'[t][n].state = "pending"
      BY <3>2
    <3>6. Scheduled(t, n)'
      BY <3>4, <3>5 DEF Scheduled
    <3> QED
      BY <3>2, <3>6
  <2> QED
    BY <2>2, <2>4, <2>5, <2>6, <2>7, Unmoved DEF Carried
<1>4. CASE Ack(i)
  <2>1. /\ internal[i] \in DrainState /\ internal[i].pc = "ack"
    BY <1>4, Holding DEF Ack, DrainPC
  <2>2. /\ UNCHANGED <<producer, queue, dlq, wk, rows>>
        /\ internal'[i] = Free
        /\ \A j \in Internal \ {i} : internal'[j] = internal[j]
    BY <1>0, <1>4 DEF Ack
  <2>3. settled[t] # {} => settled'[t] # {}
    BY <1>4 DEF Ack, TypeOK
  <2>4. Draining(i, t) => settled'[t] # {}
    <3>1. Draining(i, t) => internal[i].task = t /\ ~InBudget(internal[i].no)
      BY <2>1, BudgetAssumption DEF Draining, InBudget, DrainState
    <3> QED
      BY <1>4, <3>1 DEF Ack, TypeOK
  <2>5. internal[i].pc # "send" /\ internal'[i].pc # "send"
    BY <2>1, <2>2 DEF Free
  <2> QED
    BY <1>a, <2>2, <2>3, <2>4, <2>5, Unmoved DEF Carried
<1>5. CASE DrainAborts(i)
  <2>1. internal[i] \in DrainState /\ internal[i].task \in Task /\ internal[i].pc # "send"
    BY <1>5, Holding DEF DrainAborts, DrainState, DrainPC
  <2>2. /\ UNCHANGED <<producer, settled, queue, wk, rows>>
        /\ dlq' = Put(dlq, internal[i].task)
        /\ internal'[i] = Free
        /\ \A j \in Internal \ {i} : internal'[j] = internal[j]
    BY <1>0, <1>5 DEF DrainAborts
  <2>3. (dlq[t] > 0 => dlq'[t] > 0) /\ (internal[i].task = t => dlq'[t] > 0)
    BY <2>1, <2>2, DlqGrows
  <2>4. Draining(i, t) => internal[i].task = t
    BY DEF Draining
  <2>5. internal'[i].pc # "send"
    BY <2>2 DEF Free
  <2> QED
    BY <1>a, <2>1, <2>2, <2>3, <2>4, <2>5, Unmoved DEF Carried
<1>6. CASE DrainDrops(i) \/ BrokerDrops(i)
  <2>1. internal[i].pc \in DrainPC /\ internal[i].pc # "send" /\ Discard(i)
    BY <1>6 DEF DrainDrops, BrokerDrops, DrainPC
  <2>2. /\ UNCHANGED <<producer, queue, dlq, wk, rows>>
        /\ internal'[i] = Free
        /\ \A j \in Internal \ {i} : internal'[j] = internal[j]
    BY <1>0, <2>1 DEF Discard
  <2>3. settled[t] # {} => settled'[t] # {}
    BY <2>1 DEF Discard, TypeOK
  <2>4. Draining(i, t) => settled'[t] # {}
    BY <2>1 DEF Discard, Draining, TypeOK
  <2>5. internal'[i].pc # "send"
    BY <2>2 DEF Free
  <2> QED
    BY <1>a, <2>1, <2>2, <2>3, <2>4, <2>5, Unmoved DEF Carried
<1> QED
  BY <1>1, <1>2, <1>3, <1>4, <1>5, <1>6 DEF DrainStep, DrainFails

LEMMA DispatchHandsOver ==
    ASSUME TypeOK, BudgetChecked, LocksPending, NEW t \in Task, Carried(t),
           NEW i \in Internal,
           \/ DispatchStep(i) \/ DispatchAborts(i)
           \/ \E r \in LockedBy(i) : SendFails(i, r)
    PROVE  Carried(t)'
<1>0. /\ internal \in [Internal -> InternalState]
      /\ \A x : internal' = [internal EXCEPT ![i] = x] =>
            internal'[i] = x /\ \A j \in Internal \ {i} : internal'[j] = internal[j]
  BY DEF TypeOK
<1>a. ~Draining(i, t)
  BY DEF DispatchStep, SelectDue, SendDue, CommitDue, DispatchAborts, SendFails,
         Draining, DrainPC
<1>1. CASE SelectDue(i)
  <2>1. /\ UNCHANGED <<producer, settled, queue, dlq, wk, rows>>
        /\ internal'[i] = [pc |-> "send", todo |-> Unlocked, sent |-> {}, failed |-> {}]
        /\ \A j \in Internal \ {i} : internal'[j] = internal[j]
    BY <1>0, <1>1 DEF SelectDue
  <2>2. \A k : ~Published(i, <<t, k>>)'
    BY <2>1 DEF Published
  <2> QED
    BY <1>a, <2>1, <2>2, InternalKeeps, Unmoved DEF Carried
<1>2. ASSUME NEW r \in LockedBy(i), SendDue(i, r)
      PROVE  Carried(t)'
  <2>1. internal[i] \in DispatchState /\ r \in RowKey
    BY <1>2, Holding DEF SendDue, DispatchState
  <2>2. /\ UNCHANGED <<producer, settled, dlq, wk, rows>>
        /\ queue' = Put(queue, Fresh(r[1]))
        /\ internal'[i].pc = "send"
        /\ internal'[i].sent = internal[i].sent \cup {r}
        /\ \A j \in Internal \ {i} : internal'[j] = internal[j]
    BY <1>0, <1>2, <2>1 DEF SendDue, DispatchState
  <2>3. (InQueue(t) => InQueue(t)') /\ (r[1] = t => InQueue(t)')
    BY <2>1, <2>2, MessageType, QueueGrows DEF RowKey
  <2>4. ASSUME r[1] # t
        PROVE  \A k \in DOMAIN rows[t] : Scheduled(t, k) => Scheduled(t, k)'
    <3>1. \A k : <<t, k>> # r
      BY <2>4
    <3>2. \A k : Published(i, <<t, k>>)' => Published(i, <<t, k>>)
      BY <1>2, <2>2, <3>1 DEF Published, SendDue
    <3> QED
      BY <2>2, <3>2, InternalKeeps DEF Scheduled
  <2> QED
    BY <1>a, <2>2, <2>3, <2>4, InternalKeeps, Unmoved DEF Carried
<1>3. ASSUME NEW r \in LockedBy(i), SendFails(i, r)
      PROVE  Carried(t)'
  <2>1. internal[i] \in DispatchState
    BY <1>3, Holding DEF SendFails
  <2>2. /\ UNCHANGED <<producer, settled, queue, dlq, wk, rows>>
        /\ internal' = [internal EXCEPT ![i].todo = @ \ {r}, ![i].failed = @ \cup {r}]
    BY <1>3 DEF SendFails
  <2>3. /\ internal'[i].sent = internal[i].sent
        /\ \A j \in Internal \ {i} : internal'[j] = internal[j]
    BY <1>0, <2>1, <2>2 DEF DispatchState
  <2>4. \A k : Published(i, <<t, k>>)' => Published(i, <<t, k>>)
    BY <1>3, <2>3 DEF Published, SendFails
  <2>5. \A k \in DOMAIN rows[t] : Scheduled(t, k) => Scheduled(t, k)'
    BY <2>2, <2>3, <2>4, InternalKeeps DEF Scheduled
  <2> QED
    BY <1>a, <2>2, <2>3, <2>5, InternalKeeps, Unmoved DEF Carried
<1>4. CASE CommitDue(i)
  <2>1. internal[i] \in DispatchState /\ internal[i].pc = "send" /\ internal[i].todo = {}
    BY <1>4, Holding DEF CommitDue
  <2>2. /\ UNCHANGED <<producer, settled, queue, dlq, wk>>
        /\ DOMAIN rows'[t] = DOMAIN rows[t]
        /\ \A k \in DOMAIN rows[t] : rows'[t][k] = Committed(i, <<t, k>>)
        /\ internal'[i] = Free
        /\ \A j \in Internal \ {i} : internal'[j] = internal[j]
    BY <1>0, <1>4 DEF CommitDue
  <2>3. \A k \in DOMAIN rows[t] : rows[t][k] \in Redelivery
    BY DEF TypeOK
  <2>4. GivenUp(t) => GivenUp(t)'
    <3> SUFFICES ASSUME NEW k \in DOMAIN rows[t], rows[t][k].state = "failed"
                 PROVE  rows'[t][k].state = "failed"
      BY <2>2 DEF GivenUp
    <3>1. <<t, k>> \notin internal[i].sent
      BY <2>1 DEF LocksPending, LockedBy, Row
    <3> QED
      BY <2>2, <2>3, <3>1 DEF Committed, Row, Redelivery
  <2>5. ASSUME NEW k \in DOMAIN rows[t], Scheduled(t, k)
        PROVE  GivenUp(t)' \/ Scheduled(t, k)'
    <3>1. <<t, k>> \notin internal[i].sent
      BY <2>1, <2>5 DEF Scheduled, Published
    <3>2. CASE <<t, k>> \in internal[i].failed
      <4>1. rows'[t][k].state = "failed"
        BY <2>2, <2>3, <3>1, <3>2 DEF Committed, Row, Redelivery
      <4> QED
        BY <2>2, <4>1 DEF GivenUp
    <3>3. CASE <<t, k>> \notin internal[i].failed
      <4>1. rows'[t][k] = rows[t][k]
        BY <2>2, <3>1, <3>3 DEF Committed, Row
      <4>2. \A j \in Internal : ~Published(j, <<t, k>>)'
        BY <2>2, <2>5 DEF Scheduled, Published, Free
      <4> QED
        BY <2>5, <4>1, <4>2 DEF Scheduled
    <3> QED
      BY <3>2, <3>3
  <2>6. \A j \in Internal : Draining(j, t) => Draining(j, t)'
    BY <1>a, <2>2, InternalKeeps
  <2> QED
    BY <2>2, <2>4, <2>5, <2>6, Unmoved DEF Carried
<1>5. CASE DispatchAborts(i)
  <2>1. /\ UNCHANGED <<producer, settled, queue, dlq, wk, rows>>
        /\ internal'[i] = Free
        /\ \A j \in Internal \ {i} : internal'[j] = internal[j]
    BY <1>0, <1>5 DEF DispatchAborts
  <2>2. \A k : ~Published(i, <<t, k>>)'
    BY <2>1 DEF Published, Free
  <2> QED
    BY <1>a, <2>1, <2>2, InternalKeeps, Unmoved DEF Carried
<1> QED
  BY <1>1, <1>2, <1>3, <1>4, <1>5 DEF DispatchStep

LEMMA ClockHandsOver ==
    ASSUME TypeOK, NEW t \in Task, Carried(t), Clock
    PROVE  Carried(t)'
<1>0. PICK s \in Task : \E k \in DOMAIN rows[s] : BecomesDue(s, k)
  BY DEF Clock
<1>1. PICK k \in DOMAIN rows[s] : BecomesDue(s, k)
  BY <1>0
<1>2. UNCHANGED <<producer, settled, queue, dlq, wk, internal>>
  BY <1>1 DEF BecomesDue
<1>3. \A j \in DOMAIN rows[t] :
         j \in DOMAIN rows'[t] /\ rows'[t][j].state = rows[t][j].state
  <2>1. \A j \in DOMAIN rows[t] : rows[t][j] \in Redelivery
    BY DEF TypeOK
  <2>2. \/ rows'[t] = rows[t]
        \/ rows'[t] = [rows[t] EXCEPT ![k].due = TRUE]
    BY <1>1 DEF BecomesDue, TypeOK
  <2> QED
    BY <2>1, <2>2 DEF Redelivery
<1>4. \A j \in DOMAIN rows[t] : Scheduled(t, j) => Scheduled(t, j)'
  BY <1>2, <1>3 DEF Scheduled, Published
<1>5. GivenUp(t) => GivenUp(t)'
  BY <1>3 DEF GivenUp
<1> QED
  BY <1>2, <1>3, <1>4, <1>5, Unmoved DEF Carried

LEMMA CarriedNext ==
    ASSUME TypeOK, BudgetChecked, LocksPending, [Next]_vars, NEW t \in Task,
           Carried(t)
    PROVE  Carried(t)'
<1>1. CASE UNCHANGED vars
  BY <1>1, Unmoved DEF vars, Carried
<1> QED
  BY <1>1, ProducerHandsOver, WorkerHandsOver, DrainHandsOver,
     DispatchHandsOver, ClockHandsOver DEF Next, FaultStep

-----------------------------------------------------------------------------
(* The invariant is inductive.                                              *)

\* A step changes the state of at most one internal child.
LEMMA InternalActs ==
    ASSUME TypeOK, [Next]_vars
    PROVE  \/ UNCHANGED internal
           \/ \E i \in Internal :
                 /\ \A j \in Internal \ {i} : internal'[j] = internal[j]
                 /\ \/ DrainStep(i) \/ DrainFails(i)
                    \/ DispatchStep(i) \/ DispatchAborts(i)
                    \/ \E r \in LockedBy(i) : SendFails(i, r)
<1>1. ASSUME NEW i \in Internal,
             \/ DrainStep(i) \/ DrainFails(i) \/ DispatchStep(i) \/ DispatchAborts(i)
             \/ \E r \in LockedBy(i) : SendFails(i, r)
      PROVE  \A j \in Internal \ {i} : internal'[j] = internal[j]
  BY <1>1 DEF DrainStep, DlqGet, CountRows, InsertRow, FinalizeFetch, FinalizeSave,
     Notify, Ack, DrainFails, DrainAborts, DrainDrops, BrokerDrops,
         Discard, DispatchStep, SelectDue, SendDue, CommitDue,
     DispatchAborts, SendFails, TypeOK
<1>2. (\E t \in Task : ProducerStep(t) \/ ProducerDies(t)) => UNCHANGED internal
  BY DEF ProducerStep, Send, RecordInitial, ProducerDies
<1>3. (\E w \in Worker : WorkerStep(w) \/ HookFails(w) \/ Crash(w)) => UNCHANGED internal
  BY DEF WorkerStep, Deliver, PrerunFetch, PrerunSave, BodySucceeds,
         BodyRetries, BodyFails, PostFetch, PostSave, Settle, HookFails, Crash
<1>4. Clock \/ UNCHANGED vars => UNCHANGED internal
  BY DEF Clock, BecomesDue, vars
<1> QED
  BY <1>1, <1>2, <1>3, <1>4 DEF Next, FaultStep

LEMMA BudgetNext ==
    ASSUME TypeOK, BudgetChecked, [Next]_vars
    PROVE  BudgetChecked'
<1> DEFINE Checked(s) == /\ s.pc = "insert" => s.no <= Budget
                         /\ s.pc \in {"finalize", "finalize_save", "notify"} =>
                               s.no > Budget
<1>0. \A i \in Internal : internal'[i] = internal[i] => Checked(internal'[i])
  BY DEF BudgetChecked
<1>1. ASSUME NEW i \in Internal, DrainStep(i)
      PROVE  Checked(internal'[i])
  <2>1. CASE \E t \in Task : DlqGet(i, t)
    BY <2>1 DEF DlqGet, TypeOK
  <2>2. CASE CountRows(i)
    <3> DEFINE no == Len(rows[internal[i].task]) + 1
    <3>1. internal[i] \in DrainState /\ no \in Nat
      BY <2>2, Holding DEF CountRows, DrainPC, DrainState, TypeOK
    <3>2. /\ internal'[i].no = no
          /\ internal'[i].pc = IF InBudget(no) THEN "insert" ELSE "finalize"
      BY <2>2, <3>1 DEF CountRows, TypeOK, DrainState
    <3> HIDE DEF no
    <3> QED
      BY <3>1, <3>2, BudgetAssumption DEF InBudget
  <2>3. CASE FinalizeFetch(i) \/ FinalizeSave(i)
    <3>1. internal[i] \in DrainState
      BY <2>3, Holding DEF FinalizeFetch, FinalizeSave, DrainPC
    <3>2. internal[i].no > Budget
      BY <2>3 DEF FinalizeFetch, FinalizeSave, BudgetChecked
    <3>3. internal'[i].no = internal[i].no /\ internal'[i].pc \in {"finalize_save", "notify"}
      BY <2>3, <3>1 DEF FinalizeFetch, FinalizeSave, TypeOK, DrainState
    <3> QED
      BY <3>2, <3>3
  <2>4. CASE InsertRow(i) \/ Notify(i) \/ Ack(i)
    <3>1. internal[i] \in DrainState
      BY <2>4, Holding DEF InsertRow, Notify, Ack, DrainPC
    <3> QED
      BY <2>4, <3>1 DEF InsertRow, Notify, Ack, Free, TypeOK, DrainState
  <2> QED
    BY <1>1, <2>1, <2>2, <2>3, <2>4 DEF DrainStep
<1>2. ASSUME NEW i \in Internal,
             \/ DrainFails(i) \/ DispatchStep(i) \/ DispatchAborts(i)
             \/ \E r \in LockedBy(i) : SendFails(i, r)
      PROVE  Checked(internal'[i])
  <2>1. CASE DrainFails(i) \/ DispatchAborts(i) \/ SelectDue(i) \/ CommitDue(i)
    BY <2>1 DEF DrainFails, DrainAborts, DrainDrops, BrokerDrops,
         Discard, DispatchAborts, SelectDue, CommitDue, Free, TypeOK
  <2>2. ASSUME NEW r \in LockedBy(i), SendDue(i, r) \/ SendFails(i, r)
        PROVE  Checked(internal'[i])
    <3>1. internal[i] \in DispatchState
      BY <2>2, Holding DEF SendDue, SendFails
    <3>2. internal'[i].pc = "send"
      BY <2>2, <3>1 DEF SendDue, SendFails, TypeOK, DispatchState
    <3> QED
      BY <3>2
  <2> QED
    BY <1>2, <2>1, <2>2 DEF DispatchStep
<1> HIDE DEF Checked
<1>3. \A i \in Internal : Checked(internal'[i])
  BY <1>0, <1>1, <1>2, InternalActs
<1> QED
  BY <1>3 DEF BudgetChecked, Checked

\* Locks are given up, kept, or taken by one child on rows nobody has locked.
LEMMA LocksStep ==
    ASSUME TypeOK, [Next]_vars
    PROVE  \/ \A i \in Internal : LockedBy(i)' \in SUBSET LockedBy(i)
           \/ \E i \in Internal :
                 /\ SelectDue(i)
                 /\ LockedBy(i)' = Unlocked
                 /\ \A j \in Internal \ {i} : LockedBy(j)' = LockedBy(j)
<1>1. \A j \in Internal : internal'[j] = internal[j] => LockedBy(j)' = LockedBy(j)
  BY DEF LockedBy
<1>2. ASSUME NEW i \in Internal,
             DrainStep(i) \/ DrainFails(i) \/ CommitDue(i) \/ DispatchAborts(i)
      PROVE  LockedBy(i)' = {}
  <2>1. internal'[i].pc # "send"
    <3>1. CASE \/ DrainFails(i) \/ CommitDue(i) \/ DispatchAborts(i) \/ Ack(i)
               \/ \E t \in Task : DlqGet(i, t)
      BY <3>1 DEF DrainFails, DrainAborts, DrainDrops, BrokerDrops,
         Discard, CommitDue, DispatchAborts, Ack, DlqGet, Free, TypeOK
    <3>2. CASE CountRows(i) \/ InsertRow(i) \/ FinalizeFetch(i) \/ FinalizeSave(i) \/ Notify(i)
      <4>1. internal[i] \in DrainState
        BY <3>2, Holding DEF CountRows, InsertRow, FinalizeFetch, FinalizeSave, Notify, DrainPC
      <4>2. CASE CountRows(i)
        BY <4>1, <4>2 DEF CountRows, DrainState, TypeOK
      <4>3. CASE InsertRow(i) \/ FinalizeFetch(i) \/ FinalizeSave(i) \/ Notify(i)
        BY <4>1, <4>3 DEF InsertRow, FinalizeFetch, FinalizeSave, Notify, DrainState, TypeOK
      <4> QED
        BY <3>2, <4>2, <4>3
    <3> QED
      BY <1>2, <3>1, <3>2 DEF DrainStep
  <2> QED
    BY <2>1 DEF LockedBy
<1>3. ASSUME NEW i \in Internal, NEW r \in LockedBy(i), SendDue(i, r) \/ SendFails(i, r)
      PROVE  LockedBy(i)' \in SUBSET LockedBy(i)
  <2>1. internal[i] \in DispatchState /\ internal[i].pc = "send" /\ r \in internal[i].todo
    BY <1>3, Holding DEF SendDue, SendFails
  <2>2. CASE SendDue(i, r)
    BY <2>1, <2>2 DEF SendDue, LockedBy, DispatchState, TypeOK
  <2>3. CASE SendFails(i, r)
    <3>1. internal' = [internal EXCEPT ![i].todo = @ \ {r}, ![i].failed = @ \cup {r}]
      BY <2>3 DEF SendFails
    <3> QED
      BY <2>1, <3>1 DEF LockedBy, DispatchState, TypeOK
  <2> QED
    BY <1>3, <2>2, <2>3
<1>4. ASSUME NEW i \in Internal, SelectDue(i)
      PROVE  LockedBy(i)' = Unlocked
  <2>1. internal'[i] = [pc |-> "send", todo |-> Unlocked, sent |-> {}, failed |-> {}]
    BY <1>4 DEF SelectDue, TypeOK
  <2> QED
    BY <2>1 DEF LockedBy
<1>5. CASE UNCHANGED internal
  BY <1>1, <1>5
<1>6. CASE ~UNCHANGED internal
  <2>1. PICK i \in Internal :
           /\ \A j \in Internal \ {i} : internal'[j] = internal[j]
           /\ \/ DrainStep(i) \/ DrainFails(i)
              \/ DispatchStep(i) \/ DispatchAborts(i)
              \/ \E r \in LockedBy(i) : SendFails(i, r)
    BY <1>6, InternalActs
  <2>2. \A j \in Internal \ {i} : LockedBy(j)' = LockedBy(j)
    BY <1>1, <2>1
  <2>3. \/ LockedBy(i)' \in SUBSET LockedBy(i)
        \/ SelectDue(i) /\ LockedBy(i)' = Unlocked
    BY <1>2, <1>3, <1>4, <2>1 DEF DispatchStep
  <2> QED
    BY <2>2, <2>3
<1> QED
  BY <1>5, <1>6

LEMMA RowsAct ==
    ASSUME [Next]_vars
    PROVE  \/ UNCHANGED rows
           \/ \E i \in Internal : InsertRow(i) \/ CommitDue(i)
           \/ \E s \in Task : \E n \in DOMAIN rows[s] : BecomesDue(s, n)
<1>1. (\E s \in Task : ProducerStep(s)) => UNCHANGED rows
  BY DEF ProducerStep, Send, RecordInitial
<1>2. (\E w \in Worker : WorkerStep(w)) => UNCHANGED rows
  BY DEF WorkerStep, Deliver, PrerunFetch, PrerunSave, BodySucceeds,
         BodyRetries, BodyFails, PostFetch, PostSave, Settle
<1>3. ASSUME NEW i \in Internal, DrainStep(i) \/ DispatchStep(i)
      PROVE  UNCHANGED rows \/ InsertRow(i) \/ CommitDue(i)
  BY <1>3 DEF DrainStep, DispatchStep, DlqGet, CountRows, FinalizeFetch,
              FinalizeSave, Notify, Ack, SelectDue, SendDue
<1>4. FaultStep \/ UNCHANGED vars => UNCHANGED rows
  BY DEF FaultStep, ProducerDies, HookFails, Crash, DrainFails, DrainAborts, DrainDrops, BrokerDrops,
         Discard,
         DispatchAborts, SendFails, vars
<1> QED
  BY <1>1, <1>2, <1>3, <1>4 DEF Next, Clock

\* A pending row stays until the child that has locked it commits.
LEMMA PendingStays ==
    ASSUME TypeOK, LocksApart, [Next]_vars, NEW r \in AllRows,
           Row(r).state = "pending",
           NEW j \in Internal, r \in LockedBy(j)'
    PROVE  r \in AllRows' /\ Row(r)'.state = "pending"
<1> DEFINE t == r[1]
           k == r[2]
<1>1. t \in Task /\ k \in DOMAIN rows[t] /\ r = <<t, k>> /\ Row(r) = rows[t][k]
  BY DEF AllRows, Row
<1>2. \A s \in Task : rows[s] \in Seq(Redelivery)
  BY DEF TypeOK
<1>3. SUFFICES k \in DOMAIN rows'[t] /\ rows'[t][k].state = "pending"
  BY <1>1 DEF AllRows, Row
<1>4. CASE UNCHANGED rows
  BY <1>1, <1>4
<1>5. ASSUME NEW i \in Internal, InsertRow(i)
      PROVE  k \in DOMAIN rows'[t] /\ rows'[t][k].state = "pending"
  <2> DEFINE row == [no |-> internal[i].no, state |-> "pending", due |-> FALSE]
  <2>1. rows'[t] = rows[t] \/ rows'[t] = Append(rows[t], row)
    BY <1>1, <1>5 DEF InsertRow, TypeOK
  <2> HIDE DEF row, t, k
  <2>2. k \in DOMAIN rows'[t] /\ rows'[t][k] = rows[t][k]
    BY <1>1, <1>2, <2>1
  <2> QED
    BY <1>1, <2>2
<1>6. ASSUME NEW s \in Task, NEW n \in DOMAIN rows[s], BecomesDue(s, n)
      PROVE  k \in DOMAIN rows'[t] /\ rows'[t][k].state = "pending"
  <2>1. \/ rows'[t] = rows[t]
        \/ rows'[t] = [rows[t] EXCEPT ![n].due = TRUE]
    BY <1>1, <1>6 DEF BecomesDue, TypeOK
  <2>2. rows[t][k] \in Redelivery
    BY <1>1, <1>2
  <2> HIDE DEF t, k
  <2> QED
    BY <1>1, <2>1, <2>2 DEF Redelivery
<1>7. ASSUME NEW i \in Internal, CommitDue(i)
      PROVE  k \in DOMAIN rows'[t] /\ rows'[t][k].state = "pending"
  <2>1. internal[i].pc = "send" /\ internal'[i] = Free
    BY <1>7 DEF CommitDue, TypeOK
  <2>2. j # i
    BY <2>1 DEF LockedBy, Free
  <2>3. r \in LockedBy(j)
    BY <1>7, <2>2 DEF CommitDue, LockedBy, TypeOK
  <2>4. r \notin internal[i].sent \cup internal[i].failed
    BY <2>1, <2>2, <2>3 DEF LocksApart, LockedBy
  <2>5. DOMAIN rows'[t] = DOMAIN rows[t] /\ rows'[t][k] = Committed(i, <<t, k>>)
    BY <1>1, <1>7 DEF CommitDue
  <2> QED
    BY <1>1, <2>4, <2>5 DEF Committed, Row
<1> QED
  BY <1>4, <1>5, <1>6, <1>7, RowsAct

LEMMA LocksNext ==
    ASSUME TypeOK, LocksPending, LocksApart, [Next]_vars
    PROVE  LocksPending' /\ LocksApart'
<1>1. CASE \A i \in Internal : LockedBy(i)' \in SUBSET LockedBy(i)
  <2>1. LocksApart'
    BY <1>1 DEF LocksApart
  <2>2. ASSUME NEW i \in Internal, NEW r \in LockedBy(i)'
        PROVE  r \in AllRows' /\ Row(r)'.state = "pending"
    <3>1. r \in AllRows /\ Row(r).state = "pending"
      BY <1>1 DEF LocksPending
    <3> QED
      BY <3>1, PendingStays
  <2> QED
    BY <2>1, <2>2 DEF LocksPending
<1>2. ASSUME NEW i \in Internal, SelectDue(i), LockedBy(i)' = Unlocked,
             \A j \in Internal \ {i} : LockedBy(j)' = LockedBy(j)
      PROVE  LocksPending' /\ LocksApart'
  <2>1. \A r \in Unlocked : /\ r \in AllRows /\ Row(r).state = "pending"
                            /\ \A j \in Internal : r \notin LockedBy(j)
    BY DEF Unlocked, DueRows, Locked
  <2>2. LocksApart'
    BY <1>2, <2>1 DEF LocksApart
  <2>3. UNCHANGED rows
    BY <1>2 DEF SelectDue
  <2>4. LocksPending'
    BY <1>2, <2>1, <2>3 DEF LocksPending, AllRows, Row
  <2> QED
    BY <2>2, <2>4
<1> QED
  BY <1>1, <1>2, LocksStep

LEMMA LostNext == LostInv /\ [Next]_vars => LostInv'
<1> SUFFICES ASSUME LostInv, [Next]_vars
             PROVE  LostInv'
  OBVIOUS
<1> USE DEF LostInv
<1>1. TypeOK'
  BY TypeNext
<1>2. BudgetChecked' /\ LocksPending' /\ LocksApart'
  BY BudgetNext, LocksNext
<1>3. \A t \in Task : Carried(t)'
  BY CarriedNext, AccountedCarried DEF NoTaskLost
<1>4. ASSUME NEW t \in Task
      PROVE  Accounted(t)'
  <2>1. settled'[t] \in SUBSET {"success", "dead", "dropped"}
    BY <1>1 DEF TypeOK
  <2>2. settled'[t] # {} => Finished(t)' \/ Dropped(t)'
    BY <2>1 DEF Finished, Dropped
  <2> QED
    BY <1>3, <2>2 DEF Carried, Accounted
<1> QED
  BY <1>1, <1>2, <1>4 DEF NoTaskLost

LEMMA LostInit == Init => LostInv
<1> SUFFICES ASSUME Init
             PROVE  LostInv
  OBVIOUS
<1>1. NoTaskLost
  BY DEF Init, NoTaskLost, Accounted
<1>2. \A i \in Internal : internal[i].pc = "idle"
  BY DEF Init, Free
<1>3. \A i \in Internal : LockedBy(i) = {}
  BY <1>2 DEF LockedBy
<1> QED
  BY TypeInit, <1>1, <1>2, <1>3 DEF LostInv, BudgetChecked, LocksPending, LocksApart

\* A dispatched task is at every moment in a queue, in the hands of a child
\* that will pass it on, scheduled, finished or marked failed - wherever
\* workers, drainers and dispatchers crash, and however many there are - unless
\* its dead letter was acked after a ValueError or discarded by the broker.
THEOREM NothingLost == Spec => []NoTaskLost
<1>1. Init => LostInv
  BY LostInit
<1>2. LostInv /\ [Next]_vars => LostInv'
  BY LostNext
<1>3. LostInv => NoTaskLost
  BY DEF LostInv
<1> QED
  BY <1>1, <1>2, <1>3, PTL DEF Spec

-----------------------------------------------------------------------------
(* One internal child                                                       *)

OneChild == \A i, j \in Internal : i = j

-----------------------------------------------------------------------------
(* The number a drainer has counted is still right when it is used.         *)

Fits(s) ==
    /\ s.pc = "insert" => s.no = Len(rows[s.task]) + 1
    /\ s.pc \in {"finalize", "finalize_save", "notify", "ack"} /\ s.no > Budget =>
          Len(rows[s.task]) >= Budget
NumberFits == \A i \in Internal : Fits(internal[i])

LadderInv == TypeOK /\ BudgetChecked /\ RedeliveryLadder /\ NumberFits

\* The number of rows of a task changes with an insert only.
LEMMA RowsCount ==
    ASSUME TypeOK, [Next]_vars, NEW t \in Task, \A i \in Internal : ~InsertRow(i)
    PROVE  Len(rows'[t]) = Len(rows[t])
<1>1. CASE UNCHANGED rows
  BY <1>1
<1>2. ASSUME NEW s \in Task, NEW n \in DOMAIN rows[s], BecomesDue(s, n)
      PROVE  Len(rows'[t]) = Len(rows[t])
  <2>1. \/ rows'[t] = rows[t]
        \/ rows'[t] = [rows[t] EXCEPT ![n].due = TRUE]
    BY <1>2 DEF BecomesDue, TypeOK
  <2>2. DOMAIN rows'[t] = DOMAIN rows[t]
    BY <2>1
  <2>3. rows[t] \in Seq(Redelivery) /\ rows'[t] \in Seq(Redelivery)
    BY TypeNext DEF TypeOK
  <2> QED
    BY <2>2, <2>3
<1>3. ASSUME NEW i \in Internal, CommitDue(i)
      PROVE  Len(rows'[t]) = Len(rows[t])
  <2>1. DOMAIN rows'[t] = DOMAIN rows[t]
    BY <1>3 DEF CommitDue
  <2>2. rows[t] \in Seq(Redelivery) /\ rows'[t] \in Seq(Redelivery)
    BY TypeNext DEF TypeOK
  <2> QED
    BY <2>1, <2>2
<1> QED
  BY <1>1, <1>2, <1>3, RowsAct

LEMMA LadderNext ==
    ASSUME OneChild, LadderInv, [Next]_vars
    PROVE  LadderInv'
<1> USE DEF LadderInv
<1>1. TypeOK' /\ BudgetChecked'
  BY TypeNext, BudgetNext
<1>2. RedeliveryLadder'
  <2> SUFFICES ASSUME NEW t \in Task, NEW k \in DOMAIN rows'[t]
               PROVE  rows'[t][k].no = k /\ k <= Budget
    BY DEF RedeliveryLadder
  <2>1. rows[t] \in Seq(Redelivery) /\ rows'[t] \in Seq(Redelivery)
    BY <1>1 DEF TypeOK
  <2>2. CASE /\ Len(rows'[t]) = Len(rows[t])
             /\ \A j \in DOMAIN rows[t] : rows'[t][j].no = rows[t][j].no
    BY <2>1, <2>2 DEF RedeliveryLadder
  <2>3. ASSUME NEW i \in Internal, internal[i].pc = "insert", internal[i].task = t,
               rows'[t] = Append(rows[t], [no |-> internal[i].no,
                              state |-> "pending", due |-> FALSE])
        PROVE  rows'[t][k].no = k /\ k <= Budget
    <3> DEFINE row == [no |-> internal[i].no, state |-> "pending", due |-> FALSE]
    <3>1. internal[i].no = Len(rows[t]) + 1 /\ internal[i].no <= Budget
      BY <2>3 DEF NumberFits, Fits, BudgetChecked
    <3>2. row.no = internal[i].no
      OBVIOUS
    <3> HIDE DEF row
    <3>3. CASE k = Len(rows[t]) + 1
      <4>1. rows'[t][k] = row
        BY <2>1, <2>3, <3>3 DEF row
      <4> QED
        BY <3>1, <3>2, <3>3, <4>1
    <3>4. CASE k # Len(rows[t]) + 1
      <4>1. rows'[t] = Append(rows[t], row)
        BY <2>3 DEF row
      <4>2. k \in DOMAIN rows[t] /\ rows'[t][k] = rows[t][k]
        BY <2>1, <4>1, <3>4
      <4> QED
        BY <4>2 DEF RedeliveryLadder
    <3> QED
      BY <3>3, <3>4
  <2> QED
    BY <2>2, <2>3, RowsStep
<1>3. ASSUME NEW i \in Internal, UNCHANGED internal
      PROVE  Fits(internal[i])'
  <2>1. \A j \in Internal : ~InsertRow(j)
    <3> SUFFICES ASSUME NEW j \in Internal, InsertRow(j)
                 PROVE  FALSE
      OBVIOUS
    <3>1. internal[j] \in DrainState
      BY Holding DEF InsertRow, DrainPC
    <3> QED
      BY <1>3, <3>1 DEF InsertRow, TypeOK, DrainState
  <2>2. internal[i].pc \in DrainPC => Len(rows'[internal[i].task]) = Len(rows[internal[i].task])
    BY <2>1, RowsCount, Holding DEF DrainState
  <2> QED
    BY <1>3, <2>2 DEF NumberFits, Fits, DrainPC
<1>4. ASSUME NEW i \in Internal, DrainStep(i)
      PROVE  Fits(internal[i])'
  <2>1. CASE (\E t \in Task : DlqGet(i, t)) \/ Ack(i)
    <3>1. internal'[i].pc \in {"count", "idle"}
      BY <2>1 DEF DlqGet, Ack, Free, TypeOK
    <3> QED
      BY <3>1 DEF Fits
  <2>2. CASE CountRows(i)
    <3>1. /\ internal[i] \in DrainState /\ internal[i].task \in Task
          /\ Len(rows[internal[i].task]) \in Nat
      BY <2>2, Holding DEF CountRows, DrainPC, DrainState, TypeOK
    <3>2. /\ internal'[i].no = Len(rows[internal[i].task]) + 1
          /\ internal'[i].task = internal[i].task
          /\ internal'[i].pc \in {"insert", "finalize"}
          /\ UNCHANGED rows
      BY <2>2, <3>1 DEF CountRows, TypeOK, DrainState
    <3> QED
      BY <3>1, <3>2, BudgetAssumption DEF Fits
  <2>3. CASE FinalizeFetch(i) \/ FinalizeSave(i) \/ Notify(i)
    <3>1. internal[i] \in DrainState
      BY <2>3, Holding DEF FinalizeFetch, FinalizeSave, Notify, DrainPC
    <3>2. /\ internal'[i].no = internal[i].no
          /\ internal'[i].task = internal[i].task
          /\ internal'[i].pc \in {"finalize_save", "notify", "ack"}
          /\ internal[i].pc \in {"finalize", "finalize_save", "notify"}
          /\ UNCHANGED rows
      BY <2>3, <3>1 DEF FinalizeFetch, FinalizeSave, Notify, TypeOK, DrainState
    <3> QED
      BY <3>2 DEF Fits, NumberFits
  <2>4. CASE InsertRow(i)
    <3>1. internal[i] \in DrainState /\ internal[i].no <= Budget
      BY <2>4, Holding DEF InsertRow, DrainPC, BudgetChecked
    <3>2. internal'[i].no = internal[i].no /\ internal'[i].pc = "ack"
      BY <2>4, <3>1 DEF InsertRow, TypeOK, DrainState
    <3> QED
      BY <3>1, <3>2, BudgetAssumption DEF Fits, DrainState
  <2> QED
    BY <1>4, <2>1, <2>2, <2>3, <2>4 DEF DrainStep
<1>5. ASSUME NEW i \in Internal,
             \/ DrainFails(i) \/ DispatchStep(i) \/ DispatchAborts(i)
             \/ \E r \in LockedBy(i) : SendFails(i, r)
      PROVE  Fits(internal[i])'
  <2>1. internal'[i].pc \in {"idle", "send"}
    <3>1. CASE DrainFails(i) \/ DispatchAborts(i) \/ SelectDue(i) \/ CommitDue(i)
      BY <3>1 DEF DrainFails, DrainAborts, DrainDrops, BrokerDrops,
         Discard, DispatchAborts, SelectDue, CommitDue, Free, TypeOK
    <3>2. ASSUME NEW r \in LockedBy(i), SendDue(i, r) \/ SendFails(i, r)
          PROVE  internal'[i].pc = "send"
      <4>1. internal[i] \in DispatchState
        BY <3>2, Holding DEF SendDue, SendFails
      <4> QED
        BY <3>2, <4>1 DEF SendDue, SendFails, TypeOK, DispatchState
    <3> QED
      BY <1>5, <3>1, <3>2 DEF DispatchStep
  <2> QED
    BY <2>1 DEF Fits
<1>6. NumberFits'
  BY <1>3, <1>4, <1>5, InternalActs DEF OneChild, NumberFits
<1> QED
  BY <1>1, <1>2, <1>6

LEMMA LadderInit == Init => LadderInv
<1> SUFFICES ASSUME Init
             PROVE  LadderInv
  OBVIOUS
<1>1. \A t \in Task : DOMAIN rows[t] = {}
  BY DEF Init
<1>2. \A i \in Internal : internal[i].pc = "idle"
  BY DEF Init, Free
<1> QED
  BY TypeInit, <1>1, <1>2 DEF LadderInv, BudgetChecked, RedeliveryLadder, NumberFits, Fits

\* The redeliveries of a task are numbered 1, 2, ... up to the budget at most:
\* with one internal child nobody inserts between its count and its insert.
THEOREM LadderWithoutGaps ==
    ASSUME OneChild
    PROVE  Spec => []RedeliveryLadder
<1>1. Init => LadderInv
  BY LadderInit
<1>2. LadderInv /\ [Next]_vars => LadderInv'
  BY LadderNext
<1>3. LadderInv => RedeliveryLadder
  BY DEF LadderInv
<1> QED
  BY <1>1, <1>2, <1>3, PTL DEF Spec

-----------------------------------------------------------------------------
(* Nothing is in flight that no producer has sent.                          *)

Sent(t) == producer[t] # "idle"
QueueSent == \A m \in Message : queue[m] > 0 => Sent(m.task)
DlqSent == \A t \in Task : dlq[t] > 0 => Sent(t)
RowsSent == \A t \in Task : rows[t] # <<>> => Sent(t)
WorkersSent == \A w \in Worker : wk[w].pc # "idle" => Sent(wk[w].msg.task)
DrainersSent ==
    \A i \in Internal : internal[i].pc \in DrainPC => Sent(internal[i].task)
OnlySent == QueueSent /\ DlqSent /\ RowsSent /\ WorkersSent /\ DrainersSent

LEMMA SentStays ==
    ASSUME TypeOK, [Next]_vars, NEW t \in Task, Sent(t)
    PROVE  Sent(t)'
<1>1. ASSUME NEW s \in Task, ProducerStep(s) \/ ProducerDies(s)
      PROVE  Sent(t)'
  BY <1>1 DEF ProducerStep, Send, RecordInitial, ProducerDies, Sent, TypeOK
<1>2. UNCHANGED producer => Sent(t)'
  BY DEF Sent
<1>3. ASSUME NEW w \in Worker, WorkerStep(w) \/ HookFails(w) \/ Crash(w)
      PROVE  UNCHANGED producer
  BY <1>3 DEF WorkerStep, Deliver, PrerunFetch, PrerunSave, BodySucceeds,
     BodyRetries, BodyFails, PostFetch, PostSave, Settle, HookFails, Crash
<1>4. ASSUME NEW i \in Internal, DrainStep(i) \/ DispatchStep(i)
      PROVE  UNCHANGED producer
  BY <1>4 DEF DrainStep, DlqGet, CountRows, InsertRow, FinalizeFetch, FinalizeSave,
     Notify, Ack, DispatchStep, SelectDue, SendDue, CommitDue
<1>5. ASSUME NEW i \in Internal,
             \/ DrainFails(i) \/ DispatchAborts(i)
             \/ \E r \in LockedBy(i) : SendFails(i, r)
      PROVE  UNCHANGED producer
  BY <1>5 DEF DrainFails, DrainAborts, DrainDrops, BrokerDrops,
         Discard, DispatchAborts, SendFails
<1>6. Clock \/ UNCHANGED vars => UNCHANGED producer
  BY DEF Clock, BecomesDue, vars
<1> QED
  BY <1>1, <1>2, <1>3, <1>4, <1>5, <1>6 DEF Next, FaultStep

\* The five places that producers leave to the worker's and drainer's steps.
LEMMA SentNext ==
    ASSUME TypeOK, OnlySent, LocksPending, [Next]_vars
    PROVE  OnlySent'
<1> USE DEF OnlySent
<1>0. \A t \in Task : Sent(t) => Sent(t)'
  BY SentStays
<1>s. ASSUME NEW m \in Message, Sent(m.task), queue' = Put(queue, m)
      PROVE  QueueSent'
  <2>1. \A n \in Message : n # m => queue'[n] = queue[n]
    BY <1>s DEF Put, TypeOK
  <2>2. \A n \in Message : n.task \in Task
    BY MessageType
  <2> QED
    BY <1>0, <1>s, <2>1, <2>2 DEF QueueSent
<1>d. ASSUME NEW s \in Task, Sent(s), dlq' = Put(dlq, s)
      PROVE  DlqSent'
  <2>1. \A t \in Task : t # s => dlq'[t] = dlq[t]
    BY <1>d DEF Put, TypeOK
  <2> QED
    BY <1>0, <1>d, <2>1 DEF DlqSent
<1>q. UNCHANGED queue => QueueSent'
  BY <1>0, MessageType DEF QueueSent
<1>l. UNCHANGED dlq => DlqSent'
  BY <1>0 DEF DlqSent
<1>r. UNCHANGED rows => RowsSent'
  BY <1>0 DEF RowsSent
<1>w. ASSUME \A w \in Worker : wk'[w].pc = "idle" \/ (wk[w].pc # "idle" /\ wk'[w].msg = wk[w].msg)
      PROVE  WorkersSent'
  <2>1. \A w \in Worker : wk[w].pc # "idle" => wk[w].msg.task \in Task
    BY Holding, MessageType DEF BusyWorker
  <2> QED
    BY <1>0, <1>w, <2>1 DEF WorkersSent
<1>i. ASSUME \A i \in Internal : \/ internal'[i].pc \notin DrainPC
                                 \/ /\ internal[i].pc \in DrainPC
                                    /\ internal'[i].task = internal[i].task
      PROVE  DrainersSent'
  <2>1. \A i \in Internal : internal[i].pc \in DrainPC => internal[i].task \in Task
    BY Holding DEF DrainState
  <2> QED
    BY <1>0, <1>i, <2>1 DEF DrainersSent
<1>uw. UNCHANGED wk => WorkersSent'
  BY <1>w
<1>ui. UNCHANGED internal => DrainersSent'
  BY <1>i
<1>1. ASSUME NEW t \in Task, ProducerStep(t) \/ ProducerDies(t)
      PROVE  OnlySent'
  <2>1. UNCHANGED <<dlq, rows, wk, internal>>
    BY <1>1 DEF ProducerStep, Send, RecordInitial, ProducerDies
  <2>2. QueueSent'
    <3>1. CASE Send(t)
      <4>1. Fresh(t) \in Message /\ Fresh(t).task = t /\ queue' = Put(queue, Fresh(t))
        BY <3>1, MessageType DEF Send
      <4>2. Sent(t)'
        BY <3>1 DEF Send, Sent, TypeOK
      <4>3. \A n \in Message : n # Fresh(t) => queue'[n] = queue[n]
        BY <4>1 DEF Put, TypeOK
      <4>4. \A n \in Message : n.task \in Task
        BY MessageType
      <4> QED
        BY <1>0, <4>1, <4>2, <4>3, <4>4 DEF QueueSent
    <3>2. CASE RecordInitial(t) \/ ProducerDies(t)
      BY <1>q, <3>2 DEF RecordInitial, ProducerDies
    <3> QED
      BY <1>1, <3>1, <3>2 DEF ProducerStep
  <2> QED
    BY <1>l, <1>r, <1>uw, <1>ui, <2>1, <2>2
<1>2. ASSUME NEW w \in Worker, WorkerStep(w) \/ HookFails(w) \/ Crash(w)
      PROVE  OnlySent'
  <2>1. UNCHANGED <<rows, internal>>
    BY <1>2 DEF WorkerStep, Deliver, PrerunFetch, PrerunSave, BodySucceeds,
       BodyRetries, BodyFails, PostFetch, PostSave, Settle, HookFails, Crash
  <2>2. ASSUME NEW m \in Message, Deliver(w, m)
        PROVE  QueueSent' /\ DlqSent' /\ WorkersSent'
    <3>1. QueueSent'
      <4>1. \A n \in Message : n.task \in Task /\ (queue'[n] > 0 => queue[n] > 0)
        BY <2>2, MessageType DEF Deliver, Take, TypeOK
      <4> QED
        BY <1>0, <4>1 DEF QueueSent
    <3>2. WorkersSent'
      <4>1. m.task \in Task /\ Sent(m.task)
        BY <2>2, MessageType DEF Deliver, QueueSent
      <4>2. /\ wk'[w].msg = m
            /\ \A v \in Worker \ {w} : wk'[v] = wk[v]
        BY <2>2 DEF Deliver, TypeOK
      <4>3. \A v \in Worker : wk[v].pc # "idle" => wk[v].msg.task \in Task
        BY Holding, MessageType DEF BusyWorker
      <4> QED
        BY <1>0, <4>1, <4>2, <4>3 DEF WorkersSent
    <3> QED
      BY <1>l, <2>2, <3>1, <3>2 DEF Deliver
  <2>3. ASSUME wk[w].pc # "idle"
        PROVE  wk[w] \in BusyWorker /\ wk[w].msg \in Message /\ wk[w].msg.task \in Task
               /\ Sent(wk[w].msg.task)
    BY <2>3, Holding, MessageType DEF BusyWorker, WorkersSent
  <2>4. CASE \/ PrerunFetch(w) \/ PrerunSave(w) \/ BodySucceeds(w) \/ BodyFails(w)
             \/ PostFetch(w) \/ PostSave(w) \/ HookFails(w)
    <3>1. UNCHANGED <<queue, dlq>>
      BY <2>4 DEF PrerunFetch, PrerunSave, BodySucceeds, BodyFails, PostFetch,
                  PostSave, HookFails
    <3>2. wk[w].pc # "idle" /\ wk[w] \in BusyWorker
      BY <2>3, <2>4 DEF PrerunFetch, PrerunSave, BodySucceeds, BodyFails, PostFetch,
                  PostSave, HookFails
    <3>3. wk'[w].msg = wk[w].msg /\ \A v \in Worker \ {w} : wk'[v] = wk[v]
      <4>1. CASE PrerunFetch(w)
        BY <3>2, <4>1 DEF PrerunFetch, TypeOK, BusyWorker
      <4>2. CASE PrerunSave(w) \/ PostSave(w) \/ HookFails(w)
        BY <3>2, <4>2 DEF PrerunSave, PostSave, HookFails, TypeOK, BusyWorker
      <4>3. CASE BodySucceeds(w) \/ BodyFails(w)
        BY <3>2, <4>3 DEF BodySucceeds, BodyFails, TypeOK, BusyWorker
      <4>4. CASE PostFetch(w)
        BY <3>2, <4>4 DEF PostFetch, TypeOK, BusyWorker
      <4> QED
        BY <2>4, <4>1, <4>2, <4>3, <4>4
    <3>4. WorkersSent'
      BY <1>w, <3>2, <3>3
    <3> QED
      BY <1>q, <1>l, <1>r, <1>ui, <2>1, <3>1, <3>4
  <2>5. CASE BodyRetries(w)
    <3>1. /\ Retried(wk[w].msg) \in Message
          /\ Retried(wk[w].msg).task = wk[w].msg.task
      BY <2>3, <2>5, MessageType DEF BodyRetries
    <3>2. QueueSent'
      BY <1>s, <2>3, <2>5, <3>1 DEF BodyRetries
    <3>3. WorkersSent'
      BY <1>w, <2>3, <2>5 DEF BodyRetries, TypeOK, BusyWorker
    <3> QED
      BY <1>l, <1>r, <1>ui, <2>1, <2>5, <3>2, <3>3 DEF BodyRetries
  <2>6. CASE Settle(w) \/ Crash(w)
    <3>1. wk[w].pc # "idle" /\ wk' = [wk EXCEPT ![w] = Free]
      BY <2>6 DEF Settle, Crash
    <3>2. WorkersSent'
      BY <1>w, <3>1 DEF Free, TypeOK
    <3>3. DlqSent'
      <4>1. dlq' = dlq \/ dlq' = Put(dlq, wk[w].msg.task)
        BY <2>6 DEF Settle, Crash
      <4> QED
        BY <1>d, <1>l, <2>3, <3>1, <4>1
    <3>4. QueueSent'
      <4>1. \/ queue' = queue
            \/ /\ wk[w].msg.deliveries < DeliveryLimit
               /\ queue' = Put(queue, Requeued(wk[w].msg))
        BY <2>6 DEF Settle, Crash
      <4>2. wk[w].msg.deliveries < DeliveryLimit =>
               Requeued(wk[w].msg) \in Message /\ Requeued(wk[w].msg).task = wk[w].msg.task
        BY <2>3, <3>1, MessageType
      <4> QED
        BY <1>s, <1>q, <2>3, <3>1, <4>1, <4>2
    <3> QED
      BY <1>r, <1>ui, <2>1, <3>2, <3>3, <3>4
  <2> QED
    BY <1>2, <1>r, <1>ui, <2>1, <2>2, <2>4, <2>5, <2>6 DEF WorkerStep
<1>3. ASSUME NEW i \in Internal, DrainStep(i) \/ DrainFails(i)
      PROVE  OnlySent'
  <2>1. UNCHANGED <<queue, wk>>
    BY <1>3 DEF DrainStep, DlqGet, CountRows, InsertRow, FinalizeFetch,
                FinalizeSave, Notify, Ack, DrainFails, DrainAborts, DrainDrops, BrokerDrops,
         Discard
  <2>2. ASSUME internal[i].pc \in DrainPC
        PROVE  internal[i] \in DrainState /\ internal[i].task \in Task /\ Sent(internal[i].task)
    BY <2>2, Holding DEF DrainState, DrainersSent
  <2>3. ASSUME NEW t \in Task, DlqGet(i, t)
        PROVE  OnlySent'
    <3>1. DlqSent'
      <4>1. \A s \in Task : dlq'[s] > 0 => dlq[s] > 0
        BY <2>3 DEF DlqGet, Take, TypeOK
      <4> QED
        BY <1>0, <4>1 DEF DlqSent
    <3>2. DrainersSent'
      <4>1. Sent(t)
        BY <2>3 DEF DlqGet, DlqSent
      <4>2. internal'[i].task = t /\ \A j \in Internal \ {i} : internal'[j] = internal[j]
        BY <2>3 DEF DlqGet, TypeOK
      <4>3. \A j \in Internal : internal[j].pc \in DrainPC => internal[j].task \in Task
        BY Holding DEF DrainState
      <4> QED
        BY <1>0, <4>1, <4>2, <4>3 DEF DrainersSent
    <3>3. UNCHANGED rows
      BY <2>3 DEF DlqGet
    <3> QED
      BY <1>q, <1>r, <1>uw, <2>1, <3>1, <3>2, <3>3
  <2>4. CASE \/ CountRows(i) \/ InsertRow(i) \/ FinalizeFetch(i) \/ FinalizeSave(i)
             \/ Notify(i)
    <3>1. internal[i].pc \in DrainPC /\ UNCHANGED dlq
      BY <2>4 DEF CountRows, InsertRow, FinalizeFetch, FinalizeSave, Notify, DrainPC
    <3>2. internal'[i].task = internal[i].task /\ \A j \in Internal \ {i} : internal'[j] = internal[j]
      <4>1. CASE CountRows(i)
        BY <2>2, <3>1, <4>1 DEF CountRows, TypeOK, DrainState
      <4>2. CASE FinalizeFetch(i)
        BY <2>2, <3>1, <4>2 DEF FinalizeFetch, TypeOK, DrainState
      <4>3. CASE InsertRow(i) \/ FinalizeSave(i) \/ Notify(i)
        BY <2>2, <3>1, <4>3 DEF InsertRow, FinalizeSave, Notify, TypeOK, DrainState
      <4> QED
        BY <2>4, <4>1, <4>2, <4>3
    <3>3. DrainersSent'
      BY <1>i, <3>1, <3>2
    <3>4. RowsSent'
      <4>1. CASE InsertRow(i)
        <5>1. \A t \in Task : t # internal[i].task => rows'[t] = rows[t]
          BY <4>1 DEF InsertRow, TypeOK
        <5> QED
          BY <1>0, <2>2, <3>1, <5>1 DEF RowsSent
      <4>2. CASE ~InsertRow(i)
        BY <1>r, <2>4, <4>2 DEF CountRows, FinalizeFetch, FinalizeSave, Notify
      <4> QED
        BY <4>1, <4>2
    <3> QED
      BY <1>q, <1>l, <1>uw, <2>1, <3>1, <3>3, <3>4
  <2>5. CASE Ack(i) \/ DrainFails(i)
    <3>1. /\ internal[i].pc \in DrainPC /\ UNCHANGED rows
          /\ internal' = [internal EXCEPT ![i] = Free]
      BY <2>5 DEF Ack, DrainFails, DrainAborts, DrainDrops, BrokerDrops,
         Discard, DrainPC
    <3>2. DrainersSent'
      BY <1>i, <3>1 DEF Free, TypeOK, DrainPC
    <3>3. DlqSent'
      <4>1. dlq' = dlq \/ dlq' = Put(dlq, internal[i].task)
        BY <2>5 DEF Ack, DrainFails, DrainAborts, DrainDrops, BrokerDrops,
         Discard
      <4> QED
        BY <1>d, <1>l, <2>2, <3>1, <4>1
    <3> QED
      BY <1>q, <1>r, <1>uw, <2>1, <3>1, <3>2, <3>3
  <2> QED
    BY <1>3, <2>3, <2>4, <2>5 DEF DrainStep
<1>4. ASSUME NEW i \in Internal,
             \/ DispatchStep(i) \/ DispatchAborts(i)
             \/ \E r \in LockedBy(i) : SendFails(i, r)
      PROVE  OnlySent'
  <2>1. UNCHANGED <<dlq, wk>>
    BY <1>4 DEF DispatchStep, SelectDue, SendDue, CommitDue, DispatchAborts, SendFails
  <2>2. DrainersSent'
    <3>1. \A j \in Internal \ {i} : internal'[j] = internal[j]
      BY <1>4 DEF DispatchStep, SelectDue, SendDue, CommitDue, DispatchAborts, SendFails, TypeOK
    <3>2. internal'[i].pc \in {"idle", "send"}
      <4>1. CASE DispatchAborts(i) \/ SelectDue(i) \/ CommitDue(i)
        BY <4>1 DEF DispatchAborts, SelectDue, CommitDue, Free, TypeOK
      <4>2. ASSUME NEW r \in LockedBy(i), SendDue(i, r) \/ SendFails(i, r)
            PROVE  internal'[i].pc = "send"
        <5>1. internal[i] \in DispatchState
          BY <4>2, Holding DEF SendDue, SendFails
        <5> QED
          BY <4>2, <5>1 DEF SendDue, SendFails, TypeOK, DispatchState
      <4> QED
        BY <1>4, <4>1, <4>2 DEF DispatchStep
    <3>3. internal'[i].pc \notin DrainPC
      BY <3>2 DEF DrainPC
    <3> QED
      BY <1>i, <3>1, <3>3
  <2>3. RowsSent'
    <3>1. CASE CommitDue(i)
      <4>1. \A t \in Task : DOMAIN rows'[t] = DOMAIN rows[t]
        BY <3>1 DEF CommitDue
      <4>2. \A t \in Task : rows[t] \in Seq(Redelivery) /\ rows'[t] \in Seq(Redelivery)
        BY TypeNext DEF TypeOK
      <4>3. \A t \in Task : rows'[t] # <<>> => rows[t] # <<>>
        BY <4>1, <4>2
      <4> QED
        BY <1>0, <4>3 DEF RowsSent
    <3>2. CASE ~CommitDue(i)
      BY <1>4, <1>r, <3>2 DEF DispatchStep, SelectDue, SendDue, DispatchAborts, SendFails
    <3> QED
      BY <3>1, <3>2
  <2>4. QueueSent'
    <3>1. ASSUME NEW r \in LockedBy(i), SendDue(i, r)
          PROVE  QueueSent'
      <4>1. r \in AllRows
        BY DEF LocksPending
      <4>2. r[1] \in Task /\ r[2] \in DOMAIN rows[r[1]]
        BY <4>1 DEF AllRows
      <4>3. Sent(r[1])
        BY <4>2 DEF RowsSent, TypeOK
      <4>4. Fresh(r[1]) \in Message /\ Fresh(r[1]).task = r[1]
        BY <4>2, MessageType
      <4> QED
        BY <1>s, <3>1, <4>3, <4>4 DEF SendDue
    <3>2. \/ UNCHANGED queue
          \/ \E r \in LockedBy(i) : SendDue(i, r)
      BY <1>4 DEF DispatchStep, SelectDue, CommitDue, DispatchAborts, SendFails
    <3> QED
      BY <1>q, <3>1, <3>2
  <2> QED
    BY <1>l, <1>uw, <2>1, <2>2, <2>3, <2>4
<1>5. CASE Clock
  <2>1. UNCHANGED <<queue, dlq, wk, internal>>
    BY <1>5 DEF Clock, BecomesDue
  <2>2. RowsSent'
    <3>1. PICK s \in Task : \E k \in DOMAIN rows[s] : BecomesDue(s, k)
      BY <1>5 DEF Clock
    <3>2. \A t \in Task : rows'[t] # <<>> => rows[t] # <<>>
      BY <3>1 DEF BecomesDue, TypeOK
    <3> QED
      BY <1>0, <3>2 DEF RowsSent
  <2> QED
    BY <1>q, <1>l, <1>uw, <1>ui, <2>1, <2>2
<1>6. CASE UNCHANGED vars
  BY <1>6, <1>q, <1>l, <1>r, <1>uw, <1>ui DEF vars
<1> QED
  BY <1>1, <1>2, <1>3, <1>4, <1>5, <1>6 DEF Next, FaultStep

-----------------------------------------------------------------------------
(* Every step of the runtime is a step of the promise or none.              *)

PromiseInv == LadderInv /\ LocksPending /\ LocksApart /\ OnlySent

LEMMA PromiseNext ==
    ASSUME OneChild, PromiseInv, [Next]_vars
    PROVE  PromiseInv'
BY LadderNext, LocksNext, SentNext DEF PromiseInv, LadderInv

\* A dead letter that was given up stays so, and only a commit gives one up.
LEMMA GivenUpStep ==
    ASSUME TypeOK, LocksPending, [Next]_vars, NEW t \in Task
    PROVE  /\ GivenUp(t) => GivenUp(t)'
           /\ GivenUp(t)' => \/ GivenUp(t)
                             \/ /\ rows[t] # <<>>
                                /\ \E i \in Internal : CommitDue(i)
<1>0. /\ rows[t] \in Seq(Redelivery)
      /\ \A k \in DOMAIN rows[t] : rows[t][k] \in Redelivery
  BY DEF TypeOK
<1>1. CASE UNCHANGED rows
  BY <1>1 DEF GivenUp
<1>2. ASSUME NEW i \in Internal, InsertRow(i)
      PROVE  GivenUp(t) <=> GivenUp(t)'
  <2> DEFINE row == [no |-> internal[i].no, state |-> "pending", due |-> FALSE]
  <2>1. rows'[t] = rows[t] \/ rows'[t] = Append(rows[t], row)
    BY <1>2 DEF InsertRow, TypeOK
  <2>2. row.state = "pending"
    OBVIOUS
  <2> HIDE DEF row
  <2> QED
    BY <1>0, <2>1, <2>2 DEF GivenUp
<1>3. ASSUME NEW s \in Task, NEW n \in DOMAIN rows[s], BecomesDue(s, n)
      PROVE  GivenUp(t) <=> GivenUp(t)'
  <2>1. \/ rows'[t] = rows[t]
        \/ rows'[t] = [rows[t] EXCEPT ![n].due = TRUE]
    BY <1>3 DEF BecomesDue, TypeOK
  <2>2. /\ DOMAIN rows'[t] = DOMAIN rows[t]
        /\ \A k \in DOMAIN rows[t] : rows'[t][k].state = rows[t][k].state
    <3>1. CASE rows'[t] = rows[t]
      BY <3>1
    <3>2. CASE rows'[t] = [rows[t] EXCEPT ![n].due = TRUE]
      <4>1. /\ DOMAIN rows'[t] = DOMAIN rows[t]
            /\ \A k \in DOMAIN rows[t] :
                  rows'[t][k] = IF k = n THEN [rows[t][k] EXCEPT !.due = TRUE]
                                         ELSE rows[t][k]
        BY <3>2
      <4>2. \A k \in DOMAIN rows[t] : [rows[t][k] EXCEPT !.due = TRUE].state = rows[t][k].state
        BY <1>0 DEF Redelivery
      <4> QED
        BY <4>1, <4>2
    <3> QED
      BY <2>1, <3>1, <3>2
  <2> QED
    BY <2>2 DEF GivenUp
<1>4. ASSUME NEW i \in Internal, CommitDue(i)
      PROVE  /\ GivenUp(t) => GivenUp(t)'
             /\ GivenUp(t)' => rows[t] # <<>>
  <2>1. /\ DOMAIN rows'[t] = DOMAIN rows[t]
        /\ \A k \in DOMAIN rows[t] : rows'[t][k] = Committed(i, <<t, k>>)
    BY <1>4 DEF CommitDue
  <2>2. ASSUME NEW k \in DOMAIN rows[t], rows[t][k].state = "failed"
        PROVE  rows'[t][k].state = "failed"
    <3>1. <<t, k>> \notin internal[i].sent
      BY <1>4, <2>2 DEF CommitDue, LocksPending, LockedBy, Row
    <3> QED
      BY <1>0, <2>1, <2>2, <3>1 DEF Committed, Row, Redelivery
  <2>3. rows[t] = <<>> => DOMAIN rows[t] = {}
    BY <1>0
  <2> QED
    BY <2>1, <2>2, <2>3 DEF GivenUp
<1> QED
  BY <1>1, <1>2, <1>3, <1>4, RowsAct

\* A step that keeps producers, rows' numbers and settlements is a stutter, or
\* a commit that gives tasks up.
LEMMA StutterOrGiveUp ==
    ASSUME PromiseInv, [Next]_vars, Dispatched' = Dispatched,
           Redeliveries' = Redeliveries, UNCHANGED settled
    PROVE  [Promise!Next]_Promise!pvars
<1> DEFINE S == {t \in Task : ~GivenUp(t) /\ GivenUp(t)'}
<1>0. TypeOK /\ LocksPending
  BY DEF PromiseInv, LadderInv
<1>1. \A t \in Task : GivenUp(t) => GivenUp(t)'
  BY <1>0, GivenUpStep
<1>2. Ended' = [t \in Task |-> IF t \in S THEN Ended[t] \cup {"undelivered"} ELSE Ended[t]]
  <2>1. \A t \in Task : Ended'[t] = IF t \in S THEN Ended[t] \cup {"undelivered"} ELSE Ended[t]
    BY <1>1 DEF Ended
  <2> QED
    BY <2>1 DEF Ended
<1>3. ASSUME NEW t \in S
      PROVE  t \in Dispatched /\ Redeliveries[t] > 0
  <2>1. rows[t] # <<>> /\ rows[t] \in Seq(Redelivery)
    BY <1>0, GivenUpStep DEF TypeOK
  <2>2. Len(rows[t]) > 0
    BY <2>1
  <2> QED
    BY <2>1, <2>2 DEF Redeliveries, Dispatched, PromiseInv, OnlySent, RowsSent, Sent
<1>4. S \in SUBSET Task
  OBVIOUS
<1> HIDE DEF S
<1>5. Promise!GiveUp(S)
  BY <1>2, <1>3 DEF Promise!GiveUp
<1> QED
  BY <1>4, <1>5 DEF Promise!Next

LEMMA PromiseStep ==
    ASSUME OneChild, PromiseInv, [Next]_vars
    PROVE  [Promise!Next]_Promise!pvars
<1>0. /\ TypeOK /\ LocksPending /\ NumberFits /\ RedeliveryLadder /\ BudgetChecked
      /\ OnlySent
  BY DEF PromiseInv, LadderInv
<1>g. UNCHANGED rows => \A t \in Task : GivenUp(t)' = GivenUp(t)
  BY DEF GivenUp
<1>r. UNCHANGED rows => Redeliveries' = Redeliveries
  BY DEF Redeliveries
<1>p. UNCHANGED producer => Dispatched' = Dispatched
  BY DEF Dispatched
<1>1. ASSUME NEW t \in Task, Send(t)
      PROVE  Promise!Dispatch(t)
  <2>1. t \notin Dispatched /\ Dispatched' = Dispatched \cup {t}
    BY <1>0, <1>1 DEF Send, Dispatched, TypeOK
  <2>2. UNCHANGED <<rows, settled>>
    BY <1>1 DEF Send
  <2>3. Ended' = Ended
    BY <1>g, <2>2 DEF Ended
  <2> QED
    BY <1>r, <2>1, <2>2, <2>3 DEF Promise!Dispatch
<1>2. ASSUME NEW t \in Task, RecordInitial(t) \/ ProducerDies(t)
      PROVE  Dispatched' = Dispatched /\ UNCHANGED <<rows, settled>>
  BY <1>0, <1>2 DEF RecordInitial, ProducerDies, Dispatched, TypeOK
<1>3. ASSUME NEW w \in Worker, Settle(w), ~UNCHANGED settled
      PROVE  \E t \in Task : Promise!Succeed(t)
  <2> DEFINE t == wk[w].msg.task
  <2>1. t \in Task /\ t \in Dispatched
    <3>1. wk[w] \in BusyWorker /\ wk[w].pc # "idle"
      BY <1>0, <1>3, Holding DEF Settle
    <3> QED
      BY <1>0, <3>1, MessageType DEF BusyWorker, OnlySent, WorkersSent, Sent, Dispatched
  <2>2. /\ settled' = [settled EXCEPT ![t] = @ \cup {"success"}]
        /\ UNCHANGED <<producer, rows>>
    BY <1>3 DEF Settle
  <2> HIDE DEF t
  <2>3. Ended' = [Ended EXCEPT ![t] = @ \cup {"success"}]
    <3>1. \A s \in Task : Ended'[s] = IF s = t THEN Ended[s] \cup {"success"} ELSE Ended[s]
      BY <1>0, <1>g, <2>1, <2>2 DEF Ended, TypeOK
    <3> QED
      BY <2>1, <3>1 DEF Ended
  <2> QED
    BY <1>r, <1>p, <2>1, <2>2, <2>3 DEF Promise!Succeed
<1>4. ASSUME NEW i \in Internal, Ack(i), ~UNCHANGED settled
      PROVE  \E t \in Task : Promise!Bury(t)
  <2> DEFINE t == internal[i].task
  <2>1. internal[i] \in DrainState /\ internal[i].pc = "ack" /\ t \in Task /\ t \in Dispatched
    <3>1. internal[i] \in DrainState /\ internal[i].pc = "ack" /\ internal[i].pc \in DrainPC
      BY <1>0, <1>4, Holding DEF Ack, DrainPC
    <3> QED
      BY <1>0, <3>1 DEF DrainState, OnlySent, DrainersSent, Sent, Dispatched
  <2>2. /\ ~InBudget(internal[i].no)
        /\ settled' = [settled EXCEPT ![t] = @ \cup {"dead"}]
        /\ UNCHANGED <<producer, rows>>
    BY <1>4 DEF Ack
  <2>3. Len(rows[t]) >= Budget
    <3>1. internal[i].no > Budget
      BY <2>1, <2>2, BudgetAssumption DEF InBudget, DrainState
    <3> QED
      BY <1>0, <2>1, <3>1 DEF NumberFits, Fits
  <2> HIDE DEF t
  <2>4. Redeliveries[t] = Budget
    <3>1. rows[t] \in Seq(Redelivery) /\ Len(rows[t]) \in Nat
      BY <1>0, <2>1 DEF TypeOK
    <3>2. CASE Len(rows[t]) = 0
      BY <2>1, <2>3, <3>2, BudgetAssumption DEF Redeliveries
    <3>3. CASE Len(rows[t]) # 0
      <4>1. Len(rows[t]) \in DOMAIN rows[t]
        BY <3>1, <3>3
      <4>2. Len(rows[t]) <= Budget
        BY <1>0, <2>1, <4>1 DEF RedeliveryLadder
      <4> QED
        BY <2>1, <2>3, <3>1, <4>2, BudgetAssumption DEF Redeliveries
    <3> QED
      BY <3>2, <3>3
  <2>5. Ended' = [Ended EXCEPT ![t] = @ \cup {"dead"}]
    <3>1. \A s \in Task : Ended'[s] = IF s = t THEN Ended[s] \cup {"dead"} ELSE Ended[s]
      BY <1>0, <1>g, <2>1, <2>2 DEF Ended, TypeOK
    <3> QED
      BY <2>1, <3>1 DEF Ended
  <2> QED
    BY <1>r, <1>p, <2>1, <2>2, <2>4, <2>5 DEF Promise!Bury
<1>d. ASSUME NEW i \in Internal, DrainDrops(i) \/ BrokerDrops(i)
      PROVE  \E t \in Task : Promise!Drop(t)
  <2> DEFINE t == internal[i].task
  <2>1. t \in Task /\ t \in Dispatched
    <3>1. internal[i] \in DrainState /\ internal[i].pc \in DrainPC
      BY <1>0, <1>d, Holding DEF DrainDrops, BrokerDrops, DrainPC
    <3> QED
      BY <1>0, <3>1 DEF DrainState, OnlySent, DrainersSent, Sent, Dispatched
  <2>2. /\ settled' = [settled EXCEPT ![t] = @ \cup {"dropped"}]
        /\ UNCHANGED <<producer, rows>>
    BY <1>d DEF DrainDrops, BrokerDrops, Discard
  <2> HIDE DEF t
  <2>3. Ended' = [Ended EXCEPT ![t] = @ \cup {"dropped"}]
    <3>1. \A s \in Task : Ended'[s] = IF s = t THEN Ended[s] \cup {"dropped"} ELSE Ended[s]
      BY <1>0, <1>g, <2>1, <2>2 DEF Ended, TypeOK
    <3> QED
      BY <2>1, <3>1 DEF Ended
  <2> QED
    BY <1>r, <1>p, <2>1, <2>2, <2>3 DEF Promise!Drop
<1>5. ASSUME NEW i \in Internal, InsertRow(i)
      PROVE  \E t \in Task : Promise!Redeliver(t)
  <2> DEFINE t == internal[i].task
             row == [no |-> internal[i].no, state |-> "pending", due |-> FALSE]
  <2>1. /\ internal[i] \in DrainState /\ internal[i].pc = "insert"
        /\ t \in Task /\ t \in Dispatched
    <3>1. internal[i] \in DrainState /\ internal[i].pc = "insert" /\ internal[i].pc \in DrainPC
      BY <1>0, <1>5, Holding DEF InsertRow, DrainPC
    <3> QED
      BY <1>0, <3>1 DEF DrainState, OnlySent, DrainersSent, Sent, Dispatched
  <2>2. /\ rows' = [rows EXCEPT ![t] = Append(@, row)]
        /\ UNCHANGED <<producer, settled>>
    BY <1>5 DEF InsertRow
  <2>3. internal[i].no = Len(rows[t]) + 1 /\ internal[i].no <= Budget
    BY <1>0, <2>1 DEF NumberFits, Fits, BudgetChecked
  <2> HIDE DEF t, row
  <2>4. Len(rows[t]) \in Nat /\ Redeliveries[t] < Budget
    <3>1. Len(rows[t]) \in Nat
      BY <1>0, <2>1 DEF TypeOK
    <3> QED
      BY <2>1, <2>3, <3>1, BudgetAssumption DEF Redeliveries
  <2>5. Redeliveries' = [Redeliveries EXCEPT ![t] = @ + 1]
    <3>1. \A s \in Task : rows[s] \in Seq(Redelivery)
      BY <1>0 DEF TypeOK
    <3>2. \A s \in Task : Len(rows'[s]) = IF s = t THEN Len(rows[s]) + 1 ELSE Len(rows[s])
      BY <1>0, <2>2, <3>1 DEF TypeOK
    <3> QED
      BY <2>1, <3>2 DEF Redeliveries
  <2>6. Ended' = Ended
    <3>1. ~\E j \in Internal : CommitDue(j)
      BY <1>5, <2>1 DEF CommitDue, OneChild
    <3>2. \A s \in Task : GivenUp(s)' <=> GivenUp(s)
      BY <1>0, <3>1, GivenUpStep
    <3> QED
      BY <2>2, <3>2 DEF Ended
  <2> QED
    BY <1>p, <2>1, <2>2, <2>4, <2>5, <2>6 DEF Promise!Redeliver
<1>6. CASE \E t \in Task : Send(t)
  BY <1>1, <1>6 DEF Promise!Next
<1>7. CASE \E i \in Internal : InsertRow(i)
  BY <1>5, <1>7 DEF Promise!Next
<1>8. CASE ~UNCHANGED settled
  <2>1. \/ \E w \in Worker : Settle(w)
        \/ \E i \in Internal : Ack(i) \/ DrainDrops(i) \/ BrokerDrops(i)
    <3>1. (\E t \in Task : ProducerStep(t)) => UNCHANGED settled
      BY DEF ProducerStep, Send, RecordInitial
    <3>2. ASSUME NEW w \in Worker, WorkerStep(w)
          PROVE  UNCHANGED settled \/ Settle(w)
      BY <3>2 DEF WorkerStep, Deliver, PrerunFetch, PrerunSave, BodySucceeds,
         BodyRetries, BodyFails, PostFetch, PostSave
    <3>3. ASSUME NEW i \in Internal, DrainStep(i) \/ DispatchStep(i)
          PROVE  UNCHANGED settled \/ Ack(i)
      BY <3>3 DEF DrainStep, DlqGet, CountRows, InsertRow, FinalizeFetch,
         FinalizeSave, Notify, DispatchStep, SelectDue, SendDue, CommitDue
    <3>4. Clock \/ UNCHANGED vars => UNCHANGED settled
      BY DEF Clock, BecomesDue, vars
    <3>5. ASSUME FaultStep
          PROVE  \/ UNCHANGED settled
                 \/ \E i \in Internal : DrainDrops(i) \/ BrokerDrops(i)
      BY <3>5 DEF FaultStep, ProducerDies, HookFails, Crash, DrainFails,
         DrainAborts, DispatchAborts, SendFails
    <3> QED
      BY <1>8, <3>1, <3>2, <3>3, <3>4, <3>5 DEF Next
  <2> QED
    BY <1>3, <1>4, <1>d, <1>8, <2>1 DEF Promise!Next
<1>9. CASE /\ UNCHANGED settled
           /\ ~\E t \in Task : Send(t)
           /\ ~\E i \in Internal : InsertRow(i)
  <2>1. Dispatched' = Dispatched
    <3>1. (\E w \in Worker : WorkerStep(w)) => UNCHANGED producer
      BY DEF WorkerStep, Deliver, PrerunFetch, PrerunSave, BodySucceeds,
         BodyRetries, BodyFails, PostFetch, PostSave, Settle
    <3>2. ASSUME NEW i \in Internal, DrainStep(i) \/ DispatchStep(i)
          PROVE  UNCHANGED producer
      BY <3>2 DEF DrainStep, DlqGet, CountRows, InsertRow, FinalizeFetch,
         FinalizeSave, Notify, Ack, DispatchStep, SelectDue, SendDue, CommitDue
    <3>3. FaultStep => UNCHANGED producer \/ \E t \in Task : ProducerDies(t)
      BY DEF FaultStep, HookFails, Crash, DrainFails, DrainAborts, DrainDrops, BrokerDrops,
         Discard, DispatchAborts, SendFails
    <3>4. Clock \/ UNCHANGED vars => UNCHANGED producer
      BY DEF Clock, BecomesDue, vars
    <3> QED
      BY <1>2, <1>9, <1>p, <3>1, <3>2, <3>3, <3>4 DEF Next, ProducerStep
  <2>2. Redeliveries' = Redeliveries
    <3>1. \A t \in Task : Len(rows'[t]) = Len(rows[t])
      BY <1>0, <1>9, RowsCount
    <3> QED
      BY <3>1 DEF Redeliveries
  <2> QED
    BY <1>9, <2>1, <2>2, StutterOrGiveUp
<1> QED
  BY <1>6, <1>7, <1>8, <1>9

LEMMA PromiseInit == Init => PromiseInv /\ Promise!Init
<1> SUFFICES ASSUME Init
             PROVE  PromiseInv /\ Promise!Init
  OBVIOUS
<1>1. \A i \in Internal : internal[i].pc = "idle"
  BY DEF Init, Free
<1>2. \A i \in Internal : LockedBy(i) = {}
  BY <1>1 DEF LockedBy
<1>3. LocksPending /\ LocksApart
  BY <1>2 DEF LocksPending, LocksApart
<1>4. OnlySent
  BY <1>1 DEF Init, OnlySent, QueueSent, DlqSent, RowsSent, WorkersSent,
              DrainersSent, DrainPC, Free
<1>5. Promise!Init
  <2>1. \A t \in Task : ~GivenUp(t)
    BY DEF Init, GivenUp
  <2> QED
    BY <2>1 DEF Init, Promise!Init, Dispatched, Redeliveries, Ended
<1> QED
  BY LadderInit, <1>3, <1>4, <1>5 DEF PromiseInv

\* The runtime implements DeliveryPromise: what a caller of dispatch is told
\* about redeliveries and endings is true, whatever crashes in between.
THEOREM PromiseKept ==
    ASSUME OneChild
    PROVE  Spec => KeepsPromise
<1>1. Init => PromiseInv /\ Promise!Init
  BY PromiseInit
<1>2. PromiseInv /\ [Next]_vars => PromiseInv'
  BY PromiseNext
<1>3. PromiseInv /\ [Next]_vars => [Promise!Next]_Promise!pvars
  BY PromiseStep
<1> QED
  BY <1>1, <1>2, <1>3, PTL DEF Spec, KeepsPromise, Promise!Spec
=============================================================================
