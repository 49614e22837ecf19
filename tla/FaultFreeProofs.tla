-------------------------- MODULE FaultFreeProofs ---------------------------
(***************************************************************************)
(* What holds of TaskRuntime without a fault: for every number of tasks,    *)
(* workers and internal children there is exactly one copy of a dispatched  *)
(* task until it is settled, and it is executed at most as often as its     *)
(* retries and redeliveries allow.  With one worker child, as compose.yaml  *)
(* gives the default and the low tier, the trace counts these executions;   *)
(* and, faults or not, a success is not taken back.                         *)
(*                                                                          *)
(* The invariant gives every place a copy can be at a price: how many       *)
(* executions may have been started when the copy is there.  Every step     *)
(* moves the copy to a place it can pay for.                                *)
(***************************************************************************)
EXTENDS TaskRuntimeProofs, FiniteSetTheorems

-----------------------------------------------------------------------------
(* Without a fault there is one copy of a task, and it pays for itself.     *)

\* What n deliveries of the dead letter chain may cost in executions.
Allowance(n) == (1 + MaxRetries) * n

LEMMA AllowanceStep ==
    ASSUME NEW n \in Nat
    PROVE  /\ Allowance(n) \in Nat
           /\ Allowance(n + 1) = Allowance(n) + MaxRetries + 1
<1> DEFINE P == 1 + MaxRetries
<1>1. P \in Nat
  BY RetriesAssumption
<1> HIDE DEF P
<1>2. P * n \in Nat /\ P * (n + 1) = P * n + P
  BY <1>1
<1> QED
  BY <1>1, <1>2, RetriesAssumption DEF Allowance, P

LEMMA AllowanceGrows ==
    ASSUME NEW a \in Nat, NEW b \in Nat, a <= b
    PROVE  Allowance(a) <= Allowance(b)
<1> DEFINE P == 1 + MaxRetries
<1>1. P \in Nat
  BY RetriesAssumption
<1> HIDE DEF P
<1>2. P * a <= P * b
  BY <1>1
<1> QED
  BY <1>1, <1>2, RetriesAssumption DEF Allowance, P

\* How many executions may have been started when the copy is at a place:
\* a message has used its retries up, a dead letter the whole delivery.
Cap(t, p) ==
    CASE p[1] = "queue"  -> Allowance(Len(rows[t])) + p[2].retries
      [] p[1] = "worker" -> Allowance(Len(rows[t])) + wk[p[2]].msg.retries + 1
      [] p[1] = "row"    -> Allowance(Len(rows[t]))
      [] OTHER           -> Allowance(Len(rows[t]) + 1)

Closed(t) == producer[t] = "idle" \/ settled[t] # {}

Single(t) ==
    /\ \A m \in Message : m.task = t => queue[m] <= 1
    /\ dlq[t] <= 1
    /\ \A p, q \in Places(t) : p = q
    /\ Closed(t) => Places(t) = {}

\* A drainer that is about to insert still has the right number: no other
\* child can have inserted a row of the same task.
Paid(t) ==
    /\ \A p \in Places(t) : runs[t] <= Cap(t, p)
    /\ runs[t] <= Allowance(Len(rows[t]) + 1)
    /\ Len(rows[t]) <= Budget
    /\ producer[t] = "idle" => runs[t] = 0 /\ settled[t] = {}
    /\ \A i \in Internal :
          internal[i].pc = "insert" /\ internal[i].task = t =>
              internal[i].no = Len(rows[t]) + 1

CopyInv(t) == Single(t) /\ Paid(t)

NoFailure ==
    /\ \A i \in Internal :
          internal[i].pc = "send" =>
              internal[i].failed = {} /\ internal[i].todo \cap internal[i].sent = {}
    /\ \A t \in Task : ~GivenUp(t)

FaultFreeInv ==
    faults = 0 => NoFailure /\ \A t \in Task : CopyInv(t)

-----------------------------------------------------------------------------
(* Places                                                                   *)

LEMMA PlacesAre ==
    ASSUME NEW t \in Task
    PROVE  /\ \A m \in Message :
                 m.task = t /\ queue[m] > 0 => <<"queue", m>> \in Places(t)
           /\ dlq[t] > 0 => <<"dlq", t>> \in Places(t)
           /\ \A w \in Worker : Executing(w, t) => <<"worker", w>> \in Places(t)
           /\ \A i \in Internal : Draining(i, t) => <<"internal", i>> \in Places(t)
           /\ \A k \in DOMAIN rows[t] :
                 Scheduled(t, k) => <<"row", k>> \in Places(t)
BY DEF Places

\* What a step leaves of the copies of a task, place by place.
QueueKept(t) == \A m \in Message : m.task = t => queue'[m] <= queue[m]
DlqKept(t) == dlq'[t] <= dlq[t]
WorkersKept(t) ==
    \A w \in Worker :
        Executing(w, t)' => Executing(w, t) /\ wk'[w].msg = wk[w].msg
DrainersKept(t) ==
    \A i \in Internal :
        /\ Draining(i, t)' => Draining(i, t)
        /\ internal'[i].pc = "insert" /\ internal'[i].task = t =>
              \/ internal'[i].no = Len(rows[t]) + 1
              \/ /\ internal[i].pc = "insert" /\ internal[i].task = t
                 /\ internal'[i].no = internal[i].no
RowsKept(t) ==
    /\ Len(rows'[t]) = Len(rows[t])
    /\ \A k \in DOMAIN rows'[t] :
          Scheduled(t, k)' => k \in DOMAIN rows[t] /\ Scheduled(t, k)

LEMMA KeptUnchanged ==
    ASSUME TypeOK, NEW t \in Task
    PROVE  /\ UNCHANGED queue => QueueKept(t)
           /\ UNCHANGED dlq => DlqKept(t)
           /\ UNCHANGED wk => WorkersKept(t)
           /\ UNCHANGED internal => DrainersKept(t)
           /\ UNCHANGED <<rows, internal>> => RowsKept(t)
<1>1. UNCHANGED queue => QueueKept(t)
  BY DEF QueueKept, TypeOK
<1>2. UNCHANGED dlq => DlqKept(t)
  BY DEF DlqKept, TypeOK
<1>3. UNCHANGED wk => WorkersKept(t)
  BY DEF WorkersKept, Executing
<1>4. UNCHANGED internal => DrainersKept(t)
  BY DEF DrainersKept, Draining
<1>5. UNCHANGED <<rows, internal>> => RowsKept(t)
  BY DEF RowsKept, Scheduled, Published
<1> QED
  BY <1>1, <1>2, <1>3, <1>4, <1>5

\* A step that adds nothing to the places of a task keeps its invariant.
LEMMA CopyStays ==
    ASSUME TypeOK, TypeOK', NEW t \in Task, CopyInv(t),
           QueueKept(t), DlqKept(t), WorkersKept(t), DrainersKept(t), RowsKept(t),
           runs'[t] = runs[t], 
           producer'[t] = "idle" => producer[t] = "idle" /\ settled'[t] = settled[t],
           Closed(t)' => Closed(t) \/ Places(t)' = {}
    PROVE  CopyInv(t)'
<1>1. ASSUME NEW p \in Places(t)'
      PROVE  p \in Places(t) /\ Cap(t, p)' = Cap(t, p)
  <2>1. CASE \E m \in Message : m.task = t /\ queue'[m] > 0 /\ p = <<"queue", m>>
    <3>1. PICK m \in Message : m.task = t /\ queue'[m] > 0 /\ p = <<"queue", m>>
      BY <2>1
    <3>2. queue[m] > 0
      BY <3>1 DEF QueueKept, TypeOK
    <3> QED
      BY <3>1, <3>2, PlacesAre DEF Cap, RowsKept
  <2>2. CASE p = <<"dlq", t>> /\ dlq'[t] > 0
    <3>1. dlq[t] > 0
      BY <2>2 DEF DlqKept, TypeOK
    <3> QED
      BY <2>2, <3>1, PlacesAre DEF Cap, RowsKept
  <2>3. CASE \E w \in Worker : Executing(w, t)' /\ p = <<"worker", w>>
    <3>1. PICK w \in Worker : Executing(w, t)' /\ p = <<"worker", w>>
      BY <2>3
    <3>2. Executing(w, t) /\ wk'[w].msg = wk[w].msg
      BY <3>1 DEF WorkersKept
    <3>3. p \in Places(t)
      BY <3>1, <3>2, PlacesAre
    <3> QED
      BY <3>1, <3>2, <3>3 DEF Cap, RowsKept
  <2>4. CASE \E i \in Internal : Draining(i, t)' /\ p = <<"internal", i>>
    <3>1. PICK i \in Internal : Draining(i, t)' /\ p = <<"internal", i>>
      BY <2>4
    <3>2. Draining(i, t)
      BY <3>1 DEF DrainersKept
    <3>3. p \in Places(t)
      BY <3>1, <3>2, PlacesAre
    <3> QED
      BY <3>1, <3>2, <3>3 DEF Cap, RowsKept
  <2>5. CASE \E k \in DOMAIN rows'[t] : Scheduled(t, k)' /\ p = <<"row", k>>
    <3>1. PICK k \in DOMAIN rows'[t] : Scheduled(t, k)' /\ p = <<"row", k>>
      BY <2>5
    <3>2. k \in DOMAIN rows[t] /\ Scheduled(t, k)
      BY <3>1 DEF RowsKept
    <3>3. p \in Places(t)
      BY <3>1, <3>2, PlacesAre
    <3> QED
      BY <3>1, <3>2, <3>3 DEF Cap, RowsKept
  <2> QED
    BY <2>1, <2>2, <2>3, <2>4, <2>5 DEF Places
<1>2. Single(t)'
  <2>1. \A m \in Message : m.task = t => queue'[m] <= 1
    BY DEF CopyInv, Single, QueueKept, TypeOK
  <2>2. dlq'[t] <= 1
    BY DEF CopyInv, Single, DlqKept, TypeOK
  <2>3. Closed(t)' => Places(t)' = {}
    <3>1. Closed(t) => Places(t) = {}
      BY DEF CopyInv, Single
    <3> QED
      BY <1>1, <3>1
  <2> QED
    BY <1>1, <2>1, <2>2, <2>3 DEF CopyInv, Single
<1>3. Paid(t)'
  BY <1>1 DEF CopyInv, Paid, DrainersKept, RowsKept
<1> QED
  BY <1>2, <1>3 DEF CopyInv

\* A step that leaves one place only, within its cap, establishes it.
LEMMA CopyMoves ==
    ASSUME TypeOK, TypeOK', NEW t \in Task, NEW q,
           \A m \in Message : m.task = t /\ queue'[m] > 0 =>
               q = <<"queue", m>> /\ queue'[m] <= 1,
           dlq'[t] > 0 => q = <<"dlq", t>> /\ dlq'[t] <= 1,
           \A w \in Worker : Executing(w, t)' => q = <<"worker", w>>,
           \A i \in Internal : Draining(i, t)' => q = <<"internal", i>>,
           \A k \in DOMAIN rows'[t] : Scheduled(t, k)' => q = <<"row", k>>,
           ~Closed(t)', runs'[t] <= Cap(t, q)',
           runs'[t] <= Allowance(Len(rows'[t]) + 1), Len(rows'[t]) <= Budget,
           \A i \in Internal : internal'[i].pc = "insert" /\ internal'[i].task = t =>
               internal'[i].no = Len(rows'[t]) + 1
    PROVE  CopyInv(t)'
<1>1. \A p \in Places(t)' : p = q
  BY DEF Places
<1>2. Single(t)'
  <2>1. \A m \in Message : m.task = t => queue'[m] <= 1
    BY DEF TypeOK
  <2>2. dlq'[t] <= 1
    BY DEF TypeOK
  <2> QED
    BY <1>1, <2>1, <2>2 DEF Single
<1>3. Paid(t)'
  BY <1>1 DEF Paid, Closed
<1> QED
  BY <1>2, <1>3 DEF CopyInv

\* Where the copy is, nothing else is.
Alone(t, p) ==
    /\ \A m \in Message : m.task = t /\ queue[m] > 0 => p = <<"queue", m>>
    /\ dlq[t] > 0 => p = <<"dlq", t>>
    /\ \A w \in Worker : Executing(w, t) => p = <<"worker", w>>
    /\ \A i \in Internal : Draining(i, t) => p = <<"internal", i>>
    /\ \A k \in DOMAIN rows[t] : Scheduled(t, k) => p = <<"row", k>>
    /\ ~Closed(t)
    /\ runs[t] <= Cap(t, p)

LEMMA CopyAlone ==
    ASSUME NEW t \in Task, CopyInv(t), NEW p \in Places(t)
    PROVE  Alone(t, p)
<1>1. \A q \in Places(t) : p = q
  BY DEF CopyInv, Single
<1>2. ~Closed(t)
  BY DEF CopyInv, Single
<1>3. runs[t] <= Cap(t, p)
  BY DEF CopyInv, Paid
<1> QED
  BY <1>1, <1>2, <1>3, PlacesAre DEF Alone

-----------------------------------------------------------------------------
(* Every fault-free step keeps the copy single and paid for.                *)

LEMMA SendCopies ==
    ASSUME TypeOK, TypeOK', NEW s \in Task, Send(s), NEW t \in Task, CopyInv(t)
    PROVE  CopyInv(t)'
<1>0. /\ UNCHANGED <<rows, dlq, wk, internal, settled, runs>>
      /\ producer[s] = "idle" /\ producer' = [producer EXCEPT ![s] = "sent"]
      /\ queue' = Put(queue, Fresh(s)) /\ queue \in [Message -> Nat]
      /\ Fresh(s) \in Message /\ Fresh(s).task = s
  BY MessageType DEF Send, TypeOK
<1>1. CASE s # t
  <2>1. QueueKept(t)
    BY <1>0, <1>1 DEF QueueKept, Put
  <2>2. producer'[t] = producer[t]
    BY <1>0, <1>1 DEF TypeOK
  <2>3. Closed(t)' => Closed(t)
    BY <1>0, <2>2 DEF Closed
  <2> QED
    BY <1>0, <2>1, <2>2, <2>3, KeptUnchanged, CopyStays
<1>2. CASE s = t
  <2> DEFINE q == <<"queue", Fresh(t)>>
  <2>1. Places(t) = {} /\ runs[t] = 0 /\ settled[t] = {} /\ Len(rows[t]) <= Budget
    BY <1>0, <1>2 DEF CopyInv, Single, Paid, Closed
  <2>2. /\ \A m \in Message : m.task = t => ~(queue[m] > 0)
        /\ ~(dlq[t] > 0)
        /\ \A w \in Worker : ~Executing(w, t)
        /\ \A i \in Internal : ~Draining(i, t)
        /\ \A k \in DOMAIN rows[t] : ~Scheduled(t, k)
    BY <2>1, PlacesAre
  <2>3. /\ ~(dlq'[t] > 0)
        /\ \A w \in Worker : ~Executing(w, t)'
        /\ \A i \in Internal : ~Draining(i, t)'
        /\ \A k \in DOMAIN rows'[t] : ~Scheduled(t, k)'
    BY <1>0, <2>2 DEF Executing, Draining, Scheduled, Published
  <2>4. \A m \in Message : m.task = t /\ queue'[m] > 0 =>
            m = Fresh(t) /\ queue'[m] <= 1
    BY <1>0, <1>2, <2>2 DEF Put
  <2>5. ~Closed(t)'
    BY <1>0, <1>2, <2>1 DEF Closed, TypeOK
  <2>6. Len(rows[t]) \in Nat
    BY DEF TypeOK
  <2>7. runs'[t] <= Cap(t, q)' /\ runs'[t] <= Allowance(Len(rows'[t]) + 1)
    <3>0. Len(rows[t]) + 1 \in Nat
      BY <2>6
    <3>1. Allowance(Len(rows[t])) \in Nat /\ Allowance(Len(rows[t]) + 1) \in Nat
      BY <2>6, <3>0, AllowanceStep
    <3>2. Cap(t, q)' = Allowance(Len(rows[t])) + 0
      BY <1>0 DEF Cap, Fresh
    <3> QED
      BY <1>0, <2>1, <3>1, <3>2
  <2>8. \A i \in Internal : internal'[i].pc = "insert" /\ internal'[i].task = t =>
               internal'[i].no = Len(rows'[t]) + 1
    BY <1>0 DEF CopyInv, Paid
  <2> HIDE DEF q
  <2> QED
    BY <1>0, <2>1, <2>3, <2>4, <2>5, <2>7, <2>8, CopyMoves DEF q
<1> QED
  BY <1>1, <1>2

LEMMA RecordInitialCopies ==
    ASSUME TypeOK, TypeOK', NEW s \in Task, RecordInitial(s), NEW t \in Task, CopyInv(t)
    PROVE  CopyInv(t)'
<1>1. /\ UNCHANGED <<queue, rows, dlq, wk, internal, settled, runs>>
      /\ producer'[t] = "idle" <=> producer[t] = "idle"
  BY DEF RecordInitial, TypeOK
<1>2. Closed(t)' => Closed(t)
  BY <1>1 DEF Closed
<1> QED
  BY <1>1, <1>2, KeptUnchanged, CopyStays

LEMMA DeliverCopies ==
    ASSUME TypeOK, TypeOK', NEW w \in Worker, NEW m \in Message, Deliver(w, m),
           NEW t \in Task, CopyInv(t)
    PROVE  CopyInv(t)'
<1>0. /\ UNCHANGED <<rows, dlq, producer, internal, settled>>
      /\ queue[m] > 0 /\ queue' = Take(queue, m) /\ queue \in [Message -> Nat]
      /\ runs' = [runs EXCEPT ![m.task] = @ + 1] /\ runs \in [Task -> Nat]
      /\ m.task \in Task
      /\ wk[w].pc = "idle"
      /\ wk'[w] = [pc |-> "prerun", msg |-> m, held |-> NoRow, outcome |-> "none"]
      /\ \A v \in Worker \ {w} : wk'[v] = wk[v]
  BY MessageType DEF Deliver, TypeOK
<1>00. Closed(t)' = Closed(t)
  BY <1>0 DEF Closed
<1>1. CASE m.task # t
  <2>1. QueueKept(t)
    BY <1>0, <1>1 DEF QueueKept, Take
  <2>2. WorkersKept(t)
    BY <1>0, <1>1 DEF WorkersKept, Executing
  <2>3. runs'[t] = runs[t]
    BY <1>0, <1>1
  <2> QED
    BY <1>0, <1>00, <2>1, <2>2, <2>3, KeptUnchanged, CopyStays
<1>2. CASE m.task = t
  <2> DEFINE p == <<"queue", m>>
             q == <<"worker", w>>
  <2>1. p \in Places(t)
    BY <1>0, <1>2, PlacesAre
  <2>2. Alone(t, p)
    BY <2>1, CopyAlone
  <2>3. /\ ~(dlq'[t] > 0)
        /\ \A i \in Internal : ~Draining(i, t)'
        /\ \A k \in DOMAIN rows'[t] : ~Scheduled(t, k)'
    BY <1>0, <2>2 DEF Alone, Draining, Scheduled, Published
  <2>4. \A n \in Message : n.task = t => ~(queue'[n] > 0)
    <3>1. \A n \in Message : n.task = t /\ queue[n] > 0 => n = m
      BY <2>2 DEF Alone
    <3>2. queue[m] <= 1
      BY <1>2 DEF CopyInv, Single
    <3>3. /\ \A n \in Message : n # m => queue'[n] = queue[n]
          /\ queue'[m] = queue[m] - 1
      BY <1>0 DEF Take
    <3> QED
      BY <1>0, <3>1, <3>2, <3>3
  <2>5. \A v \in Worker : Executing(v, t)' => v = w
    <3>1. \A v \in Worker : ~Executing(v, t)
      BY <2>2 DEF Alone
    <3> QED
      BY <1>0, <3>1 DEF Executing
  <2>6. runs'[t] <= Cap(t, q)' /\ runs'[t] <= Allowance(Len(rows'[t]) + 1)
    <3>1. Len(rows[t]) \in Nat /\ m.retries \in 0 .. MaxRetries
      BY DEF TypeOK, Message
    <3>2. /\ Allowance(Len(rows[t])) \in Nat
          /\ Allowance(Len(rows[t]) + 1) = Allowance(Len(rows[t])) + MaxRetries + 1
      BY <3>1, AllowanceStep
    <3>3. runs[t] <= Allowance(Len(rows[t])) + m.retries
      BY <2>2 DEF Alone, Cap
    <3>4. Cap(t, q)' = Allowance(Len(rows[t])) + m.retries + 1
      BY <1>0 DEF Cap
    <3>5. runs'[t] = runs[t] + 1 /\ runs[t] \in Nat
      BY <1>0, <1>2
    <3> QED
      BY <1>0, <3>1, <3>2, <3>3, <3>4, <3>5, RetriesAssumption
  <2>7. Len(rows'[t]) <= Budget
    BY <1>0 DEF CopyInv, Paid
  <2>8. \A i \in Internal : internal'[i].pc = "insert" /\ internal'[i].task = t =>
               internal'[i].no = Len(rows'[t]) + 1
    BY <1>0 DEF CopyInv, Paid
  <2>9. ~Closed(t)'
    BY <1>00, <2>2 DEF Alone
  <2> HIDE DEF p, q
  <2> QED
    BY <2>3, <2>4, <2>5, <2>6, <2>7, <2>8, <2>9, CopyMoves DEF q
<1> QED
  BY <1>1, <1>2

\* The hooks and the outcome of the body move a worker along.
LEMMA HookCopies ==
    ASSUME TypeOK, TypeOK', NEW w \in Worker,
           \/ PrerunFetch(w) \/ PrerunSave(w) \/ BodySucceeds(w) \/ BodyFails(w)
           \/ PostFetch(w) \/ PostSave(w),
           NEW t \in Task, CopyInv(t)
    PROVE  CopyInv(t)'
<1>1. UNCHANGED <<producer, settled, queue, dlq, internal, rows, runs>>
  BY DEF PrerunFetch, PrerunSave, BodySucceeds, BodyFails, PostFetch, PostSave
<1>2. wk[w].pc # "idle" /\ wk[w] \in BusyWorker
  BY Holding DEF PrerunFetch, PrerunSave, BodySucceeds, BodyFails, PostFetch, PostSave
<1>3. /\ \A v \in Worker \ {w} : wk'[v] = wk[v]
      /\ wk'[w].msg = wk[w].msg
      /\ wk[w].outcome = "retrying" => wk'[w].outcome = "retrying"
  <2>1. CASE PrerunFetch(w)
    BY <1>2, <2>1 DEF PrerunFetch, TypeOK, BusyWorker
  <2>2. CASE PrerunSave(w) \/ PostSave(w)
    BY <1>2, <2>2 DEF PrerunSave, PostSave, TypeOK, BusyWorker
  <2>3. CASE BodySucceeds(w) \/ BodyFails(w)
    <3>1. wk[w].outcome = "none"
      BY <1>2, <2>3 DEF BodySucceeds, BodyFails, BusyWorker, LatePC
    <3> QED
      BY <1>2, <2>3, <3>1 DEF BodySucceeds, BodyFails, TypeOK, BusyWorker
  <2>4. CASE PostFetch(w)
    BY <1>2, <2>4 DEF PostFetch, TypeOK, BusyWorker
  <2> QED
    BY <2>1, <2>2, <2>3, <2>4
<1>4. WorkersKept(t)
  BY <1>2, <1>3 DEF WorkersKept, Executing
<1>5. Closed(t)' => Closed(t)
  BY <1>1 DEF Closed
<1> QED
  BY <1>1, <1>4, <1>5, KeptUnchanged, CopyStays

LEMMA RetryCopies ==
    ASSUME TypeOK, TypeOK', NEW w \in Worker, BodyRetries(w), NEW t \in Task, CopyInv(t)
    PROVE  CopyInv(t)'
<1>a. wk[w] \in BusyWorker /\ wk[w].msg \in Message /\ wk[w].outcome = "none"
  BY Holding DEF BodyRetries, BusyWorker, LatePC
<1>b. PICK m \in Message : m = wk[w].msg
  BY <1>a
<1>0. wk[w] \in BusyWorker /\ m = wk[w].msg /\ wk[w].outcome = "none"
  BY <1>a, <1>b
<1>1. Retried(m) \in Message /\ Retried(m).task = m.task /\ m.task \in Task
  BY <1>0, MessageType DEF BodyRetries
<1>2. /\ UNCHANGED <<rows, dlq, producer, internal, settled, runs>>
      /\ queue' = Put(queue, Retried(m)) /\ queue \in [Message -> Nat]
      /\ wk[w].pc = "body" /\ m.retries < MaxRetries
      /\ wk'[w].outcome = "retrying"
      /\ \A v \in Worker \ {w} : wk'[v] = wk[v]
  BY <1>0 DEF BodyRetries, TypeOK, BusyWorker
<1>3. Closed(t)' = Closed(t)
  BY <1>2 DEF Closed
<1>4. \A v \in Worker : Executing(v, t)' => v # w /\ Executing(v, t) /\ wk'[v] = wk[v]
  BY <1>2 DEF Executing
<1>5. CASE m.task # t
  <2>1. QueueKept(t)
    BY <1>1, <1>2, <1>5 DEF QueueKept, Put
  <2>2. WorkersKept(t)
    BY <1>4 DEF WorkersKept
  <2> QED
    BY <1>2, <1>3, <2>1, <2>2, KeptUnchanged, CopyStays
<1>6. CASE m.task = t
  <2> DEFINE p == <<"worker", w>>
             q == <<"queue", Retried(m)>>
  <2>1. p \in Places(t)
    BY <1>0, <1>2, <1>6, PlacesAre DEF Executing
  <2>2. Alone(t, p)
    BY <2>1, CopyAlone
  <2>3. /\ ~(dlq'[t] > 0)
        /\ \A i \in Internal : ~Draining(i, t)'
        /\ \A k \in DOMAIN rows'[t] : ~Scheduled(t, k)'
    BY <1>2, <2>2 DEF Alone, Draining, Scheduled, Published
  <2>4. \A n \in Message : n.task = t /\ queue'[n] > 0 => n = Retried(m) /\ queue'[n] <= 1
    <3>1. \A n \in Message : n.task = t => ~(queue[n] > 0)
      BY <2>2 DEF Alone
    <3>2. /\ \A n \in Message : n # Retried(m) => queue'[n] = queue[n]
          /\ queue'[Retried(m)] = queue[Retried(m)] + 1
      BY <1>1, <1>2 DEF Put
    <3> QED
      BY <1>1, <1>2, <1>6, <3>1, <3>2
  <2>5. \A v \in Worker : ~Executing(v, t)'
    BY <1>4, <2>2 DEF Alone
  <2>6. runs'[t] <= Cap(t, q)'
    <3>1. runs[t] <= Allowance(Len(rows[t])) + m.retries + 1
      BY <1>0, <2>2 DEF Alone, Cap
    <3>2. Cap(t, q)' = Allowance(Len(rows[t])) + (m.retries + 1)
      BY <1>2 DEF Cap, Retried
    <3>3. m.retries \in Nat
      BY <1>b, RetriesAssumption DEF Message
    <3>4. Allowance(Len(rows[t])) \in Nat
      BY AllowanceStep DEF TypeOK
    <3> QED
      BY <1>2, <3>1, <3>2, <3>3, <3>4
  <2>7. runs'[t] <= Allowance(Len(rows'[t]) + 1) /\ Len(rows'[t]) <= Budget
    BY <1>2 DEF CopyInv, Paid
  <2>8. \A i \in Internal : internal'[i].pc = "insert" /\ internal'[i].task = t =>
               internal'[i].no = Len(rows'[t]) + 1
    BY <1>2 DEF CopyInv, Paid
  <2>9. ~Closed(t)'
    BY <1>3, <2>2 DEF Alone
  <2> HIDE DEF p, q
  <2> QED
    BY <2>3, <2>4, <2>5, <2>6, <2>7, <2>8, <2>9, CopyMoves DEF q
<1> QED
  BY <1>5, <1>6

LEMMA SettleCopies ==
    ASSUME TypeOK, TypeOK', NEW w \in Worker, Settle(w), NEW t \in Task, CopyInv(t)
    PROVE  CopyInv(t)'
<1> DEFINE s == wk[w].msg.task
           o == wk[w].outcome
<1>0. wk[w] \in BusyWorker /\ wk[w].pc = "settle" /\ s \in Task /\ o \in Outcome
  BY Holding, MessageType DEF Settle, BusyWorker, EarlyPC, LatePC
<1>1. /\ UNCHANGED <<rows, queue, producer, internal, runs>>
      /\ dlq' = IF o = "failed" THEN Put(dlq, s) ELSE dlq
      /\ settled' = IF o = "success" THEN [settled EXCEPT ![s] = @ \cup {"success"}]
                    ELSE settled
      /\ wk'[w].pc = "idle"
      /\ \A v \in Worker \ {w} : wk'[v] = wk[v]
      /\ dlq \in [Task -> Nat]
  BY DEF Settle, TypeOK, Free
<1>2. \A v \in Worker : Executing(v, t)' => v # w /\ Executing(v, t) /\ wk'[v] = wk[v]
  BY <1>1 DEF Executing
<1>3. WorkersKept(t)
  BY <1>2 DEF WorkersKept
<1>4. CASE s # t \/ o = "retrying"
  <2>1. settled'[t] = settled[t] /\ dlq'[t] = dlq[t]
    BY <1>0, <1>1, <1>4 DEF Put, TypeOK
  <2>2. (Closed(t)' => Closed(t)) /\ DlqKept(t)
    BY <1>1, <2>1 DEF Closed, DlqKept
  <2> HIDE DEF s, o
  <2> QED
    BY <1>1, <1>3, <2>1, <2>2, KeptUnchanged, CopyStays
<1>5. CASE s = t /\ o # "retrying"
  <2> DEFINE p == <<"worker", w>>
  <2>1. p \in Places(t)
    BY <1>0, <1>5, PlacesAre DEF Executing
  <2>2. Alone(t, p)
    BY <2>1, CopyAlone
  <2>3. /\ \A i \in Internal : ~Draining(i, t)'
        /\ \A k \in DOMAIN rows'[t] : ~Scheduled(t, k)'
        /\ \A n \in Message : n.task = t => ~(queue'[n] > 0)
        /\ ~(dlq[t] > 0)
    BY <1>1, <2>2 DEF Alone, Draining, Scheduled, Published
  <2>4. \A v \in Worker : ~Executing(v, t)'
    BY <1>2, <2>2 DEF Alone
  <2>5. CASE o = "success"
    <3>1. dlq' = dlq
      BY <1>1, <2>5
    <3>2. Places(t)' = {}
      BY <2>3, <2>4, <3>1 DEF Places
    <3>3. producer'[t] # "idle"
      BY <1>1, <2>2 DEF Alone, Closed
    <3> HIDE DEF s, o
    <3> QED
      BY <1>1, <1>3, <3>1, <3>2, <3>3, KeptUnchanged, CopyStays
  <2>6. CASE o = "failed"
    <3> DEFINE q == <<"dlq", t>>
    <3>1. dlq'[t] = 1
      BY <1>1, <1>5, <2>3, <2>6 DEF Put
    <3>2. runs'[t] <= Cap(t, q)' /\ runs'[t] <= Allowance(Len(rows'[t]) + 1)
      <4>1. runs[t] <= Allowance(Len(rows[t]) + 1)
        BY DEF CopyInv, Paid
      <4>2. Cap(t, q)' = Allowance(Len(rows[t]) + 1)
        BY <1>1 DEF Cap
      <4> QED
        BY <1>1, <4>1, <4>2
    <3>3. Len(rows'[t]) <= Budget
      BY <1>1 DEF CopyInv, Paid
    <3>4. \A i \in Internal : internal'[i].pc = "insert" /\ internal'[i].task = t =>
                 internal'[i].no = Len(rows'[t]) + 1
      BY <1>1 DEF CopyInv, Paid
    <3>5. ~Closed(t)'
      BY <1>1, <2>2, <2>6 DEF Alone, Closed
    <3> HIDE DEF s, o, q
    <3> QED
      BY <2>3, <2>4, <3>1, <3>2, <3>3, <3>4, <3>5, CopyMoves DEF q
  <2> QED
    BY <1>0, <1>5, <2>5, <2>6 DEF Outcome
<1> QED
  BY <1>4, <1>5

LEMMA DlqGetCopies ==
    ASSUME TypeOK, TypeOK', NEW i \in Internal, NEW s \in Task, DlqGet(i, s),
           NEW t \in Task, CopyInv(t)
    PROVE  CopyInv(t)'
<1>0. /\ UNCHANGED <<rows, queue, producer, wk, settled, runs>>
      /\ internal[i].pc = "idle"
      /\ dlq[s] > 0 /\ dlq' = Take(dlq, s) /\ dlq \in [Task -> Nat]
      /\ internal'[i] = [pc |-> "count", task |-> s, no |-> 0, held |-> NoRow]
      /\ \A j \in Internal \ {i} : internal'[j] = internal[j]
  BY DEF DlqGet, TypeOK
<1>1. Closed(t)' = Closed(t)
  BY <1>0 DEF Closed
<1>2. \A j \in Internal \ {i} : Draining(j, t)' => Draining(j, t)
  BY <1>0 DEF Draining
<1>3. RowsKept(t)
  BY <1>0 DEF RowsKept, Scheduled, Published
<1>4. CASE s # t
  <2>1. DlqKept(t)
    BY <1>0, <1>4 DEF DlqKept, Take
  <2>2. DrainersKept(t)
    BY <1>0, <1>2, <1>4 DEF DrainersKept, Draining
  <2> QED
    BY <1>0, <1>1, <1>3, <2>1, <2>2, KeptUnchanged, CopyStays
<1>5. CASE s = t
  <2> DEFINE p == <<"dlq", t>>
             q == <<"internal", i>>
  <2>1. p \in Places(t)
    BY <1>0, <1>5, PlacesAre
  <2>2. Alone(t, p)
    BY <2>1, CopyAlone
  <2>3. /\ \A n \in Message : n.task = t => ~(queue'[n] > 0)
        /\ \A w \in Worker : ~Executing(w, t)'
    BY <1>0, <2>2 DEF Alone, Executing
  <2>4. \A k \in DOMAIN rows'[t] : ~Scheduled(t, k)'
    BY <1>3, <2>2 DEF Alone, RowsKept
  <2>5. ~(dlq'[t] > 0)
    <3>1. dlq[t] <= 1
      BY DEF CopyInv, Single
    <3> QED
      BY <1>0, <1>5, <3>1 DEF Take
  <2>6. \A j \in Internal : Draining(j, t)' => j = i
    BY <1>2, <2>2 DEF Alone
  <2>7. /\ runs'[t] <= Cap(t, q)' /\ runs'[t] <= Allowance(Len(rows'[t]) + 1)
        /\ Len(rows'[t]) <= Budget
    BY <1>0 DEF CopyInv, Paid, Cap
  <2>8. \A j \in Internal : internal'[j].pc = "insert" /\ internal'[j].task = t =>
               internal'[j].no = Len(rows'[t]) + 1
    BY <1>0 DEF CopyInv, Paid
  <2>9. ~Closed(t)'
    BY <1>1, <2>2 DEF Alone
  <2> HIDE DEF p, q
  <2> QED
    BY <2>3, <2>4, <2>5, <2>6, <2>7, <2>8, <2>9, CopyMoves DEF q
<1> QED
  BY <1>4, <1>5

\* A drainer that counts, finalizes and notifies keeps its dead letter.
LEMMA DrainCopies ==
    ASSUME TypeOK, TypeOK', NEW i \in Internal,
           CountRows(i) \/ FinalizeFetch(i) \/ FinalizeSave(i) \/ Notify(i),
           NEW t \in Task, CopyInv(t)
    PROVE  CopyInv(t)'
<1>0. internal[i] \in DrainState /\ internal[i].pc \notin {"ack", "send", "insert"}
  BY Holding DEF CountRows, FinalizeFetch, FinalizeSave, Notify, DrainPC
<1>1. UNCHANGED <<producer, settled, queue, dlq, wk, rows, runs>>
  BY DEF CountRows, FinalizeFetch, FinalizeSave, Notify
<1>2. /\ \A j \in Internal \ {i} : internal'[j] = internal[j]
      /\ internal'[i].pc \in DrainPC
      /\ internal'[i].task = internal[i].task
      /\ internal'[i].pc = "insert" => internal'[i].no = Len(rows[internal[i].task]) + 1
  <2>1. CASE CountRows(i)
    BY <1>0, <2>1 DEF CountRows, DrainState, DrainPC, TypeOK
  <2>2. CASE FinalizeFetch(i)
    BY <1>0, <2>2 DEF FinalizeFetch, DrainState, DrainPC, TypeOK
  <2>3. CASE FinalizeSave(i) \/ Notify(i)
    BY <1>0, <2>3 DEF FinalizeSave, Notify, DrainState, DrainPC, TypeOK
  <2> QED
    BY <2>1, <2>2, <2>3
<1>3. DrainersKept(t)
  BY <1>0, <1>2 DEF DrainersKept, Draining, DrainState
<1>4. RowsKept(t)
  BY <1>0, <1>1, <1>2 DEF RowsKept, Scheduled, Published, DrainPC
<1>5. Closed(t)' => Closed(t)
  BY <1>1 DEF Closed
<1> QED
  BY <1>1, <1>3, <1>4, <1>5, KeptUnchanged, CopyStays

LEMMA InsertCopies ==
    ASSUME TypeOK, TypeOK', BudgetChecked, LocksPending, NEW i \in Internal, InsertRow(i),
           NEW t \in Task, CopyInv(t)
    PROVE  CopyInv(t)'
<1>0. /\ internal[i] \in DrainState /\ internal[i].pc = "insert"
      /\ internal[i].no <= Budget /\ internal[i].task \in Task
  BY Holding DEF InsertRow, DrainPC, DrainState, BudgetChecked
<1>1. PICK s \in Task, no \in Nat : s = internal[i].task /\ no = internal[i].no
  BY <1>0 DEF DrainState
<1> DEFINE row == [no |-> no, state |-> "pending", due |-> FALSE]
<1>2. /\ UNCHANGED <<producer, settled, queue, dlq, wk, runs>>
      /\ rows' = [rows EXCEPT ![s] = Append(@, row)]
      /\ internal'[i].pc = "ack" /\ internal'[i].no = no /\ no <= Budget
      /\ \A j \in Internal \ {i} : internal'[j] = internal[j]
      /\ rows[t] \in Seq(Redelivery)
  BY <1>0, <1>1 DEF InsertRow, DrainState, TypeOK
<1>3. Closed(t)' = Closed(t)
  BY <1>2 DEF Closed
<1>4. \A j \in Internal : Draining(j, t)' => j # i /\ Draining(j, t)
  BY <1>2, BudgetAssumption DEF Draining
<1>5. \A j \in Internal : \A k : Published(j, <<t, k>>)' <=> Published(j, <<t, k>>)
  BY <1>0, <1>2 DEF Published
<1> HIDE DEF row
<1>6. CASE s # t
  <2>1. rows'[t] = rows[t]
    BY <1>2, <1>6 DEF TypeOK
  <2>2. RowsKept(t)
    BY <1>5, <2>1 DEF RowsKept, Scheduled
  <2>3. DrainersKept(t)
    BY <1>2, <1>4 DEF DrainersKept
  <2> QED
    BY <1>2, <1>3, <2>2, <2>3, KeptUnchanged, CopyStays
<1>7. CASE s = t
  <2> DEFINE p == <<"internal", i>>
  <2>1. p \in Places(t)
    BY <1>0, <1>1, <1>7, PlacesAre DEF Draining, DrainPC
  <2>2. Alone(t, p)
    BY <2>1, CopyAlone
  <2>3. no = Len(rows[t]) + 1
    BY <1>0, <1>1, <1>7 DEF CopyInv, Paid
  <2>4. /\ rows'[t] = Append(rows[t], row) /\ row.state = "pending"
    BY <1>2, <1>7 DEF TypeOK, row
  <2>5. Len(rows'[t]) = Len(rows[t]) + 1 /\ Len(rows[t]) \in Nat
    BY <1>2, <2>4
  <2>6. \A k \in DOMAIN rows'[t] : Scheduled(t, k)' => k = no
    <3> SUFFICES ASSUME NEW k \in DOMAIN rows'[t], Scheduled(t, k)', k # no
                 PROVE  FALSE
      OBVIOUS
    <3>1. k \in DOMAIN rows[t] /\ rows'[t][k] = rows[t][k]
      BY <1>2, <2>3, <2>4
    <3>2. Scheduled(t, k)
      BY <1>5, <3>1 DEF Scheduled
    <3> QED
      BY <2>2, <3>1, <3>2 DEF Alone
  <2>7. /\ ~(dlq'[t] > 0)
        /\ \A n \in Message : n.task = t => ~(queue'[n] > 0)
        /\ \A w \in Worker : ~Executing(w, t)'
    BY <1>2, <2>2 DEF Alone, Executing
  <2>8. \A j \in Internal : ~Draining(j, t)'
    BY <1>4, <2>2 DEF Alone
  <2>9. \A j \in Internal : ~(internal'[j].pc = "insert" /\ internal'[j].task = t)
    BY <1>2, <2>8 DEF Draining, DrainPC
  <2> DEFINE q == <<"row", no>>
  <2>10. runs'[t] <= Cap(t, q)' /\ runs'[t] <= Allowance(Len(rows'[t]) + 1)
    <3>1. runs[t] <= Allowance(Len(rows[t]) + 1)
      BY DEF CopyInv, Paid
    <3>2. Cap(t, q)' = Allowance(Len(rows'[t]))
      BY DEF Cap
    <3>3. Len(rows'[t]) \in Nat /\ runs[t] \in Nat
      BY <2>5 DEF TypeOK
    <3>4. /\ Allowance(Len(rows'[t])) \in Nat
          /\ Allowance(Len(rows'[t]) + 1) = Allowance(Len(rows'[t])) + MaxRetries + 1
      BY <3>3, AllowanceStep
    <3> QED
      BY <1>2, <2>5, <3>1, <3>2, <3>3, <3>4, RetriesAssumption
  <2>11. Len(rows'[t]) <= Budget
    BY <1>2, <2>3, <2>5
  <2>12. ~Closed(t)'
    BY <1>3, <2>2 DEF Alone
  <2> HIDE DEF p, q
  <2> QED
    BY <2>6, <2>7, <2>8, <2>9, <2>10, <2>11, <2>12, CopyMoves DEF q
<1> QED
  BY <1>6, <1>7

LEMMA AckCopies ==
    ASSUME TypeOK, TypeOK', NEW i \in Internal, Ack(i), NEW t \in Task, CopyInv(t)
    PROVE  CopyInv(t)'
<1>0. internal[i] \in DrainState /\ internal[i].pc = "ack" /\ internal[i].task \in Task
  BY Holding DEF Ack, DrainPC, DrainState
<1>1. /\ UNCHANGED <<producer, queue, dlq, wk, rows, runs>>
      /\ internal'[i].pc = "idle"
      /\ \A j \in Internal \ {i} : internal'[j] = internal[j]
  BY DEF Ack, TypeOK, Free
<1>2. /\ DrainersKept(t)
      /\ \A j \in Internal : Draining(j, t)' => j # i /\ Draining(j, t)
  BY <1>1 DEF DrainersKept, Draining, DrainPC
<1>3. RowsKept(t)
  BY <1>0, <1>1 DEF RowsKept, Scheduled, Published
<1>4. CASE settled'[t] = settled[t]
  <2>1. Closed(t)' => Closed(t)
    BY <1>1, <1>4 DEF Closed
  <2> QED
    BY <1>1, <1>2, <1>3, <1>4, <2>1, KeptUnchanged, CopyStays
<1>5. CASE settled'[t] # settled[t]
  <2> DEFINE p == <<"internal", i>>
  <2>1. internal[i].task = t /\ ~InBudget(internal[i].no)
    BY <1>0, <1>5 DEF Ack, TypeOK
  <2>2. p \in Places(t)
    <3>1. internal[i].no > Budget
      BY <1>0, <2>1, BudgetAssumption DEF InBudget, DrainState
    <3>2. Draining(i, t)
      BY <1>0, <2>1, <3>1 DEF Draining, DrainPC
    <3> QED
      BY <3>2, PlacesAre
  <2>3. Alone(t, p)
    BY <2>2, CopyAlone
  <2>4. /\ \A j \in Internal : ~Draining(j, t)'
        /\ \A k \in DOMAIN rows'[t] : ~Scheduled(t, k)'
    BY <1>2, <1>3, <2>3 DEF Alone, RowsKept
  <2>5. Places(t)' = {}
    BY <1>1, <2>3, <2>4 DEF Alone, Places, Executing
  <2>6. producer'[t] # "idle"
    BY <1>1, <2>3 DEF Alone, Closed
  <2> QED
    BY <1>1, <1>2, <1>3, <2>5, <2>6, KeptUnchanged, CopyStays
<1> QED
  BY <1>4, <1>5

LEMMA SelectCopies ==
    ASSUME TypeOK, TypeOK', NEW i \in Internal, SelectDue(i), NEW t \in Task, CopyInv(t)
    PROVE  CopyInv(t)'
<1>0. /\ UNCHANGED <<producer, settled, queue, dlq, wk, rows, runs>>
      /\ internal[i].pc = "idle" /\ internal'[i].pc = "send"
      /\ \A j \in Internal \ {i} : internal'[j] = internal[j]
  BY DEF SelectDue, TypeOK
<1>1. DrainersKept(t)
  BY <1>0 DEF DrainersKept, Draining, DrainPC
<1>2. RowsKept(t)
  BY <1>0 DEF RowsKept, Scheduled, Published
<1>3. Closed(t)' => Closed(t)
  BY <1>0 DEF Closed
<1> QED
  BY <1>0, <1>1, <1>2, <1>3, KeptUnchanged, CopyStays

\* The row locks are what makes this step safe: no other batch has published
\* the row before.
LEMMA SendDueCopies ==
    ASSUME TypeOK, TypeOK', LocksPending, LocksApart, NoFailure,
           NEW i \in Internal, NEW r \in LockedBy(i), SendDue(i, r),
           NEW t \in Task, CopyInv(t)
    PROVE  CopyInv(t)'
<1>0. internal[i] \in DispatchState /\ r \in RowKey /\ r[1] \in Task /\ r = <<r[1], r[2]>>
  BY Holding DEF SendDue, DispatchState, RowKey
<1>1. /\ UNCHANGED <<producer, settled, dlq, wk, rows, runs>>
      /\ internal[i].pc = "send" /\ r \in internal[i].todo
      /\ queue' = Put(queue, Fresh(r[1])) /\ queue \in [Message -> Nat]
      /\ internal'[i].pc = "send"
      /\ internal'[i].sent = internal[i].sent \cup {r}
      /\ \A j \in Internal \ {i} : internal'[j] = internal[j]
  BY <1>0 DEF SendDue, DispatchState, TypeOK
<1>2. DrainersKept(t)
  BY <1>1 DEF DrainersKept, Draining, DrainPC
<1>3. RowsKept(t)
  BY <1>1 DEF RowsKept, Scheduled, Published
<1>4. Closed(t)' = Closed(t)
  BY <1>1 DEF Closed
<1>5. Fresh(r[1]) \in Message /\ Fresh(r[1]).task = r[1] /\ Fresh(r[1]).retries = 0
  BY <1>0, MessageType DEF Fresh
<1>6. CASE r[1] # t
  <2>1. QueueKept(t)
    BY <1>1, <1>5, <1>6 DEF QueueKept, Put
  <2> QED
    BY <1>1, <1>2, <1>3, <1>4, <2>1, KeptUnchanged, CopyStays
<1>7. CASE r[1] = t
  <2>1. PICK k : r = <<t, k>>
    BY <1>0, <1>7
  <2> DEFINE p == <<"row", k>>
             q == <<"queue", Fresh(t)>>
  <2>2. k \in DOMAIN rows[t] /\ rows[t][k].state = "pending"
    <3>1. r \in AllRows /\ Row(r).state = "pending"
      BY DEF LocksPending
    <3> QED
      BY <2>1, <3>1 DEF AllRows, Row
  <2>3. Scheduled(t, k)
    <3>1. ~Published(i, r)
      BY <1>1 DEF NoFailure, Published
    <3>2. \A j \in Internal \ {i} : ~Published(j, r)
      BY DEF LocksApart, LockedBy, Published
    <3> QED
      BY <2>1, <2>2, <3>1, <3>2 DEF Scheduled
  <2>4. p \in Places(t)
    BY <2>2, <2>3, PlacesAre
  <2>5. Alone(t, p)
    BY <2>4, CopyAlone
  <2>6. /\ ~(dlq'[t] > 0)
        /\ \A w \in Worker : ~Executing(w, t)'
        /\ \A j \in Internal : ~Draining(j, t)'
    BY <1>1, <1>2, <2>5 DEF Alone, Executing, DrainersKept
  <2>7. \A j \in DOMAIN rows'[t] : ~Scheduled(t, j)'
    <3>1. \A j \in DOMAIN rows'[t] : Scheduled(t, j)' => j = k
      BY <1>3, <2>5 DEF Alone, RowsKept
    <3>2. Published(i, <<t, k>>)'
      BY <1>1, <2>1 DEF Published
    <3> QED
      BY <3>1, <3>2 DEF Scheduled
  <2>8. \A n \in Message : n.task = t /\ queue'[n] > 0 => n = Fresh(t) /\ queue'[n] <= 1
    <3>1. \A n \in Message : n.task = t => ~(queue[n] > 0)
      BY <2>5 DEF Alone
    <3> QED
      BY <1>1, <1>5, <1>7, <3>1 DEF Put
  <2>9. runs'[t] <= Cap(t, q)'
    <3>1. runs[t] <= Allowance(Len(rows[t]))
      BY <2>5 DEF Alone, Cap
    <3>2. Cap(t, q)' = Allowance(Len(rows[t])) + 0
      BY <1>1 DEF Cap, Fresh
    <3>3. Allowance(Len(rows[t])) \in Nat
      BY AllowanceStep DEF TypeOK
    <3> QED
      BY <1>1, <3>1, <3>2, <3>3
  <2>10. runs'[t] <= Allowance(Len(rows'[t]) + 1) /\ Len(rows'[t]) <= Budget
    BY <1>1 DEF CopyInv, Paid
  <2>11. \A j \in Internal : internal'[j].pc = "insert" /\ internal'[j].task = t =>
               internal'[j].no = Len(rows'[t]) + 1
    BY <1>1 DEF CopyInv, Paid
  <2>12. ~Closed(t)'
    BY <1>4, <2>5 DEF Alone
  <2> HIDE DEF p, q
  <2> QED
    BY <2>6, <2>7, <2>8, <2>9, <2>10, <2>11, <2>12, CopyMoves DEF q
<1> QED
  BY <1>6, <1>7

\* What the commit writes is what the batch has published.
LEMMA CommitCopies ==
    ASSUME TypeOK, TypeOK', NoFailure, NEW i \in Internal, CommitDue(i),
           NEW t \in Task, CopyInv(t)
    PROVE  CopyInv(t)'
<1>0. internal[i] \in DispatchState /\ internal[i].pc = "send" /\ internal[i].failed = {}
  BY Holding DEF CommitDue, NoFailure
<1>1. /\ UNCHANGED <<producer, settled, queue, dlq, wk, runs>>
      /\ DOMAIN rows'[t] = DOMAIN rows[t]
      /\ \A k \in DOMAIN rows[t] : rows'[t][k] = Committed(i, <<t, k>>)
      /\ internal'[i].pc = "idle"
      /\ \A j \in Internal \ {i} : internal'[j] = internal[j]
      /\ rows[t] \in Seq(Redelivery) /\ rows'[t] \in Seq(Redelivery)
  BY <1>0 DEF CommitDue, TypeOK, Free
<1>2. DrainersKept(t)
  BY <1>1 DEF DrainersKept, Draining, DrainPC
<1>3. RowsKept(t)
  <2>1. Len(rows'[t]) = Len(rows[t])
    BY <1>1
  <2>2. ASSUME NEW k \in DOMAIN rows'[t], Scheduled(t, k)'
        PROVE  Scheduled(t, k)
    <3>1. k \in DOMAIN rows[t] /\ rows[t][k] \in Redelivery
      BY <1>1
    <3>2. <<t, k>> \notin internal[i].sent
      <4> SUFFICES ASSUME <<t, k>> \in internal[i].sent
                   PROVE  FALSE
        OBVIOUS
      <4>1. rows'[t][k] = [rows[t][k] EXCEPT !.state = "sent"]
        BY <1>0, <1>1, <3>1 DEF Committed, Row
      <4> QED
        BY <2>2, <3>1, <4>1 DEF Scheduled, Redelivery
    <3>3. rows'[t][k] = rows[t][k]
      BY <1>0, <1>1, <3>1, <3>2 DEF Committed, Row
    <3> QED
      BY <1>1, <2>2, <3>2, <3>3 DEF Scheduled, Published
  <2> QED
    BY <1>1, <2>1, <2>2 DEF RowsKept
<1>4. Closed(t)' => Closed(t)
  BY <1>1 DEF Closed
<1> QED
  BY <1>1, <1>2, <1>3, <1>4, KeptUnchanged, CopyStays

LEMMA ClockCopies ==
    ASSUME TypeOK, TypeOK', NEW s \in Task, NEW n \in DOMAIN rows[s], BecomesDue(s, n),
           NEW t \in Task, CopyInv(t)
    PROVE  CopyInv(t)'
<1>1. /\ UNCHANGED <<producer, settled, queue, dlq, wk, internal, runs>>
      /\ rows[t] \in Seq(Redelivery) /\ rows'[t] \in Seq(Redelivery)
  BY DEF BecomesDue, TypeOK
<1>2. /\ DOMAIN rows'[t] = DOMAIN rows[t]
      /\ \A j \in DOMAIN rows[t] : rows'[t][j].state = rows[t][j].state
  <2>1. \A j \in DOMAIN rows[t] : rows[t][j] \in Redelivery
    BY <1>1
  <2>2. \/ rows'[t] = rows[t]
        \/ rows'[t] = [rows[t] EXCEPT ![n].due = TRUE]
    BY DEF BecomesDue, TypeOK
  <2> QED
    BY <2>1, <2>2 DEF Redelivery
<1>3. RowsKept(t)
  <2>1. Len(rows'[t]) = Len(rows[t])
    BY <1>1, <1>2
  <2> QED
    BY <1>1, <1>2, <2>1 DEF RowsKept, Scheduled, Published
<1>4. Closed(t)' => Closed(t)
  BY <1>1 DEF Closed
<1> QED
  BY <1>1, <1>3, <1>4, KeptUnchanged, CopyStays

-----------------------------------------------------------------------------
(* The fault-free invariant is inductive.                                   *)

LEMMA NoFailureNext ==
    ASSUME TypeOK, NoFailure, [Next]_vars, ~FaultStep
    PROVE  NoFailure'
<1> DEFINE Clean(s) ==
               s.pc = "send" => s.failed = {} /\ s.todo \cap s.sent = {}
<1>0. \A i \in Internal : Clean(internal[i])
  BY DEF NoFailure
<1>1. ASSUME NEW i \in Internal, DrainStep(i)
      PROVE  internal'[i].pc # "send"
  <2>1. CASE Ack(i) \/ \E t \in Task : DlqGet(i, t)
    BY <2>1 DEF Ack, DlqGet, Free, TypeOK
  <2>2. CASE CountRows(i) \/ InsertRow(i) \/ FinalizeFetch(i) \/ FinalizeSave(i) \/ Notify(i)
    <3>1. internal[i] \in DrainState
      BY <2>2, Holding DEF CountRows, InsertRow, FinalizeFetch, FinalizeSave, Notify, DrainPC
    <3>2. CASE CountRows(i)
      BY <3>1, <3>2 DEF CountRows, DrainState, TypeOK
    <3>3. CASE InsertRow(i) \/ FinalizeFetch(i) \/ FinalizeSave(i) \/ Notify(i)
      BY <3>1, <3>3 DEF InsertRow, FinalizeFetch, FinalizeSave, Notify, DrainState, TypeOK
    <3> QED
      BY <2>2, <3>2, <3>3
  <2> QED
    BY <1>1, <2>1, <2>2 DEF DrainStep
<1>2. ASSUME NEW i \in Internal, DispatchStep(i)
      PROVE  Clean(internal'[i])
  <2>1. CASE SelectDue(i) \/ CommitDue(i)
    BY <2>1 DEF SelectDue, CommitDue, Free, TypeOK
  <2>2. ASSUME NEW r \in LockedBy(i), SendDue(i, r)
        PROVE  Clean(internal'[i])
    <3>1. /\ internal[i] \in DispatchState /\ r \in internal[i].todo
          /\ internal[i].failed = {} /\ internal[i].todo \cap internal[i].sent = {}
      BY <1>0, <2>2, Holding DEF SendDue
    <3>2. /\ internal'[i].failed = internal[i].failed
          /\ internal'[i].todo = internal[i].todo \ {r}
          /\ internal'[i].sent = internal[i].sent \cup {r}
      BY <2>2, <3>1 DEF SendDue, TypeOK, DispatchState
    <3> QED
      BY <3>1, <3>2
  <2> QED
    BY <1>2, <2>1, <2>2 DEF DispatchStep
<1>3. \A i \in Internal : internal'[i] = internal[i] => Clean(internal'[i])
  BY <1>0
<1>4. \A i \in Internal : DrainFails(i) \/ DispatchAborts(i)
                             \/ (\E r \in LockedBy(i) : SendFails(i, r)) => FALSE
  BY DEF FaultStep
<1>5. ASSUME NEW i \in Internal
      PROVE  Clean(internal'[i])
  <2> HIDE DEF Clean
  <2>1. internal'[i] = internal[i] \/ DrainStep(i) \/ DispatchStep(i)
    BY <1>4, InternalActs
  <2>2. DrainStep(i) => Clean(internal'[i])
    BY <1>1 DEF Clean
  <2> QED
    BY <1>2, <1>3, <2>1, <2>2
<1>6. ASSUME NEW t \in Task
      PROVE  ~GivenUp(t)'
  <2>0. /\ \A k \in DOMAIN rows[t] : rows[t][k].state # "failed"
        /\ rows[t] \in Seq(Redelivery)
    BY DEF NoFailure, GivenUp, TypeOK
  <2> SUFFICES \A k \in DOMAIN rows'[t] : rows'[t][k].state # "failed"
    BY DEF GivenUp
  <2>1. CASE UNCHANGED rows
    BY <2>0, <2>1
  <2>2. ASSUME NEW i \in Internal, InsertRow(i)
        PROVE  \A k \in DOMAIN rows'[t] : rows'[t][k].state # "failed"
    <3> DEFINE row == [no |-> internal[i].no, state |-> "pending", due |-> FALSE]
    <3>1. rows'[t] = rows[t] \/ rows'[t] = Append(rows[t], row)
      BY <2>2 DEF InsertRow, TypeOK
    <3>2. row.state # "failed"
      OBVIOUS
    <3> HIDE DEF row
    <3> QED
      BY <2>0, <3>1, <3>2
  <2>3. ASSUME NEW s \in Task, NEW n \in DOMAIN rows[s], BecomesDue(s, n)
        PROVE  \A k \in DOMAIN rows'[t] : rows'[t][k].state # "failed"
    <3>1. \/ rows'[t] = rows[t]
          \/ rows'[t] = [rows[t] EXCEPT ![n].due = TRUE]
      BY <2>3 DEF BecomesDue, TypeOK
    <3>2. \A k \in DOMAIN rows[t] : rows[t][k] \in Redelivery
      BY <2>0
    <3>3. /\ DOMAIN rows'[t] = DOMAIN rows[t]
          /\ \A k \in DOMAIN rows[t] : rows'[t][k].state = rows[t][k].state
      BY <3>1, <3>2 DEF Redelivery
    <3> QED
      BY <2>0, <3>3
  <2>4. ASSUME NEW i \in Internal, CommitDue(i), NEW k \in DOMAIN rows'[t]
        PROVE  rows'[t][k].state # "failed"
    <3>1. internal[i].failed = {}
      BY <2>4 DEF CommitDue, NoFailure
    <3>2. k \in DOMAIN rows[t] /\ rows'[t][k] = Committed(i, <<t, k>>)
      BY <2>4 DEF CommitDue
    <3>3. rows[t][k] \in Redelivery
      BY <2>0, <3>2
    <3>4. \/ rows'[t][k] = [rows[t][k] EXCEPT !.state = "sent"]
          \/ rows'[t][k] = rows[t][k]
      BY <3>1, <3>2 DEF Committed, Row
    <3> QED
      BY <2>0, <3>2, <3>3, <3>4 DEF Redelivery
  <2> QED
    BY <2>1, <2>2, <2>3, <2>4, RowsAct
<1> QED
  BY <1>5, <1>6 DEF NoFailure

LEMMA CopyNext ==
    ASSUME LostInv, NoFailure, [Next]_vars, ~FaultStep, NEW t \in Task, CopyInv(t)
    PROVE  CopyInv(t)'
<1> USE DEF LostInv
<1>0. TypeOK'
  BY TypeNext
<1>1. ASSUME NEW s \in Task, ProducerStep(s)
      PROVE  CopyInv(t)'
  BY <1>0, <1>1, SendCopies, RecordInitialCopies DEF ProducerStep
<1>2. ASSUME NEW w \in Worker, WorkerStep(w)
      PROVE  CopyInv(t)'
  BY <1>0, <1>2, DeliverCopies, HookCopies, RetryCopies, SettleCopies DEF WorkerStep
<1>3. ASSUME NEW i \in Internal, DrainStep(i)
      PROVE  CopyInv(t)'
  BY <1>0, <1>3, DlqGetCopies, DrainCopies, InsertCopies, AckCopies DEF DrainStep
<1>4. ASSUME NEW i \in Internal, DispatchStep(i)
      PROVE  CopyInv(t)'
  BY <1>0, <1>4, SelectCopies, SendDueCopies, CommitCopies DEF DispatchStep
<1>5. CASE Clock
  BY <1>0, <1>5, ClockCopies DEF Clock
<1>6. CASE UNCHANGED vars
  <2>1. UNCHANGED <<producer, settled, queue, dlq, wk, internal, rows, runs>>
    BY <1>6 DEF vars
  <2>2. Closed(t)' => Closed(t)
    BY <2>1 DEF Closed
  <2> QED
    BY <1>0, <2>1, <2>2, KeptUnchanged, CopyStays
<1> QED
  BY <1>1, <1>2, <1>3, <1>4, <1>5, <1>6 DEF Next

LEMMA FaultsGrow ==
    ASSUME TypeOK, [Next]_vars
    PROVE  faults' = faults \/ (FaultStep /\ faults' = faults + 1)
<1>1. FaultStep => faults' = faults + 1
  BY DEF FaultStep, ProducerDies, HookFails, Crash, DrainFails, DrainAborts, DrainDrops, BrokerDrops,
         Discard,
         DispatchAborts, SendFails, Fault
<1>2. (\E t \in Task : ProducerStep(t)) => UNCHANGED faults
  BY DEF ProducerStep, Send, RecordInitial
<1>3. (\E w \in Worker : WorkerStep(w)) => UNCHANGED faults
  BY DEF WorkerStep, Deliver, PrerunFetch, PrerunSave, BodySucceeds,
         BodyRetries, BodyFails, PostFetch, PostSave, Settle
<1>4. (\E i \in Internal : DrainStep(i) \/ DispatchStep(i)) => UNCHANGED faults
  BY DEF DrainStep, DispatchStep, DlqGet, CountRows, InsertRow, FinalizeFetch,
         FinalizeSave, Notify, Ack, SelectDue, SendDue, CommitDue
<1>5. Clock => UNCHANGED faults
  BY DEF Clock, BecomesDue
<1>6. UNCHANGED vars => UNCHANGED faults
  BY DEF vars
<1> QED
  BY <1>1, <1>2, <1>3, <1>4, <1>5, <1>6 DEF Next

CensusInv == LostInv /\ FaultFreeInv

LEMMA CensusNext == CensusInv /\ [Next]_vars => CensusInv'
<1> SUFFICES ASSUME CensusInv, [Next]_vars
             PROVE  CensusInv'
  OBVIOUS
<1>1. LostInv'
  BY LostNext DEF CensusInv
<1>2. ASSUME faults' = 0
      PROVE  NoFailure' /\ \A t \in Task : CopyInv(t)'
  <2>1. TypeOK /\ faults \in Nat
    BY DEF CensusInv, LostInv, TypeOK
  <2>2. faults = 0 /\ ~(faults' = faults + 1)
    BY <1>2, <2>1, FaultsGrow
  <2>3. ~FaultStep
    BY <2>2 DEF FaultStep, ProducerDies, HookFails, Crash, DrainFails, DrainAborts, DrainDrops, BrokerDrops,
         Discard,
                DispatchAborts, SendFails, Fault
  <2>4. NoFailure /\ \A t \in Task : CopyInv(t)
    BY <2>2 DEF CensusInv, FaultFreeInv
  <2>5. NoFailure'
    BY <2>1, <2>3, <2>4, NoFailureNext
  <2>6. \A t \in Task : CopyInv(t)'
    BY <2>3, <2>4, CopyNext DEF CensusInv
  <2> QED
    BY <2>5, <2>6
<1> QED
  BY <1>1, <1>2 DEF CensusInv, FaultFreeInv

LEMMA CensusInit == Init => CensusInv
<1> SUFFICES ASSUME Init
             PROVE  CensusInv
  OBVIOUS
<1>1. LostInv
  BY LostInit
<1>2. NoFailure
  BY DEF Init, NoFailure, GivenUp, Free
<1>3. ASSUME NEW t \in Task
      PROVE  CopyInv(t)
  <2>1. Places(t) = {}
    BY DEF Init, Places, Executing, Draining, Free, DrainPC
  <2>2. /\ runs[t] = 0 /\ Len(rows[t]) = 0 /\ settled[t] = {} /\ producer[t] = "idle"
        /\ \A i \in Internal : internal[i].pc # "insert"
    BY DEF Init, Free
  <2>3. Allowance(Len(rows[t]) + 1) \in Nat
    BY <2>2, AllowanceStep
  <2>4. Single(t)
    BY <2>1 DEF Init, Single
  <2>5. Paid(t)
    BY <2>1, <2>2, <2>3, BudgetAssumption DEF Paid
  <2> QED
    BY <2>4, <2>5 DEF CopyInv
<1> QED
  BY <1>1, <1>2, <1>3 DEF CensusInv, FaultFreeInv

\* Without a fault there is one continuation of a dispatched task until it is
\* settled, and none afterwards: workers, drainers and overlapping batches of
\* dispatch_due hand it on without ever doubling it, however many there are.
THEOREM OneCopy == Spec => []ExactlyOneCopy
<1>1. CensusInv => ExactlyOneCopy
  <2> SUFFICES ASSUME CensusInv, faults = 0, NEW t \in Task
               PROVE  /\ \A m \in Message : m.task = t => queue[m] <= 1
                      /\ dlq[t] <= 1
                      /\ Cardinality(Places(t)) =
                            IF producer[t] = "idle" \/ settled[t] # {} THEN 0 ELSE 1
    BY DEF ExactlyOneCopy
  <2>1. Single(t) /\ ~GivenUp(t) /\ Carried(t)
    BY AccountedCarried
       DEF CensusInv, FaultFreeInv, CopyInv, NoFailure, LostInv, NoTaskLost
  <2>2. CASE Closed(t)
    <3>1. Places(t) = {}
      BY <2>1, <2>2 DEF Single
    <3> QED
      BY <2>1, <2>2, <3>1, FS_EmptySet DEF Single, Closed
  <2>3. CASE ~Closed(t)
    <3>1. \E p : p \in Places(t)
      <4>1. \/ \E m \in Message : m.task = t /\ queue[m] > 0
            \/ dlq[t] > 0
            \/ \E w \in Worker : Executing(w, t)
            \/ \E i \in Internal : Draining(i, t)
            \/ \E k \in DOMAIN rows[t] : Scheduled(t, k)
        BY <2>1, <2>3 DEF Carried, Closed, InQueue
      <4> QED
        BY <4>1, PlacesAre
    <3>2. PICK p : p \in Places(t)
      BY <3>1
    <3>3. Places(t) = {p}
      BY <2>1, <3>2 DEF Single
    <3>4. Cardinality(Places(t)) = 1
      BY <3>3, FS_Singleton
    <3> QED
      BY <2>1, <2>3, <3>4 DEF Single, Closed
  <2> QED
    BY <2>2, <2>3
<1> QED
  BY <1>1, CensusInit, CensusNext, PTL DEF Spec

\* Without a fault a task is executed at most 1 + MaxRetries times for its
\* dispatch and for each redelivery of its budget.
THEOREM ExecutionsBounded == Spec => [](faults = 0 => ExecutionBound)
<1>1. CensusInv => (faults = 0 => ExecutionBound)
  <2> SUFFICES ASSUME CensusInv, faults = 0, NEW t \in Task
               PROVE  runs[t] <= (1 + MaxRetries) * (1 + Budget + 0 * Dearest)
    BY DEF ExecutionBound
  <2>0. 1 + Budget + 0 * Dearest = 1 + Budget
    BY BudgetAssumption DEF Dearest
  <2>1. Paid(t) /\ TypeOK
    BY DEF CensusInv, FaultFreeInv, CopyInv, LostInv
  <2>2. Len(rows[t]) \in Nat /\ Len(rows[t]) <= Budget /\ runs[t] \in Nat
    BY <2>1 DEF Paid, TypeOK
  <2>3. Len(rows[t]) + 1 \in Nat /\ 1 + Budget \in Nat /\ Len(rows[t]) + 1 <= 1 + Budget
    BY <2>2, BudgetAssumption
  <2>4. Allowance(Len(rows[t]) + 1) <= Allowance(1 + Budget)
    BY <2>3, AllowanceGrows
  <2>5. /\ Allowance(Len(rows[t]) + 1) \in Nat
        /\ Allowance(1 + Budget) \in Nat
    BY <2>3, AllowanceStep
  <2>6. runs[t] <= Allowance(1 + Budget)
    BY <2>1, <2>2, <2>4, <2>5 DEF Paid
  <2> QED
    BY <2>0, <2>6 DEF Allowance
<1> QED
  BY <1>1, CensusInit, CensusNext, PTL DEF Spec

-----------------------------------------------------------------------------
(* One worker child: the row it holds is the row it saves over.             *)

OneWorker == \A v, w \in Worker : v = w

\* The steps that write the trace.
LEMMA TraceAct ==
    ASSUME [Next]_vars
    PROVE  \/ UNCHANGED trace
           \/ \E s \in Task : RecordInitial(s)
           \/ \E w \in Worker :
                 PrerunFetch(w) \/ PrerunSave(w) \/ PostFetch(w) \/ PostSave(w)
           \/ \E i \in Internal : FinalizeFetch(i) \/ FinalizeSave(i)
<1>1. ASSUME NEW s \in Task, ProducerStep(s)
      PROVE  UNCHANGED trace \/ RecordInitial(s)
  BY <1>1 DEF ProducerStep, Send
<1>2. ASSUME NEW w \in Worker, WorkerStep(w)
      PROVE  \/ UNCHANGED trace
             \/ PrerunFetch(w) \/ PrerunSave(w) \/ PostFetch(w) \/ PostSave(w)
  BY <1>2 DEF WorkerStep, Deliver, BodySucceeds, BodyRetries, BodyFails, Settle
<1>3. ASSUME NEW i \in Internal, DrainStep(i) \/ DispatchStep(i)
      PROVE  UNCHANGED trace \/ FinalizeFetch(i) \/ FinalizeSave(i)
  BY <1>3 DEF DrainStep, DispatchStep, DlqGet, CountRows, InsertRow, Notify,
              Ack, SelectDue, SendDue, CommitDue
<1>4. Clock \/ FaultStep => UNCHANGED trace
  BY DEF Clock, BecomesDue, FaultStep, ProducerDies, HookFails, Crash,
         DrainFails, DrainAborts, DrainDrops, BrokerDrops,
         Discard, DispatchAborts, SendFails
<1>5. UNCHANGED vars => UNCHANGED trace
  BY DEF vars
<1> QED
  BY <1>1, <1>2, <1>3, <1>4, <1>5 DEF Next

\* The steps that move a worker.
LEMMA WorkerAct ==
    ASSUME TypeOK, [Next]_vars
    PROVE  \/ UNCHANGED wk
           \/ \E w \in Worker :
                 /\ WorkerStep(w) \/ HookFails(w) \/ Crash(w)
                 /\ \A v \in Worker \ {w} : wk'[v] = wk[v]
<1>1. ASSUME NEW w \in Worker, WorkerStep(w) \/ HookFails(w) \/ Crash(w)
      PROVE  \A v \in Worker \ {w} : wk'[v] = wk[v]
  BY <1>1 DEF WorkerStep, Deliver, PrerunFetch, PrerunSave, BodySucceeds,
     BodyRetries, BodyFails, PostFetch, PostSave, Settle, HookFails, Crash, TypeOK
<1>2. (\E t \in Task : ProducerStep(t) \/ ProducerDies(t)) => UNCHANGED wk
  BY DEF ProducerStep, Send, RecordInitial, ProducerDies
<1>3. (\E i \in Internal : \/ DrainStep(i) \/ DispatchStep(i) \/ DrainFails(i)
                           \/ DispatchAborts(i)
                           \/ \E r \in LockedBy(i) : SendFails(i, r)) => UNCHANGED wk
  BY DEF DrainStep, DispatchStep, DlqGet, CountRows, InsertRow, FinalizeFetch,
         FinalizeSave, Notify, Ack, SelectDue, SendDue, CommitDue, DrainFails, DrainAborts, DrainDrops, BrokerDrops,
         Discard,
         DispatchAborts, SendFails
<1>4. Clock \/ UNCHANGED vars => UNCHANGED wk
  BY DEF Clock, BecomesDue, vars
<1> QED
  BY <1>1, <1>2, <1>3, <1>4 DEF Next, FaultStep

\* A hook that is about to save has read the row, and the row has not become
\* a success since: only the save of a successful execution makes it one.
HeldIsFresh ==
    \A w \in Worker :
        /\ wk[w].pc \in {"prerun_save", "post_save"}
        /\ trace[wk[w].msg.task].state = "success"
        => wk[w].outcome = "success"

LEMMA SuccessStep ==
    ASSUME TypeOK, [Next]_vars, NEW t \in Task,
           trace'[t].state = "success", \A w \in Worker : ~PostSave(w)
    PROVE  trace[t].state = "success"
<1>1. CASE UNCHANGED trace
  BY <1>1
<1>2. ASSUME NEW s \in Task, trace' = [trace EXCEPT ![s] = RowOrCreate(trace[s])]
      PROVE  trace[t].state = "success"
  BY <1>2 DEF RowOrCreate, NewRow, TypeOK
<1>3. ASSUME NEW s \in Task, RecordInitial(s)
      PROVE  trace[t].state = "success"
  BY <1>2, <1>3 DEF RecordInitial
<1>4. ASSUME NEW w \in Worker, PrerunFetch(w) \/ PostFetch(w)
      PROVE  trace[t].state = "success"
  <2>1. wk[w].msg.task \in Task
    BY <1>4, Holding, MessageType DEF PrerunFetch, PostFetch, BusyWorker
  <2>2. trace' = [trace EXCEPT ![wk[w].msg.task] = RowOrCreate(trace[wk[w].msg.task])]
    BY <1>4 DEF PrerunFetch, PostFetch
  <2> QED
    BY <1>2, <2>1, <2>2
<1>5. ASSUME NEW w \in Worker, PrerunSave(w)
      PROVE  trace[t].state = "success"
  BY <1>5 DEF PrerunSave, RunningRow, TypeOK
<1>6. ASSUME NEW i \in Internal, FinalizeFetch(i)
      PROVE  trace[t].state = "success"
  <2>1. internal[i].task \in Task
    BY <1>6, Holding DEF FinalizeFetch, DrainState, DrainPC
  <2>2. trace' = [trace EXCEPT ![internal[i].task] = RowOrCreate(trace[internal[i].task])]
    BY <1>6 DEF FinalizeFetch
  <2> QED
    BY <1>2, <2>1, <2>2
<1>7. ASSUME NEW i \in Internal, FinalizeSave(i)
      PROVE  trace[t].state = "success"
  <2>1. DeadRow(internal[i].held).state = "dead"
    BY <1>7, Holding, RecordedType DEF FinalizeSave, DrainState, DrainPC, Outcome
  <2>2. trace' = [trace EXCEPT ![internal[i].task] = DeadRow(internal[i].held)]
    BY <1>7 DEF FinalizeSave
  <2> QED
    BY <2>1, <2>2 DEF TypeOK
<1> QED
  BY <1>1, <1>3, <1>4, <1>5, <1>6, <1>7, TraceAct

LEMMA FreshNext ==
    ASSUME OneWorker, TypeOK, HeldIsFresh, [Next]_vars
    PROVE  HeldIsFresh'
<1> SUFFICES ASSUME NEW w \in Worker, wk'[w].pc \in {"prerun_save", "post_save"},
                    trace'[wk'[w].msg.task].state = "success"
             PROVE  wk'[w].outcome = "success"
  BY DEF HeldIsFresh
<1>0. TypeOK'
  BY TypeNext
<1>1. PICK t \in Task : t = wk'[w].msg.task
  BY <1>0 DEF TypeOK, WorkerState, BusyWorker, Message
<1>2. \A v \in Worker : ~PostSave(v)
  <2> SUFFICES ASSUME PostSave(w)
               PROVE  FALSE
    BY DEF OneWorker
  <2>1. wk[w] \in BusyWorker
    BY Holding DEF PostSave
  <2> QED
    BY <2>1 DEF PostSave, TypeOK, BusyWorker
<1>3. trace[t].state = "success"
  BY <1>1, <1>2, SuccessStep
<1>4. CASE wk'[w] = wk[w]
  BY <1>1, <1>3, <1>4 DEF HeldIsFresh
<1>5. CASE wk'[w] # wk[w]
  <2>1. WorkerStep(w) \/ HookFails(w) \/ Crash(w)
    BY <1>5, WorkerAct DEF OneWorker
  <2>2. CASE PrerunFetch(w)
    <3>1. wk[w] \in BusyWorker
      BY <2>2, Holding DEF PrerunFetch
    <3>2. /\ wk[w].msg.task = t
          /\ wk'[w].pc = IF Frozen(RowOrCreate(trace[t]), "running") THEN "body"
                         ELSE "prerun_save"
      BY <1>1, <2>2, <3>1 DEF PrerunFetch, TypeOK, BusyWorker
    <3> QED
      BY <1>3, <3>2 DEF Frozen, RowOrCreate, NoRow
  <2>3. CASE PostFetch(w)
    <3>1. wk[w] \in BusyWorker
      BY <2>3, Holding DEF PostFetch
    <3>2. /\ wk[w].msg.task = t /\ wk'[w].outcome = wk[w].outcome
          /\ wk'[w].pc = IF Frozen(RowOrCreate(trace[t]), wk[w].outcome) THEN "settle"
                         ELSE "post_save"
      BY <1>1, <2>3, <3>1 DEF PostFetch, TypeOK, BusyWorker
    <3> QED
      BY <1>3, <3>2 DEF Frozen, RowOrCreate, NoRow
  <2>4. CASE \/ PrerunSave(w) \/ BodySucceeds(w) \/ BodyRetries(w) \/ BodyFails(w)
             \/ HookFails(w)
    <3>1. wk[w] \in BusyWorker
      BY <2>4, Holding DEF PrerunSave, BodySucceeds, BodyRetries, BodyFails, HookFails
    <3>2. wk'[w].pc \notin {"prerun_save", "post_save"}
      BY <2>4, <3>1 DEF PrerunSave, BodySucceeds, BodyRetries, BodyFails, HookFails,
         TypeOK, BusyWorker
    <3> QED
      BY <3>2
  <2>5. CASE Settle(w) \/ Crash(w) \/ \E m \in Message : Deliver(w, m)
    BY <2>5 DEF Settle, Crash, Deliver, Free, TypeOK
  <2> QED
    BY <1>2, <2>1, <2>2, <2>3, <2>4, <2>5 DEF WorkerStep
<1> QED
  BY <1>4, <1>5

\* With one worker child a row that is SUCCESS stays so or is buried by
\* finalize_dead, through lost workers, failing hooks and redeliveries.
THEOREM SuccessStays ==
    ASSUME OneWorker
    PROVE  Spec => SuccessOnlyBuried
<1> DEFINE Inv == TypeOK /\ HeldIsFresh
<1>1. Init => Inv
  BY TypeInit DEF Init, HeldIsFresh, Free
<1>2. Inv /\ [Next]_vars => Inv'
  BY FreshNext, TypeNext
<1>3. Inv /\ [Next]_vars =>
         [\A t \in Task : trace[t].state = "success" => trace'[t].state \in Terminal]_vars
  <2> SUFFICES ASSUME Inv, [Next]_vars, NEW t \in Task, trace[t].state = "success"
               PROVE  trace'[t].state \in Terminal
    OBVIOUS
  <2>0. \A s \in Task : trace' = [trace EXCEPT ![s] = RowOrCreate(trace[s])] =>
                           trace'[t].state = "success"
    BY DEF RowOrCreate, NoRow, TypeOK
  <2>1. CASE UNCHANGED trace
    BY <2>1 DEF Terminal
  <2>2. ASSUME NEW s \in Task, RecordInitial(s)
        PROVE  trace'[t].state \in Terminal
    BY <2>0, <2>2 DEF RecordInitial, Terminal
  <2>3. ASSUME NEW w \in Worker, PrerunFetch(w) \/ PostFetch(w)
        PROVE  trace'[t].state \in Terminal
    <3>1. wk[w].msg.task \in Task
      BY <2>3, Holding, MessageType DEF PrerunFetch, PostFetch, BusyWorker
    <3>2. trace' = [trace EXCEPT ![wk[w].msg.task] = RowOrCreate(trace[wk[w].msg.task])]
      BY <2>3 DEF PrerunFetch, PostFetch
    <3> QED
      BY <2>0, <3>1, <3>2 DEF Terminal
  <2>4. ASSUME NEW w \in Worker, PrerunSave(w) \/ PostSave(w)
        PROVE  trace'[t].state \in Terminal
    <3>1. wk[w] \in BusyWorker /\ wk[w].pc \in {"prerun_save", "post_save"}
      BY <2>4, Holding DEF PrerunSave, PostSave
    <3>2. CASE wk[w].msg.task # t
      BY <2>4, <3>2 DEF PrerunSave, PostSave, TypeOK, Terminal
    <3>3. CASE wk[w].msg.task = t
      <4>1. wk[w].outcome = "success"
        BY <3>1, <3>3 DEF HeldIsFresh
      <4>2. wk[w].pc \notin EarlyPC
        BY <3>1, <4>1 DEF BusyWorker, EarlyPC, LatePC
      <4>3. PostSave(w)
        BY <2>4, <4>2 DEF PrerunSave, EarlyPC
      <4>4. trace'[t] = Recorded(wk[w].held, "success")
        BY <3>3, <4>1, <4>3 DEF PostSave, TypeOK
      <4>5. Recorded(wk[w].held, "success").state = "success"
        BY <3>1, RecordedType DEF BusyWorker, Outcome
      <4> QED
        BY <4>4, <4>5 DEF Terminal
    <3> QED
      BY <3>2, <3>3
  <2>5. ASSUME NEW i \in Internal, FinalizeFetch(i)
        PROVE  trace'[t].state \in Terminal
    <3>1. internal[i].task \in Task
      BY <2>5, Holding DEF FinalizeFetch, DrainState, DrainPC
    <3>2. trace' = [trace EXCEPT ![internal[i].task] = RowOrCreate(trace[internal[i].task])]
      BY <2>5 DEF FinalizeFetch
    <3> QED
      BY <2>0, <3>1, <3>2 DEF Terminal
  <2>6. ASSUME NEW i \in Internal, FinalizeSave(i)
        PROVE  trace'[t].state \in Terminal
    <3>1. DeadRow(internal[i].held).state = "dead"
      BY <2>6, Holding, RecordedType DEF FinalizeSave, DrainState, DrainPC, Outcome
    <3>2. trace' = [trace EXCEPT ![internal[i].task] = DeadRow(internal[i].held)]
      BY <2>6 DEF FinalizeSave
    <3> QED
      BY <3>1, <3>2 DEF TypeOK, Terminal
  <2> QED
    BY <2>1, <2>2, <2>3, <2>4, <2>5, <2>6, TraceAct
<1> HIDE DEF Inv
<1> QED
  BY <1>1, <1>2, <1>3, PTL DEF Spec, SuccessOnlyBuried

-----------------------------------------------------------------------------
(* One worker child and no fault: every execution is counted once.          *)

On(w, t) == wk[w].pc # "idle" /\ wk[w].msg.task = t
Begun == {"prerun", "prerun_save"}

\* A row is SUCCESS or DEAD only at the very end of a task, so the hooks of
\* an execution never find it frozen.
EndsLast(t) ==
    /\ trace[t].state = "success" =>
          \/ settled[t] # {}
          \/ \E w \in Worker : /\ On(w, t) /\ wk[w].pc = "settle"
                               /\ wk[w].outcome = "success"
    /\ trace[t].state = "dead" =>
          \/ settled[t] # {}
          \/ \E i \in Internal : Draining(i, t) /\ internal[i].pc \in {"notify", "ack"}

WorkerCounts(w, t) ==
    On(w, t) =>
        /\ wk[w].outcome = "retrying" => InQueue(t)
        /\ wk[w].pc \in Begun => trace[t].attempts + 1 = runs[t]
        /\ wk[w].pc \notin Begun => trace[t].attempts = runs[t]
        /\ wk[w].pc \in {"prerun_save", "post_save"} =>
              wk[w].held.attempts = trace[t].attempts

Counts(t) ==
    /\ EndsLast(t)
    /\ \A w \in Worker : WorkerCounts(w, t)
    /\ (\A w \in Worker : ~On(w, t)) => trace[t].attempts = runs[t]
    /\ \A i \in Internal :
          internal[i].pc = "finalize_save" /\ internal[i].task = t =>
              internal[i].held.attempts = trace[t].attempts

LEMMA RowOrCreateAttempts ==
    ASSUME NEW row
    PROVE  /\ RowOrCreate(row).attempts = row.attempts
           /\ row # NoRow => RowOrCreate(row) = row
           /\ RowOrCreate(row).state \in Terminal => RowOrCreate(row) = row
BY DEF RowOrCreate, NoRow, NewRow, Terminal

LEMMA SavedAttempts ==
    ASSUME NEW row \in TraceRow \cup {NoRow}, NEW o \in Outcome
    PROVE  /\ RunningRow(row).attempts = row.attempts + 1
           /\ RunningRow(row).state = "running"
           /\ Recorded(row, o).attempts = row.attempts
           /\ Recorded(row, o).state = o
           /\ DeadRow(row).attempts = row.attempts
           /\ DeadRow(row).state = "dead"
BY DEF Recorded, RunningRow, SuccessRow, RetryingRow, FailedRow, DeadRow,
       Outcome, TraceRow, NoRow, TaskState

\* An execution that has not recorded its success finds no frozen row.
LEMMA NotFrozen ==
    ASSUME OneWorker, NEW t \in Task, CopyInv(t), Counts(t),
           NEW w \in Worker, On(w, t), wk[w].pc = "prerun", wk[w].outcome = "none"
    PROVE  trace[t].state \notin Terminal
<1>1. <<"worker", w>> \in Places(t)
  BY PlacesAre DEF Executing, On
<1>2. Alone(t, <<"worker", w>>)
  BY <1>1, CopyAlone
<1>3. settled[t] = {} /\ \A i \in Internal : ~Draining(i, t)
  BY <1>2 DEF Alone, Closed
<1>4. \A v \in Worker : wk[v].pc # "settle"
  BY DEF OneWorker
<1> QED
  BY <1>3, <1>4 DEF Counts, EndsLast, Terminal

\* A step beside the workers of a task.
LEMMA CountsBeside ==
    ASSUME NEW t \in Task, Counts(t),
           trace'[t].attempts = trace[t].attempts, runs'[t] = runs[t],
           trace'[t].state = trace[t].state \/ trace'[t].state \notin Terminal
              \/ (\E i \in Internal : Draining(i, t)' /\ internal'[i].pc = "notify"),
           trace'[t].state = "success" => trace[t].state = "success",
           settled[t] # {} => settled'[t] # {},
           InQueue(t) => InQueue(t)' \/ \A w \in Worker : ~On(w, t),
           \A w \in Worker : On(w, t)' <=> On(w, t),
           \A w \in Worker : On(w, t) => wk'[w] = wk[w],
           \A i \in Internal :
               Draining(i, t) /\ internal[i].pc \in {"notify", "ack"} =>
                  \/ settled'[t] # {}
                  \/ Draining(i, t)' /\ internal'[i].pc \in {"notify", "ack"},
           \A i \in Internal :
               internal'[i].pc = "finalize_save" /\ internal'[i].task = t =>
                  internal'[i].held.attempts = trace'[t].attempts
    PROVE  Counts(t)'
<1>1. EndsLast(t)'
  <2>1. trace'[t].state = "success" =>
            \/ settled'[t] # {}
            \/ \E w \in Worker : /\ On(w, t)' /\ wk'[w].pc = "settle"
                                 /\ wk'[w].outcome = "success"
    BY DEF Counts, EndsLast
  <2>2. trace'[t].state = "dead" =>
            \/ settled'[t] # {}
            \/ \E i \in Internal : Draining(i, t)' /\ internal'[i].pc \in {"notify", "ack"}
    BY DEF Counts, EndsLast, Terminal
  <2> QED
    BY <2>1, <2>2 DEF EndsLast
<1>2. \A w \in Worker : WorkerCounts(w, t)'
  <2> SUFFICES ASSUME NEW w \in Worker, On(w, t)'
               PROVE  WorkerCounts(w, t)'
    BY DEF WorkerCounts
  <2>1. On(w, t) /\ wk'[w] = wk[w] /\ WorkerCounts(w, t)
    BY DEF Counts
  <2> QED
    BY <2>1 DEF WorkerCounts
<1>3. (\A w \in Worker : ~On(w, t)') => trace'[t].attempts = runs'[t]
  BY DEF Counts
<1> QED
  BY <1>1, <1>2, <1>3 DEF Counts

\* What an unchanged variable leaves of the count.
LEMMA BesideUnchanged ==
    ASSUME NEW t \in Task
    PROVE  /\ UNCHANGED wk => /\ \A w \in Worker : On(w, t)' <=> On(w, t)
                              /\ \A w \in Worker : On(w, t) => wk'[w] = wk[w]
           /\ UNCHANGED queue => (InQueue(t) => InQueue(t)')
           /\ UNCHANGED internal =>
                 \A i \in Internal :
                    /\ Draining(i, t)' <=> Draining(i, t)
                    /\ internal'[i] = internal[i]
<1>1. UNCHANGED wk => /\ \A w \in Worker : On(w, t)' <=> On(w, t)
                      /\ \A w \in Worker : On(w, t) => wk'[w] = wk[w]
  BY DEF On
<1>2. UNCHANGED queue => (InQueue(t) => InQueue(t)')
  BY DEF InQueue
<1>3. UNCHANGED internal =>
         \A i \in Internal :
            /\ Draining(i, t)' <=> Draining(i, t)
            /\ internal'[i] = internal[i]
  BY DEF Draining
<1> QED
  BY <1>1, <1>2, <1>3

LEMMA ProducerCounts ==
    ASSUME TypeOK, NEW s \in Task, ProducerStep(s), NEW t \in Task, Counts(t)
    PROVE  Counts(t)'
<1>1. CASE Send(s)
  <2>1. UNCHANGED <<trace, runs, settled, wk, internal>>
    BY <1>1 DEF Send
  <2>2. InQueue(t) => InQueue(t)'
    BY <1>1, MessageType, QueueGrows DEF Send
  <2> QED
    BY <2>1, <2>2, BesideUnchanged, CountsBeside DEF Counts
<1>2. CASE RecordInitial(s)
  <2>1. UNCHANGED <<queue, runs, settled, wk, internal>>
    BY <1>2 DEF RecordInitial
  <2>2. trace'[t] = trace[t] \/ trace'[t] = RowOrCreate(trace[t])
    BY <1>2 DEF RecordInitial, TypeOK
  <2>3. /\ trace'[t].attempts = trace[t].attempts
        /\ trace'[t].state = trace[t].state \/ trace'[t].state \notin Terminal
        /\ trace'[t].state = "success" => trace[t].state = "success"
    BY <2>2, RowOrCreateAttempts DEF Terminal
  <2> QED
    BY <2>1, <2>3, BesideUnchanged, CountsBeside DEF Counts
<1> QED
  BY <1>1, <1>2 DEF ProducerStep

LEMMA DrainCounts ==
    ASSUME TypeOK, BudgetChecked, NEW i \in Internal, DrainStep(i),
           NEW t \in Task, Counts(t)
    PROVE  Counts(t)'
<1>0. UNCHANGED <<queue, runs, wk>>
  BY DEF DrainStep, DlqGet, CountRows, InsertRow, FinalizeFetch, FinalizeSave,
         Notify, Ack
<1>1. \A j \in Internal \ {i} : /\ internal'[j] = internal[j]
                                /\ Draining(j, t)' <=> Draining(j, t)
  BY DEF DrainStep, DlqGet, CountRows, InsertRow, FinalizeFetch, FinalizeSave,
         Notify, Ack, TypeOK, Draining
<1>2. CASE \/ CountRows(i) \/ InsertRow(i) \/ \E s \in Task : DlqGet(i, s)
  <2>1. UNCHANGED <<trace, settled>> /\ internal[i].pc \notin {"notify", "ack"}
    BY <1>2 DEF DlqGet, CountRows, InsertRow
  <2>2. internal'[i].pc # "finalize_save"
    <3>1. CASE \E s \in Task : DlqGet(i, s)
      BY <3>1 DEF DlqGet, TypeOK
    <3>2. CASE CountRows(i) \/ InsertRow(i)
      <4>1. internal[i] \in DrainState
        BY <3>2, Holding DEF CountRows, InsertRow, DrainPC
      <4> QED
        BY <3>2, <4>1 DEF CountRows, InsertRow, DrainState, TypeOK
    <3> QED
      BY <1>2, <3>1, <3>2
  <2> QED
    BY <1>0, <1>1, <2>1, <2>2, BesideUnchanged, CountsBeside DEF Counts
<1>3. CASE FinalizeFetch(i)
  <2>1. internal[i] \in DrainState /\ internal[i].task \in Task /\ internal[i].pc = "finalize"
    BY <1>3, Holding DEF FinalizeFetch, DrainState, DrainPC
  <2>2. PICK s \in Task : s = internal[i].task
    BY <2>1
  <2>3. /\ UNCHANGED settled
        /\ trace' = [trace EXCEPT ![s] = RowOrCreate(trace[s])]
        /\ internal'[i].task = s
        /\ internal'[i].held = RowOrCreate(trace[s])
    BY <1>3, <2>1, <2>2 DEF FinalizeFetch, TypeOK, DrainState
  <2>4. trace'[t] = trace[t] \/ trace'[t] = RowOrCreate(trace[t])
    BY <2>3 DEF TypeOK
  <2>5. /\ trace'[t].attempts = trace[t].attempts
        /\ trace'[t].state = trace[t].state \/ trace'[t].state \notin Terminal
        /\ trace'[t].state = "success" => trace[t].state = "success"
    BY <2>4, RowOrCreateAttempts DEF Terminal
  <2>6. internal'[i].task = t => internal'[i].held.attempts = trace[t].attempts
    BY <2>3, RowOrCreateAttempts
  <2> QED
    BY <1>0, <1>1, <2>1, <2>3, <2>5, <2>6, BesideUnchanged, CountsBeside DEF Counts
<1>4. CASE FinalizeSave(i)
  <2>1. internal[i] \in DrainState /\ internal[i].task \in Task /\ internal[i].pc = "finalize_save"
    BY <1>4, Holding DEF FinalizeSave, DrainState, DrainPC
  <2>2. PICK s \in Task : s = internal[i].task
    BY <2>1
  <2>3. /\ UNCHANGED settled
        /\ trace' = [trace EXCEPT ![s] = DeadRow(internal[i].held)]
        /\ internal'[i].task = s /\ internal'[i].pc = "notify"
    BY <1>4, <2>1, <2>2 DEF FinalizeSave, TypeOK, DrainState
  <2>4. /\ DeadRow(internal[i].held).attempts = internal[i].held.attempts
        /\ DeadRow(internal[i].held).state = "dead"
    BY <2>1, SavedAttempts DEF DrainState, Outcome
  <2>5. CASE s # t
    <3>1. trace'[t] = trace[t]
      BY <2>3, <2>5 DEF TypeOK
    <3> QED
      BY <1>0, <1>1, <2>1, <2>3, <3>1, BesideUnchanged, CountsBeside DEF Counts
  <2>6. CASE s = t
    <3>1. /\ trace'[t].attempts = trace[t].attempts
          /\ trace'[t].state = "dead"
      BY <2>1, <2>2, <2>3, <2>4, <2>6 DEF Counts, TypeOK
    <3>2. Draining(i, t)'
      BY <2>3, <2>6 DEF Draining, DrainPC
    <3> QED
      BY <1>0, <1>1, <2>1, <2>3, <3>1, <3>2, BesideUnchanged, CountsBeside DEF Counts
  <2> QED
    BY <2>5, <2>6
<1>5. CASE Notify(i)
  <2>1. internal[i] \in DrainState /\ internal[i].pc = "notify"
    BY <1>5, Holding DEF Notify, DrainState, DrainPC
  <2>2. /\ UNCHANGED <<trace, settled>>
        /\ internal'[i].pc = "ack" /\ internal'[i].task = internal[i].task
        /\ internal'[i].no > Budget
    BY <1>5, <2>1 DEF Notify, TypeOK, DrainState, BudgetChecked
  <2>3. Draining(i, t) => Draining(i, t)'
    BY <2>2 DEF Draining, DrainPC
  <2> QED
    BY <1>0, <1>1, <2>2, <2>3, BesideUnchanged, CountsBeside DEF Counts
<1>6. CASE Ack(i)
  <2>1. internal[i] \in DrainState /\ internal[i].pc = "ack" /\ internal[i].task \in Task
    BY <1>6, Holding DEF Ack, DrainState, DrainPC
  <2>2. /\ UNCHANGED trace /\ internal'[i].pc = "idle"
        /\ settled[t] # {} => settled'[t] # {}
    BY <1>6 DEF Ack, TypeOK, Free
  <2>3. Draining(i, t) => settled'[t] # {}
    <3>1. Draining(i, t) => internal[i].task = t /\ ~InBudget(internal[i].no)
      BY <2>1, BudgetAssumption DEF Draining, InBudget, DrainState
    <3> QED
      BY <1>6, <3>1 DEF Ack, TypeOK
  <2> QED
    BY <1>0, <1>1, <2>2, <2>3, BesideUnchanged, CountsBeside DEF Counts
<1> QED
  BY <1>2, <1>3, <1>4, <1>5, <1>6 DEF DrainStep

LEMMA DispatchCounts ==
    ASSUME TypeOK, NEW i \in Internal, DispatchStep(i), NEW t \in Task, Counts(t)
    PROVE  Counts(t)'
<1>1. UNCHANGED <<trace, runs, wk, settled>>
  BY DEF DispatchStep, SelectDue, SendDue, CommitDue
<1>2. /\ internal[i].pc \in {"idle", "send"}
      /\ \A j \in Internal \ {i} : internal'[j] = internal[j]
  BY DEF DispatchStep, SelectDue, SendDue, CommitDue, TypeOK
<1>3. internal'[i].pc \in {"idle", "send"}
  <2>1. CASE SelectDue(i) \/ CommitDue(i)
    BY <2>1 DEF SelectDue, CommitDue, TypeOK, Free
  <2>2. ASSUME NEW r \in LockedBy(i), SendDue(i, r)
        PROVE  internal'[i].pc \in {"idle", "send"}
    <3>1. internal[i] \in DispatchState
      BY <2>2, Holding DEF SendDue
    <3> QED
      BY <2>2, <3>1 DEF SendDue, DispatchState, TypeOK
  <2> QED
    BY <2>1, <2>2 DEF DispatchStep
<1>4. \A j \in Internal : Draining(j, t) => Draining(j, t)' /\ internal'[j] = internal[j]
  BY <1>2 DEF Draining, DrainPC
<1>5. InQueue(t) => InQueue(t)'
  <2>1. CASE SelectDue(i) \/ CommitDue(i)
    BY <2>1, BesideUnchanged DEF SelectDue, CommitDue
  <2>2. ASSUME NEW r \in LockedBy(i), SendDue(i, r)
        PROVE  InQueue(t) => InQueue(t)'
    <3>1. internal[i] \in DispatchState /\ r \in RowKey /\ r[1] \in Task
      BY <2>2, Holding DEF SendDue, DispatchState, RowKey
    <3> QED
      BY <2>2, <3>1, MessageType, QueueGrows DEF SendDue
  <2> QED
    BY <2>1, <2>2 DEF DispatchStep
<1> QED
  BY <1>1, <1>2, <1>3, <1>4, <1>5, BesideUnchanged, CountsBeside DEF Counts

LEMMA ClockCounts ==
    ASSUME Clock \/ UNCHANGED vars, NEW t \in Task, Counts(t)
    PROVE  Counts(t)'
<1>1. UNCHANGED <<trace, runs, wk, settled, queue, internal>>
  BY DEF Clock, BecomesDue, vars
<1> QED
  BY <1>1, BesideUnchanged, CountsBeside DEF Counts

\* The steps of the worker child beside the tasks it does not execute.
LEMMA WorkerBeside ==
    ASSUME OneWorker, TypeOK, NEW w \in Worker, WorkerStep(w), NEW t \in Task,
           Counts(t), wk[w].pc # "idle", wk[w].msg.task # t
    PROVE  Counts(t)'
<1>0. wk[w] \in BusyWorker /\ wk[w].msg.task \in Task /\ ~On(w, t)
  BY Holding, MessageType DEF BusyWorker, On
<1>1. UNCHANGED <<runs, internal>>
  BY DEF WorkerStep, Deliver, PrerunFetch, PrerunSave, BodySucceeds,
         BodyRetries, BodyFails, PostFetch, PostSave, Settle
<1>2. trace'[t] = trace[t] /\ settled'[t] = settled[t]
  BY <1>0 DEF WorkerStep, Deliver, PrerunFetch, PrerunSave, BodySucceeds,
         BodyRetries, BodyFails, PostFetch, PostSave, Settle, TypeOK
<1>3. wk'[w].pc = "idle" \/ wk'[w].msg = wk[w].msg
  <2>1. CASE \/ PrerunFetch(w) \/ PrerunSave(w) \/ BodySucceeds(w) \/ BodyRetries(w)
             \/ BodyFails(w)
    BY <1>0, <2>1 DEF PrerunFetch, PrerunSave, BodySucceeds, BodyRetries,
       BodyFails, TypeOK, BusyWorker
  <2>2. CASE PostFetch(w) \/ PostSave(w)
    BY <1>0, <2>2 DEF PostFetch, PostSave, TypeOK, BusyWorker
  <2>3. CASE Settle(w)
    BY <2>3 DEF Settle, TypeOK, Free
  <2> QED
    BY <2>1, <2>2, <2>3 DEF WorkerStep, Deliver
<1>4. \A v \in Worker : ~On(v, t) /\ ~On(v, t)'
  BY <1>0, <1>3 DEF OneWorker, On
<1> QED
  BY <1>1, <1>2, <1>4, BesideUnchanged, CountsBeside DEF Counts

LEMMA DeliverCounts ==
    ASSUME OneWorker, TypeOK, NEW w \in Worker, NEW m \in Message, Deliver(w, m),
           NEW t \in Task, Counts(t)
    PROVE  Counts(t)'
<1>1. /\ UNCHANGED <<trace, settled, internal>>
      /\ wk[w].pc = "idle" /\ m.task \in Task
      /\ wk'[w] = [pc |-> "prerun", msg |-> m, held |-> NoRow, outcome |-> "none"]
      /\ runs' = [runs EXCEPT ![m.task] = runs[m.task] + 1] /\ runs \in [Task -> Nat]
  BY MessageType DEF Deliver, TypeOK
<1>2. \A v \in Worker : v = w /\ ~On(v, t)
  BY <1>1 DEF OneWorker, On
<1>3. CASE m.task # t
  <2>1. \A v \in Worker : ~On(v, t)'
    BY <1>1, <1>2, <1>3 DEF On
  <2>2. runs'[t] = runs[t]
    BY <1>1, <1>3
  <2> QED
    BY <1>1, <1>2, <2>1, <2>2, BesideUnchanged, CountsBeside DEF Counts
<1>4. CASE m.task = t
  <2>1. trace[t].attempts = runs[t] /\ runs'[t] = runs[t] + 1
    BY <1>1, <1>2, <1>4 DEF Counts
  <2>2. EndsLast(t)'
    <3>1. EndsLast(t)
      BY DEF Counts
    <3>2. ~ \E v \in Worker : On(v, t) /\ wk[v].pc = "settle" /\ wk[v].outcome = "success"
      BY <1>2
    <3> QED
      BY <1>1, <3>1, <3>2 DEF EndsLast, Draining
  <2>3. \A v \in Worker : WorkerCounts(v, t)'
    BY <1>1, <1>2, <2>1 DEF WorkerCounts, Begun
  <2>4. On(w, t)'
    BY <1>1, <1>4 DEF On
  <2>5. \A i \in Internal :
           internal'[i].pc = "finalize_save" /\ internal'[i].task = t =>
               internal'[i].held.attempts = trace'[t].attempts
    BY <1>1 DEF Counts
  <2> QED
    BY <2>2, <2>3, <2>4, <2>5 DEF Counts
<1> QED
  BY <1>3, <1>4

\* A step of the worker that executes t, from what it leaves to be shown.
LEMMA CountsOwn ==
    ASSUME OneWorker, NEW w \in Worker, NEW t \in Task, Counts(t),
           UNCHANGED <<internal, runs, settled>>,
           On(w, t), On(w, t)',
           wk[w].outcome = "success" => wk[w].pc # "settle",
           trace'[t].state = trace[t].state \/ trace'[t].state \notin Terminal
              \/ /\ trace'[t].state = "success"
                 /\ wk'[w].pc = "settle" /\ wk'[w].outcome = "success",
           WorkerCounts(w, t)',
           trace'[t].attempts = trace[t].attempts
              \/ \A i \in Internal : ~Draining(i, t)
    PROVE  Counts(t)'
<1>1. EndsLast(t)'
  <2>1. EndsLast(t)
    BY DEF Counts
  <2>2. trace[t].state = "success" => settled[t] # {}
    BY <2>1 DEF EndsLast, OneWorker
  <2>3. \A i \in Internal : Draining(i, t)' <=> Draining(i, t)
    BY DEF Draining
  <2> QED
    BY <2>1, <2>2, <2>3 DEF EndsLast, Terminal
<1>2. \A v \in Worker : WorkerCounts(v, t)'
  BY DEF OneWorker
<1>3. \A i \in Internal :
         internal'[i].pc = "finalize_save" /\ internal'[i].task = t =>
             internal'[i].held.attempts = trace'[t].attempts
  BY DEF Counts, Draining, DrainPC
<1> QED
  BY <1>1, <1>2, <1>3 DEF Counts

LEMMA PrerunCounts ==
    ASSUME OneWorker, TypeOK, NEW w \in Worker, PrerunFetch(w) \/ PrerunSave(w),
           NEW t \in Task, Counts(t), CopyInv(t), wk[w].msg.task = t
    PROVE  Counts(t)'
<1>0. /\ wk[w] \in BusyWorker /\ On(w, t) /\ wk[w].outcome = "none"
      /\ wk[w].pc \in Begun /\ WorkerCounts(w, t)
      /\ UNCHANGED <<internal, runs, settled>>
  BY Holding DEF PrerunFetch, PrerunSave, BusyWorker, LatePC, On, Begun, Counts
<1>1. CASE PrerunFetch(w)
  <2>1. /\ trace'[t] = RowOrCreate(trace[t])
        /\ wk'[w].held = RowOrCreate(trace[t])
        /\ wk'[w].pc = IF Frozen(RowOrCreate(trace[t]), "running") THEN "body"
                       ELSE "prerun_save"
        /\ wk'[w].msg = wk[w].msg /\ wk'[w].outcome = "none"
    BY <1>0, <1>1 DEF PrerunFetch, TypeOK, BusyWorker
  <2>2. trace[t].state \notin Terminal
    BY <1>0, <1>1, NotFrozen DEF PrerunFetch
  <2>3. /\ trace'[t].attempts = trace[t].attempts
        /\ trace'[t].state \notin Terminal
    BY <2>1, <2>2, RowOrCreateAttempts
  <2>4. wk'[w].pc = "prerun_save"
    BY <2>1, <2>3 DEF Frozen, Terminal
  <2>5. WorkerCounts(w, t)' /\ On(w, t)'
    BY <1>0, <2>1, <2>3, <2>4 DEF WorkerCounts, Begun, On
  <2> QED
    BY <1>0, <2>3, <2>5, CountsOwn
<1>2. CASE PrerunSave(w)
  <2>1. /\ trace'[t] = RunningRow(wk[w].held)
        /\ wk'[w].pc = "body" /\ wk'[w].msg = wk[w].msg /\ wk'[w].outcome = "none"
    BY <1>0, <1>2 DEF PrerunSave, TypeOK, BusyWorker
  <2>2. /\ trace'[t].attempts = wk[w].held.attempts + 1
        /\ trace'[t].state = "running"
    BY <2>1 DEF RunningRow
  <2>3. /\ wk[w].held.attempts = trace[t].attempts
        /\ trace[t].attempts + 1 = runs[t]
    BY <1>0, <1>2 DEF WorkerCounts, PrerunSave
  <2>4. WorkerCounts(w, t)' /\ On(w, t)'
    BY <1>0, <2>1, <2>2, <2>3 DEF WorkerCounts, Begun, On
  <2>5. \A i \in Internal : ~Draining(i, t)
    <3>1. <<"worker", w>> \in Places(t)
      BY <1>0, PlacesAre DEF Executing, On
    <3> QED
      BY <3>1, CopyAlone DEF Alone
  <2> QED
    BY <1>0, <2>2, <2>4, <2>5, CountsOwn DEF Terminal
<1> QED
  BY <1>1, <1>2

LEMMA BodyCounts ==
    ASSUME OneWorker, TypeOK, NEW w \in Worker,
           BodySucceeds(w) \/ BodyRetries(w) \/ BodyFails(w),
           NEW t \in Task, Counts(t), wk[w].msg.task = t
    PROVE  Counts(t)'
<1>0. /\ wk[w] \in BusyWorker /\ On(w, t) /\ wk[w].pc = "body" /\ WorkerCounts(w, t)
      /\ UNCHANGED <<trace, internal, runs, settled>>
  BY Holding DEF BodySucceeds, BodyRetries, BodyFails, On, Counts
<1>1. /\ wk'[w].pc = "post" /\ wk'[w].msg = wk[w].msg
      /\ wk'[w].outcome = "retrying" => BodyRetries(w)
  <2>1. CASE BodySucceeds(w)
    <3>1. wk' = [wk EXCEPT ![w].pc = "post", ![w].outcome = "success"]
      BY <2>1 DEF BodySucceeds
    <3> QED
      BY <1>0, <3>1 DEF TypeOK, BusyWorker
  <2>2. CASE BodyRetries(w)
    <3>1. wk' = [wk EXCEPT ![w].pc = "post", ![w].outcome = "retrying"]
      BY <2>2 DEF BodyRetries
    <3> QED
      BY <1>0, <2>2, <3>1 DEF TypeOK, BusyWorker
  <2>3. CASE BodyFails(w)
    <3>1. wk' = [wk EXCEPT ![w].pc = "post", ![w].outcome = "failed"]
      BY <2>3 DEF BodyFails
    <3> QED
      BY <1>0, <3>1 DEF TypeOK, BusyWorker
  <2> QED
    BY <2>1, <2>2, <2>3
<1>2. BodyRetries(w) => InQueue(t)'
  <2>1. wk[w].msg \in Message
    BY <1>0 DEF BusyWorker
  <2> QED
    BY <2>1, MessageType, QueueGrows DEF BodyRetries
<1>3. WorkerCounts(w, t)' /\ On(w, t)'
  BY <1>0, <1>1, <1>2 DEF WorkerCounts, Begun, On
<1> QED
  BY <1>0, <1>3, CountsOwn

LEMMA PostCounts ==
    ASSUME OneWorker, TypeOK, NEW w \in Worker, PostFetch(w) \/ PostSave(w),
           NEW t \in Task, Counts(t), wk[w].msg.task = t
    PROVE  Counts(t)'
<1>0. /\ wk[w] \in BusyWorker /\ On(w, t) /\ wk[w].outcome \in Outcome
      /\ wk[w].pc \in {"post", "post_save"} /\ WorkerCounts(w, t)
      /\ UNCHANGED <<queue, internal, runs, settled>>
  BY Holding DEF PostFetch, PostSave, BusyWorker, EarlyPC, On, Counts
<1>a. InQueue(t) => InQueue(t)'
  BY <1>0, BesideUnchanged
<1>1. CASE PostFetch(w)
  <2>1. /\ trace'[t] = RowOrCreate(trace[t])
        /\ wk'[w].held = RowOrCreate(trace[t])
        /\ wk'[w].pc \in {"settle", "post_save"}
        /\ wk'[w].msg = wk[w].msg /\ wk'[w].outcome = wk[w].outcome
    BY <1>0, <1>1 DEF PostFetch, TypeOK, BusyWorker
  <2>2. /\ trace'[t].attempts = trace[t].attempts
        /\ trace'[t].state = trace[t].state \/ trace'[t].state \notin Terminal
    BY <2>1, RowOrCreateAttempts
  <2>3. WorkerCounts(w, t)' /\ On(w, t)'
    BY <1>0, <1>a, <2>1, <2>2 DEF WorkerCounts, Begun, On
  <2> QED
    BY <1>0, <2>2, <2>3, CountsOwn
<1>2. CASE PostSave(w)
  <2>1. /\ trace'[t] = Recorded(wk[w].held, wk[w].outcome)
        /\ wk'[w].pc = "settle" /\ wk'[w].msg = wk[w].msg
        /\ wk'[w].outcome = wk[w].outcome
    BY <1>0, <1>2 DEF PostSave, TypeOK, BusyWorker
  <2>2. /\ trace'[t].attempts = wk[w].held.attempts
        /\ trace'[t].state = wk[w].outcome
    BY <1>0, <2>1, SavedAttempts DEF BusyWorker
  <2>3. wk[w].held.attempts = trace[t].attempts
    BY <1>0, <1>2 DEF WorkerCounts, PostSave
  <2>4. WorkerCounts(w, t)' /\ On(w, t)'
    BY <1>0, <1>a, <2>1, <2>2, <2>3 DEF WorkerCounts, Begun, On
  <2>5. \/ trace'[t].state \notin Terminal
        \/ /\ trace'[t].state = "success"
           /\ wk'[w].pc = "settle" /\ wk'[w].outcome = "success"
    BY <1>0, <2>1, <2>2 DEF Terminal, Outcome
  <2> QED
    BY <1>0, <2>2, <2>3, <2>4, <2>5, CountsOwn
<1> QED
  BY <1>1, <1>2

LEMMA SettleCounts ==
    ASSUME OneWorker, TypeOK, NEW w \in Worker, Settle(w),
           NEW t \in Task, Counts(t), wk[w].msg.task = t
    PROVE  Counts(t)'
<1>1. /\ wk[w].pc = "settle" /\ wk'[w].pc = "idle"
      /\ UNCHANGED <<trace, internal, runs>>
      /\ settled[t] # {} => settled'[t] # {}
      /\ wk[w].outcome = "success" => settled'[t] # {}
  BY DEF Settle, TypeOK, Free
<1>2. \A v \in Worker : ~On(v, t)'
  BY <1>1 DEF OneWorker, On
<1>3. trace[t].attempts = runs[t]
  BY <1>1 DEF Counts, WorkerCounts, On, Begun
<1>4. EndsLast(t)'
  <2>1. EndsLast(t)
    BY DEF Counts
  <2>2. trace[t].state = "success" => settled'[t] # {}
    BY <1>1, <2>1 DEF EndsLast, OneWorker
  <2>3. \A i \in Internal : Draining(i, t)' <=> Draining(i, t)
    BY <1>1 DEF Draining
  <2> QED
    BY <1>1, <2>1, <2>2, <2>3 DEF EndsLast
<1>5. \A v \in Worker : WorkerCounts(v, t)'
  BY <1>2 DEF WorkerCounts
<1>6. \A i \in Internal :
         internal'[i].pc = "finalize_save" /\ internal'[i].task = t =>
             internal'[i].held.attempts = trace'[t].attempts
  BY <1>1 DEF Counts
<1> QED
  BY <1>1, <1>2, <1>3, <1>4, <1>5, <1>6 DEF Counts

CountsInv == CensusInv /\ (faults = 0 => \A t \in Task : Counts(t))

LEMMA CountsNext ==
    ASSUME OneWorker, CountsInv, [Next]_vars
    PROVE  CountsInv'
<1>1. CensusInv'
  BY CensusNext DEF CountsInv
<1>2. ASSUME faults' = 0, NEW t \in Task
      PROVE  Counts(t)'
  <2>1. TypeOK /\ BudgetChecked /\ faults \in Nat
    BY DEF CountsInv, CensusInv, LostInv, TypeOK
  <2>2. faults = 0 /\ ~(faults' = faults + 1)
    BY <1>2, <2>1, FaultsGrow
  <2>3. ~FaultStep
    BY <2>2 DEF FaultStep, ProducerDies, HookFails, Crash, DrainFails, DrainAborts, DrainDrops, BrokerDrops,
         Discard,
                DispatchAborts, SendFails, Fault
  <2>4. Counts(t) /\ CopyInv(t)
    BY <2>2 DEF CountsInv, CensusInv, FaultFreeInv
  <2>5. ASSUME NEW s \in Task, ProducerStep(s)
        PROVE  Counts(t)'
    BY <2>1, <2>4, <2>5, ProducerCounts
  <2>6. ASSUME NEW w \in Worker, WorkerStep(w)
        PROVE  Counts(t)'
    <3>1. CASE wk[w].pc = "idle"
      <4>1. \E m \in Message : Deliver(w, m)
        BY <2>6, <3>1 DEF WorkerStep, PrerunFetch, PrerunSave, BodySucceeds,
           BodyRetries, BodyFails, PostFetch, PostSave, Settle
      <4> QED
        BY <2>1, <2>4, <4>1, DeliverCounts
    <3>2. CASE wk[w].pc # "idle" /\ wk[w].msg.task # t
      BY <2>1, <2>4, <2>6, <3>2, WorkerBeside
    <3>3. CASE wk[w].pc # "idle" /\ wk[w].msg.task = t
      <4>1. ~ \E m \in Message : Deliver(w, m)
        BY <3>3 DEF Deliver
      <4> QED
        BY <2>1, <2>4, <2>6, <3>3, <4>1, PrerunCounts, BodyCounts, PostCounts,
           SettleCounts DEF WorkerStep
    <3> QED
      BY <3>1, <3>2, <3>3
  <2>7. ASSUME NEW i \in Internal, DrainStep(i)
        PROVE  Counts(t)'
    BY <2>1, <2>4, <2>7, DrainCounts
  <2>8. ASSUME NEW i \in Internal, DispatchStep(i)
        PROVE  Counts(t)'
    BY <2>1, <2>4, <2>8, DispatchCounts
  <2>9. CASE Clock \/ UNCHANGED vars
    BY <2>4, <2>9, ClockCounts
  <2> QED
    BY <2>3, <2>5, <2>6, <2>7, <2>8, <2>9 DEF Next
<1> QED
  BY <1>1, <1>2 DEF CountsInv

LEMMA CountsInit == Init => CountsInv
<1> SUFFICES ASSUME Init, NEW t \in Task
             PROVE  CensusInv /\ Counts(t)
  BY CensusInit DEF CountsInv
<1>1. /\ \A w \in Worker : ~On(w, t)
      /\ trace[t] = NoRow /\ runs[t] = 0
      /\ \A i \in Internal : internal[i].pc = "idle"
  BY DEF Init, Free, On
<1> QED
  BY <1>1, CensusInit DEF Counts, EndsLast, WorkerCounts, NoRow

\* Without a fault and with one worker child, the attempts column counts the
\* executions of a task between two of them: no stale save loses an increment
\* and no retry or redelivery is counted twice.
THEOREM AttemptsCounted ==
    ASSUME OneWorker
    PROVE  Spec => []AttemptsMatchRuns
<1>1. Init => CountsInv
  BY CountsInit
<1>2. CountsInv /\ [Next]_vars => CountsInv'
  BY CountsNext
<1>3. CountsInv => AttemptsMatchRuns
  BY DEF CountsInv, Counts, AttemptsMatchRuns, On
<1> QED
  BY <1>1, <1>2, <1>3, PTL DEF Spec
=============================================================================
