------------------------------ MODULE BlobStore ------------------------------
(***************************************************************************)
(* The blob store of blobs/: the facade of service.py and the two tracked   *)
(* creators of models.py, called by several clients at once.  Every call is *)
(* one transaction, and every statement of it is an action.                 *)
(*                                                                          *)
(* The database is PostgreSQL at READ COMMITTED, modelled from how this     *)
(* code uses it: a statement sees what is committed and what its own        *)
(* transaction wrote; writing a row locks it until the transaction ends;    *)
(* an INSERT waits for whoever is writing a row with the same unique key;   *)
(* foreign keys are DEFERRABLE INITIALLY DEFERRED, as Django creates them,  *)
(* so that they are checked by the COMMIT; a cycle of waiting transactions  *)
(* costs one of them its transaction.                                       *)
(***************************************************************************)
EXTENDS Naturals, FiniteSets

CONSTANTS
    Key,        \* contents, which their sha256 keys identify
    Object,     \* business objects that refer to blobs
    Field,      \* fields of a business object
    Client,     \* concurrent callers
    Nobody,     \* no client
    Op,         \* the calls the clients make
    MaxBlob,    \* bound: blob rows that exist or are remembered at once
    MaxRef      \* bound: reference rows that exist or are remembered at once

Creating == {"put", "put_and_attach", "tracked"}
Call == Creating \cup {"attach", "release", "discard", "purge"}

ASSUME NobodyAssumption == Nobody \notin Client
ASSUME OpAssumption == Op \subseteq Call
ASSUME BoundAssumption == MaxBlob \in Nat /\ MaxRef \in Nat

VARIABLES
    blobs,      \* the Blob table
    refs,       \* the BlobReference table
    tx          \* what each client is doing

vars == <<blobs, refs, tx>>

-----------------------------------------------------------------------------
(* Rows: the committed version, the version its writer has written, and the *)
(* writer, whose lock keeps other writers out.                              *)

BlobId == 1 .. MaxBlob
RefId == 1 .. MaxRef
Target == Object \X Field

Gone == [is |-> "gone"]
Blob == [is : {"blob"}, key : Key, count : Nat]
Reference == [is : {"ref"}, target : Target, blob : BlobId]

Versions(R) == [com : R \cup {Gone}, new : R \cup {Gone},
                by : Client \cup {Nobody}]
Stable(v) == [com |-> v, new |-> v, by |-> Nobody]

PC == {"idle", "put_read", "put_insert", "put_reread", "attach_read",
       "attach_ref", "count_up", "insert_ref", "attach_reread",
       "attach_winner", "delete_ref", "count_down", "zero", "purge_read",
       "discard_read", "discard_protect", "discard_delete", "commit"}

\* A client remembers the blob and the reference it read: 0 stands for none.
Idle == [pc |-> "idle", op |-> "none", key |-> Nobody, target |-> Nobody,
         blob |-> 0, ref |-> 0]
Transaction == [pc : PC, op : Op \cup {"none"}, key : Key \cup {Nobody},
                target : Target \cup {Nobody}, blob : 0 .. MaxBlob,
                ref : 0 .. MaxRef]

TypeOK ==
    /\ blobs \in [BlobId -> Versions(Blob)]
    /\ refs \in [RefId -> Versions(Reference)]
    /\ tx \in [Client -> Transaction]

Sees(c, row) == IF row.by = c THEN row.new ELSE row.com
Free(c, row) == row.by \in {c, Nobody}
Write(c, row, v) == [com |-> row.com, new |-> v, by |-> c]

\* The rows a SELECT of c returns.
BlobsOf(c, k) ==
    {b \in BlobId : Sees(c, blobs[b]) # Gone /\ Sees(c, blobs[b]).key = k}
RefsOf(c, b) ==
    {r \in RefId : Sees(c, refs[r]) # Gone /\ Sees(c, refs[r]).blob = b}
RefsAt(c, b, t) == {r \in RefsOf(c, b) : Sees(c, refs[r]).target = t}

\* Mutant of RefsFrom: the filter on the object is forgotten.
RefsFromAny(c, o) == {r \in RefId : Sees(c, refs[r]) # Gone}

RefsFrom(c, o) ==
    {r \in RefId : Sees(c, refs[r]) # Gone /\ Sees(c, refs[r]).target[1] = o}

\* Primary keys come from a sequence.  One that no row and no client knows
\* any more is as good as a new one, which keeps the model finite: the least
\* of them is taken, while there is one within MaxBlob and MaxRef.
Forgotten(b) ==
    /\ blobs[b] = Stable(Gone)
    /\ \A c \in Client : tx[c].blob # b
    /\ \A r \in RefId : \A v \in {refs[r].com, refs[r].new} :
          v # Gone => v.blob # b
Unknown(r) == refs[r] = Stable(Gone) /\ \A c \in Client : tx[c].ref # r
Least(S) == {i \in S : \A j \in S : i <= j}
NewBlobId == Least({b \in BlobId : Forgotten(b)})
NewRefId == Least({r \in RefId : Unknown(r)})

-----------------------------------------------------------------------------
(* Who a client waits for                                                   *)

\* Writers of rows that hold, or held, the key an INSERT is about to use.
KeyWriters(c, k) ==
    {d \in Client \ {c} : \E b \in BlobId :
        /\ blobs[b].by = d
        /\ \E v \in {blobs[b].com, blobs[b].new} : v # Gone /\ v.key = k}
RefWriters(c, b, t) ==
    {d \in Client \ {c} : \E r \in RefId :
        /\ refs[r].by = d
        /\ \E v \in {refs[r].com, refs[r].new} :
              v # Gone /\ v.blob = b /\ v.target = t}
Locker(c, row) == IF row.com # Gone /\ ~Free(c, row) THEN {row.by} ELSE {}

\* Rows that the deferred checks of c's COMMIT look at.
Inserted(c) == {r \in RefId : refs[r].by = c /\ refs[r].new # Gone}
Deleted(c) ==
    {b \in BlobId : blobs[b].by = c /\ blobs[b].com # Gone /\ blobs[b].new = Gone}
\* A foreign key check waits for the deletion of the row it needs, and for
\* the deletion of the row that is in its way.
Deleters(c) ==
    {d \in Client \ {c} :
        \/ \E r \in Inserted(c) : LET row == blobs[refs[r].new.blob]
                                  IN  row.by = d /\ row.com # Gone /\ row.new = Gone
        \/ \E r \in RefId : /\ refs[r].by = d /\ refs[r].com # Gone
                            /\ refs[r].com.blob \in Deleted(c)}

Blockers(c) ==
    LET x == tx[c]
    IN  CASE x.pc = "put_insert" -> KeyWriters(c, x.key)
          [] x.pc = "insert_ref" -> RefWriters(c, x.blob, x.target)
          [] x.pc = "delete_ref" -> Locker(c, refs[x.ref])
          [] x.pc \in {"count_up", "count_down", "discard_delete"} ->
                 Locker(c, blobs[x.blob])
          [] x.pc = "commit" -> Deleters(c)
          [] OTHER -> {}

\* c waits for itself through others: a permutation of clients of which each
\* waits for the next.
InCycle(c) ==
    \E S \in SUBSET Client : c \in S /\
        \E next \in [S -> S] :
            /\ \A d \in S : next[d] \in Blockers(d)
            /\ \A d, e \in S : next[d] = next[e] => d = e

-----------------------------------------------------------------------------
(* Transactions                                                             *)

At(c, pc) == tx[c].pc = pc /\ Blockers(c) = {}
Goto(c, pc) == tx' = [tx EXCEPT ![c].pc = pc]
GotoWith(c, pc, b) == tx' = [tx EXCEPT ![c].pc = pc, ![c].blob = b]

Committed(c, row) == IF row.by = c THEN Stable(row.new) ELSE row
RolledBack(c, row) == IF row.by = c THEN Stable(row.com) ELSE row

\* An exception leaves async_atomic, which rolls everything back.
Raise(c) ==
    /\ blobs' = [b \in BlobId |-> RolledBack(c, blobs[b])]
    /\ refs' = [r \in RefId |-> RolledBack(c, refs[r])]
    /\ tx' = [tx EXCEPT ![c] = Idle]

\* The deferred foreign keys hold for what c is about to commit.
KeysHold(c) ==
    /\ \A r \in Inserted(c) : Sees(c, blobs[refs[r].new.blob]) # Gone
    /\ \A b \in Deleted(c) : RefsOf(c, b) = {}

Commit(c) ==
    /\ At(c, "commit")
    /\ IF KeysHold(c)
       THEN /\ blobs' = [b \in BlobId |-> Committed(c, blobs[b])]
            /\ refs' = [r \in RefId |-> Committed(c, refs[r])]
            /\ tx' = [tx EXCEPT ![c] = Idle]
       ELSE Raise(c)

\* A caller that is cancelled or dies, and the victim of a deadlock.
Dies(c) == tx[c].pc # "idle" /\ Raise(c)
DeadlockAborts(c) == InCycle(c) /\ Raise(c)

-----------------------------------------------------------------------------
(* Calls                                                                    *)

Begin(c) ==
    /\ tx[c] = Idle
    /\ \E op \in Op :
         \/ \E k \in Key, t \in Target :
              /\ op \in {"attach", "put_and_attach", "tracked"}
              /\ tx' = [tx EXCEPT ![c] = [Idle EXCEPT !.op = op, !.key = k,
                            !.target = t,
                            !.pc = IF op = "attach" THEN "attach_read" ELSE "put_read"]]
         \/ \E k \in Key :
              /\ op \in {"put", "discard"}
              /\ tx' = [tx EXCEPT ![c] = [Idle EXCEPT !.op = op, !.key = k,
                            !.pc = IF op = "put" THEN "put_read" ELSE "discard_read"]]
         \* release is given a reference the caller has read at some time
         \/ \E r \in RefId :
              /\ op = "release"
              /\ refs[r].com # Gone
              /\ tx' = [tx EXCEPT ![c] = [Idle EXCEPT !.op = op, !.ref = r,
                            !.blob = refs[r].com.blob, !.pc = "delete_ref"]]
         \/ \E t \in Target :
              /\ op = "purge"
              /\ tx' = [tx EXCEPT ![c] = [Idle EXCEPT !.op = op, !.target = t,
                            !.pc = "purge_read"]]
    /\ UNCHANGED <<blobs, refs>>

-----------------------------------------------------------------------------
(* Blob.acreate_from_content                                                *)

\* What comes after it: attach goes back to the key, the model path of the
\* README goes on with the row, put is done.
AfterPut(op) ==
    CASE op = "put" -> "commit"
      [] op = "put_and_attach" -> "attach_read"
      [] op = "tracked" -> "count_up"

PutRead(c) ==
    /\ At(c, "put_read")
    /\ \/ \E b \in BlobsOf(c, tx[c].key) : GotoWith(c, AfterPut(tx[c].op), b)
       \/ BlobsOf(c, tx[c].key) = {} /\ Goto(c, "put_insert")
    /\ UNCHANGED <<blobs, refs>>

\* The INSERT in its savepoint; a unique violation undoes nothing else.
PutInsert(c) ==
    /\ At(c, "put_insert")
    /\ \/ /\ BlobsOf(c, tx[c].key) = {}
          /\ \E b \in NewBlobId :
                /\ blobs' = [blobs EXCEPT ![b] =
                       Write(c, @, [is |-> "blob", key |-> tx[c].key, count |-> 0])]
                /\ GotoWith(c, AfterPut(tx[c].op), b)
       \/ /\ BlobsOf(c, tx[c].key) # {}
          /\ Goto(c, "put_reread")
          /\ UNCHANGED blobs
    /\ UNCHANGED refs

\* The winner of the race, unless it is gone again: then the error is raised.
PutReread(c) ==
    /\ At(c, "put_reread")
    /\ \/ /\ \E b \in BlobsOf(c, tx[c].key) : GotoWith(c, AfterPut(tx[c].op), b)
          /\ UNCHANGED <<blobs, refs>>
       \/ BlobsOf(c, tx[c].key) = {} /\ Raise(c)

-----------------------------------------------------------------------------
(* BlobService._attach_in_transaction and BlobReference.acreate_tracked     *)

AttachRead(c) ==
    /\ At(c, "attach_read")
    /\ \/ /\ \E b \in BlobsOf(c, tx[c].key) : GotoWith(c, "attach_ref", b)
          /\ UNCHANGED <<blobs, refs>>
       \/ BlobsOf(c, tx[c].key) = {} /\ Raise(c)

AttachRef(c) ==
    /\ At(c, "attach_ref")
    /\ Goto(c, IF RefsAt(c, tx[c].blob, tx[c].target) = {} THEN "count_up"
               ELSE "commit")
    /\ UNCHANGED <<blobs, refs>>

Plus(v) == [v EXCEPT !.count = @ + 1]

Minus(v) == [v EXCEPT !.count = @ - 1]

\* UPDATE ... SET reference_count = reference_count + 1: no row, no error.
CountUp(c) ==
    /\ At(c, "count_up")
    /\ LET b == tx[c].blob
       IN  blobs' = IF Sees(c, blobs[b]) = Gone THEN blobs
                    ELSE [blobs EXCEPT ![b] = Write(c, @, Plus(Sees(c, @)))]
    /\ Goto(c, "insert_ref")
    /\ UNCHANGED refs

\* The savepoint of attach takes the UPDATE back, and its lock if it was the
\* first of this transaction.
CountUndone(c, row) ==
    IF row.by # c THEN row
    ELSE IF Minus(row.new) = row.com THEN Stable(row.com)
    ELSE Write(c, row, Minus(row.new))

\* Mutant of InsertRef: there is no savepoint around UPDATE and INSERT.
InsertRefNoSavepoint(c) ==
    /\ At(c, "insert_ref")
    /\ \/ /\ RefsAt(c, tx[c].blob, tx[c].target) = {}
          /\ \E r \in NewRefId :
                refs' = [refs EXCEPT ![r] =
                    Write(c, @, [is |-> "ref", target |-> tx[c].target,
                                 blob |-> tx[c].blob])]
          /\ Goto(c, "commit")
          /\ UNCHANGED blobs
       \/ /\ RefsAt(c, tx[c].blob, tx[c].target) # {}
          /\ Goto(c, "attach_reread")
          /\ UNCHANGED <<blobs, refs>>

InsertRef(c) ==
    /\ At(c, "insert_ref")
    /\ \/ /\ RefsAt(c, tx[c].blob, tx[c].target) = {}
          /\ \E r \in NewRefId :
                refs' = [refs EXCEPT ![r] =
                    Write(c, @, [is |-> "ref", target |-> tx[c].target,
                                 blob |-> tx[c].blob])]
          /\ Goto(c, "commit")
          /\ UNCHANGED blobs
       \/ /\ RefsAt(c, tx[c].blob, tx[c].target) # {}
          /\ tx[c].op # "tracked"
          /\ blobs' = [blobs EXCEPT ![tx[c].blob] = CountUndone(c, @)]
          /\ Goto(c, "attach_reread")
          /\ UNCHANGED refs
       \* the model path has no savepoint of its own
       \/ /\ RefsAt(c, tx[c].blob, tx[c].target) # {}
          /\ tx[c].op = "tracked"
          /\ Raise(c)

\* The blob is looked up by its KEY again, the winner by the blob read first.
AttachReread(c) ==
    /\ At(c, "attach_reread")
    /\ \/ /\ BlobsOf(c, tx[c].key) # {}
          /\ Goto(c, "attach_winner")
          /\ UNCHANGED <<blobs, refs>>
       \/ BlobsOf(c, tx[c].key) = {} /\ Raise(c)

\* Mutant of AttachWinner: the attach starts over when there is no winner.
AttachWinnerRetries(c) ==
    /\ At(c, "attach_winner")
    /\ Goto(c, IF RefsAt(c, tx[c].blob, tx[c].target) # {} THEN "commit"
               ELSE "attach_read")
    /\ UNCHANGED <<blobs, refs>>

AttachWinner(c) ==
    /\ At(c, "attach_winner")
    /\ \/ /\ RefsAt(c, tx[c].blob, tx[c].target) # {}
          /\ Goto(c, "commit")
          /\ UNCHANGED <<blobs, refs>>
       \/ RefsAt(c, tx[c].blob, tx[c].target) = {} /\ Raise(c)

-----------------------------------------------------------------------------
(* BlobService.release, purge_references and discard                        *)

\* release raises when the row is gone; purge_references does not ask.
DeleteRef(c) ==
    /\ At(c, "delete_ref")
    /\ \/ /\ Sees(c, refs[tx[c].ref]) # Gone
          /\ refs' = [refs EXCEPT ![tx[c].ref] = Write(c, @, Gone)]
          /\ Goto(c, "count_down")
          /\ UNCHANGED blobs
       \/ /\ Sees(c, refs[tx[c].ref]) = Gone
          /\ tx[c].op = "purge"
          /\ Goto(c, "count_down")
          /\ UNCHANGED <<blobs, refs>>
       \/ /\ Sees(c, refs[tx[c].ref]) = Gone
          /\ tx[c].op = "release"
          /\ Raise(c)

\* UPDATE ... - 1.  The CHECK constraint refuses a negative count, and the
\* read that follows refuses a blob that is gone.
CountDown(c) ==
    /\ At(c, "count_down")
    /\ LET b == tx[c].blob
           v == Sees(c, blobs[b])
       IN  IF v # Gone /\ v.count > 0
           THEN /\ blobs' = [blobs EXCEPT ![b] = Write(c, @, Minus(v))]
                /\ Goto(c, "zero")
                /\ UNCHANGED refs
           ELSE Raise(c)

\* Where a removed reference leads: release is done, purge looks for more.
AfterRemoval(op) == IF op = "release" THEN "commit" ELSE "purge_read"

\* Mutant of Zero: the emptied blob is left behind.
ZeroKept(c) ==
    /\ At(c, "zero")
    /\ Goto(c, AfterRemoval(tx[c].op))
    /\ UNCHANGED <<blobs, refs>>

\* The last reference takes the blob along.  The row is locked since the
\* UPDATE; Django refuses (PROTECT) when it still sees a reference.
Zero(c) ==
    /\ At(c, "zero")
    /\ LET b == tx[c].blob
       IN  \/ /\ Sees(c, blobs[b]).count > 0
              /\ Goto(c, AfterRemoval(tx[c].op))
              /\ UNCHANGED <<blobs, refs>>
           \/ /\ Sees(c, blobs[b]).count = 0 /\ RefsOf(c, b) = {}
              /\ blobs' = [blobs EXCEPT ![b] = Write(c, @, Gone)]
              /\ Goto(c, AfterRemoval(tx[c].op))
              /\ UNCHANGED refs
           \/ /\ Sees(c, blobs[b]).count = 0 /\ RefsOf(c, b) # {}
              /\ Raise(c)

\* afirst: the reference with the least primary key, of which recycled ids
\* say nothing, hence any.
PurgeRead(c) ==
    /\ At(c, "purge_read")
    /\ \/ \E r \in RefsFrom(c, tx[c].target[1]) :
             tx' = [tx EXCEPT ![c].pc = "delete_ref", ![c].ref = r,
                              ![c].blob = Sees(c, refs[r]).blob]
       \/ RefsFrom(c, tx[c].target[1]) = {} /\ Goto(c, "commit")
    /\ UNCHANGED <<blobs, refs>>

\* adelete of the queryset selects the rows first ...
DiscardRead(c) ==
    /\ At(c, "discard_read")
    /\ LET empty == {b \in BlobsOf(c, tx[c].key) : Sees(c, blobs[b]).count = 0}
       IN  \/ \E b \in empty : GotoWith(c, "discard_protect", b)
           \/ empty = {} /\ Goto(c, "commit")
    /\ UNCHANGED <<blobs, refs>>

\* ... looks for the references that PROTECT them ...
DiscardProtect(c) ==
    /\ At(c, "discard_protect")
    /\ \/ /\ RefsOf(c, tx[c].blob) = {}
          /\ Goto(c, "discard_delete")
          /\ UNCHANGED <<blobs, refs>>
       \/ RefsOf(c, tx[c].blob) # {} /\ Raise(c)

\* ... and deletes them by primary key, whatever their count is by then.
DiscardDelete(c) ==
    /\ At(c, "discard_delete")
    /\ blobs' = IF Sees(c, blobs[tx[c].blob]) = Gone THEN blobs
                ELSE [blobs EXCEPT ![tx[c].blob] = Write(c, @, Gone)]
    /\ Goto(c, "commit")
    /\ UNCHANGED refs

-----------------------------------------------------------------------------
Init ==
    /\ blobs = [b \in BlobId |-> Stable(Gone)]
    /\ refs = [r \in RefId |-> Stable(Gone)]
    /\ tx = [c \in Client |-> Idle]

\* A statement of the call c is in.
Statement(c) ==
    \/ PutRead(c) \/ PutInsert(c) \/ PutReread(c)
    \/ AttachRead(c) \/ AttachRef(c) \/ CountUp(c) \/ InsertRef(c)
    \/ AttachReread(c) \/ AttachWinner(c)
    \/ DeleteRef(c) \/ CountDown(c) \/ Zero(c) \/ PurgeRead(c)
    \/ DiscardRead(c) \/ DiscardProtect(c) \/ DiscardDelete(c)
    \/ Commit(c)

Next == \E c \in Client : Begin(c) \/ Statement(c) \/ Dies(c) \/ DeadlockAborts(c)

Spec == Init /\ [][Next]_vars

\* The server grants a lock in the order of the waiting, so a call that could
\* go on again and again does go on, and it breaks every deadlock.
Fairness ==
    \A c \in Client : SF_vars(Statement(c)) /\ WF_vars(DeadlockAborts(c))

FairSpec == Spec /\ Fairness

-----------------------------------------------------------------------------
(* Properties                                                               *)

Stored(b) == blobs[b].com # Gone
References(b) == {r \in RefId : refs[r].com # Gone /\ refs[r].com.blob = b}

\* The invariant of the README: the count of a committed blob is the number
\* of its committed reference rows, whatever transactions are in flight.
CountMatchesRefs ==
    \A b \in BlobId : Stored(b) => blobs[b].com.count = Cardinality(References(b))

\* Where purge_references runs, too, the count of a committed blob can be less
\* than its references (blob_purge_race) but never more: a content that nothing
\* refers to any more is deleted, or has the count zero that discard() asks for.
CountNeverAbove ==
    \A b \in BlobId : Stored(b) => blobs[b].com.count <= Cardinality(References(b))

\* Every call comes to an end, by a result or by an exception.
EveryCallReturns == \A c \in Client : tx[c].pc # "idle" ~> tx[c].pc = "idle"
=============================================================================
