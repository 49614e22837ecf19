---------------------------- MODULE BlobStoreProofs ----------------------------
(***************************************************************************)
(* What holds of BlobStore for any contents, objects, fields and clients:   *)
(* whatever statements interleave, abort and roll back, rows and calls keep *)
(* their types, and, where nobody purges, the count of a committed blob is  *)
(* the number of its references and the store implements BlobLedger.        *)
(***************************************************************************)
EXTENDS BlobPromise, FiniteSetTheorems, TLAPS

USE NobodyAssumption, OpAssumption, BoundAssumption

-----------------------------------------------------------------------------
(* The inductive invariant: types                                           *)

Attaching == {"attach", "put_and_attach", "tracked"}
PutPC == {"put_read", "put_insert", "put_reread"}
AttachPC == {"attach_read", "attach_ref", "count_up", "insert_ref",
             "attach_reread", "attach_winner"}
RemovePC == {"delete_ref", "count_down", "zero"}
DiscardPC == {"discard_read", "discard_protect", "discard_delete"}

\* The call a client is in, and what it remembers by then.
Fields(x) ==
    /\ x.pc \in PutPC => /\ x.op \in Creating /\ x.key \in Key
                         /\ x.op # "put" => x.target \in Target
    /\ x.pc \in AttachPC => x.op \in Attaching /\ x.key \in Key /\ x.target \in Target
    /\ x.pc \in AttachPC \ {"attach_read"} => x.blob \in BlobId
    /\ x.pc \in RemovePC => x.op \in {"release", "purge"} /\ x.blob \in BlobId
    /\ x.pc \in RemovePC \cup {"purge_read"} /\ x.op = "purge" => x.target \in Target
    /\ x.pc = "purge_read" => x.op = "purge"
    /\ x.pc = "delete_ref" => x.ref \in RefId
    /\ x.pc \in DiscardPC => x.op = "discard" /\ x.key \in Key
    /\ x.pc \in DiscardPC \ {"discard_read"} => x.blob \in BlobId
    /\ x.pc = "idle" => x = Idle

\* The blobs a client has written so far.
Writes(c) ==
    LET x == tx[c]
    IN  /\ x.pc = "idle" => \A b \in BlobId : blobs[b].by # c
        /\ x.pc \in PutPC \cup AttachPC =>
               \A b \in BlobId : blobs[b].by = c => blobs[b].new # Gone
        /\ x.pc = "insert_ref" /\ blobs[x.blob].by = c => blobs[x.blob].new.count > 0
        /\ x.pc = "zero" => blobs[x.blob].by = c

\* A row that nobody is writing has one version.
Settled ==
    /\ \A b \in BlobId : blobs[b].by = Nobody => blobs[b].new = blobs[b].com
    /\ \A r \in RefId : refs[r].by = Nobody => refs[r].new = refs[r].com

BInv == TypeOK /\ Settled /\ \A c \in Client : Fields(tx[c]) /\ Writes(c)

-----------------------------------------------------------------------------
(* What a statement of a client leaves alone                                *)

\* Rows of others, and what is committed.
Kept(c, old, new) ==
    \/ new = old
    \/ /\ old.by \in {c, Nobody} /\ new.by \in {c, Nobody} /\ new.com = old.com
       /\ new.by = Nobody => new.new = new.com

Quiet(c) ==
    /\ blobs' \in [BlobId -> Versions(Blob)]
    /\ refs' \in [RefId -> Versions(Reference)]
    /\ \A b \in BlobId : Kept(c, blobs[b], blobs'[b])
    /\ \A r \in RefId : Kept(c, refs[r], refs'[r])

Moves(c) ==
    /\ tx' \in [Client -> Transaction]
    /\ \A d \in Client \ {c} : tx'[d] = tx[d]
    /\ Fields(tx'[c])

LEMMA IdleType == Idle \in Transaction
BY DEF Idle, Transaction, PC

LEMMA GotoMoves ==
    ASSUME tx \in [Client -> Transaction], NEW c \in Client, NEW pc \in PC, Goto(c, pc)
    PROVE  /\ tx' \in [Client -> Transaction]
           /\ \A d \in Client \ {c} : tx'[d] = tx[d]
           /\ tx'[c].pc = pc /\ tx'[c].op = tx[c].op /\ tx'[c].key = tx[c].key
           /\ tx'[c].target = tx[c].target /\ tx'[c].blob = tx[c].blob
           /\ tx'[c].ref = tx[c].ref
<1>1. [tx[c] EXCEPT !.pc = pc] \in Transaction
  BY DEF Transaction
<1> QED
  BY <1>1 DEF Goto, Transaction

LEMMA GotoWithMoves ==
    ASSUME tx \in [Client -> Transaction], NEW c \in Client, NEW pc \in PC,
           NEW b \in BlobId, GotoWith(c, pc, b)
    PROVE  /\ tx' \in [Client -> Transaction]
           /\ \A d \in Client \ {c} : tx'[d] = tx[d]
           /\ tx'[c].pc = pc /\ tx'[c].op = tx[c].op /\ tx'[c].key = tx[c].key
           /\ tx'[c].target = tx[c].target /\ tx'[c].blob = b
           /\ tx'[c].ref = tx[c].ref
<1>0. b \in 0 .. MaxBlob
  BY DEF BlobId
<1>1. [tx[c] EXCEPT !.pc = pc, !.blob = b] \in Transaction
  BY <1>0 DEF Transaction
<1>2. tx' = [tx EXCEPT ![c] = [tx[c] EXCEPT !.pc = pc, !.blob = b]]
  BY DEF GotoWith
<1> QED
  BY <1>1, <1>2 DEF Transaction

\* Whoever writes a row can write it: nobody else has it locked.
LEMMA WriteKept ==
    ASSUME NEW R, NEW c \in Client, NEW row \in Versions(R), NEW v \in R \cup {Gone},
           row.by \in {c, Nobody}
    PROVE  /\ Write(c, row, v) \in Versions(R)
           /\ Kept(c, row, Write(c, row, v))
           /\ Write(c, row, v).by = c /\ Write(c, row, v).new = v
           /\ Write(c, row, v).com = row.com
BY DEF Write, Versions, Kept

LEMMA RaiseQuiet ==
    ASSUME BInv, NEW c \in Client, Raise(c)
    PROVE  Quiet(c) /\ Moves(c) /\ Writes(c)'
<1>1. /\ tx' \in [Client -> Transaction] /\ tx'[c] = Idle
      /\ \A d \in Client \ {c} : tx'[d] = tx[d]
  BY IdleType DEF BInv, TypeOK, Raise
<1>2. Fields(Idle)
  BY DEF Fields, Idle, PutPC, AttachPC, RemovePC, DiscardPC
<1>3. ASSUME NEW b \in BlobId
      PROVE  /\ blobs'[b] \in Versions(Blob) /\ Kept(c, blobs[b], blobs'[b])
             /\ blobs'[b].by # c
  <2>1. blobs[b] \in Versions(Blob) /\ blobs'[b] = RolledBack(c, blobs[b])
    BY DEF BInv, TypeOK, Raise
  <2> QED
    BY <2>1 DEF RolledBack, Stable, Kept, Versions
<1>4. ASSUME NEW r \in RefId
      PROVE  refs'[r] \in Versions(Reference) /\ Kept(c, refs[r], refs'[r])
  <2>1. refs[r] \in Versions(Reference) /\ refs'[r] = RolledBack(c, refs[r])
    BY DEF BInv, TypeOK, Raise
  <2> QED
    BY <2>1 DEF RolledBack, Stable, Kept, Versions
<1>5. Quiet(c)
  BY <1>3, <1>4 DEF Quiet, Raise
<1>6. Writes(c)'
  BY <1>1, <1>3 DEF Writes, Idle, PutPC, AttachPC
<1> QED
  BY <1>1, <1>2, <1>5, <1>6 DEF Moves

\* A step that writes no row.
LEMMA ReadQuiet ==
    ASSUME BInv, NEW c \in Client, UNCHANGED <<blobs, refs>>
    PROVE  Quiet(c)
BY DEF Quiet, Kept, BInv, TypeOK

-----------------------------------------------------------------------------
(* The statements, one after the other                                      *)

LEMMA BeginStep ==
    ASSUME BInv, NEW c \in Client, Begin(c)
    PROVE  Quiet(c) /\ Moves(c) /\ Writes(c)'
<1>1. /\ \A b \in BlobId : blobs[b].by # c
      /\ tx[c] = Idle /\ blobs' = blobs /\ refs' = refs
  <2>1. tx[c] = Idle /\ UNCHANGED <<blobs, refs>>
    BY Zenon DEF Begin
  <2>2. tx[c].pc = "idle"
    BY <2>1 DEF Idle
  <2>3. Writes(c)
    BY DEF BInv
  <2> QED
    BY <2>1, <2>2, <2>3 DEF Writes
<1>2. PICK x : tx' = [tx EXCEPT ![c] = x] /\ x \in Transaction /\ Fields(x)
               /\ x.pc \notin {"insert_ref", "zero"}
  <2>1. PICK op \in Op :
         \/ \E k \in Key, t \in Target :
              /\ op \in {"attach", "put_and_attach", "tracked"}
              /\ tx' = [tx EXCEPT ![c] = [Idle EXCEPT !.op = op, !.key = k,
                            !.target = t,
                            !.pc = IF op = "attach" THEN "attach_read" ELSE "put_read"]]
         \/ \E k \in Key :
              /\ op \in {"put", "discard"}
              /\ tx' = [tx EXCEPT ![c] = [Idle EXCEPT !.op = op, !.key = k,
                            !.pc = IF op = "put" THEN "put_read" ELSE "discard_read"]]
         \/ \E r \in RefId :
              /\ op = "release"
              /\ refs[r].com # Gone
              /\ tx' = [tx EXCEPT ![c] = [Idle EXCEPT !.op = op, !.ref = r,
                            !.blob = refs[r].com.blob, !.pc = "delete_ref"]]
         \/ \E t \in Target :
              /\ op = "purge"
              /\ tx' = [tx EXCEPT ![c] = [Idle EXCEPT !.op = op, !.target = t,
                            !.pc = "purge_read"]]
    BY DEF Begin
  <2>2. CASE \E k \in Key, t \in Target :
              /\ op \in {"attach", "put_and_attach", "tracked"}
              /\ tx' = [tx EXCEPT ![c] = [Idle EXCEPT !.op = op, !.key = k,
                            !.target = t,
                            !.pc = IF op = "attach" THEN "attach_read" ELSE "put_read"]]
    <3>1. PICK k \in Key, t \in Target :
              /\ op \in {"attach", "put_and_attach", "tracked"}
              /\ tx' = [tx EXCEPT ![c] = [Idle EXCEPT !.op = op, !.key = k,
                            !.target = t,
                            !.pc = IF op = "attach" THEN "attach_read" ELSE "put_read"]]
      BY <2>2
    <3> DEFINE x == [Idle EXCEPT !.op = op, !.key = k, !.target = t,
                            !.pc = IF op = "attach" THEN "attach_read" ELSE "put_read"]
    <3>2. /\ x.pc = (IF op = "attach" THEN "attach_read" ELSE "put_read")
          /\ x.op = op /\ x.key = k /\ x.target = t
          /\ x.blob = 0 /\ x.ref = 0
      BY DEF Idle
    <3>3. x \in Transaction
      BY IdleType DEF Transaction, PC
    <3>4. Fields(x) /\ x.pc \notin {"insert_ref", "zero"}
      BY <3>1, <3>2 DEF Fields, PutPC, AttachPC, RemovePC, DiscardPC, Creating, Attaching
    <3> QED
      BY <3>1, <3>3, <3>4
  <2>3. CASE \E k \in Key :
              /\ op \in {"put", "discard"}
              /\ tx' = [tx EXCEPT ![c] = [Idle EXCEPT !.op = op, !.key = k,
                            !.pc = IF op = "put" THEN "put_read" ELSE "discard_read"]]
    <3>1. PICK k \in Key :
              /\ op \in {"put", "discard"}
              /\ tx' = [tx EXCEPT ![c] = [Idle EXCEPT !.op = op, !.key = k,
                            !.pc = IF op = "put" THEN "put_read" ELSE "discard_read"]]
      BY <2>3
    <3> DEFINE x == [Idle EXCEPT !.op = op, !.key = k,
                            !.pc = IF op = "put" THEN "put_read" ELSE "discard_read"]
    <3>2. /\ x.pc = (IF op = "put" THEN "put_read" ELSE "discard_read")
          /\ x.op = op /\ x.key = k /\ x.target = Nobody
          /\ x.blob = 0 /\ x.ref = 0
      BY DEF Idle
    <3>3. x \in Transaction
      BY IdleType DEF Transaction, PC
    <3>4. Fields(x) /\ x.pc \notin {"insert_ref", "zero"}
      BY <3>1, <3>2 DEF Fields, PutPC, AttachPC, RemovePC, DiscardPC, Creating, Attaching
    <3> QED
      BY <3>1, <3>3, <3>4
  <2>4. CASE \E r \in RefId :
              /\ op = "release"
              /\ refs[r].com # Gone
              /\ tx' = [tx EXCEPT ![c] = [Idle EXCEPT !.op = op, !.ref = r,
                            !.blob = refs[r].com.blob, !.pc = "delete_ref"]]
    <3>1. PICK r \in RefId :
              /\ op = "release"
              /\ refs[r].com # Gone
              /\ tx' = [tx EXCEPT ![c] = [Idle EXCEPT !.op = op, !.ref = r,
                            !.blob = refs[r].com.blob, !.pc = "delete_ref"]]
      BY <2>4
    <3> DEFINE x == [Idle EXCEPT !.op = op, !.ref = r,
                            !.blob = refs[r].com.blob, !.pc = "delete_ref"]
    <3>2. /\ x.pc = "delete_ref"
          /\ x.op = op /\ x.key = Nobody /\ x.target = Nobody
          /\ x.blob = refs[r].com.blob /\ x.ref = r
      BY DEF Idle
    <3>3. refs[r].com.blob \in BlobId /\ refs[r].com.blob \in 0 .. MaxBlob /\ r \in 0 .. MaxRef
      BY <3>1 DEF BInv, TypeOK, Versions, Reference, BlobId, RefId
    <3>4. x \in Transaction
      BY <3>3, IdleType DEF Transaction, PC
    <3>5. Fields(x) /\ x.pc \notin {"insert_ref", "zero"}
      BY <3>1, <3>2, <3>3 DEF Fields, PutPC, AttachPC, RemovePC, DiscardPC, Creating, Attaching
    <3> QED
      BY <3>1, <3>4, <3>5
  <2>5. CASE \E t \in Target :
              /\ op = "purge"
              /\ tx' = [tx EXCEPT ![c] = [Idle EXCEPT !.op = op, !.target = t,
                            !.pc = "purge_read"]]
    <3>1. PICK t \in Target :
              /\ op = "purge"
              /\ tx' = [tx EXCEPT ![c] = [Idle EXCEPT !.op = op, !.target = t,
                            !.pc = "purge_read"]]
      BY <2>5
    <3> DEFINE x == [Idle EXCEPT !.op = op, !.target = t, !.pc = "purge_read"]
    <3>2. /\ x.pc = "purge_read"
          /\ x.op = op /\ x.key = Nobody /\ x.target = t
          /\ x.blob = 0 /\ x.ref = 0
      BY DEF Idle
    <3>3. x \in Transaction
      BY IdleType DEF Transaction, PC
    <3>4. Fields(x) /\ x.pc \notin {"insert_ref", "zero"}
      BY <3>1, <3>2 DEF Fields, PutPC, AttachPC, RemovePC, DiscardPC, Creating, Attaching
    <3> QED
      BY <3>1, <3>3, <3>4
  <2> QED
    BY <2>1, <2>2, <2>3, <2>4, <2>5
<1>3. Moves(c) /\ tx'[c] = x
  BY <1>2 DEF Moves, BInv, TypeOK
<1>4. Writes(c)'
  BY <1>1, <1>2, <1>3 DEF Writes
<1> QED
  BY <1>1, <1>3, <1>4, ReadQuiet

LEMMA AfterPutMoves ==
    ASSUME BInv, NEW c \in Client, tx[c].pc \in PutPC, NEW b \in BlobId,
           GotoWith(c, AfterPut(tx[c].op), b)
    PROVE  /\ Moves(c) /\ tx'[c].blob = b
           /\ tx'[c].pc \in {"commit", "attach_read", "count_up"}
<1>1. tx[c].op \in Creating /\ Fields(tx[c]) /\ tx \in [Client -> Transaction]
  BY DEF BInv, TypeOK, Fields
<1>2. AfterPut(tx[c].op) \in {"commit", "attach_read", "count_up"}
      /\ (AfterPut(tx[c].op) # "commit" => tx[c].op \in Attaching)
  BY <1>1 DEF AfterPut, Creating, Attaching
<1>3. AfterPut(tx[c].op) \in PC
  BY <1>2 DEF PC
<1>4. /\ tx' \in [Client -> Transaction]
      /\ \A d \in Client \ {c} : tx'[d] = tx[d]
      /\ tx'[c].pc = AfterPut(tx[c].op) /\ tx'[c].op = tx[c].op
      /\ tx'[c].key = tx[c].key /\ tx'[c].target = tx[c].target /\ tx'[c].blob = b
  BY <1>1, <1>3, GotoWithMoves
<1>5. Fields(tx'[c])
  BY <1>1, <1>2, <1>4
     DEF Fields, PutPC, AttachPC, RemovePC, DiscardPC, Creating, Attaching
<1> QED
  BY <1>2, <1>4, <1>5 DEF Moves

LEMMA PutReadStep ==
    ASSUME BInv, NEW c \in Client, PutRead(c)
    PROVE  Quiet(c) /\ Moves(c) /\ Writes(c)'
<1>1. /\ tx[c].pc = "put_read" /\ Fields(tx[c]) /\ Writes(c)
      /\ tx \in [Client -> Transaction] /\ UNCHANGED <<blobs, refs>>
  BY DEF PutRead, At, BInv, TypeOK
<1>2. Moves(c) /\ tx'[c].pc \in {"commit", "attach_read", "count_up", "put_insert"}
  <2>1. ASSUME NEW b \in BlobsOf(c, tx[c].key), GotoWith(c, AfterPut(tx[c].op), b)
        PROVE  Moves(c) /\ tx'[c].pc \in {"commit", "attach_read", "count_up", "put_insert"}
    BY <1>1, <2>1, AfterPutMoves DEF BlobsOf, PutPC
  <2>2. ASSUME Goto(c, "put_insert")
        PROVE  Moves(c) /\ tx'[c].pc \in {"commit", "attach_read", "count_up", "put_insert"}
    <3>1. "put_insert" \in PC
      BY DEF PC
    <3>2. /\ tx' \in [Client -> Transaction]
          /\ \A d \in Client \ {c} : tx'[d] = tx[d]
          /\ tx'[c].pc = "put_insert" /\ tx'[c].op = tx[c].op
          /\ tx'[c].key = tx[c].key /\ tx'[c].target = tx[c].target
      BY <1>1, <2>2, <3>1, GotoMoves
    <3> QED
      BY <1>1, <3>2 DEF Moves, Fields, PutPC, AttachPC, RemovePC, DiscardPC
  <2> QED
    BY <2>1, <2>2 DEF PutRead
<1>3. Writes(c)'
  BY <1>1, <1>2 DEF Writes, PutPC, AttachPC
<1> QED
  BY <1>1, <1>2, <1>3, ReadQuiet

\* A new row is one that nobody knows.
LEMMA NewBlob ==
    ASSUME NEW b \in NewBlobId
    PROVE  /\ b \in BlobId /\ Forgotten(b)
           /\ blobs[b].by = Nobody /\ blobs[b].com = Gone /\ blobs[b].new = Gone
BY DEF NewBlobId, Least, Forgotten, Stable

LEMMA NewRef ==
    ASSUME NEW r \in NewRefId
    PROVE  /\ r \in RefId /\ Unknown(r)
           /\ refs[r].by = Nobody /\ refs[r].com = Gone /\ refs[r].new = Gone
BY DEF NewRefId, Least, Unknown, Stable

\* One row of blobs is written, and none of refs.
LEMMA BlobQuiet ==
    ASSUME BInv, NEW c \in Client, NEW b \in BlobId, NEW w \in Versions(Blob),
           Kept(c, blobs[b], w), blobs' = [blobs EXCEPT ![b] = w], UNCHANGED refs
    PROVE  /\ Quiet(c) /\ blobs'[b] = w
           /\ \A d \in BlobId : d # b => blobs'[d] = blobs[d]
<1>1. blobs \in [BlobId -> Versions(Blob)] /\ refs \in [RefId -> Versions(Reference)]
  BY DEF BInv, TypeOK
<1>2. /\ blobs' \in [BlobId -> Versions(Blob)] /\ blobs'[b] = w
      /\ \A d \in BlobId : d # b => blobs'[d] = blobs[d]
  BY <1>1
<1> QED
  BY <1>1, <1>2 DEF Quiet, Kept

LEMMA RefQuiet ==
    ASSUME BInv, NEW c \in Client, NEW r \in RefId, NEW w \in Versions(Reference),
           Kept(c, refs[r], w), refs' = [refs EXCEPT ![r] = w], UNCHANGED blobs
    PROVE  /\ Quiet(c) /\ refs'[r] = w
           /\ \A s \in RefId : s # r => refs'[s] = refs[s]
<1>1. blobs \in [BlobId -> Versions(Blob)] /\ refs \in [RefId -> Versions(Reference)]
  BY DEF BInv, TypeOK
<1>2. /\ refs' \in [RefId -> Versions(Reference)] /\ refs'[r] = w
      /\ \A s \in RefId : s # r => refs'[s] = refs[s]
  BY <1>1
<1> QED
  BY <1>1, <1>2 DEF Quiet, Kept

LEMMA PutInsertStep ==
    ASSUME BInv, NEW c \in Client, PutInsert(c)
    PROVE  Quiet(c) /\ Moves(c) /\ Writes(c)'
<1>1. /\ tx[c].pc = "put_insert" /\ Fields(tx[c]) /\ Writes(c) /\ tx[c].key \in Key
      /\ tx \in [Client -> Transaction]
  BY DEF PutInsert, At, BInv, TypeOK, Fields, PutPC
<1>2. ASSUME NEW b \in NewBlobId, UNCHANGED refs,
             blobs' = [blobs EXCEPT ![b] =
                 Write(c, blobs[b], [is |-> "blob", key |-> tx[c].key, count |-> 0])],
             GotoWith(c, AfterPut(tx[c].op), b)
      PROVE  Quiet(c) /\ Moves(c) /\ Writes(c)'
  <2> DEFINE v == [is |-> "blob", key |-> tx[c].key, count |-> 0]
             w == Write(c, blobs[b], v)
  <2>1. b \in BlobId /\ blobs[b].by \in {c, Nobody} /\ blobs[b] \in Versions(Blob)
    BY NewBlob DEF BInv, TypeOK
  <2>2. v \in Blob \cup {Gone} /\ v # Gone
    BY <1>1 DEF Blob, Gone
  <2> HIDE DEF v
  <2>3. w \in Versions(Blob) /\ Kept(c, blobs[b], w) /\ w.by = c /\ w.new = v
    BY <2>1, <2>2, WriteKept
  <2> HIDE DEF w
  <2>4. /\ Quiet(c) /\ blobs'[b] = w
        /\ \A d \in BlobId : d # b => blobs'[d] = blobs[d]
    BY <1>2, <2>1, <2>3, BlobQuiet DEF w, v
  <2>5. /\ Moves(c) /\ tx'[c].pc \in {"commit", "attach_read", "count_up"}
    BY <1>1, <1>2, <2>1, AfterPutMoves DEF PutPC
  <2>6. Writes(c)'
    BY <1>1, <2>2, <2>3, <2>4, <2>5 DEF Writes, PutPC, AttachPC
  <2> QED
    BY <2>4, <2>5, <2>6
<1>3. ASSUME Goto(c, "put_reread"), UNCHANGED <<blobs, refs>>
      PROVE  Quiet(c) /\ Moves(c) /\ Writes(c)'
  <2>1. "put_reread" \in PC
    BY DEF PC
  <2>2. /\ tx' \in [Client -> Transaction]
        /\ \A d \in Client \ {c} : tx'[d] = tx[d]
        /\ tx'[c].pc = "put_reread" /\ tx'[c].op = tx[c].op
        /\ tx'[c].key = tx[c].key /\ tx'[c].target = tx[c].target
    BY <1>1, <1>3, <2>1, GotoMoves
  <2>3. Moves(c)
    BY <1>1, <2>2 DEF Moves, Fields, PutPC, AttachPC, RemovePC, DiscardPC
  <2>4. Writes(c)'
    BY <1>1, <1>3, <2>2 DEF Writes, PutPC, AttachPC
  <2> QED
    BY <1>3, <2>3, <2>4, ReadQuiet
<1> QED
  BY <1>2, <1>3 DEF PutInsert

LEMMA PutRereadStep ==
    ASSUME BInv, NEW c \in Client, PutReread(c)
    PROVE  Quiet(c) /\ Moves(c) /\ Writes(c)'
<1>1. /\ tx[c].pc = "put_reread" /\ Writes(c)
  BY DEF PutReread, At, BInv
<1>2. ASSUME NEW b \in BlobsOf(c, tx[c].key), GotoWith(c, AfterPut(tx[c].op), b),
             UNCHANGED <<blobs, refs>>
      PROVE  Quiet(c) /\ Moves(c) /\ Writes(c)'
  <2>1. Moves(c) /\ tx'[c].pc \in {"commit", "attach_read", "count_up"}
    BY <1>1, <1>2, AfterPutMoves DEF BlobsOf, PutPC
  <2>2. Writes(c)'
    BY <1>1, <1>2, <2>1 DEF Writes, PutPC, AttachPC
  <2> QED
    BY <1>2, <2>1, <2>2, ReadQuiet
<1> QED
  BY <1>2, RaiseQuiet DEF PutReread

\* A step of a call that writes nothing and remembers nothing new.
LEMMA GotoStep ==
    ASSUME BInv, NEW c \in Client, NEW pc \in PC, Goto(c, pc), UNCHANGED <<blobs, refs>>,
           \/ pc \in AttachPC /\ tx[c].pc \in AttachPC \ {"attach_read"} /\ pc # "insert_ref"
           \/ pc = "commit"
           \/ pc = "count_down" /\ tx[c].pc = "delete_ref"
           \/ pc = "purge_read" /\ tx[c].pc \in RemovePC /\ tx[c].op = "purge"
           \/ pc \in DiscardPC /\ tx[c].pc \in DiscardPC \ {"discard_read"}
    PROVE  Quiet(c) /\ Moves(c) /\ Writes(c)'
<1>1. /\ Fields(tx[c]) /\ Writes(c) /\ tx \in [Client -> Transaction]
  BY DEF BInv, TypeOK
<1>2. /\ tx' \in [Client -> Transaction]
      /\ \A d \in Client \ {c} : tx'[d] = tx[d]
      /\ tx'[c].pc = pc /\ tx'[c].op = tx[c].op /\ tx'[c].key = tx[c].key
      /\ tx'[c].target = tx[c].target /\ tx'[c].blob = tx[c].blob
      /\ tx'[c].ref = tx[c].ref
  BY <1>1, GotoMoves
<1>3. Fields(tx'[c])
  BY <1>1, <1>2 DEF Fields, PutPC, AttachPC, RemovePC, DiscardPC
<1>4. Writes(c)'
  BY <1>1, <1>2 DEF Writes, PutPC, AttachPC, RemovePC, DiscardPC
<1> QED
  BY <1>2, <1>3, <1>4, ReadQuiet DEF Moves

LEMMA AttachReadStep ==
    ASSUME BInv, NEW c \in Client, AttachRead(c)
    PROVE  Quiet(c) /\ Moves(c) /\ Writes(c)'
<1>1. /\ tx[c].pc = "attach_read" /\ Fields(tx[c]) /\ Writes(c)
      /\ tx \in [Client -> Transaction]
  BY DEF AttachRead, At, BInv, TypeOK
<1>2. ASSUME NEW b \in BlobsOf(c, tx[c].key), GotoWith(c, "attach_ref", b),
             UNCHANGED <<blobs, refs>>
      PROVE  Quiet(c) /\ Moves(c) /\ Writes(c)'
  <2>1. b \in BlobId /\ "attach_ref" \in PC
    BY DEF BlobsOf, PC
  <2>2. /\ tx' \in [Client -> Transaction]
        /\ \A d \in Client \ {c} : tx'[d] = tx[d]
        /\ tx'[c].pc = "attach_ref" /\ tx'[c].op = tx[c].op /\ tx'[c].key = tx[c].key
        /\ tx'[c].target = tx[c].target /\ tx'[c].blob = b
    BY <1>1, <1>2, <2>1, GotoWithMoves
  <2>3. Moves(c)
    BY <1>1, <2>1, <2>2 DEF Moves, Fields, PutPC, AttachPC, RemovePC, DiscardPC
  <2>4. Writes(c)'
    BY <1>1, <1>2, <2>2 DEF Writes, PutPC, AttachPC
  <2> QED
    BY <1>2, <2>3, <2>4, ReadQuiet
<1> QED
  BY <1>2, RaiseQuiet DEF AttachRead

LEMMA AttachStep ==
    ASSUME BInv, NEW c \in Client, AttachRef(c) \/ AttachReread(c) \/ AttachWinner(c)
    PROVE  Quiet(c) /\ Moves(c) /\ Writes(c)'
<1>1. "count_up" \in PC /\ "commit" \in PC /\ "attach_winner" \in PC
  BY DEF PC
<1>2. /\ tx[c].pc \in AttachPC \ {"attach_read"}
      /\ "count_up" \in AttachPC /\ "attach_winner" \in AttachPC
  BY DEF AttachRef, AttachReread, AttachWinner, At, AttachPC
<1>3. \/ /\ UNCHANGED <<blobs, refs>>
         /\ Goto(c, "count_up") \/ Goto(c, "commit") \/ Goto(c, "attach_winner")
      \/ Raise(c)
  BY DEF AttachRef, AttachReread, AttachWinner
<1> QED
  BY <1>1, <1>2, <1>3, GotoStep, RaiseQuiet

\* Nobody else has a committed row locked that c can go on to write.
LEMMA BlobFree ==
    ASSUME BInv, NEW c \in Client, Blockers(c) = {},
           tx[c].pc \in {"count_up", "count_down", "discard_delete"},
           Sees(c, blobs[tx[c].blob]) # Gone
    PROVE  /\ tx[c].blob \in BlobId /\ blobs[tx[c].blob].by \in {c, Nobody}
           /\ blobs[tx[c].blob] \in Versions(Blob)
           /\ Sees(c, blobs[tx[c].blob]) = blobs[tx[c].blob].new
           /\ blobs[tx[c].blob].new \in Blob
<1> DEFINE row == blobs[tx[c].blob]
<1>1. tx[c].blob \in BlobId /\ row \in Versions(Blob)
  BY DEF BInv, TypeOK, Fields, AttachPC, RemovePC, DiscardPC
<1>2. Locker(c, row) = {}
  BY DEF Blockers
<1>3. row.by \in {c, Nobody}
  BY <1>1, <1>2 DEF Locker, Free, Sees, Versions
<1>4. row.by = Nobody => row.new = row.com
  BY <1>1 DEF BInv, Settled
<1>5. Sees(c, row) = row.new
  BY <1>3, <1>4 DEF Sees
<1> QED
  BY <1>1, <1>3, <1>5 DEF Versions

LEMMA CountUpStep ==
    ASSUME BInv, NEW c \in Client, CountUp(c)
    PROVE  Quiet(c) /\ Moves(c) /\ Writes(c)'
<1> DEFINE b == tx[c].blob
<1>1. /\ tx[c].pc = "count_up" /\ Fields(tx[c]) /\ Writes(c) /\ Blockers(c) = {}
      /\ tx \in [Client -> Transaction] /\ b \in BlobId /\ "insert_ref" \in PC
      /\ Goto(c, "insert_ref") /\ UNCHANGED refs
  BY DEF CountUp, At, BInv, TypeOK, Fields, AttachPC, PC
<1>2. /\ tx' \in [Client -> Transaction]
      /\ \A d \in Client \ {c} : tx'[d] = tx[d]
      /\ tx'[c].pc = "insert_ref" /\ tx'[c].op = tx[c].op /\ tx'[c].key = tx[c].key
      /\ tx'[c].target = tx[c].target /\ tx'[c].blob = tx[c].blob
  BY <1>1, GotoMoves
<1>3. Moves(c)
  BY <1>1, <1>2 DEF Moves, Fields, PutPC, AttachPC, RemovePC, DiscardPC
<1>4. CASE Sees(c, blobs[b]) = Gone
  <2>1. UNCHANGED blobs
    BY <1>4 DEF CountUp
  <2>2. blobs[b].by # c
    BY <1>1, <1>4 DEF Sees, Writes, AttachPC
  <2>3. Writes(c)'
    BY <1>1, <1>2, <2>1, <2>2 DEF Writes, AttachPC
  <2> QED
    BY <1>1, <1>3, <2>1, <2>3, ReadQuiet
<1>5. CASE Sees(c, blobs[b]) # Gone
  <2> DEFINE v == Sees(c, blobs[b])
             w == Write(c, blobs[b], Plus(v))
  <2>1. /\ blobs[b].by \in {c, Nobody} /\ blobs[b] \in Versions(Blob) /\ v \in Blob
    BY <1>1, <1>5, BlobFree
  <2>2. Plus(v) \in Blob /\ Plus(v) # Gone /\ Plus(v).count > 0
    BY <2>1 DEF Plus, Blob, Gone
  <2>3. w \in Versions(Blob) /\ Kept(c, blobs[b], w) /\ w.by = c /\ w.new = Plus(v)
    BY <2>1, <2>2, WriteKept
  <2>4. blobs' = [blobs EXCEPT ![b] = w]
    BY <1>5 DEF CountUp
  <2> HIDE DEF w, v
  <2>5. /\ Quiet(c) /\ blobs'[b] = w
        /\ \A d \in BlobId : d # b => blobs'[d] = blobs[d]
    BY <1>1, <2>3, <2>4, BlobQuiet
  <2>6. Writes(c)'
    BY <1>1, <1>2, <2>2, <2>3, <2>5 DEF Writes, AttachPC, PutPC
  <2> QED
    BY <1>3, <2>5, <2>6
<1> QED
  BY <1>4, <1>5

LEMMA InsertRefStep ==
    ASSUME BInv, NEW c \in Client, InsertRef(c)
    PROVE  Quiet(c) /\ Moves(c) /\ Writes(c)'
<1> DEFINE b == tx[c].blob
<1>1. /\ tx[c].pc = "insert_ref" /\ Fields(tx[c]) /\ Writes(c)
      /\ tx \in [Client -> Transaction] /\ b \in BlobId /\ tx[c].target \in Target
      /\ "commit" \in PC /\ "attach_reread" \in PC
      /\ blobs[b] \in Versions(Blob)
  BY DEF InsertRef, At, BInv, TypeOK, Fields, AttachPC, PC
<1>2. ASSUME NEW r \in NewRefId, UNCHANGED blobs, Goto(c, "commit"),
             refs' = [refs EXCEPT ![r] =
                 Write(c, refs[r], [is |-> "ref", target |-> tx[c].target, blob |-> b])]
      PROVE  Quiet(c) /\ Moves(c) /\ Writes(c)'
  <2> DEFINE v == [is |-> "ref", target |-> tx[c].target, blob |-> b]
             w == Write(c, refs[r], v)
  <2>1. r \in RefId /\ refs[r].by \in {c, Nobody} /\ refs[r] \in Versions(Reference)
    BY NewRef DEF BInv, TypeOK
  <2>2. v \in Reference \cup {Gone}
    BY <1>1 DEF Reference
  <2> HIDE DEF v
  <2>3. w \in Versions(Reference) /\ Kept(c, refs[r], w)
    BY <2>1, <2>2, WriteKept
  <2> HIDE DEF w
  <2>4. Quiet(c)
    BY <1>2, <2>1, <2>3, RefQuiet DEF w, v
  <2>5. /\ tx' \in [Client -> Transaction]
        /\ \A d \in Client \ {c} : tx'[d] = tx[d]
        /\ tx'[c].pc = "commit"
    BY <1>1, <1>2, GotoMoves
  <2>6. Moves(c) /\ Writes(c)'
    BY <2>5 DEF Moves, Writes, Fields, PutPC, AttachPC, RemovePC, DiscardPC
  <2> QED
    BY <2>4, <2>6
<1>3. ASSUME UNCHANGED refs, Goto(c, "attach_reread"),
             blobs' = [blobs EXCEPT ![b] = CountUndone(c, blobs[b])]
      PROVE  Quiet(c) /\ Moves(c) /\ Writes(c)'
  <2> DEFINE w == CountUndone(c, blobs[b])
  <2>1. /\ tx' \in [Client -> Transaction]
        /\ \A d \in Client \ {c} : tx'[d] = tx[d]
        /\ tx'[c].pc = "attach_reread" /\ tx'[c].op = tx[c].op /\ tx'[c].key = tx[c].key
        /\ tx'[c].target = tx[c].target /\ tx'[c].blob = tx[c].blob
    BY <1>1, <1>3, GotoMoves
  <2>2. Moves(c)
    BY <1>1, <2>1 DEF Moves, Fields, PutPC, AttachPC, RemovePC, DiscardPC
  <2>3. /\ w \in Versions(Blob) /\ Kept(c, blobs[b], w)
        /\ w.by = c => w.new # Gone
    <3>1. CASE blobs[b].by # c
      BY <1>1, <3>1 DEF CountUndone, Kept
    <3>2. CASE blobs[b].by = c
      <4>1. blobs[b].new \in Blob /\ blobs[b].new.count > 0
        BY <1>1, <3>2 DEF Writes, Versions, AttachPC
      <4>2. Minus(blobs[b].new) \in Blob /\ Minus(blobs[b].new) # Gone
        BY <4>1 DEF Minus, Blob, Gone
      <4>3. CASE Minus(blobs[b].new) = blobs[b].com
        BY <1>1, <3>2, <4>3 DEF CountUndone, Stable, Kept, Versions
      <4>4. CASE Minus(blobs[b].new) # blobs[b].com
        <5>1. w = Write(c, blobs[b], Minus(blobs[b].new))
          BY <3>2, <4>4 DEF CountUndone
        <5> QED
          BY <1>1, <3>2, <4>2, <5>1, WriteKept
      <4> QED
        BY <4>3, <4>4
    <3> QED
      BY <3>1, <3>2
  <2> HIDE DEF w
  <2>4. /\ Quiet(c) /\ blobs'[b] = w
        /\ \A d \in BlobId : d # b => blobs'[d] = blobs[d]
    BY <1>1, <1>3, <2>3, BlobQuiet DEF w
  <2>5. Writes(c)'
    BY <1>1, <2>1, <2>3, <2>4 DEF Writes, AttachPC, PutPC
  <2> QED
    BY <2>2, <2>4, <2>5
<1> QED
  BY <1>2, <1>3, RaiseQuiet DEF InsertRef

LEMMA DeleteRefStep ==
    ASSUME BInv, NEW c \in Client, DeleteRef(c)
    PROVE  Quiet(c) /\ Moves(c) /\ Writes(c)'
<1> DEFINE r == tx[c].ref
<1>1. /\ tx[c].pc = "delete_ref" /\ Fields(tx[c]) /\ Blockers(c) = {}
      /\ tx \in [Client -> Transaction] /\ r \in RefId /\ "count_down" \in PC
      /\ refs[r] \in Versions(Reference)
  BY DEF DeleteRef, At, BInv, TypeOK, Fields, PC
<1>2. ASSUME Sees(c, refs[r]) # Gone, refs' = [refs EXCEPT ![r] = Write(c, refs[r], Gone)],
             Goto(c, "count_down"), UNCHANGED blobs
      PROVE  Quiet(c) /\ Moves(c) /\ Writes(c)'
  <2> DEFINE w == Write(c, refs[r], Gone)
  <2>1. Locker(c, refs[r]) = {}
    BY <1>1 DEF Blockers
  <2>2. refs[r].by \in {c, Nobody}
    BY <1>1, <1>2, <2>1 DEF Locker, Free, Sees, Versions
  <2>3. w \in Versions(Reference) /\ Kept(c, refs[r], w)
    BY <1>1, <2>2, WriteKept
  <2> HIDE DEF w
  <2>4. Quiet(c)
    BY <1>1, <1>2, <2>3, RefQuiet DEF w
  <2>5. /\ tx' \in [Client -> Transaction]
        /\ \A d \in Client \ {c} : tx'[d] = tx[d]
        /\ tx'[c].pc = "count_down" /\ tx'[c].op = tx[c].op
        /\ tx'[c].target = tx[c].target /\ tx'[c].blob = tx[c].blob
    BY <1>1, <1>2, GotoMoves
  <2>6. Moves(c)
    BY <1>1, <2>5 DEF Moves, Fields, PutPC, AttachPC, RemovePC, DiscardPC
  <2>7. Writes(c)'
    BY <2>5 DEF Writes, PutPC, AttachPC
  <2> QED
    BY <2>4, <2>6, <2>7
<1>3. ASSUME Goto(c, "count_down"), UNCHANGED <<blobs, refs>>
      PROVE  Quiet(c) /\ Moves(c) /\ Writes(c)'
  BY <1>1, <1>3, GotoStep
<1> QED
  BY <1>2, <1>3, RaiseQuiet DEF DeleteRef

LEMMA CountDownStep ==
    ASSUME BInv, NEW c \in Client, CountDown(c)
    PROVE  Quiet(c) /\ Moves(c) /\ Writes(c)'
<1> DEFINE b == tx[c].blob
           v == Sees(c, blobs[b])
<1>1. /\ tx[c].pc = "count_down" /\ Fields(tx[c]) /\ Blockers(c) = {}
      /\ tx \in [Client -> Transaction] /\ b \in BlobId /\ "zero" \in PC
  BY DEF CountDown, At, BInv, TypeOK, Fields, RemovePC, PC
<1>2. ASSUME v # Gone, v.count > 0, Goto(c, "zero"), UNCHANGED refs,
             blobs' = [blobs EXCEPT ![b] = Write(c, blobs[b], Minus(v))]
      PROVE  Quiet(c) /\ Moves(c) /\ Writes(c)'
  <2> DEFINE w == Write(c, blobs[b], Minus(v))
  <2>1. /\ blobs[b].by \in {c, Nobody} /\ blobs[b] \in Versions(Blob) /\ v \in Blob
    BY <1>1, <1>2, BlobFree
  <2>a. blobs' = [blobs EXCEPT ![b] = w] /\ UNCHANGED refs
    BY <1>2
  <2> HIDE DEF v
  <2>2. Minus(v) \in Blob
    BY <1>2, <2>1 DEF Minus, Blob
  <2>3. w \in Versions(Blob) /\ Kept(c, blobs[b], w) /\ w.by = c
    BY <2>1, <2>2, WriteKept
  <2>b. PICK u \in Versions(Blob) :
            Kept(c, blobs[b], u) /\ u.by = c /\ blobs' = [blobs EXCEPT ![b] = u]
    BY <2>a, <2>3
  <2>c. UNCHANGED refs
    BY <1>2
  <2>d. b \in BlobId
    BY <1>1
  <2> HIDE DEF w, b
  <2>4. Quiet(c) /\ blobs'[b] = u
    BY <2>b, <2>c, <2>d, BlobQuiet
  <2>5. /\ tx' \in [Client -> Transaction]
        /\ \A d \in Client \ {c} : tx'[d] = tx[d]
        /\ tx'[c].pc = "zero" /\ tx'[c].op = tx[c].op
        /\ tx'[c].target = tx[c].target /\ tx'[c].blob = tx[c].blob
    BY <1>1, <1>2, GotoMoves
  <2>6. Moves(c)
    BY <1>1, <2>5 DEF Moves, Fields, PutPC, AttachPC, RemovePC, DiscardPC
  <2>7. Writes(c)'
    BY <2>b, <2>4, <2>5 DEF Writes, PutPC, AttachPC, b
  <2> QED
    BY <2>4, <2>6, <2>7
<1> QED
  BY <1>2, RaiseQuiet DEF CountDown

LEMMA ZeroStep ==
    ASSUME BInv, NEW c \in Client, Zero(c)
    PROVE  Quiet(c) /\ Moves(c) /\ Writes(c)'
<1> DEFINE b == tx[c].blob
<1>1. /\ tx[c].pc = "zero" /\ Fields(tx[c]) /\ tx \in [Client -> Transaction]
      /\ b \in BlobId /\ tx[c].op \in {"release", "purge"}
      /\ blobs[b] \in Versions(Blob) /\ blobs[b].by = c
  BY DEF Zero, At, BInv, TypeOK, Fields, RemovePC, Writes
<1>2. /\ AfterRemoval(tx[c].op) \in PC
      /\ \/ AfterRemoval(tx[c].op) = "commit"
         \/ AfterRemoval(tx[c].op) = "purge_read" /\ tx[c].op = "purge"
  BY <1>1 DEF AfterRemoval, PC
<1>3. ASSUME Goto(c, AfterRemoval(tx[c].op)), UNCHANGED <<blobs, refs>>
      PROVE  Quiet(c) /\ Moves(c) /\ Writes(c)'
  BY <1>1, <1>2, <1>3, GotoStep DEF RemovePC
<1>4. ASSUME Goto(c, AfterRemoval(tx[c].op)), UNCHANGED refs,
             blobs' = [blobs EXCEPT ![b] = Write(c, blobs[b], Gone)]
      PROVE  Quiet(c) /\ Moves(c) /\ Writes(c)'
  <2> DEFINE w == Write(c, blobs[b], Gone)
  <2>1. w \in Versions(Blob) /\ Kept(c, blobs[b], w)
    BY <1>1, WriteKept
  <2> HIDE DEF w
  <2>2. Quiet(c)
    BY <1>1, <1>4, <2>1, BlobQuiet DEF w
  <2>3. /\ tx' \in [Client -> Transaction]
        /\ \A d \in Client \ {c} : tx'[d] = tx[d]
        /\ tx'[c].pc = AfterRemoval(tx[c].op) /\ tx'[c].op = tx[c].op
        /\ tx'[c].target = tx[c].target
    BY <1>1, <1>2, <1>4, GotoMoves
  <2>4. Moves(c)
    BY <1>1, <1>2, <2>3 DEF Moves, Fields, PutPC, AttachPC, RemovePC, DiscardPC
  <2>5. Writes(c)'
    BY <1>2, <2>3 DEF Writes, PutPC, AttachPC
  <2> QED
    BY <2>2, <2>4, <2>5
<1> QED
  BY <1>3, <1>4, RaiseQuiet DEF Zero

LEMMA PurgeReadStep ==
    ASSUME BInv, NEW c \in Client, PurgeRead(c)
    PROVE  Quiet(c) /\ Moves(c) /\ Writes(c)'
<1>1. /\ tx[c].pc = "purge_read" /\ Fields(tx[c]) /\ tx \in [Client -> Transaction]
      /\ tx[c].op = "purge" /\ tx[c].target \in Target
      /\ "delete_ref" \in PC /\ "commit" \in PC /\ UNCHANGED <<blobs, refs>>
  BY DEF PurgeRead, At, BInv, TypeOK, Fields, PC
<1>2. ASSUME NEW r \in RefsFrom(c, tx[c].target[1]),
             tx' = [tx EXCEPT ![c].pc = "delete_ref", ![c].ref = r,
                              ![c].blob = Sees(c, refs[r]).blob]
      PROVE  Quiet(c) /\ Moves(c) /\ Writes(c)'
  <2> DEFINE b == Sees(c, refs[r]).blob
             x == [tx[c] EXCEPT !.pc = "delete_ref", !.ref = r, !.blob = b]
  <2>1. r \in RefId /\ refs[r] \in Versions(Reference) /\ Sees(c, refs[r]) # Gone
    BY DEF RefsFrom, BInv, TypeOK
  <2>2. b \in BlobId
    BY <2>1 DEF Sees, Versions, Reference
  <2> HIDE DEF b
  <2>3. r \in 0 .. MaxRef /\ b \in 0 .. MaxBlob
    BY <2>1, <2>2 DEF RefId, BlobId
  <2>4. x \in Transaction
    BY <1>1, <2>3 DEF Transaction
  <2>5. /\ x.pc = "delete_ref" /\ x.ref = r /\ x.blob = b
        /\ x.op = tx[c].op /\ x.target = tx[c].target
    BY <1>1 DEF Transaction
  <2>6. tx' = [tx EXCEPT ![c] = x]
    BY <1>2 DEF b
  <2> HIDE DEF x
  <2>7. Moves(c) /\ tx'[c] = x
    BY <1>1, <2>1, <2>2, <2>4, <2>5, <2>6
       DEF Moves, Fields, PutPC, AttachPC, RemovePC, DiscardPC
  <2>8. Writes(c)'
    BY <2>5, <2>7 DEF Writes, PutPC, AttachPC
  <2> QED
    BY <1>1, <2>7, <2>8, ReadQuiet
<1> QED
  BY <1>1, <1>2, GotoStep DEF PurgeRead

LEMMA DiscardStep ==
    ASSUME BInv, NEW c \in Client, DiscardRead(c) \/ DiscardProtect(c) \/ DiscardDelete(c)
    PROVE  Quiet(c) /\ Moves(c) /\ Writes(c)'
<1>1. /\ Fields(tx[c]) /\ tx \in [Client -> Transaction] /\ tx[c].pc \in DiscardPC
      /\ "discard_protect" \in PC /\ "discard_delete" \in PC /\ "commit" \in PC
  BY DEF BInv, TypeOK, PC, DiscardRead, DiscardProtect, DiscardDelete, At, DiscardPC
<1>2. ASSUME DiscardRead(c)
      PROVE  Quiet(c) /\ Moves(c) /\ Writes(c)'
  <2>1. ASSUME NEW b \in BlobId, GotoWith(c, "discard_protect", b), UNCHANGED <<blobs, refs>>
        PROVE  Quiet(c) /\ Moves(c) /\ Writes(c)'
    <3>1. /\ tx' \in [Client -> Transaction]
          /\ \A d \in Client \ {c} : tx'[d] = tx[d]
          /\ tx'[c].pc = "discard_protect" /\ tx'[c].op = tx[c].op
          /\ tx'[c].key = tx[c].key /\ tx'[c].blob = b
      BY <1>1, <2>1, GotoWithMoves
    <3>2. Moves(c)
      BY <1>1, <3>1 DEF Moves, Fields, PutPC, AttachPC, RemovePC, DiscardPC
    <3>3. Writes(c)'
      BY <3>1 DEF Writes, PutPC, AttachPC
    <3> QED
      BY <2>1, <3>2, <3>3, ReadQuiet
  <2> QED
    BY <1>1, <1>2, <2>1, GotoStep DEF DiscardRead, BlobsOf
<1>3. ASSUME DiscardProtect(c)
      PROVE  Quiet(c) /\ Moves(c) /\ Writes(c)'
  <2>1. tx[c].pc = "discard_protect"
    BY <1>3 DEF DiscardProtect, At
  <2> QED
    BY <1>1, <1>3, <2>1, GotoStep, RaiseQuiet DEF DiscardProtect, DiscardPC
<1>4. ASSUME DiscardDelete(c)
      PROVE  Quiet(c) /\ Moves(c) /\ Writes(c)'
  <2> DEFINE b == tx[c].blob
             w == Write(c, blobs[b], Gone)
  <2>1. tx[c].pc = "discard_delete" /\ Blockers(c) = {} /\ Goto(c, "commit") /\ UNCHANGED refs
    BY <1>4 DEF DiscardDelete, At
  <2>2. CASE Sees(c, blobs[b]) = Gone
    BY <1>1, <1>4, <2>1, <2>2, GotoStep DEF DiscardDelete
  <2>3. CASE Sees(c, blobs[b]) # Gone
    <3>1. b \in BlobId /\ blobs[b].by \in {c, Nobody} /\ blobs[b] \in Versions(Blob)
      BY <2>1, <2>3, BlobFree
    <3>2. w \in Versions(Blob) /\ Kept(c, blobs[b], w)
      BY <3>1, WriteKept
    <3>3. blobs' = [blobs EXCEPT ![b] = w]
      BY <1>4, <2>3 DEF DiscardDelete
    <3> HIDE DEF w
    <3>4. Quiet(c)
      BY <2>1, <3>1, <3>2, <3>3, BlobQuiet
    <3>5. /\ tx' \in [Client -> Transaction]
          /\ \A d \in Client \ {c} : tx'[d] = tx[d]
          /\ tx'[c].pc = "commit"
      BY <1>1, <2>1, GotoMoves
    <3>6. Moves(c) /\ Writes(c)'
      BY <3>5 DEF Moves, Writes, Fields, PutPC, AttachPC, RemovePC, DiscardPC
    <3> QED
      BY <3>4, <3>6
  <2> QED
    BY <2>2, <2>3
<1> QED
  BY <1>2, <1>3, <1>4

LEMMA QuietStep ==
    ASSUME BInv, NEW c \in Client,
           \/ Begin(c) \/ Dies(c) \/ DeadlockAborts(c)
           \/ Statement(c) /\ ~Commit(c)
           \/ Commit(c) /\ ~KeysHold(c)
    PROVE  Quiet(c) /\ Moves(c) /\ Writes(c)'
<1>1. CASE Begin(c)
  BY <1>1, BeginStep
<1>2. CASE Dies(c) \/ DeadlockAborts(c) \/ (Commit(c) /\ ~KeysHold(c))
  BY <1>2, RaiseQuiet DEF Dies, DeadlockAborts, Commit
<1>3. CASE Statement(c) /\ ~Commit(c)
  BY <1>3, PutReadStep, PutInsertStep, PutRereadStep, AttachReadStep, AttachStep,
     CountUpStep, InsertRefStep, DeleteRefStep, CountDownStep, ZeroStep,
     PurgeReadStep, DiscardStep DEF Statement
<1> QED
  BY <1>1, <1>2, <1>3

LEMMA CommitStep ==
    ASSUME BInv, NEW c \in Client, Commit(c), KeysHold(c)
    PROVE  /\ Moves(c) /\ Writes(c)' /\ tx'[c] = Idle
           /\ blobs' \in [BlobId -> Versions(Blob)]
           /\ refs' \in [RefId -> Versions(Reference)]
           /\ \A b \in BlobId : blobs'[b] = Committed(c, blobs[b])
           /\ \A r \in RefId : refs'[r] = Committed(c, refs[r])
<1>1. /\ tx' = [tx EXCEPT ![c] = Idle]
      /\ blobs' = [b \in BlobId |-> Committed(c, blobs[b])]
      /\ refs' = [r \in RefId |-> Committed(c, refs[r])]
  BY DEF Commit
<1>2. /\ tx' \in [Client -> Transaction] /\ tx'[c] = Idle
      /\ \A d \in Client \ {c} : tx'[d] = tx[d]
  BY <1>1, IdleType DEF BInv, TypeOK
<1>3. Fields(Idle) /\ Idle.pc = "idle"
  BY DEF Fields, Idle, PutPC, AttachPC, RemovePC, DiscardPC
<1>4. ASSUME NEW b \in BlobId
      PROVE  blobs'[b] \in Versions(Blob) /\ blobs'[b].by # c
  <2>1. blobs[b] \in Versions(Blob) /\ blobs'[b] = Committed(c, blobs[b])
    BY <1>1 DEF BInv, TypeOK
  <2> QED
    BY <2>1 DEF Committed, Stable, Versions
<1>5. ASSUME NEW r \in RefId
      PROVE  refs'[r] \in Versions(Reference)
  <2>1. refs[r] \in Versions(Reference) /\ refs'[r] = Committed(c, refs[r])
    BY <1>1 DEF BInv, TypeOK
  <2> QED
    BY <2>1 DEF Committed, Stable, Versions
<1>6. Writes(c)'
  BY <1>2, <1>3, <1>4 DEF Writes, PutPC, AttachPC
<1> QED
  BY <1>1, <1>2, <1>3, <1>4, <1>5, <1>6 DEF Moves

LEMMA BInvNext == BInv /\ [Next]_vars => BInv'
<1> SUFFICES ASSUME BInv, [Next]_vars
             PROVE  BInv'
  OBVIOUS
<1>1. ASSUME NEW c \in Client, Moves(c), Writes(c)',
             blobs' \in [BlobId -> Versions(Blob)], refs' \in [RefId -> Versions(Reference)],
             \A b \in BlobId :
                 \/ blobs'[b] = blobs[b]
                 \/ /\ blobs[b].by \in {c, Nobody} /\ blobs'[b].by \in {c, Nobody}
                    /\ blobs'[b].by = Nobody => blobs'[b].new = blobs'[b].com,
             \A r \in RefId :
                 \/ refs'[r] = refs[r]
                 \/ refs'[r].by = Nobody => refs'[r].new = refs'[r].com
      PROVE  BInv'
  <2>1. Settled'
    BY <1>1 DEF BInv, Settled
  <2>2. TypeOK'
    BY <1>1 DEF TypeOK, Moves
  <2>3. ASSUME NEW d \in Client, d # c
        PROVE  Fields(tx'[d]) /\ Writes(d)'
    <3>1. tx'[d] = tx[d] /\ Fields(tx[d]) /\ Writes(d)
      BY <1>1, <2>3 DEF Moves, BInv
    <3>2. \A b \in BlobId : blobs'[b].by = d <=> blobs[b].by = d
      BY <1>1, <2>3
    <3>3. \A b \in BlobId : blobs[b].by = d => blobs'[b] = blobs[b]
      BY <1>1, <2>3
    <3>4. tx[d].pc \in {"insert_ref", "zero"} => tx[d].blob \in BlobId
      BY <3>1 DEF Fields, AttachPC, RemovePC
    <3> QED
      BY <3>1, <3>2, <3>3, <3>4 DEF Writes
  <2> QED
    BY <1>1, <2>1, <2>2, <2>3 DEF BInv, Moves
<1>2. ASSUME NEW c \in Client, Quiet(c), Moves(c), Writes(c)'
      PROVE  BInv'
  BY <1>1, <1>2 DEF Quiet, Kept
<1>3. ASSUME NEW c \in Client, Commit(c), KeysHold(c)
      PROVE  BInv'
  <2>1. /\ Moves(c) /\ Writes(c)'
        /\ blobs' \in [BlobId -> Versions(Blob)]
        /\ refs' \in [RefId -> Versions(Reference)]
        /\ \A b \in BlobId : blobs'[b] = Committed(c, blobs[b])
        /\ \A r \in RefId : refs'[r] = Committed(c, refs[r])
    BY <1>3, CommitStep
  <2> QED
    BY <1>1, <2>1 DEF Committed, Stable
<1>4. CASE UNCHANGED vars
  BY <1>4 DEF vars, BInv, TypeOK, Settled, Writes
<1> QED
  BY <1>2, <1>3, <1>4, QuietStep DEF Next

LEMMA BInvInit == Init => BInv
<1> SUFFICES ASSUME Init
             PROVE  BInv
  OBVIOUS
<1>1. /\ \A b \in BlobId : blobs[b] = Stable(Gone)
      /\ \A r \in RefId : refs[r] = Stable(Gone)
      /\ \A c \in Client : tx[c] = Idle
  BY DEF Init
<1>2. Stable(Gone) \in Versions(Blob) /\ Stable(Gone) \in Versions(Reference)
  BY DEF Stable, Versions
<1>3. TypeOK
  BY <1>2, IdleType DEF Init, TypeOK
<1>4. Settled
  BY <1>1 DEF Settled, Stable
<1>5. Fields(Idle)
  BY DEF Fields, Idle, PutPC, AttachPC, RemovePC, DiscardPC
<1>6. \A c \in Client : Writes(c)
  BY <1>1 DEF Writes, Idle, Stable, PutPC, AttachPC
<1> QED
  BY <1>1, <1>3, <1>4, <1>5, <1>6 DEF BInv

-----------------------------------------------------------------------------
(* Committed references                                                     *)

\* A committed reference has its content.
NoDanglingReference ==
    \A r \in RefId : refs[r].com # Gone => Stored(refs[r].com.blob)

\* Only a commit changes what is committed, and its deferred keys hold: what
\* it inserts refers to a blob it sees, what it deletes it sees no reference to.
LEMMA DanglingNext == BInv /\ NoDanglingReference /\ [Next]_vars => NoDanglingReference'
<1> SUFFICES ASSUME BInv, NoDanglingReference, [Next]_vars,
                    NEW r \in RefId, refs'[r].com # Gone
             PROVE  blobs'[refs'[r].com.blob].com # Gone
  BY DEF NoDanglingReference, Stored
<1>1. /\ refs[r] \in Versions(Reference) /\ blobs \in [BlobId -> Versions(Blob)]
      /\ refs[r].com # Gone => refs[r].com.blob \in BlobId
      /\ refs[r].new # Gone => refs[r].new.blob \in BlobId
  BY DEF BInv, TypeOK, Versions, Reference
<1>2. refs[r].com # Gone => blobs[refs[r].com.blob].com # Gone
  BY DEF NoDanglingReference, Stored
<1>3. ASSUME NEW c \in Client, Quiet(c)
      PROVE  blobs'[refs'[r].com.blob].com # Gone
  <2>1. refs'[r].com = refs[r].com
    BY <1>3 DEF Quiet, Kept
  <2> QED
    BY <1>1, <1>2, <1>3, <2>1 DEF Quiet, Kept
<1>4. ASSUME NEW c \in Client, Commit(c), KeysHold(c)
      PROVE  blobs'[refs'[r].com.blob].com # Gone
  <2>1. /\ \A b \in BlobId : blobs'[b] = Committed(c, blobs[b])
        /\ refs'[r] = Committed(c, refs[r])
    BY <1>4, CommitStep
  <2>2. CASE refs[r].by = c
    <3>1. refs'[r].com = refs[r].new
      BY <2>1, <2>2 DEF Committed, Stable
    <3> DEFINE b == refs[r].new.blob
    <3>2. r \in Inserted(c) /\ b \in BlobId
      BY <1>1, <2>2, <3>1 DEF Inserted
    <3>3. Sees(c, blobs[b]) # Gone
      BY <1>4, <3>2 DEF KeysHold
    <3> HIDE DEF b
    <3>4. blobs'[b].com # Gone
      <4>1. blobs'[b] = Committed(c, blobs[b])
        BY <2>1, <3>2
      <4>2. CASE blobs[b].by = c
        BY <3>3, <4>1, <4>2 DEF Committed, Stable, Sees
      <4>3. CASE blobs[b].by # c
        BY <3>3, <4>1, <4>3 DEF Committed, Sees
      <4> QED
        BY <4>2, <4>3
    <3> QED
      BY <3>1, <3>4 DEF b
  <2>3. CASE refs[r].by # c
    <3>1. refs'[r] = refs[r]
      BY <2>1, <2>3 DEF Committed
    <3> DEFINE b == refs[r].com.blob
    <3>2. b \in BlobId /\ blobs[b].com # Gone
      BY <1>1, <1>2, <3>1
    <3>3. r \in RefsOf(c, b)
      BY <2>3, <3>1 DEF RefsOf, Sees
    <3>4. b \notin Deleted(c)
      BY <1>4, <3>3 DEF KeysHold
    <3> HIDE DEF b
    <3>5. blobs'[b].com # Gone
      <4>1. blobs'[b] = Committed(c, blobs[b])
        BY <2>1, <3>2
      <4>2. CASE blobs[b].by = c
        <5>1. blobs[b].new # Gone
          BY <3>2, <3>4, <4>2 DEF Deleted
        <5> QED
          BY <4>1, <4>2, <5>1 DEF Committed, Stable
      <4>3. CASE blobs[b].by # c
        BY <3>2, <4>1, <4>3 DEF Committed
      <4> QED
        BY <4>2, <4>3
    <3> QED
      BY <3>1, <3>5 DEF b
  <2> QED
    BY <2>2, <2>3
<1>5. CASE UNCHANGED vars
  BY <1>2, <1>5 DEF vars
<1> QED
  BY <1>3, <1>4, <1>5, QuietStep DEF Next

\* Every row and every client keeps its type: what a call remembers is there
\* when a later statement of it needs it.
THEOREM BlobTyped == Spec => []TypeOK
<1>1. BInv => TypeOK
  BY DEF BInv
<1> QED
  BY <1>1, BInvInit, BInvNext, PTL DEF Spec

-----------------------------------------------------------------------------
(* Counts, where nobody purges                                              *)

NoPurge == "purge" \notin Op

\* The reference a client has written: removed, or inserted.
Removes(c, r) ==
    /\ tx[c].op = "release" /\ tx[c].pc \in {"count_down", "zero", "commit"}
    /\ r = tx[c].ref /\ refs[r].new = Gone
    /\ refs[r].com # Gone /\ refs[r].com.blob = tx[c].blob
Inserts(c, r) ==
    /\ tx[c].op \in Attaching /\ tx[c].pc = "commit"
    /\ refs[r].com = Gone
    /\ refs[r].new # Gone /\ refs[r].new.blob = tx[c].blob

Wrote(c) ==
    /\ \A r \in RefId : refs[r].by = c => Removes(c, r) \/ Inserts(c, r)
    /\ \A r, s \in RefId : refs[r].by = c /\ refs[s].by = c => r = s
    /\ tx[c].pc \in {"count_down", "zero"} =>
           tx[c].ref \in RefId /\ refs[tx[c].ref].by = c

\* A row that a client remembers is there for it, or gone for good.
KnowsBlob(c, b) ==
    blobs[b].by = c \/ blobs[b].com # Gone \/ blobs[b] = Stable(Gone)
KnowsRef(r, b) ==
    (refs[r].com # Gone /\ refs[r].com.blob = b) \/ refs[r] = Stable(Gone)

Knows(c) ==
    LET x == tx[c]
    IN  /\ x.pc \in {"attach_ref", "count_up"} => KnowsBlob(c, x.blob)
        /\ x.pc = "insert_ref" => blobs[x.blob].by = c \/ blobs[x.blob] = Stable(Gone)
        /\ x.pc = "delete_ref" => KnowsRef(x.ref, x.blob)

\* The blob of a reference that is written is written, too, before the
\* commit, if it is there; and no other one.
Locks(c) ==
    LET x == tx[c]
    IN  /\ x.pc \in {"put_read", "delete_ref", "count_down"} \cup DiscardPC =>
               \A b \in BlobId : blobs[b].by # c
        /\ x.pc = "commit" => \A r \in RefId : refs[r].by = c =>
               blobs[x.blob].by = c \/ (refs[r].new # Gone /\ blobs[x.blob] = Stable(Gone))

\* The references of b that client c has counted and not yet inserted.
Due(c, b) == IF tx[c].pc = "insert_ref" /\ tx[c].blob = b THEN 1 ELSE 0
Counted(c) ==
    \A b \in BlobId : blobs[b].by = c /\ blobs[b].new # Gone =>
        blobs[b].new.count = Cardinality(RefsOf(c, b)) + Due(c, b)

Mine(c) == Wrote(c) /\ Knows(c) /\ Locks(c) /\ Counted(c)

LEMMA FiniteRefs ==
    ASSUME NEW S, S \subseteq RefId
    PROVE  IsFiniteSet(S) /\ Cardinality(S) \in Nat
<1>1. IsFiniteSet(RefId)
  BY FS_Interval DEF RefId
<1> QED
  BY <1>1, FS_Subset, FS_CardinalityType

LEMMA NoRefs ==
    ASSUME NEW c \in Client, Wrote(c), tx[c].pc \notin {"count_down", "zero", "commit"},
           NEW r \in RefId
    PROVE  refs[r].by # c
BY DEF Wrote, Removes, Inserts

\* What one client does, another does not notice: its rows stay, what it
\* knows stays or is gone for good, and so do the references it has counted.
Undisturbed(d) ==
    /\ tx'[d] = tx[d]
    /\ \A b \in BlobId :
         /\ (blobs'[b].by = d) <=> (blobs[b].by = d)
         /\ blobs[b].by = d => blobs'[b] = blobs[b]
         /\ blobs[b].com # Gone => (blobs'[b].com # Gone \/ blobs'[b] = Stable(Gone))
         /\ blobs[b] = Stable(Gone) /\ tx[d].blob = b => blobs'[b] = Stable(Gone)
         /\ blobs[b].by = d => RefsOf(d, b)' = RefsOf(d, b)
    /\ \A r \in RefId :
         /\ (refs'[r].by = d) <=> (refs[r].by = d)
         /\ refs[r].by = d => refs'[r] = refs[r]
         /\ refs[r].com # Gone => (refs'[r].com = refs[r].com \/ refs'[r] = Stable(Gone))
         /\ refs[r] = Stable(Gone) /\ tx[d].ref = r => refs'[r] = Stable(Gone)

LEMMA OthersMine ==
    ASSUME BInv, NEW d \in Client, Mine(d), Undisturbed(d)
    PROVE  Mine(d)'
<1> DEFINE x == tx[d]
<1>1. /\ tx'[d] = x /\ Fields(x)
      /\ Wrote(d) /\ Knows(d) /\ Locks(d) /\ Counted(d)
  BY DEF Undisturbed, Mine, BInv
<1>2. Wrote(d)'
  <2>1. ASSUME NEW r \in RefId, refs'[r].by = d
        PROVE  /\ (Removes(d, r) \/ Inserts(d, r))'
               /\ refs[r].by = d
    <3>1. refs[r].by = d /\ refs'[r] = refs[r]
      BY <2>1 DEF Undisturbed
    <3>2. Removes(d, r) \/ Inserts(d, r)
      BY <1>1, <3>1 DEF Wrote
    <3> QED
      BY <1>1, <3>1, <3>2 DEF Removes, Inserts
  <2>2. ASSUME NEW r \in RefId, NEW s \in RefId, refs'[r].by = d, refs'[s].by = d
        PROVE  r = s
    BY <1>1, <2>1, <2>2 DEF Wrote
  <2>3. ASSUME x.pc \in {"count_down", "zero"}
        PROVE  x.ref \in RefId /\ refs'[x.ref].by = d
    <3>1. x.ref \in RefId /\ refs[x.ref].by = d
      BY <1>1, <2>3 DEF Wrote
    <3> QED
      BY <3>1 DEF Undisturbed
  <2> QED
    BY <1>1, <2>1, <2>2, <2>3 DEF Wrote
<1>3. Knows(d)'
  <2>1. ASSUME NEW b \in BlobId, b = x.blob, KnowsBlob(d, b)
        PROVE  KnowsBlob(d, b)'
    BY <2>1 DEF KnowsBlob, Undisturbed
  <2>2. ASSUME NEW b \in BlobId, b = x.blob, blobs[b].by = d \/ blobs[b] = Stable(Gone)
        PROVE  blobs'[b].by = d \/ blobs'[b] = Stable(Gone)
    BY <2>2 DEF Undisturbed
  <2>3. ASSUME NEW r \in RefId, r = x.ref, KnowsRef(r, x.blob)
        PROVE  KnowsRef(r, x.blob)'
    <3>1. /\ refs[r].com # Gone => (refs'[r].com = refs[r].com \/ refs'[r] = Stable(Gone))
          /\ refs[r] = Stable(Gone) => refs'[r] = Stable(Gone)
          /\ x' = x
      BY <1>1, <2>3 DEF Undisturbed
    <3> QED
      BY <2>3, <3>1 DEF KnowsRef
  <2>4. /\ x.pc \in {"attach_ref", "count_up", "insert_ref"} => x.blob \in BlobId
        /\ x.pc = "delete_ref" => x.ref \in RefId
    BY <1>1 DEF Fields, AttachPC
  <2>5. /\ x.pc \in {"attach_ref", "count_up"} => KnowsBlob(d, x.blob)'
        /\ x.pc = "insert_ref" => (blobs'[x.blob].by = d \/ blobs'[x.blob] = Stable(Gone))
        /\ x.pc = "delete_ref" => KnowsRef(x.ref, x.blob)'
    BY <1>1, <2>1, <2>2, <2>3, <2>4 DEF Knows
  <2> QED
    BY <1>1, <2>5 DEF Knows
<1>4. Locks(d)'
  <2>1. ASSUME x.pc = "commit", NEW r \in RefId, refs'[r].by = d
        PROVE  \/ blobs'[x.blob].by = d
               \/ refs'[r].new # Gone /\ blobs'[x.blob] = Stable(Gone)
    <3>1. refs[r].by = d /\ refs'[r] = refs[r]
      BY <2>1 DEF Undisturbed
    <3>2. \/ blobs[x.blob].by = d
          \/ refs[r].new # Gone /\ blobs[x.blob] = Stable(Gone)
      BY <1>1, <2>1, <3>1 DEF Locks
    <3>3. x.blob \in BlobId
      <4>1. Removes(d, r) \/ Inserts(d, r)
        BY <1>1, <3>1 DEF Wrote
      <4>2. refs[r] \in Versions(Reference)
        BY DEF BInv, TypeOK
      <4> QED
        BY <4>1, <4>2 DEF Removes, Inserts, Versions, Reference
    <3> QED
      BY <3>1, <3>2, <3>3 DEF Undisturbed
  <2>2. ASSUME x.pc \in {"put_read", "delete_ref", "count_down"} \cup DiscardPC,
               NEW b \in BlobId
        PROVE  blobs'[b].by # d
    BY <1>1, <2>2 DEF Locks, Undisturbed
  <2> QED
    BY <1>1, <2>1, <2>2 DEF Locks
<1>5. Counted(d)'
  <2>1. ASSUME NEW b \in BlobId, blobs'[b].by = d, blobs'[b].new # Gone
        PROVE  blobs'[b].new.count = Cardinality(RefsOf(d, b)') + Due(d, b)'
    <3>1. /\ blobs[b].by = d /\ blobs'[b] = blobs[b]
          /\ RefsOf(d, b)' = RefsOf(d, b)
      BY <2>1 DEF Undisturbed
    <3>2. Due(d, b)' = Due(d, b)
      BY <1>1 DEF Due
    <3>3. blobs[b].new.count = Cardinality(RefsOf(d, b)) + Due(d, b)
      BY <1>1, <2>1, <3>1 DEF Counted
    <3> QED
      BY <3>1, <3>2, <3>3
  <2> QED
    BY <2>1 DEF Counted
<1> QED
  BY <1>2, <1>3, <1>4, <1>5 DEF Mine

\* Identifiers that another client remembers are not used again.
Spares(c) ==
    \A d \in Client \ {c} :
        /\ \A b \in BlobId : blobs[b] = Stable(Gone) /\ tx[d].blob = b =>
               blobs'[b] = Stable(Gone)
        /\ \A r \in RefId : refs[r] = Stable(Gone) /\ tx[d].ref = r =>
               refs'[r] = Stable(Gone)

\* A step that commits nothing disturbs nobody ...
LEMMA QuietUndisturbed ==
    ASSUME BInv, NEW c \in Client, Quiet(c), Moves(c), Spares(c),
           NEW d \in Client, d # c
    PROVE  Undisturbed(d)
<1>0. d \notin {c, Nobody}
  BY NobodyAssumption
<1>1. tx'[d] = tx[d]
  BY DEF Moves
<1>2. ASSUME NEW r \in RefId
      PROVE  /\ (refs'[r].by = d) <=> (refs[r].by = d)
             /\ refs[r].by = d => refs'[r] = refs[r]
             /\ refs'[r].com = refs[r].com
  <2>1. Kept(c, refs[r], refs'[r])
    BY DEF Quiet
  <2> QED
    BY <1>0, <2>1 DEF Kept
<1>3. ASSUME NEW b \in BlobId
      PROVE  /\ (blobs'[b].by = d) <=> (blobs[b].by = d)
             /\ blobs[b].by = d => blobs'[b] = blobs[b]
             /\ blobs'[b].com = blobs[b].com
  <2>1. Kept(c, blobs[b], blobs'[b])
    BY DEF Quiet
  <2> QED
    BY <1>0, <2>1 DEF Kept
<1>4. ASSUME NEW b \in BlobId
      PROVE  RefsOf(d, b)' = RefsOf(d, b)
  <2>1. \A r \in RefId : Sees(d, refs'[r]) = Sees(d, refs[r])
    BY <1>2 DEF Sees
  <2>2. RefsOf(d, b)' = {r \in RefId : Sees(d, refs'[r]) # Gone /\ Sees(d, refs'[r]).blob = b}
    BY DEF RefsOf, Sees
  <2> QED
    BY <2>1, <2>2 DEF RefsOf
<1>5. /\ \A b \in BlobId : blobs[b] = Stable(Gone) /\ tx[d].blob = b =>
               blobs'[b] = Stable(Gone)
      /\ \A r \in RefId : refs[r] = Stable(Gone) /\ tx[d].ref = r =>
               refs'[r] = Stable(Gone)
  BY DEF Spares
<1> QED
  BY <1>1, <1>2, <1>3, <1>4, <1>5 DEF Undisturbed

\* ... and a commit neither: the references it settles concern a blob that
\* nobody else has locked.
LEMMA CommitUndisturbed ==
    ASSUME BInv, NEW c \in Client, Mine(c), Commit(c), KeysHold(c),
           NEW d \in Client, d # c
    PROVE  Undisturbed(d)
<1>0. d # Nobody /\ c # Nobody
  BY NobodyAssumption
<1>1. /\ tx'[d] = tx[d] /\ tx[c].pc = "commit"
      /\ \A b \in BlobId : blobs'[b] = Committed(c, blobs[b])
      /\ \A r \in RefId : refs'[r] = Committed(c, refs[r])
  BY CommitStep DEF Moves, Commit, At
<1>2. ASSUME NEW r \in RefId
      PROVE  /\ (refs'[r].by = d) <=> (refs[r].by = d)
             /\ refs[r].by = d => refs'[r] = refs[r]
             /\ refs[r].com # Gone => (refs'[r].com = refs[r].com \/ refs'[r] = Stable(Gone))
             /\ refs[r] = Stable(Gone) => refs'[r] = Stable(Gone)
  <2>1. CASE refs[r].by # c
    <3>1. refs'[r] = refs[r]
      BY <1>1, <2>1 DEF Committed
    <3> QED
      BY <3>1
  <2>2. CASE refs[r].by = c
    <3>1. refs'[r] = Stable(refs[r].new)
      BY <1>1, <2>2 DEF Committed
    <3>2. Removes(c, r) \/ Inserts(c, r)
      BY <2>2 DEF Mine, Wrote
    <3>3. refs[r].com # Gone => refs[r].new = Gone
      BY <3>2 DEF Removes, Inserts
    <3> QED
      BY <1>0, <2>2, <3>1, <3>3 DEF Stable
  <2> QED
    BY <2>1, <2>2
<1>3. ASSUME NEW b \in BlobId
      PROVE  /\ (blobs'[b].by = d) <=> (blobs[b].by = d)
             /\ blobs[b].by = d => blobs'[b] = blobs[b]
             /\ blobs[b].com # Gone => (blobs'[b].com # Gone \/ blobs'[b] = Stable(Gone))
             /\ blobs[b] = Stable(Gone) => blobs'[b] = Stable(Gone)
  <2>1. CASE blobs[b].by # c
    <3>1. blobs'[b] = blobs[b]
      BY <1>1, <2>1 DEF Committed
    <3> QED
      BY <3>1
  <2>2. CASE blobs[b].by = c
    <3>1. blobs'[b] = Stable(blobs[b].new)
      BY <1>1, <2>2 DEF Committed
    <3> QED
      BY <1>0, <2>2, <3>1 DEF Stable
  <2> QED
    BY <2>1, <2>2
<1>4. ASSUME NEW b \in BlobId, blobs[b].by = d
      PROVE  RefsOf(d, b)' = RefsOf(d, b)
  <2>1. ASSUME NEW r \in RefId
        PROVE  (Sees(d, refs'[r]) # Gone /\ Sees(d, refs'[r]).blob = b)
                 <=> (Sees(d, refs[r]) # Gone /\ Sees(d, refs[r]).blob = b)
    <3>1. CASE refs[r].by # c
      <4>1. refs'[r] = refs[r]
        BY <1>1, <3>1 DEF Committed
      <4> QED
        BY <4>1
    <3>2. CASE refs[r].by = c
      <4>1. refs'[r] = Stable(refs[r].new)
        BY <1>1, <3>2 DEF Committed
      <4>2. Sees(d, refs'[r]) = refs[r].new /\ Sees(d, refs[r]) = refs[r].com
        BY <1>0, <3>2, <4>1 DEF Sees, Stable
      <4>3. Removes(c, r) \/ Inserts(c, r)
        BY <3>2 DEF Mine, Wrote
      <4>4. /\ refs[r].new # Gone => refs[r].new.blob = tx[c].blob
            /\ refs[r].com # Gone => refs[r].com.blob = tx[c].blob
        BY <4>3 DEF Removes, Inserts
      <4>5. blobs[tx[c].blob].by = c \/ blobs[tx[c].blob] = Stable(Gone)
        BY <1>1, <3>2 DEF Mine, Locks
      <4>6. tx[c].blob # b
        BY <1>0, <1>4, <4>5 DEF Stable
      <4> QED
        BY <4>2, <4>4, <4>6
    <3> QED
      BY <3>1, <3>2
  <2>2. RefsOf(d, b)' = {r \in RefId : Sees(d, refs'[r]) # Gone /\ Sees(d, refs'[r]).blob = b}
    BY DEF RefsOf, Sees
  <2> QED
    BY <2>1, <2>2 DEF RefsOf
<1> QED
  BY <1>1, <1>2, <1>3, <1>4 DEF Undisturbed

-----------------------------------------------------------------------------
(* The statements again, for what the calling client keeps of Mine          *)

\* A call that has ended holds nothing.
LEMMA IdleMine ==
    ASSUME NEW c \in Client, tx'[c] = Idle,
           \A b \in BlobId : blobs'[b].by # c, \A r \in RefId : refs'[r].by # c
    PROVE  Mine(c)'
<1>1. tx'[c].pc = "idle"
  BY DEF Idle
<1>2. Wrote(c)' /\ Knows(c)' /\ Locks(c)'
  BY <1>1 DEF Wrote, Knows, Locks, DiscardPC
<1>3. Counted(c)'
  BY DEF Counted
<1> QED
  BY <1>2, <1>3 DEF Mine

LEMMA RaiseMine ==
    ASSUME BInv, NEW c \in Client, Raise(c)
    PROVE  Mine(c)' /\ Spares(c)
<1>0. c # Nobody
  BY NobodyAssumption
<1>1. tx'[c] = Idle
  BY DEF Raise, BInv, TypeOK
<1>2. ASSUME NEW b \in BlobId
      PROVE  blobs'[b].by # c /\ (blobs[b].by # c => blobs'[b] = blobs[b])
  <2>1. blobs'[b] = RolledBack(c, blobs[b])
    BY DEF Raise
  <2> QED
    BY <1>0, <2>1 DEF RolledBack, Stable
<1>3. ASSUME NEW r \in RefId
      PROVE  refs'[r].by # c /\ (refs[r].by # c => refs'[r] = refs[r])
  <2>1. refs'[r] = RolledBack(c, refs[r])
    BY DEF Raise
  <2> QED
    BY <1>0, <2>1 DEF RolledBack, Stable
<1>4. Stable(Gone).by # c
  BY <1>0 DEF Stable
<1> QED
  BY <1>1, <1>2, <1>3, <1>4, IdleMine DEF Spares

LEMMA CommitMine ==
    ASSUME BInv, NEW c \in Client, Commit(c), KeysHold(c)
    PROVE  Mine(c)'
<1>0. c # Nobody
  BY NobodyAssumption
<1>1. /\ tx'[c] = Idle
      /\ \A b \in BlobId : blobs'[b] = Committed(c, blobs[b])
      /\ \A r \in RefId : refs'[r] = Committed(c, refs[r])
  BY CommitStep
<1>2. ASSUME NEW b \in BlobId
      PROVE  blobs'[b].by # c
  <2>1. blobs'[b] = Committed(c, blobs[b])
    BY <1>1
  <2> QED
    BY <1>0, <2>1 DEF Committed, Stable
<1>3. ASSUME NEW r \in RefId
      PROVE  refs'[r].by # c
  <2>1. refs'[r] = Committed(c, refs[r])
    BY <1>1
  <2> QED
    BY <1>0, <2>1 DEF Committed, Stable
<1> QED
  BY <1>1, <1>2, <1>3, IdleMine

\* A statement that only reads, of a call that has not written a reference.
LEMMA ReadMine ==
    ASSUME NEW c \in Client, Wrote(c), Counted(c), UNCHANGED <<blobs, refs>>,
           tx[c].pc \notin {"count_down", "zero", "commit", "insert_ref"},
           tx'[c].pc \notin {"count_down", "zero", "insert_ref"},
           Knows(c)',
           tx'[c].pc \in {"put_read", "delete_ref"} \cup DiscardPC =>
               \A b \in BlobId : blobs[b].by # c
    PROVE  Mine(c)' /\ Spares(c)
<1>1. \A r \in RefId : refs[r].by # c
  BY NoRefs
<1>2. Wrote(c)' /\ Locks(c)'
  BY <1>1 DEF Wrote, Locks
<1>3. Counted(c)'
  <2>1. ASSUME NEW b \in BlobId
        PROVE  RefsOf(c, b)' = RefsOf(c, b) /\ Due(c, b) = 0 /\ Due(c, b)' = 0
    BY DEF RefsOf, Sees, Due
  <2> QED
    BY <2>1 DEF Counted
<1>4. Spares(c)
  BY DEF Spares
<1> QED
  BY <1>2, <1>3, <1>4 DEF Mine

\* Where a call starts, and that a release knows its reference.
LEMMA BeginPC ==
    ASSUME BInv, NEW c \in Client, NoPurge, Begin(c)
    PROVE  \/ tx'[c].pc \in {"attach_read", "put_read", "discard_read"}
           \/ tx'[c].pc = "delete_ref" /\ KnowsRef(tx'[c].ref, tx'[c].blob)
<1>0. tx \in [Client -> Transaction]
  BY DEF BInv, TypeOK
<1>1. PICK op \in Op :
       \/ \E k \in Key, t \in Target :
            /\ op \in {"attach", "put_and_attach", "tracked"}
            /\ tx' = [tx EXCEPT ![c] = [Idle EXCEPT !.op = op, !.key = k,
                          !.target = t,
                          !.pc = IF op = "attach" THEN "attach_read" ELSE "put_read"]]
       \/ \E k \in Key :
            /\ op \in {"put", "discard"}
            /\ tx' = [tx EXCEPT ![c] = [Idle EXCEPT !.op = op, !.key = k,
                          !.pc = IF op = "put" THEN "put_read" ELSE "discard_read"]]
       \/ \E r \in RefId :
            /\ op = "release"
            /\ refs[r].com # Gone
            /\ tx' = [tx EXCEPT ![c] = [Idle EXCEPT !.op = op, !.ref = r,
                          !.blob = refs[r].com.blob, !.pc = "delete_ref"]]
       \/ \E t \in Target :
            /\ op = "purge"
            /\ tx' = [tx EXCEPT ![c] = [Idle EXCEPT !.op = op, !.target = t,
                          !.pc = "purge_read"]]
  BY DEF Begin
<1>2. ASSUME NEW k \in Key, NEW t \in Target,
             tx' = [tx EXCEPT ![c] = [Idle EXCEPT !.op = op, !.key = k, !.target = t,
                          !.pc = IF op = "attach" THEN "attach_read" ELSE "put_read"]]
      PROVE  tx'[c].pc \in {"attach_read", "put_read", "discard_read"}
  BY <1>0, <1>2 DEF Idle
<1>3. ASSUME NEW k \in Key,
             tx' = [tx EXCEPT ![c] = [Idle EXCEPT !.op = op, !.key = k,
                          !.pc = IF op = "put" THEN "put_read" ELSE "discard_read"]]
      PROVE  tx'[c].pc \in {"attach_read", "put_read", "discard_read"}
  BY <1>0, <1>3 DEF Idle
<1>4. ASSUME NEW r \in RefId, refs[r].com # Gone,
             tx' = [tx EXCEPT ![c] = [Idle EXCEPT !.op = op, !.ref = r,
                          !.blob = refs[r].com.blob, !.pc = "delete_ref"]]
      PROVE  tx'[c].pc = "delete_ref" /\ KnowsRef(tx'[c].ref, tx'[c].blob)
  <2>1. tx'[c].pc = "delete_ref" /\ tx'[c].ref = r /\ tx'[c].blob = refs[r].com.blob
    BY <1>0, <1>4 DEF Idle
  <2> QED
    BY <1>4, <2>1 DEF KnowsRef
<1>5. op # "purge"
  BY DEF NoPurge
<1> QED
  BY <1>1, <1>2, <1>3, <1>4, <1>5

LEMMA BeginMine ==
    ASSUME BInv, NEW c \in Client, Mine(c), NoPurge, Begin(c)
    PROVE  Mine(c)' /\ Spares(c)
<1>1. tx[c] = Idle /\ tx[c].pc = "idle" /\ UNCHANGED <<blobs, refs>>
  <2>1. tx[c] = Idle /\ UNCHANGED <<blobs, refs>>
    BY Zenon DEF Begin
  <2> QED
    BY <2>1 DEF Idle
<1>2. \A b \in BlobId : blobs[b].by # c
  BY <1>1 DEF BInv, Writes
<1>3. \/ tx'[c].pc \in {"attach_read", "put_read", "discard_read"}
      \/ tx'[c].pc = "delete_ref" /\ KnowsRef(tx'[c].ref, tx'[c].blob)
  BY BeginPC
<1>4. Knows(c)'
  BY <1>1, <1>3 DEF Knows, KnowsRef
<1> QED
  BY <1>1, <1>2, <1>3, <1>4, ReadMine DEF Mine

\* A row that a SELECT returns is known.
LEMMA FoundKnown ==
    ASSUME NEW c \in Client, NEW k, NEW b \in BlobsOf(c, k)
    PROVE  b \in BlobId /\ KnowsBlob(c, b)
BY DEF BlobsOf, Sees, KnowsBlob

\* A statement that goes on with a row it has found.
LEMMA FoundMine ==
    ASSUME BInv, NEW c \in Client, Mine(c), NEW pc \in {"commit", "attach_read", "count_up", "attach_ref"},
           tx[c].pc \in PutPC \cup {"attach_read"},
           NEW b \in BlobsOf(c, tx[c].key), GotoWith(c, pc, b), UNCHANGED <<blobs, refs>>
    PROVE  Mine(c)' /\ Spares(c)
<1>1. b \in BlobId /\ KnowsBlob(c, b)
  BY FoundKnown
<1>2. tx'[c].pc = pc /\ tx'[c].blob = b
  <2>1. pc \in PC /\ tx \in [Client -> Transaction]
    BY DEF PC, BInv, TypeOK
  <2> QED
    BY <1>1, <2>1, GotoWithMoves
<1>3. Knows(c)'
  BY <1>1, <1>2 DEF Knows, KnowsBlob
<1> QED
  BY <1>2, <1>3, ReadMine DEF Mine, PutPC, DiscardPC

LEMMA AfterPutIn ==
    ASSUME BInv, NEW c \in Client, tx[c].pc \in PutPC
    PROVE  AfterPut(tx[c].op) \in {"commit", "attach_read", "count_up"}
<1>1. tx[c].op \in Creating
  BY DEF BInv, Fields
<1> QED
  BY <1>1 DEF AfterPut, Creating

\* A statement that goes on to one that needs to know nothing.
LEMMA GotoMine ==
    ASSUME BInv, NEW c \in Client, Mine(c), NEW pc \in PC, Goto(c, pc), UNCHANGED <<blobs, refs>>,
           tx[c].pc \notin {"count_down", "zero", "commit", "insert_ref"},
           \/ pc \in {"put_insert", "put_reread", "attach_winner", "commit"}
           \/ pc = "count_up" /\ tx[c].pc = "attach_ref"
           \/ pc \in DiscardPC /\ tx[c].pc \in DiscardPC
    PROVE  Mine(c)' /\ Spares(c)
<1>1. tx'[c].pc = pc /\ tx'[c].blob = tx[c].blob
  BY GotoMoves DEF BInv, TypeOK
<1>2. Knows(c)'
  BY <1>1 DEF Mine, Knows, KnowsBlob, DiscardPC
<1>3. pc \in {"put_read", "delete_ref"} \cup DiscardPC =>
         \A b \in BlobId : blobs[b].by # c
  BY DEF Mine, Locks, DiscardPC
<1> QED
  BY <1>1, <1>2, <1>3, ReadMine DEF Mine, DiscardPC

LEMMA PutReadMine ==
    ASSUME BInv, NEW c \in Client, Mine(c), PutRead(c) \/ PutReread(c)
    PROVE  Mine(c)' /\ Spares(c)
<1>1. /\ tx[c].pc \in {"put_read", "put_reread"} /\ tx[c].pc \in PutPC
      /\ "put_insert" \in PC
  BY DEF PutRead, PutReread, At, PutPC, PC
<1>2. \/ \E b \in BlobsOf(c, tx[c].key) : GotoWith(c, AfterPut(tx[c].op), b) /\ UNCHANGED <<blobs, refs>>
      \/ Goto(c, "put_insert") /\ UNCHANGED <<blobs, refs>>
      \/ Raise(c)
  BY DEF PutRead, PutReread
<1>3. ASSUME NEW b \in BlobsOf(c, tx[c].key), GotoWith(c, AfterPut(tx[c].op), b),
             UNCHANGED <<blobs, refs>>
      PROVE  Mine(c)' /\ Spares(c)
  BY <1>1, <1>3, AfterPutIn, FoundMine
<1>4. ASSUME Goto(c, "put_insert"), UNCHANGED <<blobs, refs>>
      PROVE  Mine(c)' /\ Spares(c)
  BY <1>1, <1>4, GotoMine
<1> QED
  BY <1>2, <1>3, <1>4, RaiseMine

LEMMA AttachReadMine ==
    ASSUME BInv, NEW c \in Client, Mine(c), AttachRead(c)
    PROVE  Mine(c)' /\ Spares(c)
<1>1. tx[c].pc = "attach_read"
  BY DEF AttachRead, At
<1>2. ASSUME NEW b \in BlobsOf(c, tx[c].key), GotoWith(c, "attach_ref", b),
             UNCHANGED <<blobs, refs>>
      PROVE  Mine(c)' /\ Spares(c)
  BY <1>1, <1>2, FoundMine
<1> QED
  BY <1>2, RaiseMine DEF AttachRead

LEMMA AttachMine ==
    ASSUME BInv, NEW c \in Client, Mine(c), AttachRef(c) \/ AttachReread(c) \/ AttachWinner(c)
    PROVE  Mine(c)' /\ Spares(c)
<1>1. "count_up" \in PC /\ "commit" \in PC /\ "attach_winner" \in PC
  BY DEF PC
<1>2. /\ tx[c].pc \in {"attach_ref", "attach_reread", "attach_winner"}
      /\ \/ /\ UNCHANGED <<blobs, refs>>
            /\ \/ Goto(c, "count_up") /\ tx[c].pc = "attach_ref"
               \/ Goto(c, "commit") \/ Goto(c, "attach_winner")
         \/ Raise(c)
  BY DEF AttachRef, AttachReread, AttachWinner, At
<1> QED
  BY <1>1, <1>2, GotoMine, RaiseMine

\* A call writes one row of blobs and no reference: what it has counted of
\* the other blobs stays, of this one it counts anew.
LEMMA BlobMine ==
    ASSUME NEW c \in Client, Counted(c), NEW b \in BlobId, UNCHANGED refs,
           tx[c].pc # "insert_ref" \/ tx[c].blob = b,
           tx'[c].pc # "insert_ref" \/ tx'[c].blob = b,
           \A d \in BlobId : d # b => blobs'[d] = blobs[d],
           blobs'[b].by = c /\ blobs'[b].new # Gone =>
               blobs'[b].new.count = Cardinality(RefsOf(c, b)) + Due(c, b)'
    PROVE  Counted(c)'
<1>1. \A d \in BlobId : RefsOf(c, d)' = RefsOf(c, d)
  BY DEF RefsOf, Sees
<1>2. ASSUME NEW d \in BlobId, d # b
      PROVE  Due(c, d) = 0 /\ Due(c, d)' = 0
  BY <1>2 DEF Due
<1> QED
  BY <1>1, <1>2 DEF Counted

\* Another client's memory of a row is not at stake when the row is there.
LEMMA WriteSpares ==
    ASSUME NEW c \in Client, NEW b \in BlobId, blobs[b] # Stable(Gone), UNCHANGED refs,
           \A d \in BlobId : d # b => blobs'[d] = blobs[d]
    PROVE  Spares(c)
BY DEF Spares

LEMMA PutInsertMine ==
    ASSUME BInv, NEW c \in Client, Mine(c), PutInsert(c)
    PROVE  Mine(c)' /\ Spares(c)
<1>1. /\ tx[c].pc = "put_insert" /\ tx[c].pc \in PutPC /\ tx[c].key \in Key
      /\ "put_reread" \in PC
  BY DEF PutInsert, At, PutPC, PC, BInv, Fields
<1>2. ASSUME NEW b \in NewBlobId, UNCHANGED refs,
             blobs' = [blobs EXCEPT ![b] =
                 Write(c, blobs[b], [is |-> "blob", key |-> tx[c].key, count |-> 0])],
             GotoWith(c, AfterPut(tx[c].op), b)
      PROVE  Mine(c)' /\ Spares(c)
  <2> DEFINE v == [is |-> "blob", key |-> tx[c].key, count |-> 0]
  <2>1. b \in BlobId /\ Forgotten(b)
    BY NewBlob
  <2>2. /\ blobs'[b] = Write(c, blobs[b], v)
        /\ \A d \in BlobId : d # b => blobs'[d] = blobs[d]
    BY <1>2, <2>1 DEF BInv, TypeOK
  <2>3. blobs'[b].by = c /\ blobs'[b].new = v /\ v.count = 0
    BY <2>2 DEF Write
  <2> HIDE DEF v
  <2>4. tx'[c].blob = b /\ tx'[c].pc \in {"commit", "attach_read", "count_up"}
    BY <1>1, <1>2, <2>1, AfterPutMoves
  <2>5. \A r \in RefId : refs[r].by # c /\ refs'[r].by # c
    BY <1>1, <1>2, NoRefs DEF Mine
  <2>6. RefsOf(c, b) = {}
    BY <2>1 DEF Forgotten, RefsOf, Sees
  <2>7. Due(c, b)' = 0
    BY <2>4 DEF Due
  <2>8. Counted(c)'
    <3>1. blobs'[b].new.count = Cardinality(RefsOf(c, b)) + Due(c, b)'
      BY <2>3, <2>6, <2>7, FS_EmptySet
    <3> QED
      BY <1>1, <1>2, <2>1, <2>2, <2>4, <3>1, BlobMine DEF Mine
  <2>9. Wrote(c)' /\ Knows(c)' /\ Locks(c)'
    BY <2>3, <2>4, <2>5 DEF Wrote, Knows, KnowsBlob, Locks, DiscardPC
  <2>10. Spares(c)
    BY <1>2, <2>1, <2>2 DEF Spares, Forgotten
  <2> QED
    BY <2>8, <2>9, <2>10 DEF Mine
<1>3. ASSUME Goto(c, "put_reread"), UNCHANGED <<blobs, refs>>
      PROVE  Mine(c)' /\ Spares(c)
  BY <1>1, <1>3, GotoMine
<1> QED
  BY <1>2, <1>3 DEF PutInsert

LEMMA CountUpMine ==
    ASSUME BInv, CountMatchesRefs, NEW c \in Client, Mine(c), CountUp(c)
    PROVE  Mine(c)' /\ Spares(c)
<1> DEFINE b == tx[c].blob
<1>1. /\ tx[c].pc = "count_up" /\ Writes(c) /\ Blockers(c) = {}
      /\ tx \in [Client -> Transaction] /\ b \in BlobId /\ "insert_ref" \in PC
      /\ Goto(c, "insert_ref") /\ UNCHANGED refs
      /\ Wrote(c) /\ Counted(c) /\ KnowsBlob(c, b)
  BY DEF CountUp, At, BInv, TypeOK, Fields, AttachPC, PC, Mine, Knows
<1>2. tx'[c].pc = "insert_ref" /\ tx'[c].blob = b
  BY <1>1, GotoMoves
<1>3. \A r \in RefId : refs[r].by # c
  BY <1>1, NoRefs
<1>4. Wrote(c)' /\ Locks(c)'
  BY <1>1, <1>2, <1>3 DEF Wrote, Locks, DiscardPC
<1>5. CASE Sees(c, blobs[b]) = Gone
  <2>1. UNCHANGED blobs
    BY <1>5 DEF CountUp
  <2>2. blobs[b].by # c
    BY <1>1, <1>5 DEF Sees, Writes, AttachPC
  <2>3. blobs[b] = Stable(Gone)
    BY <1>1, <1>5, <2>2 DEF Sees, KnowsBlob
  <2>4. Knows(c)'
    BY <1>2, <2>1, <2>3 DEF Knows
  <2>5. Counted(c)'
    BY <1>1, <1>2, <2>1, <2>2, BlobMine
  <2>6. Spares(c)
    BY <1>1, <2>1 DEF Spares
  <2> QED
    BY <1>4, <2>4, <2>5, <2>6 DEF Mine
<1>6. CASE Sees(c, blobs[b]) # Gone
  <2> DEFINE v == blobs[b].new
  <2>1. /\ blobs[b].by \in {c, Nobody} /\ v \in Blob /\ Sees(c, blobs[b]) = v
    BY <1>1, <1>6, BlobFree
  <2>2. /\ blobs'[b] = Write(c, blobs[b], Plus(v))
        /\ \A d \in BlobId : d # b => blobs'[d] = blobs[d]
    BY <1>1, <1>6, <2>1 DEF CountUp, BInv, TypeOK
  <2>3. blobs'[b].by = c /\ blobs'[b].new = Plus(v)
    BY <2>2 DEF Write
  <2>4. Plus(v).count = v.count + 1
    BY <2>1 DEF Plus, Blob
  <2>5. v.count = Cardinality(RefsOf(c, b))
    <3>1. CASE blobs[b].by = c
      <4>1. v # Gone /\ Due(c, b) = 0
        BY <1>1, <1>6, <2>1 DEF Due
      <4>2. v.count = Cardinality(RefsOf(c, b)) + 0
        BY <1>1, <3>1, <4>1 DEF Counted
      <4> QED
        BY <4>2, FiniteRefs DEF RefsOf
    <3>2. CASE blobs[b].by # c
      <4>1. blobs[b].com = v /\ Stored(b)
        BY <1>6, <2>1, <3>2 DEF Sees, Stored
      <4>2. RefsOf(c, b) = References(b)
        BY <1>3 DEF RefsOf, References, Sees
      <4> QED
        BY <1>1, <4>1, <4>2 DEF CountMatchesRefs
    <3> QED
      BY <3>1, <3>2
  <2>6. Due(c, b)' = 1
    BY <1>2 DEF Due
  <2> HIDE DEF v
  <2>7. Counted(c)'
    BY <1>1, <1>2, <2>2, <2>3, <2>4, <2>5, <2>6, BlobMine
  <2>8. Knows(c)'
    BY <1>2, <2>3 DEF Knows
  <2>9. Spares(c)
    <3>1. blobs[b] # Stable(Gone)
      BY <1>6 DEF Sees, Stable
    <3> QED
      BY <1>1, <2>2, <3>1, WriteSpares
  <2> QED
    BY <1>4, <2>7, <2>8, <2>9 DEF Mine
<1> QED
  BY <1>5, <1>6

LEMMA InsertRefMine ==
    ASSUME BInv, NEW c \in Client, Mine(c), InsertRef(c)
    PROVE  Mine(c)' /\ Spares(c)
<1> DEFINE b == tx[c].blob
<1>1. /\ tx[c].pc = "insert_ref" /\ Writes(c) /\ tx[c].op \in Attaching
      /\ tx \in [Client -> Transaction] /\ b \in BlobId
      /\ "commit" \in PC /\ "attach_reread" \in PC
      /\ blobs[b] \in Versions(Blob)
      /\ Wrote(c) /\ Counted(c)
      /\ blobs[b].by = c \/ blobs[b] = Stable(Gone)
  BY DEF InsertRef, At, BInv, TypeOK, Fields, AttachPC, PC, Mine, Knows
<1>2. \A r \in RefId : refs[r].by # c
  BY <1>1, NoRefs
<1>3. ASSUME NEW r \in NewRefId, UNCHANGED blobs, Goto(c, "commit"),
             refs' = [refs EXCEPT ![r] =
                 Write(c, refs[r], [is |-> "ref", target |-> tx[c].target, blob |-> b])]
      PROVE  Mine(c)' /\ Spares(c)
  <2> DEFINE v == [is |-> "ref", target |-> tx[c].target, blob |-> b]
  <2>1. /\ r \in RefId /\ Unknown(r) /\ refs[r].by = Nobody
        /\ refs[r].com = Gone /\ refs[r].new = Gone
    BY NewRef
  <2>2. /\ refs'[r] = Write(c, refs[r], v)
        /\ \A s \in RefId : s # r => refs'[s] = refs[s]
    BY <1>3, <2>1 DEF BInv, TypeOK
  <2>3. v # Gone /\ v.blob = b
    BY DEF Gone
  <2> HIDE DEF v
  <2>4. refs'[r].by = c /\ refs'[r].new = v /\ refs'[r].com = Gone
    BY <2>1, <2>2 DEF Write
  <2>5. tx'[c].pc = "commit" /\ tx'[c].op = tx[c].op /\ tx'[c].blob = b
    BY <1>1, <1>3, GotoMoves
  <2>6. \A s \in RefId : refs'[s].by = c => s = r
    BY <1>2, <2>2
  <2>7. Inserts(c, r)'
    BY <1>1, <2>3, <2>4, <2>5 DEF Inserts
  <2>8. Wrote(c)'
    BY <2>5, <2>6, <2>7 DEF Wrote
  <2>9. Locks(c)'
    BY <1>1, <1>3, <2>3, <2>4, <2>5, <2>6 DEF Locks, DiscardPC
  <2>10. Knows(c)'
    BY <2>5 DEF Knows
  <2>11. Counted(c)'
    <3>1. Sees(c, refs[r]) = Gone /\ Sees(c, refs'[r]) = v
      BY <2>1, <2>4 DEF Sees
    <3>2. \A s \in RefId : s # r => Sees(c, refs'[s]) = Sees(c, refs[s])
      BY <2>2
    <3>3. ASSUME NEW d \in BlobId
          PROVE  RefsOf(c, d)' = {s \in RefId : Sees(c, refs'[s]) # Gone /\ Sees(c, refs'[s]).blob = d}
      BY DEF RefsOf, Sees
    <3>4. ASSUME NEW d \in BlobId, d = b
          PROVE  Cardinality(RefsOf(c, d)') = Cardinality(RefsOf(c, d)) + 1
      <4>1. r \notin RefsOf(c, d)
        BY <3>1 DEF RefsOf
      <4>2. RefsOf(c, d)' = RefsOf(c, d) \cup {r}
        BY <2>1, <2>3, <3>1, <3>2, <3>3, <3>4 DEF RefsOf
      <4>3. IsFiniteSet(RefsOf(c, d))
        BY FiniteRefs DEF RefsOf
      <4> QED
        BY <4>1, <4>2, <4>3, FS_AddElement
    <3>5. ASSUME NEW d \in BlobId, blobs'[d].by = c, blobs'[d].new # Gone
          PROVE  blobs'[d].new.count = Cardinality(RefsOf(c, d)') + Due(c, d)'
      <4>1. blobs[d].new.count = Cardinality(RefsOf(c, d)) + Due(c, d) /\ blobs'[d] = blobs[d]
        BY <1>1, <1>3, <3>5 DEF Counted
      <4>2. Due(c, d)' = 0
        BY <2>5 DEF Due
      <4>3. CASE d = b
        <5>1. Due(c, d) = 1
          BY <1>1, <4>3 DEF Due
        <5>2. Cardinality(RefsOf(c, d)) \in Nat
          BY FiniteRefs DEF RefsOf
        <5> QED
          BY <3>4, <4>1, <4>2, <4>3, <5>1, <5>2
      <4>4. CASE d # b
        <5>1. Due(c, d) = 0
          BY <4>4 DEF Due
        <5>2. RefsOf(c, d)' = RefsOf(c, d)
          BY <2>3, <3>1, <3>2, <3>3, <4>4 DEF RefsOf
        <5> QED
          BY <4>1, <4>2, <5>1, <5>2
      <4> QED
        BY <4>3, <4>4
    <3> QED
      BY <3>5 DEF Counted
  <2>12. Spares(c)
    BY <1>3, <2>1, <2>2 DEF Spares, Unknown
  <2> QED
    BY <2>8, <2>9, <2>10, <2>11, <2>12 DEF Mine
<1>4. ASSUME UNCHANGED refs, Goto(c, "attach_reread"),
             blobs' = [blobs EXCEPT ![b] = CountUndone(c, blobs[b])]
      PROVE  Mine(c)' /\ Spares(c)
  <2>1. tx'[c].pc = "attach_reread" /\ tx'[c].blob = b
    BY <1>1, <1>4, GotoMoves
  <2>2. /\ blobs'[b] = CountUndone(c, blobs[b])
        /\ \A d \in BlobId : d # b => blobs'[d] = blobs[d]
    BY <1>1, <1>4 DEF BInv, TypeOK
  <2>3. Wrote(c)' /\ Knows(c)' /\ Locks(c)'
    BY <1>2, <1>4, <2>1 DEF Wrote, Knows, Locks, DiscardPC
  <2>4. Due(c, b) = 1 /\ Due(c, b)' = 0
    BY <1>1, <2>1 DEF Due
  <2>5. blobs'[b].by = c /\ blobs'[b].new # Gone =>
           blobs'[b].new.count = Cardinality(RefsOf(c, b)) + Due(c, b)'
    <3> SUFFICES ASSUME blobs'[b].by = c, blobs'[b].new # Gone
                 PROVE  blobs'[b].new.count = Cardinality(RefsOf(c, b)) + Due(c, b)'
      OBVIOUS
    <3>1. blobs[b].by = c
      BY <2>2 DEF CountUndone
    <3>2. blobs[b].new # Gone /\ blobs[b].new \in Blob
      BY <1>1, <3>1 DEF Writes, AttachPC, Versions
    <3>3. blobs'[b].new = Minus(blobs[b].new)
      BY <2>2, <3>1, NobodyAssumption DEF CountUndone, Stable, Write
    <3>4. Minus(blobs[b].new).count = blobs[b].new.count - 1
      BY <3>2 DEF Minus, Blob
    <3>5. blobs[b].new.count = Cardinality(RefsOf(c, b)) + 1
      BY <1>1, <2>4, <3>1, <3>2 DEF Counted
    <3>6. Cardinality(RefsOf(c, b)) \in Nat
      BY FiniteRefs DEF RefsOf
    <3> QED
      BY <2>4, <3>3, <3>4, <3>5, <3>6
  <2>6. Counted(c)'
    BY <1>1, <1>4, <2>1, <2>2, <2>5, BlobMine
  <2>7. Spares(c)
    <3>1. CASE blobs[b].by = c
      <4>1. blobs[b] # Stable(Gone)
        BY <3>1, NobodyAssumption DEF Stable
      <4> QED
        BY <1>1, <1>4, <2>2, <4>1, WriteSpares
    <3>2. CASE blobs[b].by # c
      BY <1>4, <2>2, <3>2 DEF Spares, CountUndone
    <3> QED
      BY <3>1, <3>2
  <2> QED
    BY <2>3, <2>6, <2>7 DEF Mine
<1> QED
  BY <1>3, <1>4, RaiseMine DEF InsertRef

LEMMA DeleteRefMine ==
    ASSUME BInv, NEW c \in Client, Mine(c), NoPurge, DeleteRef(c)
    PROVE  Mine(c)' /\ Spares(c)
<1> DEFINE r == tx[c].ref
<1>1. /\ tx[c].pc = "delete_ref" /\ Blockers(c) = {} /\ r \in RefId
      /\ tx \in [Client -> Transaction] /\ "count_down" \in PC
      /\ refs[r] \in Versions(Reference) /\ tx[c].op \in {"release", "purge"}
      /\ Wrote(c) /\ Counted(c) /\ KnowsRef(r, tx[c].blob)
      /\ \A b \in BlobId : blobs[b].by # c
  BY DEF DeleteRef, At, BInv, TypeOK, Fields, RemovePC, PC, Mine, Knows, Locks
<1>2. tx[c].op = "release"
  <2>1. tx[c].op \in Op \cup {"none"}
    BY DEF BInv, TypeOK, Transaction
  <2> QED
    BY <1>1, <2>1 DEF NoPurge
<1>3. \A s \in RefId : refs[s].by # c
  BY <1>1, NoRefs
<1>4. ASSUME Sees(c, refs[r]) # Gone, refs' = [refs EXCEPT ![r] = Write(c, refs[r], Gone)],
             Goto(c, "count_down"), UNCHANGED blobs
      PROVE  Mine(c)' /\ Spares(c)
  <2>1. refs[r].com # Gone
    BY <1>1, <1>3, <1>4 DEF Sees
  <2>2. refs[r].com.blob = tx[c].blob
    BY <1>1, <2>1 DEF KnowsRef, Stable
  <2>3. /\ refs'[r] = Write(c, refs[r], Gone)
        /\ \A s \in RefId : s # r => refs'[s] = refs[s]
    BY <1>1, <1>4 DEF BInv, TypeOK
  <2>4. refs'[r].by = c /\ refs'[r].new = Gone /\ refs'[r].com = refs[r].com
    BY <2>3 DEF Write
  <2>5. /\ tx'[c].pc = "count_down" /\ tx'[c].op = tx[c].op
        /\ tx'[c].blob = tx[c].blob /\ tx'[c].ref = r
    BY <1>1, <1>4, GotoMoves
  <2>6. \A s \in RefId : refs'[s].by = c => s = r
    BY <1>3, <2>3
  <2>7. Removes(c, r)'
    BY <1>2, <2>1, <2>2, <2>4, <2>5 DEF Removes
  <2>8. Wrote(c)'
    BY <1>1, <2>4, <2>5, <2>6, <2>7 DEF Wrote
  <2>9. Knows(c)' /\ Locks(c)' /\ Counted(c)'
    BY <1>1, <1>4, <2>5 DEF Knows, Locks, Counted
  <2>10. Spares(c)
    <3>1. refs[r] # Stable(Gone)
      BY <2>1 DEF Stable
    <3> QED
      BY <1>4, <2>3, <3>1 DEF Spares
  <2> QED
    BY <2>8, <2>9, <2>10 DEF Mine
<1> QED
  BY <1>2, <1>4, RaiseMine DEF DeleteRef

\* The removed reference is the only one the call has written, so that what
\* it sees of the references of the blob is what is committed, less that one.
LEMMA CountDownMine ==
    ASSUME BInv, CountMatchesRefs, NEW c \in Client, Mine(c), CountDown(c)
    PROVE  Mine(c)' /\ Spares(c)
<1> DEFINE b == tx[c].blob
           r == tx[c].ref
<1>1. /\ tx[c].pc = "count_down" /\ Blockers(c) = {} /\ b \in BlobId
      /\ tx \in [Client -> Transaction] /\ "zero" \in PC
      /\ r \in RefId /\ refs[r].by = c
      /\ Wrote(c) /\ Counted(c) /\ \A d \in BlobId : blobs[d].by # c
  BY DEF CountDown, At, BInv, TypeOK, Fields, RemovePC, PC, Mine, Wrote, Locks
<1>2. Removes(c, r) /\ \A s \in RefId : refs[s].by = c => s = r
  BY <1>1 DEF Wrote, Inserts
<1>3. ASSUME Sees(c, blobs[b]) # Gone, Goto(c, "zero"), UNCHANGED refs,
             blobs' = [blobs EXCEPT ![b] = Write(c, blobs[b], Minus(Sees(c, blobs[b])))]
      PROVE  Mine(c)' /\ Spares(c)
  <2> DEFINE v == blobs[b].com
  <2>1. Sees(c, blobs[b]) = v /\ v # Gone /\ v \in Blob
    <3>1. Sees(c, blobs[b]) = v
      BY <1>1 DEF Sees
    <3>2. blobs[b] \in Versions(Blob)
      BY <1>1 DEF BInv, TypeOK
    <3> QED
      BY <1>3, <3>1, <3>2 DEF Versions
  <2>2. /\ blobs'[b] = Write(c, blobs[b], Minus(v))
        /\ \A d \in BlobId : d # b => blobs'[d] = blobs[d]
    BY <1>1, <1>3, <2>1 DEF BInv, TypeOK
  <2>3. blobs'[b].by = c /\ blobs'[b].new = Minus(v)
    BY <2>2 DEF Write
  <2>4. Minus(v).count = v.count - 1
    BY <2>1 DEF Minus, Blob
  <2>5. v.count = Cardinality(References(b))
    BY <1>1, <2>1 DEF CountMatchesRefs, Stored
  <2>6. References(b) = RefsOf(c, b) \cup {r} /\ r \notin RefsOf(c, b)
    <3>1. Sees(c, refs[r]) = Gone /\ refs[r].com # Gone /\ refs[r].com.blob = b
      BY <1>1, <1>2 DEF Removes, Sees
    <3>2. \A s \in RefId : s # r => Sees(c, refs[s]) = refs[s].com
      BY <1>2 DEF Sees
    <3> QED
      BY <1>1, <3>1, <3>2 DEF References, RefsOf
  <2>7. Cardinality(References(b)) = Cardinality(RefsOf(c, b)) + 1
        /\ Cardinality(RefsOf(c, b)) \in Nat
    <3>1. IsFiniteSet(RefsOf(c, b)) /\ Cardinality(RefsOf(c, b)) \in Nat
      BY FiniteRefs DEF RefsOf
    <3> QED
      BY <2>6, <3>1, FS_AddElement
  <2>8. tx'[c].pc = "zero" /\ tx'[c].blob = b /\ tx'[c].ref = r /\ tx'[c].op = tx[c].op
    BY <1>1, <1>3, GotoMoves
  <2>9. Due(c, b)' = 0
    BY <2>8 DEF Due
  <2> HIDE DEF v
  <2>10. Counted(c)'
    <3>1. blobs'[b].new.count = Cardinality(RefsOf(c, b)) + Due(c, b)'
      BY <2>3, <2>4, <2>5, <2>7, <2>9
    <3> QED
      BY <1>1, <1>3, <2>2, <2>8, <3>1, BlobMine
  <2>11. Removes(c, r)'
    BY <1>2, <1>3, <2>8 DEF Removes
  <2>12. Wrote(c)'
    BY <1>1, <1>2, <1>3, <2>8, <2>11 DEF Wrote
  <2>13. Knows(c)' /\ Locks(c)'
    BY <2>8 DEF Knows, Locks, DiscardPC
  <2>14. Spares(c)
    <3>1. blobs[b] # Stable(Gone)
      BY <1>3 DEF Sees, Stable
    <3> QED
      BY <1>1, <1>3, <2>2, <3>1, WriteSpares
  <2> QED
    BY <2>10, <2>12, <2>13, <2>14 DEF Mine
<1> QED
  BY <1>3, RaiseMine DEF CountDown

LEMMA ZeroMine ==
    ASSUME BInv, NEW c \in Client, Mine(c), NoPurge, Zero(c)
    PROVE  Mine(c)' /\ Spares(c)
<1> DEFINE b == tx[c].blob
           r == tx[c].ref
<1>1. /\ tx[c].pc = "zero" /\ b \in BlobId /\ blobs[b].by = c
      /\ tx \in [Client -> Transaction] /\ "commit" \in PC
      /\ r \in RefId /\ refs[r].by = c /\ tx[c].op \in {"release", "purge"}
      /\ Wrote(c) /\ Counted(c)
  BY DEF Zero, At, BInv, TypeOK, Fields, RemovePC, PC, Mine, Wrote, Writes
<1>2. Removes(c, r) /\ \A s \in RefId : refs[s].by = c => s = r
  BY <1>1 DEF Wrote, Inserts
<1>3. AfterRemoval(tx[c].op) = "commit"
  <2>1. tx[c].op \in Op \cup {"none"}
    BY DEF BInv, TypeOK, Transaction
  <2> QED
    BY <1>1, <2>1 DEF NoPurge, AfterRemoval
<1>4. ASSUME Goto(c, "commit"), UNCHANGED refs, blobs'[b].by = c
      PROVE  Wrote(c)' /\ Knows(c)' /\ Locks(c)' /\ tx'[c].pc = "commit" /\ tx'[c].blob = b
  <2>1. tx'[c].pc = "commit" /\ tx'[c].blob = b /\ tx'[c].ref = r /\ tx'[c].op = tx[c].op
    BY <1>1, <1>4, GotoMoves
  <2>2. Removes(c, r)'
    BY <1>2, <1>4, <2>1 DEF Removes
  <2>3. Wrote(c)'
    BY <1>2, <1>4, <2>1, <2>2 DEF Wrote
  <2>4. Knows(c)' /\ Locks(c)'
    BY <1>4, <2>1 DEF Knows, Locks, DiscardPC
  <2> QED
    BY <2>1, <2>3, <2>4
<1>5. ASSUME Goto(c, "commit"), UNCHANGED <<blobs, refs>>
      PROVE  Mine(c)' /\ Spares(c)
  <2>1. Wrote(c)' /\ Knows(c)' /\ Locks(c)' /\ tx'[c].pc = "commit" /\ tx'[c].blob = b
    BY <1>1, <1>4, <1>5
  <2>2. Counted(c)'
    <3>1. Due(c, b) = 0 /\ Due(c, b)' = 0
      BY <1>1, <2>1 DEF Due
    <3>2. blobs[b].by = c /\ blobs[b].new # Gone =>
             blobs[b].new.count = Cardinality(RefsOf(c, b)) + Due(c, b)'
      BY <1>1, <3>1 DEF Counted
    <3> QED
      BY <1>1, <1>5, <2>1, <3>2, BlobMine
  <2>3. Spares(c)
    BY <1>5 DEF Spares
  <2> QED
    BY <2>1, <2>2, <2>3 DEF Mine
<1>6. ASSUME Goto(c, "commit"), UNCHANGED refs,
             blobs' = [blobs EXCEPT ![b] = Write(c, blobs[b], Gone)]
      PROVE  Mine(c)' /\ Spares(c)
  <2>1. /\ blobs'[b] = Write(c, blobs[b], Gone)
        /\ \A d \in BlobId : d # b => blobs'[d] = blobs[d]
    BY <1>1, <1>6 DEF BInv, TypeOK
  <2>2. blobs'[b].by = c /\ blobs'[b].new = Gone
    BY <2>1 DEF Write
  <2>3. Wrote(c)' /\ Knows(c)' /\ Locks(c)' /\ tx'[c].pc = "commit" /\ tx'[c].blob = b
    BY <1>4, <1>6, <2>2
  <2>4. Counted(c)'
    BY <1>1, <1>6, <2>1, <2>2, <2>3, BlobMine
  <2>5. Spares(c)
    <3>1. blobs[b] # Stable(Gone)
      BY <1>1, NobodyAssumption DEF Stable
    <3> QED
      BY <1>1, <1>6, <2>1, <3>1, WriteSpares
  <2> QED
    BY <2>3, <2>4, <2>5 DEF Mine
<1> QED
  BY <1>3, <1>5, <1>6, RaiseMine DEF Zero

LEMMA DiscardMine ==
    ASSUME BInv, NEW c \in Client, Mine(c),
           DiscardRead(c) \/ DiscardProtect(c) \/ DiscardDelete(c)
    PROVE  Mine(c)' /\ Spares(c)
<1>1. /\ tx[c].pc \in DiscardPC /\ tx \in [Client -> Transaction]
      /\ Wrote(c) /\ Counted(c) /\ \A b \in BlobId : blobs[b].by # c
      /\ {"commit", "discard_protect", "discard_delete"} \subseteq PC
  BY DEF DiscardRead, DiscardProtect, DiscardDelete, At, DiscardPC, BInv, TypeOK,
         Mine, Locks, PC
<1>2. ASSUME NEW pc \in {"commit", "discard_delete"}, Goto(c, pc), UNCHANGED <<blobs, refs>>
      PROVE  Mine(c)' /\ Spares(c)
  BY <1>1, <1>2, GotoMine DEF DiscardPC
<1>3. ASSUME NEW b \in BlobId, GotoWith(c, "discard_protect", b), UNCHANGED <<blobs, refs>>
      PROVE  Mine(c)' /\ Spares(c)
  <2>1. tx'[c].pc = "discard_protect"
    BY <1>1, <1>3, GotoWithMoves
  <2>2. Knows(c)'
    BY <2>1 DEF Knows
  <2> QED
    BY <1>1, <1>3, <2>1, <2>2, ReadMine DEF DiscardPC
<1>4. ASSUME DiscardDelete(c), Sees(c, blobs[tx[c].blob]) # Gone
      PROVE  Mine(c)' /\ Spares(c)
  <2> DEFINE b == tx[c].blob
  <2>1. tx[c].pc = "discard_delete" /\ Goto(c, "commit") /\ UNCHANGED refs /\ b \in BlobId
    BY <1>4 DEF DiscardDelete, At, BInv, Fields, DiscardPC
  <2>2. /\ blobs'[b] = Write(c, blobs[b], Gone)
        /\ \A d \in BlobId : d # b => blobs'[d] = blobs[d]
    BY <1>4, <2>1 DEF DiscardDelete, BInv, TypeOK
  <2>3. blobs'[b].by = c /\ blobs'[b].new = Gone
    BY <2>2 DEF Write
  <2>4. tx'[c].pc = "commit" /\ tx'[c].blob = b
    BY <1>1, <2>1, GotoMoves
  <2>5. \A r \in RefId : refs[r].by # c
    BY <1>1, NoRefs DEF DiscardPC
  <2>6. Wrote(c)' /\ Knows(c)' /\ Locks(c)'
    BY <2>1, <2>4, <2>5 DEF Wrote, Knows, Locks, DiscardPC
  <2>7. Counted(c)'
    BY <1>1, <2>1, <2>2, <2>3, <2>4, BlobMine
  <2>8. Spares(c)
    <3>1. blobs[b] # Stable(Gone)
      BY <1>4 DEF Sees, Stable
    <3> QED
      BY <2>1, <2>2, <3>1, WriteSpares
  <2> QED
    BY <2>6, <2>7, <2>8 DEF Mine
<1>5. ASSUME DiscardDelete(c), Sees(c, blobs[tx[c].blob]) = Gone
      PROVE  Mine(c)' /\ Spares(c)
  BY <1>2, <1>5 DEF DiscardDelete
<1> QED
  BY <1>2, <1>3, <1>4, <1>5, RaiseMine DEF DiscardRead, DiscardProtect, BlobsOf

-----------------------------------------------------------------------------
(* Committed counts                                                         *)

\* A step that commits nothing changes no committed count.
LEMMA CountsKept ==
    ASSUME BInv, CountMatchesRefs, NEW c \in Client, Quiet(c)
    PROVE  CountMatchesRefs'
<1>1. /\ \A b \in BlobId : blobs'[b].com = blobs[b].com
      /\ \A r \in RefId : refs'[r].com = refs[r].com
  BY DEF Quiet, Kept
<1>2. ASSUME NEW b \in BlobId
      PROVE  References(b)' = References(b)
  <2>1. References(b)' = {r \in RefId : refs'[r].com # Gone /\ refs'[r].com.blob = b}
    BY DEF References
  <2> QED
    BY <1>1, <2>1 DEF References
<1> QED
  BY <1>1, <1>2 DEF CountMatchesRefs, Stored

\* What is committed afterwards is what the committing call has seen before:
\* its own count of a blob it has written; of the others it has written no
\* reference, for it would have locked the blob first.
LEMMA CountsCommitted ==
    ASSUME BInv, CountMatchesRefs, NEW c \in Client, Mine(c), Commit(c), KeysHold(c)
    PROVE  CountMatchesRefs'
<1>1. /\ tx[c].pc = "commit"
      /\ \A b \in BlobId : blobs'[b] = Committed(c, blobs[b])
      /\ \A r \in RefId : refs'[r] = Committed(c, refs[r])
      /\ Wrote(c) /\ Locks(c) /\ Counted(c)
  BY CommitStep DEF Commit, At, Mine
<1>2. ASSUME NEW b \in BlobId
      PROVE  References(b)' = RefsOf(c, b)
  <2>1. ASSUME NEW r \in RefId
        PROVE  refs'[r].com = Sees(c, refs[r])
    <3>1. refs'[r] = Committed(c, refs[r])
      BY <1>1
    <3> QED
      BY <3>1 DEF Committed, Stable, Sees
  <2>2. References(b)' = {r \in RefId : refs'[r].com # Gone /\ refs'[r].com.blob = b}
    BY DEF References
  <2> QED
    BY <2>1, <2>2 DEF RefsOf
<1>3. ASSUME NEW b \in BlobId, blobs'[b].com # Gone
      PROVE  blobs'[b].com.count = Cardinality(RefsOf(c, b))
  <2>1. CASE blobs[b].by = c
    <3>1. blobs'[b].com = blobs[b].new
      <4>1. blobs'[b] = Committed(c, blobs[b])
        BY <1>1
      <4> QED
        BY <2>1, <4>1 DEF Committed, Stable
    <3>2. Due(c, b) = 0 /\ Cardinality(RefsOf(c, b)) \in Nat
      BY <1>1, FiniteRefs DEF Due, RefsOf
    <3> QED
      BY <1>1, <1>3, <2>1, <3>1, <3>2 DEF Counted
  <2>2. CASE blobs[b].by # c
    <3>1. blobs'[b] = blobs[b] /\ blobs[b].com # Gone
      BY <1>1, <1>3, <2>2 DEF Committed
    <3>2. ASSUME NEW r \in RefId
          PROVE  (Sees(c, refs[r]) # Gone /\ Sees(c, refs[r]).blob = b)
                   <=> (refs[r].com # Gone /\ refs[r].com.blob = b)
      <4>1. CASE refs[r].by # c
        BY <4>1 DEF Sees
      <4>2. CASE refs[r].by = c
        <5>1. Removes(c, r) \/ Inserts(c, r)
          BY <1>1, <4>2 DEF Wrote
        <5>2. blobs[tx[c].blob].by = c \/ blobs[tx[c].blob] = Stable(Gone)
          BY <1>1, <4>2 DEF Locks
        <5>3. tx[c].blob # b
          BY <2>2, <3>1, <5>2 DEF Stable
        <5> QED
          BY <4>2, <5>1, <5>3 DEF Sees, Removes, Inserts
      <4> QED
        BY <4>1, <4>2
    <3>3. RefsOf(c, b) = References(b)
      BY <3>2 DEF RefsOf, References
    <3> QED
      BY <3>1, <3>3 DEF CountMatchesRefs, Stored
  <2> QED
    BY <2>1, <2>2
<1> QED
  BY <1>2, <1>3 DEF CountMatchesRefs, Stored

CountInv == BInv /\ CountMatchesRefs /\ \A c \in Client : Mine(c)

LEMMA StepMine ==
    ASSUME BInv, CountMatchesRefs, NEW c \in Client, Mine(c), NoPurge,
           \/ Begin(c) \/ Dies(c) \/ DeadlockAborts(c)
           \/ Statement(c) /\ ~Commit(c)
           \/ Commit(c) /\ ~KeysHold(c)
    PROVE  Mine(c)' /\ Spares(c)
<1>1. CASE Begin(c)
  BY <1>1, BeginMine
<1>2. CASE Dies(c) \/ DeadlockAborts(c) \/ (Commit(c) /\ ~KeysHold(c))
  BY <1>2, RaiseMine DEF Dies, DeadlockAborts, Commit
<1>3. CASE Statement(c) /\ ~Commit(c)
  <2>1. ~PurgeRead(c)
    <3>1. tx[c].op \in Op \cup {"none"} /\ Fields(tx[c])
      BY DEF BInv, TypeOK, Transaction
    <3> QED
      BY <3>1 DEF PurgeRead, At, Fields, NoPurge
  <2> QED
    BY <1>3, <2>1, PutReadMine, PutInsertMine, AttachReadMine, AttachMine, CountUpMine,
       InsertRefMine, DeleteRefMine, CountDownMine, ZeroMine, DiscardMine DEF Statement
<1> QED
  BY <1>1, <1>2, <1>3

LEMMA CountInvNext == NoPurge /\ CountInv /\ [Next]_vars => CountInv'
<1> SUFFICES ASSUME NoPurge, CountInv, [Next]_vars
             PROVE  CountInv'
  OBVIOUS
<1>1. BInv /\ CountMatchesRefs /\ (\A c \in Client : Mine(c)) /\ BInv'
  BY BInvNext DEF CountInv
<1>2. ASSUME NEW c \in Client,
             \/ Begin(c) \/ Dies(c) \/ DeadlockAborts(c)
             \/ Statement(c) /\ ~Commit(c)
             \/ Commit(c) /\ ~KeysHold(c)
      PROVE  CountInv'
  <2>1. Quiet(c) /\ Moves(c)
    BY <1>1, <1>2, QuietStep
  <2>2. Mine(c)' /\ Spares(c)
    BY <1>1, <1>2, StepMine
  <2>3. ASSUME NEW d \in Client, d # c
        PROVE  Mine(d)'
    <3>1. Undisturbed(d)
      BY <1>1, <2>1, <2>2, <2>3, QuietUndisturbed
    <3> QED
      BY <1>1, <3>1, OthersMine
  <2>4. CountMatchesRefs'
    BY <1>1, <2>1, CountsKept
  <2> QED
    BY <1>1, <2>2, <2>3, <2>4 DEF CountInv
<1>3. ASSUME NEW c \in Client, Commit(c), KeysHold(c)
      PROVE  CountInv'
  <2>1. Mine(c)'
    BY <1>1, <1>3, CommitMine
  <2>2. ASSUME NEW d \in Client, d # c
        PROVE  Mine(d)'
    <3>1. Undisturbed(d)
      BY <1>1, <1>3, <2>2, CommitUndisturbed
    <3> QED
      BY <1>1, <3>1, OthersMine
  <2>3. CountMatchesRefs'
    BY <1>1, <1>3, CountsCommitted
  <2> QED
    BY <1>1, <2>1, <2>2, <2>3 DEF CountInv
<1>4. CASE UNCHANGED vars
  <2>1. ASSUME NEW d \in Client
        PROVE  Undisturbed(d)
    BY <1>4 DEF vars, Undisturbed, RefsOf, Sees
  <2>2. \A d \in Client : Mine(d)'
    BY <1>1, <2>1, OthersMine
  <2>3. CountMatchesRefs'
    BY <1>1, <1>4 DEF vars, CountMatchesRefs, Stored, References
  <2> QED
    BY <1>1, <2>2, <2>3 DEF CountInv
<1> QED
  BY <1>2, <1>3, <1>4 DEF Next

LEMMA CountInvInit == Init => CountInv
<1> SUFFICES ASSUME Init
             PROVE  CountInv
  OBVIOUS
<1>1. CountMatchesRefs
  BY DEF Init, CountMatchesRefs, Stored, Stable
<1>2. ASSUME NEW c \in Client
      PROVE  Mine(c)
  <2>1. /\ tx[c].pc = "idle"
        /\ \A b \in BlobId : blobs[b].by # c
        /\ \A r \in RefId : refs[r].by # c
    BY <1>2, NobodyAssumption DEF Init, Idle, Stable
  <2> QED
    BY <2>1 DEF Mine, Wrote, Knows, Locks, Counted, DiscardPC
<1> QED
  BY <1>1, <1>2, BInvInit DEF CountInv

\* The count of a committed blob is the number of its committed references,
\* for any puts, attaches, releases and discards of any number of clients,
\* whatever aborts among them.  A purge breaks it: see blob_purge_race.
THEOREM CountHolds ==
    ASSUME NoPurge
    PROVE  Spec => []CountMatchesRefs
<1>1. CountInv => CountMatchesRefs
  BY DEF CountInv
<1>2. CountInv /\ [Next]_vars => CountInv'
  BY CountInvNext
<1> QED
  BY <1>1, <1>2, CountInvInit, PTL DEF Spec

-----------------------------------------------------------------------------
(* The ledger, where nobody purges: unique keys                             *)

Vers(row) == {row.com, row.new} \ {Gone}

\* A key belongs to one blob and a target to one reference of a blob, in
\* every version that is committed or about to be.
KeysUnique ==
    \A b, d \in BlobId : \A v \in Vers(blobs[b]), w \in Vers(blobs[d]) :
        (v.key = w.key) <=> (b = d)
RefsUnique ==
    \A r, s \in RefId : \A v \in Vers(refs[r]), w \in Vers(refs[s]) :
        (v.blob = w.blob /\ v.target = w.target) <=> (r = s)

\* What a row may become without a new key or a new reference.
SameKeys(old, new) == \A v \in Vers(new) : \E w \in Vers(old) : w.key = v.key
KeysStay == \A b \in BlobId : SameKeys(blobs[b], blobs'[b])
RefsStay == \A r \in RefId : Vers(refs'[r]) \subseteq Vers(refs[r])

LEMMA KeysStayUnique == KeysUnique /\ KeysStay => KeysUnique'
<1> SUFFICES ASSUME KeysUnique, KeysStay, NEW b \in BlobId, NEW d \in BlobId,
                    NEW v \in Vers(blobs'[b]), NEW w \in Vers(blobs'[d])
             PROVE  (v.key = w.key) <=> (b = d)
  BY DEF KeysUnique, Vers
<1>1. PICK p \in Vers(blobs[b]) : p.key = v.key
  BY DEF KeysStay, SameKeys
<1>2. PICK q \in Vers(blobs[d]) : q.key = w.key
  BY DEF KeysStay, SameKeys
<1>3. (p.key = q.key) <=> (b = d)
  BY DEF KeysUnique
<1> QED
  BY <1>1, <1>2, <1>3

LEMMA RefsStayUnique == RefsUnique /\ RefsStay => RefsUnique'
<1> SUFFICES ASSUME RefsUnique, RefsStay, NEW r \in RefId, NEW s \in RefId,
                    NEW v \in Vers(refs'[r]), NEW w \in Vers(refs'[s])
             PROVE  (v.blob = w.blob /\ v.target = w.target) <=> (r = s)
  BY DEF RefsUnique, Vers
<1>1. v \in Vers(refs[r]) /\ w \in Vers(refs[s])
  BY DEF RefsStay
<1> QED
  BY <1>1 DEF RefsUnique

LEMMA VersSame ==
    ASSUME NEW row
    PROVE  SameKeys(row, row)
BY DEF SameKeys

\* Writing a row with a key of one of its versions, or none.
LEMMA WriteSame ==
    ASSUME NEW c, NEW row, NEW v,
           v # Gone => \E w \in Vers(row) : w.key = v.key
    PROVE  SameKeys(row, Write(c, row, v))
BY DEF SameKeys, Vers, Write

LEMMA CountSame ==
    ASSUME NEW v \in Blob
    PROVE  Plus(v).key = v.key /\ Minus(v).key = v.key
BY DEF Plus, Minus, Blob

LEMMA OneRowStays ==
    ASSUME BInv, NEW b \in BlobId, NEW w, blobs' = [blobs EXCEPT ![b] = w],
           SameKeys(blobs[b], w)
    PROVE  KeysStay
<1>1. /\ blobs'[b] = w
      /\ \A d \in BlobId : d # b => blobs'[d] = blobs[d]
  BY DEF BInv, TypeOK
<1> QED
  BY <1>1, VersSame DEF KeysStay

LEMMA RaiseStays ==
    ASSUME NEW c \in Client, Raise(c)
    PROVE  KeysStay /\ RefsStay
<1>1. ASSUME NEW b \in BlobId
      PROVE  SameKeys(blobs[b], blobs'[b])
  <2>1. blobs'[b] = RolledBack(c, blobs[b])
    BY DEF Raise
  <2> QED
    BY <2>1 DEF RolledBack, Stable, SameKeys, Vers
<1>2. ASSUME NEW r \in RefId
      PROVE  Vers(refs'[r]) \subseteq Vers(refs[r])
  <2>1. refs'[r] = RolledBack(c, refs[r])
    BY DEF Raise
  <2> QED
    BY <2>1 DEF RolledBack, Stable, Vers
<1> QED
  BY <1>1, <1>2 DEF KeysStay, RefsStay

LEMMA CommitStays ==
    ASSUME BInv, NEW c \in Client, Commit(c), KeysHold(c)
    PROVE  KeysStay /\ RefsStay
<1>1. ASSUME NEW b \in BlobId
      PROVE  SameKeys(blobs[b], blobs'[b])
  <2>1. blobs'[b] = Committed(c, blobs[b])
    BY CommitStep
  <2> QED
    BY <2>1 DEF Committed, Stable, SameKeys, Vers
<1>2. ASSUME NEW r \in RefId
      PROVE  Vers(refs'[r]) \subseteq Vers(refs[r])
  <2>1. refs'[r] = Committed(c, refs[r])
    BY CommitStep
  <2> QED
    BY <2>1 DEF Committed, Stable, Vers
<1> QED
  BY <1>1, <1>2 DEF KeysStay, RefsStay

LEMMA UnchangedStays ==
    /\ UNCHANGED blobs => KeysStay
    /\ UNCHANGED refs => RefsStay
BY VersSame DEF KeysStay, RefsStay

\* Every statement but the two INSERTs.
LEMMA StatementStays ==
    ASSUME BInv, NEW c \in Client, Statement(c), ~Commit(c)
    PROVE  /\ ~PutInsert(c) => KeysStay
           /\ ~InsertRef(c) => RefsStay
<1> DEFINE b == tx[c].blob
<1>0. blobs \in [BlobId -> Versions(Blob)] /\ refs \in [RefId -> Versions(Reference)]
  BY DEF BInv, TypeOK
<1>1. ASSUME UNCHANGED <<blobs, refs>>
      PROVE  KeysStay /\ RefsStay
  BY <1>1, UnchangedStays
<1>2. CASE PutRead(c) \/ PutReread(c) \/ AttachRead(c) \/ AttachRef(c)
             \/ AttachReread(c) \/ AttachWinner(c)
  BY <1>1, <1>2, RaiseStays
     DEF PutRead, PutReread, AttachRead, AttachRef, AttachReread, AttachWinner
<1>3. CASE PurgeRead(c) \/ DiscardRead(c) \/ DiscardProtect(c)
  BY <1>1, <1>3, RaiseStays DEF PurgeRead, DiscardRead, DiscardProtect
<1>4. CASE PutInsert(c)
  BY <1>4, UnchangedStays DEF PutInsert
<1>5. CASE CountUp(c)
  <2>1. UNCHANGED refs /\ tx[c].pc = "count_up" /\ Blockers(c) = {}
    BY <1>5 DEF CountUp, At
  <2>2. CASE Sees(c, blobs[b]) = Gone
    BY <1>5, <2>1, <2>2, UnchangedStays DEF CountUp
  <2>3. CASE Sees(c, blobs[b]) # Gone
    <3>1. b \in BlobId /\ Sees(c, blobs[b]) = blobs[b].new /\ blobs[b].new \in Blob
      BY <2>1, <2>3, BlobFree
    <3>2. blobs' = [blobs EXCEPT ![b] = Write(c, blobs[b], Plus(blobs[b].new))]
      BY <1>5, <2>3, <3>1 DEF CountUp
    <3>3. SameKeys(blobs[b], Write(c, blobs[b], Plus(blobs[b].new)))
      <4>1. blobs[b].new \in Vers(blobs[b])
        BY <2>3, <3>1 DEF Vers
      <4> QED
        BY <3>1, <4>1, CountSame, WriteSame
    <3> QED
      BY <2>1, <3>1, <3>2, <3>3, OneRowStays, UnchangedStays
  <2> QED
    BY <2>2, <2>3
<1>6. CASE InsertRef(c)
  <2>1. b \in BlobId /\ Writes(c) /\ tx[c].pc = "insert_ref"
    BY <1>6 DEF InsertRef, At, BInv, Fields, AttachPC
  <2>2. ASSUME blobs' = [blobs EXCEPT ![b] = CountUndone(c, blobs[b])]
        PROVE  KeysStay
    <3>1. SameKeys(blobs[b], CountUndone(c, blobs[b]))
      <4>1. CASE blobs[b].by # c
        BY <4>1, VersSame DEF CountUndone
      <4>2. CASE blobs[b].by = c
        <5>1. blobs[b].new # Gone /\ blobs[b].new \in Blob
          BY <1>0, <2>1, <4>2 DEF Writes, AttachPC, Versions
        <5>2. CASE Minus(blobs[b].new) = blobs[b].com
          BY <4>2, <5>2 DEF CountUndone, Stable, SameKeys, Vers
        <5>3. CASE Minus(blobs[b].new) # blobs[b].com
          <6>1. blobs[b].new \in Vers(blobs[b])
            BY <5>1 DEF Vers
          <6>2. SameKeys(blobs[b], Write(c, blobs[b], Minus(blobs[b].new)))
            BY <5>1, <6>1, CountSame, WriteSame
          <6> QED
            BY <4>2, <5>3, <6>2 DEF CountUndone
        <5> QED
          BY <5>2, <5>3
      <4> QED
        BY <4>1, <4>2
    <3> QED
      BY <2>1, <2>2, <3>1, OneRowStays
  <2> QED
    BY <1>6, <2>2, RaiseStays, UnchangedStays DEF InsertRef
<1>7. CASE DeleteRef(c)
  <2>1. ASSUME refs' = [refs EXCEPT ![tx[c].ref] = Write(c, refs[tx[c].ref], Gone)],
               UNCHANGED blobs
        PROVE  KeysStay /\ RefsStay
    <3>1. ASSUME NEW r \in RefId
          PROVE  Vers(refs'[r]) \subseteq Vers(refs[r])
      <4>1. refs'[r] = refs[r] \/ refs'[r] = Write(c, refs[r], Gone)
        BY <1>0, <2>1
      <4> QED
        BY <4>1 DEF Write, Vers
    <3> QED
      BY <2>1, <3>1, UnchangedStays DEF RefsStay
  <2> QED
    BY <1>1, <1>7, <2>1, RaiseStays DEF DeleteRef
<1>8. CASE CountDown(c)
  <2>1. tx[c].pc = "count_down" /\ Blockers(c) = {}
    BY <1>8 DEF CountDown, At
  <2>2. ASSUME Sees(c, blobs[b]) # Gone, UNCHANGED refs,
               blobs' = [blobs EXCEPT ![b] = Write(c, blobs[b], Minus(Sees(c, blobs[b])))]
        PROVE  KeysStay /\ RefsStay
    <3>1. b \in BlobId /\ Sees(c, blobs[b]) = blobs[b].new /\ blobs[b].new \in Blob
      BY <2>1, <2>2, BlobFree
    <3>2. SameKeys(blobs[b], Write(c, blobs[b], Minus(blobs[b].new)))
      <4>1. blobs[b].new \in Vers(blobs[b])
        BY <2>2, <3>1 DEF Vers
      <4> QED
        BY <3>1, <4>1, CountSame, WriteSame
    <3> QED
      BY <2>2, <3>1, <3>2, OneRowStays, UnchangedStays
  <2> QED
    BY <1>8, <2>2, RaiseStays DEF CountDown
<1>9. ASSUME b \in BlobId, UNCHANGED refs, blobs' = [blobs EXCEPT ![b] = Write(c, blobs[b], Gone)]
      PROVE  KeysStay /\ RefsStay
  <2>1. SameKeys(blobs[b], Write(c, blobs[b], Gone))
    BY WriteSame
  <2> QED
    BY <1>9, <2>1, OneRowStays, UnchangedStays
<1>10. CASE Zero(c)
  <2>1. b \in BlobId
    BY <1>10 DEF Zero, At, BInv, Fields, RemovePC
  <2> QED
    BY <1>1, <1>9, <1>10, <2>1, RaiseStays DEF Zero
<1>11. CASE DiscardDelete(c)
  <2>1. b \in BlobId
    BY <1>11 DEF DiscardDelete, At, BInv, Fields, DiscardPC
  <2> QED
    BY <1>9, <1>11, <2>1, UnchangedStays DEF DiscardDelete
<1> QED
  BY <1>2, <1>3, <1>4, <1>5, <1>6, <1>7, <1>8, <1>10, <1>11 DEF Statement

\* An INSERT that has nobody to wait for and sees no row with its key is the
\* first with this key.
LEMMA PutInsertUnique ==
    ASSUME BInv, KeysUnique, NEW c \in Client, PutInsert(c)
    PROVE  KeysUnique'
<1> DEFINE k == tx[c].key
<1>1. /\ tx[c].pc = "put_insert" /\ KeyWriters(c, k) = {} /\ Writes(c)
      /\ blobs \in [BlobId -> Versions(Blob)]
  BY DEF PutInsert, At, Blockers, BInv, TypeOK
<1>2. ASSUME NEW b \in NewBlobId, BlobsOf(c, k) = {},
             blobs' = [blobs EXCEPT ![b] =
                 Write(c, blobs[b], [is |-> "blob", key |-> k, count |-> 0])]
      PROVE  KeysUnique'
  <2> DEFINE n == [is |-> "blob", key |-> k, count |-> 0]
  <2>1. b \in BlobId /\ blobs[b].com = Gone
    BY NewBlob
  <2>2. /\ blobs'[b] = Write(c, blobs[b], n)
        /\ \A d \in BlobId : d # b => blobs'[d] = blobs[d]
    BY <1>1, <1>2, <2>1
  <2>3. n.key = k
    OBVIOUS
  <2> HIDE DEF n
  <2>4. \A v \in Vers(blobs'[b]) : v.key = k
    BY <2>1, <2>2, <2>3 DEF Vers, Write
  <2>5. ASSUME NEW d \in BlobId, NEW v \in Vers(blobs[d]), v.key = k
        PROVE  FALSE
    <3>1. blobs[d] \in Versions(Blob) /\ v \in {blobs[d].com, blobs[d].new} /\ v # Gone
      BY <1>1, <2>5 DEF Vers
    <3>2. CASE blobs[d].by = c
      <4>1. blobs[d].new # Gone /\ blobs[d].new \in Vers(blobs[d])
        BY <1>1, <3>2 DEF Writes, PutPC, Vers
      <4>2. blobs[d].new.key = k
        BY <2>5, <4>1 DEF KeysUnique
      <4>3. d \in BlobsOf(c, k)
        BY <3>2, <4>1, <4>2 DEF BlobsOf, Sees
      <4> QED
        BY <1>2, <4>3
    <3>3. CASE blobs[d].by = Nobody
      <4>1. blobs[d].new = blobs[d].com
        BY <3>3 DEF BInv, Settled
      <4>2. d \in BlobsOf(c, k)
        BY <2>5, <3>1, <3>3, <4>1, NobodyAssumption DEF BlobsOf, Sees
      <4> QED
        BY <1>2, <4>2
    <3>4. CASE blobs[d].by \in Client \ {c}
      BY <1>1, <2>5, <3>1, <3>4 DEF KeyWriters
    <3> QED
      BY <3>1, <3>2, <3>3, <3>4 DEF Versions
  <2>6. ASSUME NEW p \in BlobId, NEW q \in BlobId,
               NEW v \in Vers(blobs'[p]), NEW w \in Vers(blobs'[q])
        PROVE  (v.key = w.key) <=> (p = q)
    <3>1. CASE p = b /\ q = b
      BY <2>4, <3>1
    <3>2. CASE p = b /\ q # b
      BY <2>2, <2>4, <2>5, <3>2
    <3>3. CASE p # b /\ q = b
      BY <2>2, <2>4, <2>5, <3>3
    <3>4. CASE p # b /\ q # b
      BY <2>2, <3>4 DEF KeysUnique
    <3> QED
      BY <3>1, <3>2, <3>3, <3>4
  <2> QED
    BY <2>6 DEF KeysUnique, Vers
<1>3. ASSUME UNCHANGED blobs
      PROVE  KeysUnique'
  BY <1>3, UnchangedStays, KeysStayUnique
<1> QED
  BY <1>2, <1>3 DEF PutInsert

LEMMA InsertRefUnique ==
    ASSUME BInv, RefsUnique, NEW c \in Client, Wrote(c), InsertRef(c)
    PROVE  RefsUnique'
<1> DEFINE b == tx[c].blob
           t == tx[c].target
<1>1. /\ tx[c].pc = "insert_ref" /\ RefWriters(c, b, t) = {}
      /\ refs \in [RefId -> Versions(Reference)] /\ \A r \in RefId : refs[r].by # c
  BY NoRefs DEF InsertRef, At, Blockers, BInv, TypeOK
<1>2. ASSUME NEW r \in NewRefId, RefsAt(c, b, t) = {},
             refs' = [refs EXCEPT ![r] =
                 Write(c, refs[r], [is |-> "ref", target |-> t, blob |-> b])]
      PROVE  RefsUnique'
  <2> DEFINE n == [is |-> "ref", target |-> t, blob |-> b]
  <2>1. r \in RefId /\ refs[r].com = Gone
    BY NewRef
  <2>2. /\ refs'[r] = Write(c, refs[r], n)
        /\ \A s \in RefId : s # r => refs'[s] = refs[s]
    BY <1>1, <1>2, <2>1
  <2>3. n.target = t /\ n.blob = b
    OBVIOUS
  <2> HIDE DEF n
  <2>4. \A v \in Vers(refs'[r]) : v.target = t /\ v.blob = b
    BY <2>1, <2>2, <2>3 DEF Vers, Write
  <2>5. ASSUME NEW s \in RefId, NEW v \in Vers(refs[s]), v.target = t, v.blob = b
        PROVE  FALSE
    <3>1. refs[s] \in Versions(Reference) /\ v \in {refs[s].com, refs[s].new} /\ v # Gone
      BY <1>1, <2>5 DEF Vers
    <3>2. CASE refs[s].by = Nobody
      <4>1. refs[s].new = refs[s].com
        BY <3>2 DEF BInv, Settled
      <4>2. s \in RefsAt(c, b, t)
        BY <2>5, <3>1, <3>2, <4>1, NobodyAssumption DEF RefsAt, RefsOf, Sees
      <4> QED
        BY <1>2, <4>2
    <3>3. CASE refs[s].by \in Client \ {c}
      BY <1>1, <2>5, <3>1, <3>3 DEF RefWriters
    <3> QED
      BY <1>1, <3>1, <3>2, <3>3 DEF Versions
  <2>6. ASSUME NEW p \in RefId, NEW q \in RefId,
               NEW v \in Vers(refs'[p]), NEW w \in Vers(refs'[q])
        PROVE  (v.blob = w.blob /\ v.target = w.target) <=> (p = q)
    <3>1. CASE p = r /\ q = r
      BY <2>4, <3>1
    <3>2. CASE p = r /\ q # r
      BY <2>2, <2>4, <2>5, <3>2
    <3>3. CASE p # r /\ q = r
      BY <2>2, <2>4, <2>5, <3>3
    <3>4. CASE p # r /\ q # r
      BY <2>2, <3>4 DEF RefsUnique
    <3> QED
      BY <3>1, <3>2, <3>3, <3>4
  <2> QED
    BY <2>6 DEF RefsUnique, Vers
<1>3. ASSUME UNCHANGED refs \/ Raise(c)
      PROVE  RefsUnique'
  BY <1>3, UnchangedStays, RaiseStays, RefsStayUnique
<1> QED
  BY <1>2, <1>3 DEF InsertRef

LEMMA UniqueNext ==
    ASSUME BInv, KeysUnique, RefsUnique, \A c \in Client : Wrote(c), [Next]_vars
    PROVE  KeysUnique' /\ RefsUnique'
<1>1. ASSUME KeysStay, RefsStay
      PROVE  KeysUnique' /\ RefsUnique'
  BY <1>1, KeysStayUnique, RefsStayUnique
<1>2. CASE UNCHANGED vars
  BY <1>1, <1>2, UnchangedStays DEF vars
<1>3. ASSUME NEW c \in Client, Begin(c)
      PROVE  KeysUnique' /\ RefsUnique'
  <2>1. UNCHANGED <<blobs, refs>>
    BY <1>3, Zenon DEF Begin
  <2> QED
    BY <1>1, <2>1, UnchangedStays
<1>4. ASSUME NEW c \in Client, Dies(c) \/ DeadlockAborts(c) \/ Commit(c)
      PROVE  KeysUnique' /\ RefsUnique'
  BY <1>1, <1>4, RaiseStays, CommitStays DEF Dies, DeadlockAborts, Commit
<1>5. ASSUME NEW c \in Client, Statement(c), ~Commit(c)
      PROVE  KeysUnique' /\ RefsUnique'
  <2>1. /\ ~PutInsert(c) => KeysStay
        /\ ~InsertRef(c) => RefsStay
    BY <1>5, StatementStays
  <2> QED
    BY <2>1, KeysStayUnique, RefsStayUnique, PutInsertUnique, InsertRefUnique
<1> QED
  BY <1>2, <1>3, <1>4, <1>5 DEF Next

-----------------------------------------------------------------------------
(* The ledger: what a call has written by the time it commits               *)

Held(c) == {b \in BlobId : blobs[b].by = c}

\* A put has stored its blob, an attach keeps it, a release has removed its
\* reference and leaves a blob only if it counts another one, and a discard
\* has deleted what it has written.
Ends(c) ==
    LET x == tx[c]
    IN  \/ /\ x.op \in Attaching \cup {"put"}
           /\ \A b \in Held(c) : blobs[b].new # Gone
        \/ /\ x.op = "release" /\ x.ref \in RefId /\ refs[x.ref].by = c
           /\ \A b \in Held(c) : blobs[b].new # Gone => blobs[b].new.count > 0
        \/ /\ x.op = "discard"
           /\ \A b \in Held(c) : blobs[b].new = Gone

\* A call writes one blob at most.
OneBlob(c) ==
    LET x == tx[c]
    IN  /\ x.pc \in PutPC => Held(c) = {}
        /\ x.pc = "attach_read" => \A b \in Held(c) : blobs[b].new.key = x.key
        /\ x.pc \in (AttachPC \ {"attach_read"}) \cup {"zero", "commit"} =>
               Held(c) \subseteq {x.blob}
        /\ x.pc = "commit" => Ends(c)

LEMMA OthersOne ==
    ASSUME NEW d \in Client, OneBlob(d), Undisturbed(d)
    PROVE  OneBlob(d)'
<1>1. /\ tx'[d] = tx[d] /\ Held(d)' = Held(d)
      /\ \A b \in Held(d) : blobs'[b] = blobs[b]
      /\ \A r \in RefId : refs[r].by = d => refs'[r].by = d
  BY DEF Undisturbed, Held
<1> QED
  BY <1>1 DEF OneBlob, Ends

LEMMA IdleOne ==
    ASSUME NEW c \in Client, tx'[c] = Idle
    PROVE  OneBlob(c)'
BY DEF OneBlob, Idle, PutPC, AttachPC

LEMMA RaiseOne ==
    ASSUME BInv, NEW c \in Client, Raise(c)
    PROVE  OneBlob(c)'
<1>1. tx'[c] = Idle
  BY DEF Raise, BInv, TypeOK
<1> QED
  BY <1>1, IdleOne

LEMMA BeginOne ==
    ASSUME BInv, NEW c \in Client, NoPurge, Begin(c)
    PROVE  OneBlob(c)'
<1>1. tx[c] = Idle /\ tx[c].pc = "idle" /\ UNCHANGED <<blobs, refs>>
  <2>1. tx[c] = Idle /\ UNCHANGED <<blobs, refs>>
    BY Zenon DEF Begin
  <2> QED
    BY <2>1 DEF Idle
<1>2. Held(c)' = {}
  BY <1>1 DEF BInv, Writes, Held
<1>3. tx'[c].pc \in {"attach_read", "put_read", "discard_read", "delete_ref"}
  BY BeginPC
<1> QED
  BY <1>2, <1>3 DEF OneBlob, AttachPC

\* The statements of a put.
LEMMA PutOne ==
    ASSUME BInv, NEW c \in Client, OneBlob(c), PutRead(c) \/ PutReread(c) \/ PutInsert(c)
    PROVE  OneBlob(c)'
<1>1. /\ tx[c].pc \in PutPC /\ Held(c) = {} /\ tx[c].op \in Creating
      /\ tx \in [Client -> Transaction] /\ blobs \in [BlobId -> Versions(Blob)]
      /\ {"put_insert", "put_reread"} \subseteq PC
  BY DEF PutRead, PutReread, PutInsert, At, PutPC, PC, OneBlob, BInv, Fields, TypeOK
<1>2. ASSUME NEW b \in BlobId, GotoWith(c, AfterPut(tx[c].op), b),
             Held(c)' \subseteq {b},
             \A d \in Held(c)' : blobs'[d].new # Gone /\ blobs'[d].new.key = tx[c].key
      PROVE  OneBlob(c)'
  <2>1. AfterPut(tx[c].op) \in PC /\ AfterPut(tx[c].op) \in {"commit", "attach_read", "count_up"}
    BY <1>1, AfterPutIn DEF PC
  <2>2. /\ tx'[c].pc \in {"commit", "attach_read", "count_up"} /\ tx'[c].blob = b
        /\ tx'[c].key = tx[c].key /\ tx'[c].op = tx[c].op
    BY <1>1, <1>2, <2>1, GotoWithMoves
  <2>3. tx'[c].op \in Attaching \cup {"put"}
    BY <1>1, <2>2 DEF Creating, Attaching
  <2>4. Ends(c)'
    BY <1>2, <2>3 DEF Ends
  <2> QED
    BY <1>2, <2>2, <2>4 DEF OneBlob, PutPC
<1>3. ASSUME NEW pc \in {"put_insert", "put_reread"}, Goto(c, pc), UNCHANGED blobs
      PROVE  OneBlob(c)'
  <2>1. tx'[c].pc = pc
    BY <1>1, <1>3, GotoMoves
  <2> QED
    BY <1>1, <1>3, <2>1 DEF OneBlob, Held, AttachPC
<1>4. ASSUME NEW b \in BlobsOf(c, tx[c].key), GotoWith(c, AfterPut(tx[c].op), b),
             UNCHANGED blobs
      PROVE  OneBlob(c)'
  <2>1. b \in BlobId /\ Held(c)' = {}
    BY <1>1, <1>4 DEF BlobsOf, Held
  <2> QED
    BY <1>2, <1>4, <2>1
<1>5. CASE PutRead(c) \/ PutReread(c)
  BY <1>3, <1>4, <1>5, RaiseOne DEF PutRead, PutReread
<1>6. CASE PutInsert(c)
  <2>1. ASSUME NEW b \in NewBlobId, GotoWith(c, AfterPut(tx[c].op), b),
               blobs' = [blobs EXCEPT ![b] =
                   Write(c, blobs[b], [is |-> "blob", key |-> tx[c].key, count |-> 0])]
        PROVE  OneBlob(c)'
    <3> DEFINE n == [is |-> "blob", key |-> tx[c].key, count |-> 0]
    <3>1. b \in BlobId
      BY NewBlob
    <3>2. /\ blobs'[b] = Write(c, blobs[b], n)
          /\ \A d \in BlobId : d # b => blobs'[d] = blobs[d]
      BY <1>1, <2>1, <3>1
    <3>3. n.key = tx[c].key /\ n # Gone
      BY DEF Gone
    <3> HIDE DEF n
    <3>4. Held(c)' \subseteq {b}
      BY <1>1, <3>2 DEF Held
    <3>5. blobs'[b].new = n
      BY <3>2 DEF Write
    <3> QED
      BY <1>2, <2>1, <3>1, <3>3, <3>4, <3>5
  <2> QED
    BY <1>3, <1>6, <2>1 DEF PutInsert
<1> QED
  BY <1>5, <1>6

\* The statements of an attach.  The row it goes on with is the one it has
\* inserted itself, if it has: there is one row with its key.
LEMMA AttachOne ==
    ASSUME BInv, KeysUnique, NEW c \in Client, OneBlob(c),
           \/ AttachRead(c) \/ AttachRef(c) \/ CountUp(c) \/ InsertRef(c)
           \/ AttachReread(c) \/ AttachWinner(c)
    PROVE  OneBlob(c)'
<1> DEFINE b == tx[c].blob
<1>1. /\ tx[c].pc \in AttachPC
      /\ tx \in [Client -> Transaction] /\ blobs \in [BlobId -> Versions(Blob)]
      /\ {"attach_ref", "count_up", "insert_ref", "attach_reread", "attach_winner",
          "commit"} \subseteq PC
  BY DEF AttachRead, AttachRef, CountUp, InsertRef, AttachReread, AttachWinner, At,
         AttachPC, PC, BInv, TypeOK
<1>2. /\ tx[c].op \in Attaching
      /\ tx[c].pc # "attach_read" => b \in BlobId /\ Held(c) \subseteq {b}
      /\ \A d \in Held(c) : blobs[d].new # Gone
  BY <1>1 DEF BInv, Fields, Writes, Held, OneBlob
\* Most statements write nothing of blobs, or only the row they are about.
<1>3. ASSUME NEW pc \in {"count_up", "insert_ref", "attach_reread", "attach_winner", "commit"},
             Goto(c, pc), tx[c].pc # "attach_read", Held(c)' \subseteq {b},
             pc = "commit" => UNCHANGED blobs
      PROVE  OneBlob(c)'
  <2>1. tx'[c].pc = pc /\ tx'[c].blob = b /\ tx'[c].op = tx[c].op
    BY <1>1, <1>3, GotoMoves
  <2>2. pc = "commit" => Ends(c)'
    BY <1>2, <1>3, <2>1 DEF Ends, Held
  <2> QED
    BY <1>3, <2>1, <2>2 DEF OneBlob, PutPC
<1>4. CASE AttachRead(c)
  <2>1. tx[c].pc = "attach_read"
    BY <1>4 DEF AttachRead, At
  <2>2. ASSUME NEW d \in BlobsOf(c, tx[c].key), GotoWith(c, "attach_ref", d), UNCHANGED blobs
        PROVE  OneBlob(c)'
    <3>1. /\ d \in BlobId /\ Sees(c, blobs[d]) \in Vers(blobs[d])
          /\ Sees(c, blobs[d]).key = tx[c].key
      BY <2>2 DEF BlobsOf, Sees, Vers
    <3>2. tx'[c].pc = "attach_ref" /\ tx'[c].blob = d
      BY <1>1, <2>2, <3>1, GotoWithMoves
    <3>3. ASSUME NEW e \in Held(c)
          PROVE  e = d
      <4>1. e \in BlobId /\ blobs[e].new \in Vers(blobs[e]) /\ blobs[e].new.key = tx[c].key
        BY <1>2, <2>1, <3>3 DEF OneBlob, Held, Vers
      <4> QED
        BY <3>1, <4>1 DEF KeysUnique
    <3> QED
      BY <2>2, <3>2, <3>3 DEF OneBlob, PutPC, Held
  <2> QED
    BY <1>4, <2>2, RaiseOne DEF AttachRead
<1>5. CASE AttachRef(c) \/ AttachReread(c) \/ AttachWinner(c)
  <2>1. tx[c].pc # "attach_read"
    BY <1>5 DEF AttachRef, AttachReread, AttachWinner, At
  <2>2. UNCHANGED blobs => Held(c)' \subseteq {b}
    BY <1>2, <2>1 DEF Held
  <2> QED
    BY <1>3, <1>5, <2>1, <2>2, RaiseOne DEF AttachRef, AttachReread, AttachWinner
<1>6. CASE CountUp(c)
  <2>1. tx[c].pc # "attach_read" /\ Goto(c, "insert_ref")
    BY <1>6 DEF CountUp, At
  <2>2. Held(c)' \subseteq {b}
    <3>1. \A d \in BlobId : d # b => blobs'[d] = blobs[d]
      BY <1>1, <1>6 DEF CountUp
    <3> QED
      BY <1>2, <2>1, <3>1 DEF Held
  <2> QED
    BY <1>3, <2>1, <2>2
<1>7. CASE InsertRef(c)
  <2>1. tx[c].pc # "attach_read"
    BY <1>7 DEF InsertRef, At
  <2>2. CASE Goto(c, "commit") /\ UNCHANGED blobs
    <3>1. Held(c)' \subseteq {b}
      BY <1>2, <2>1, <2>2 DEF Held
    <3> QED
      BY <1>3, <2>1, <2>2, <3>1
  <2>3. CASE /\ Goto(c, "attach_reread")
             /\ blobs' = [blobs EXCEPT ![b] = CountUndone(c, blobs[b])]
    <3>1. \A d \in BlobId : d # b => blobs'[d] = blobs[d]
      BY <1>1, <2>3
    <3>2. Held(c)' \subseteq {b}
      BY <1>2, <2>1, <3>1 DEF Held
    <3> QED
      BY <1>3, <2>1, <2>3, <3>2
  <2> QED
    BY <1>7, <2>2, <2>3, RaiseOne DEF InsertRef
<1> QED
  BY <1>4, <1>5, <1>6, <1>7

\* The statements of a release.
LEMMA ReleaseOne ==
    ASSUME BInv, NEW c \in Client, Mine(c), NoPurge, OneBlob(c),
           DeleteRef(c) \/ CountDown(c) \/ Zero(c)
    PROVE  OneBlob(c)'
<1> DEFINE b == tx[c].blob
<1>1. /\ tx[c].pc \in RemovePC /\ b \in BlobId /\ tx[c].op = "release"
      /\ tx \in [Client -> Transaction] /\ blobs \in [BlobId -> Versions(Blob)]
      /\ {"count_down", "zero", "commit"} \subseteq PC
  <2>1. tx[c].pc \in RemovePC /\ Fields(tx[c]) /\ tx[c].op \in Op \cup {"none"}
    BY DEF DeleteRef, CountDown, Zero, At, RemovePC, BInv, TypeOK, Transaction
  <2> QED
    BY <2>1 DEF BInv, TypeOK, PC, Fields, NoPurge
<1>2. CASE DeleteRef(c)
  <2>1. ASSUME Goto(c, "count_down")
        PROVE  OneBlob(c)'
    <3>1. tx'[c].pc = "count_down"
      BY <1>1, <2>1, GotoMoves
    <3> QED
      BY <3>1 DEF OneBlob, PutPC, AttachPC
  <2> QED
    BY <1>2, <2>1, RaiseOne DEF DeleteRef
<1>3. CASE CountDown(c)
  <2>1. ASSUME NEW v, blobs' = [blobs EXCEPT ![b] = Write(c, blobs[b], v)], Goto(c, "zero")
        PROVE  OneBlob(c)'
    <3>1. tx'[c].pc = "zero" /\ tx'[c].blob = b
      BY <1>1, <2>1, GotoMoves
    <3>2. \A d \in BlobId : d # b => blobs'[d] = blobs[d]
      BY <1>1, <2>1
    <3>3. \A d \in BlobId : blobs[d].by # c
      BY <1>3 DEF CountDown, At, Mine, Locks
    <3>4. Held(c)' \subseteq {b}
      BY <3>2, <3>3 DEF Held
    <3> QED
      BY <3>1, <3>4 DEF OneBlob, PutPC
  <2> QED
    BY <1>3, <2>1, RaiseOne DEF CountDown
<1>4. CASE Zero(c)
  <2>1. /\ tx[c].pc = "zero" /\ blobs[b].by = c /\ Held(c) \subseteq {b}
        /\ tx[c].ref \in RefId /\ refs[tx[c].ref].by = c
        /\ AfterRemoval(tx[c].op) = "commit"
    BY <1>1, <1>4 DEF Zero, At, BInv, Writes, Mine, Wrote, AfterRemoval, OneBlob
  <2>2. ASSUME Goto(c, "commit"), UNCHANGED refs, Held(c)' \subseteq {b},
               blobs'[b].new # Gone => blobs'[b].new.count > 0
        PROVE  OneBlob(c)'
    <3>1. /\ tx'[c].pc = "commit" /\ tx'[c].blob = b /\ tx'[c].op = "release"
          /\ tx'[c].ref = tx[c].ref
      BY <1>1, <2>2, GotoMoves
    <3>2. Ends(c)'
      BY <2>1, <2>2, <3>1 DEF Ends
    <3> QED
      BY <2>2, <3>1, <3>2 DEF OneBlob, PutPC
  <2>3. CASE Sees(c, blobs[b]).count > 0 /\ Goto(c, "commit") /\ UNCHANGED <<blobs, refs>>
    <3>1. Held(c)' \subseteq {b} /\ blobs'[b].new.count > 0
      BY <2>1, <2>3 DEF Held, Sees
    <3> QED
      BY <2>2, <2>3, <3>1
  <2>4. CASE /\ Goto(c, "commit") /\ UNCHANGED refs
             /\ blobs' = [blobs EXCEPT ![b] = Write(c, blobs[b], Gone)]
    <3>1. /\ blobs'[b] = Write(c, blobs[b], Gone)
          /\ \A d \in BlobId : d # b => blobs'[d] = blobs[d]
      BY <1>1, <2>4
    <3>2. blobs'[b].new = Gone
      BY <3>1 DEF Write
    <3>3. Held(c)' \subseteq {b}
      BY <2>1, <3>1 DEF Held
    <3> QED
      BY <2>2, <2>4, <3>2, <3>3
  <2> QED
    BY <1>4, <2>1, <2>3, <2>4, RaiseOne DEF Zero
<1> QED
  BY <1>2, <1>3, <1>4

\* The statements of a discard.
LEMMA DiscardOne ==
    ASSUME BInv, NEW c \in Client, Mine(c), OneBlob(c),
           DiscardRead(c) \/ DiscardProtect(c) \/ DiscardDelete(c)
    PROVE  OneBlob(c)'
<1> DEFINE b == tx[c].blob
<1>1. /\ tx[c].pc \in DiscardPC /\ tx[c].op = "discard"
      /\ tx \in [Client -> Transaction] /\ blobs \in [BlobId -> Versions(Blob)]
      /\ {"discard_protect", "discard_delete", "commit"} \subseteq PC
      /\ \A d \in BlobId : blobs[d].by # c
  BY DEF DiscardRead, DiscardProtect, DiscardDelete, At, DiscardPC, BInv, TypeOK, PC,
         Fields, Mine, Locks
<1>2. ASSUME Goto(c, "commit"), Held(c)' \subseteq {b},
             \A d \in Held(c)' : blobs'[d].new = Gone
      PROVE  OneBlob(c)'
  <2>1. tx'[c].pc = "commit" /\ tx'[c].blob = b /\ tx'[c].op = "discard"
    BY <1>1, <1>2, GotoMoves
  <2>2. Ends(c)'
    BY <1>2, <2>1 DEF Ends
  <2> QED
    BY <1>2, <2>1, <2>2 DEF OneBlob, PutPC
<1>3. ASSUME tx'[c].pc \in {"discard_protect", "discard_delete"}
      PROVE  OneBlob(c)'
  BY <1>3 DEF OneBlob, PutPC, AttachPC
<1>4. CASE DiscardRead(c)
  <2>1. ASSUME NEW d \in BlobId, GotoWith(c, "discard_protect", d)
        PROVE  OneBlob(c)'
    <3>1. tx'[c].pc = "discard_protect"
      BY <1>1, <2>1, GotoWithMoves
    <3> QED
      BY <1>3, <3>1
  <2>2. ASSUME Goto(c, "commit"), UNCHANGED blobs
        PROVE  OneBlob(c)'
    <3>1. Held(c)' = {}
      BY <1>1, <2>2 DEF Held
    <3> QED
      BY <1>2, <2>2, <3>1
  <2> QED
    BY <1>4, <2>1, <2>2 DEF DiscardRead, BlobsOf
<1>5. CASE DiscardProtect(c)
  <2>1. ASSUME Goto(c, "discard_delete")
        PROVE  OneBlob(c)'
    <3>1. tx'[c].pc = "discard_delete"
      BY <1>1, <2>1, GotoMoves
    <3> QED
      BY <1>3, <3>1
  <2> QED
    BY <1>5, <2>1, RaiseOne DEF DiscardProtect
<1>6. CASE DiscardDelete(c)
  <2>1. b \in BlobId /\ Goto(c, "commit")
    BY <1>6 DEF DiscardDelete, At, BInv, Fields, DiscardPC
  <2>2. CASE UNCHANGED blobs
    <3>1. Held(c)' = {}
      BY <1>1, <2>2 DEF Held
    <3> QED
      BY <1>2, <2>1, <3>1
  <2>3. CASE blobs' = [blobs EXCEPT ![b] = Write(c, blobs[b], Gone)]
    <3>1. /\ blobs'[b] = Write(c, blobs[b], Gone)
          /\ \A d \in BlobId : d # b => blobs'[d] = blobs[d]
      BY <1>1, <2>1, <2>3
    <3>2. blobs'[b].new = Gone
      BY <3>1 DEF Write
    <3>3. Held(c)' \subseteq {b}
      BY <1>1, <3>1 DEF Held
    <3> QED
      BY <1>2, <2>1, <3>2, <3>3
  <2> QED
    BY <1>6, <2>2, <2>3 DEF DiscardDelete
<1> QED
  BY <1>4, <1>5, <1>6

LedgerInv ==
    /\ CountInv /\ NoDanglingReference
    /\ KeysUnique /\ RefsUnique
    /\ \A c \in Client : OneBlob(c)

LEMMA StepOne ==
    ASSUME BInv, KeysUnique, NEW c \in Client, Mine(c), NoPurge, OneBlob(c),
           \/ Begin(c) \/ Dies(c) \/ DeadlockAborts(c)
           \/ Statement(c) /\ ~Commit(c)
           \/ Commit(c) /\ ~KeysHold(c)
    PROVE  OneBlob(c)'
<1>1. CASE Begin(c)
  BY <1>1, BeginOne
<1>2. CASE Dies(c) \/ DeadlockAborts(c) \/ (Commit(c) /\ ~KeysHold(c))
  BY <1>2, RaiseOne DEF Dies, DeadlockAborts, Commit
<1>3. CASE Statement(c) /\ ~Commit(c)
  <2>1. ~PurgeRead(c)
    <3>1. tx[c].op \in Op \cup {"none"} /\ Fields(tx[c])
      BY DEF BInv, TypeOK, Transaction
    <3> QED
      BY <3>1 DEF PurgeRead, At, Fields, NoPurge
  <2> QED
    BY <1>3, <2>1, PutOne, AttachOne, ReleaseOne, DiscardOne DEF Statement
<1> QED
  BY <1>1, <1>2, <1>3

LEMMA LedgerInvNext == NoPurge /\ LedgerInv /\ [Next]_vars => LedgerInv'
<1> SUFFICES ASSUME NoPurge, LedgerInv, [Next]_vars
             PROVE  LedgerInv'
  OBVIOUS
<1>1. /\ BInv /\ CountMatchesRefs /\ \A c \in Client : Mine(c) /\ Wrote(c)
      /\ NoDanglingReference /\ KeysUnique /\ RefsUnique
      /\ \A c \in Client : OneBlob(c)
  BY DEF LedgerInv, CountInv, Mine
<1>2. CountInv'
  BY CountInvNext DEF LedgerInv
<1>3. NoDanglingReference'
  BY <1>1, DanglingNext
<1>4. KeysUnique' /\ RefsUnique'
  BY <1>1, UniqueNext
<1>5. ASSUME NEW c \in Client,
             \/ Begin(c) \/ Dies(c) \/ DeadlockAborts(c)
             \/ Statement(c) /\ ~Commit(c)
             \/ Commit(c) /\ ~KeysHold(c),
             NEW d \in Client
      PROVE  OneBlob(d)'
  <2>1. CASE d = c
    BY <1>1, <1>5, <2>1, StepOne
  <2>2. CASE d # c
    <3>1. Quiet(c) /\ Moves(c)
      BY <1>1, <1>5, QuietStep
    <3>2. Spares(c)
      BY <1>1, <1>5, StepMine
    <3>3. Undisturbed(d)
      BY <1>1, <2>2, <3>1, <3>2, QuietUndisturbed
    <3> QED
      BY <1>1, <3>3, OthersOne
  <2> QED
    BY <2>1, <2>2
<1>6. ASSUME NEW c \in Client, Commit(c), KeysHold(c), NEW d \in Client
      PROVE  OneBlob(d)'
  <2>1. CASE d = c
    <3>1. tx'[c] = Idle
      BY <1>1, <1>6, CommitStep
    <3> QED
      BY <2>1, <3>1, IdleOne
  <2>2. CASE d # c
    <3>1. Undisturbed(d)
      BY <1>1, <1>6, <2>2, CommitUndisturbed
    <3> QED
      BY <1>1, <3>1, OthersOne
  <2> QED
    BY <2>1, <2>2
<1>7. ASSUME UNCHANGED vars, NEW d \in Client
      PROVE  OneBlob(d)'
  <2>1. Undisturbed(d)
    BY <1>7 DEF vars, Undisturbed, RefsOf, Sees
  <2> QED
    BY <1>1, <2>1, OthersOne
<1>8. ASSUME NEW d \in Client
      PROVE  OneBlob(d)'
  <2>1. CASE UNCHANGED vars
    BY <1>7, <2>1
  <2>2. ASSUME NEW c \in Client, Begin(c) \/ Statement(c) \/ Dies(c) \/ DeadlockAborts(c)
        PROVE  OneBlob(d)'
    BY <1>5, <1>6, <2>2
  <2> QED
    BY <2>1, <2>2 DEF Next
<1> QED
  BY <1>2, <1>3, <1>4, <1>8 DEF LedgerInv

LEMMA LedgerInvInit == Init => LedgerInv
<1> SUFFICES ASSUME Init
             PROVE  LedgerInv
  OBVIOUS
<1>1. /\ \A b \in BlobId : blobs[b] = Stable(Gone)
      /\ \A r \in RefId : refs[r] = Stable(Gone)
      /\ \A c \in Client : tx[c] = Idle
  BY DEF Init
<1>2. KeysUnique /\ RefsUnique /\ NoDanglingReference
  BY <1>1 DEF KeysUnique, RefsUnique, NoDanglingReference, Vers, Stable
<1>3. \A c \in Client : OneBlob(c)
  BY <1>1 DEF OneBlob, Idle, PutPC, AttachPC
<1> QED
  BY <1>2, <1>3, CountInvInit DEF LedgerInv

-----------------------------------------------------------------------------
(* The ledger: what each step is of it                                      *)

LEMMA QuietLedger ==
    ASSUME BInv, NEW c \in Client, Quiet(c)
    PROVE  UNCHANGED <<StoredKeys, Holders>>
<1>1. /\ \A b \in BlobId : blobs'[b].com = blobs[b].com
      /\ \A r \in RefId : refs'[r].com = refs[r].com
  BY DEF Quiet, Kept
<1>2. \A r \in RefId : refs[r].com # Gone => refs[r].com.blob \in BlobId
  BY DEF BInv, TypeOK, Versions, Reference
<1>3. \A r \in RefId : refs[r].com # Gone => Pair(r)' = Pair(r)
  BY <1>1, <1>2 DEF Pair
<1>4. Holders' = {Pair(r)' : r \in {i \in RefId : refs'[i].com # Gone}}
  BY DEF Holders
<1>5. Holders' = Holders
  BY <1>1, <1>3, <1>4 DEF Holders
<1>6. StoredKeys' = StoredKeys
  BY <1>1 DEF StoredKeys, Stored
<1> QED
  BY <1>5, <1>6

\* A commit: the rows of the others stay, those of c are settled.
Settles(c) ==
    /\ KeysHold(c)
    /\ \A b \in BlobId : blobs[b].by # c => blobs'[b] = blobs[b]
    /\ \A b \in BlobId : blobs[b].by = c => blobs'[b].com = blobs[b].new
    /\ \A r \in RefId : refs[r].by # c => refs'[r] = refs[r]
    /\ \A r \in RefId : refs[r].by = c => refs'[r].com = refs[r].new

LEMMA CommitSettles ==
    ASSUME BInv, NEW c \in Client, Commit(c), KeysHold(c)
    PROVE  Settles(c)
<1>1. /\ \A b \in BlobId : blobs'[b] = Committed(c, blobs[b])
      /\ \A r \in RefId : refs'[r] = Committed(c, refs[r])
  BY CommitStep
<1>2. \A v : Stable(v).com = v
  BY DEF Stable
<1>3. /\ \A b \in BlobId : blobs[b].by # c => blobs'[b] = blobs[b]
      /\ \A b \in BlobId : blobs[b].by = c => blobs'[b].com = blobs[b].new
  BY <1>1, <1>2 DEF Committed
<1>4. /\ \A r \in RefId : refs[r].by # c => refs'[r] = refs[r]
      /\ \A r \in RefId : refs[r].by = c => refs'[r].com = refs[r].new
  BY <1>1, <1>2 DEF Committed
<1> QED
  BY <1>3, <1>4 DEF Settles

LEMMA RowTypes ==
    ASSUME BInv
    PROVE  /\ \A b \in BlobId : blobs[b].com # Gone => blobs[b].com \in Blob
           /\ \A b \in BlobId : blobs[b].new # Gone => blobs[b].new \in Blob
           /\ \A r \in RefId : refs[r].com # Gone => refs[r].com \in Reference
           /\ \A r \in RefId : refs[r].new # Gone => refs[r].new \in Reference
BY DEF BInv, TypeOK, Versions

\* The pair of a reference that stays is the same: the key of its blob is.
LEMMA PairKept ==
    ASSUME LedgerInv, NoDanglingReference', NEW c \in Client, Settles(c),
           NEW r \in RefId, refs[r].com # Gone, refs'[r].com = refs[r].com
    PROVE  Pair(r)' = Pair(r)
<1> DEFINE b == refs[r].com.blob
<1>1. b \in BlobId /\ blobs[b].com # Gone /\ blobs'[b].com # Gone
  <2>1. BInv /\ NoDanglingReference
    BY DEF LedgerInv, CountInv
  <2>2. refs[r].com \in Reference
    BY <2>1, RowTypes
  <2> QED
    BY <2>1, <2>2 DEF NoDanglingReference, Stored, Reference
<1>2. blobs'[b].com.key = blobs[b].com.key
  <2>1. blobs[b].com \in Vers(blobs[b]) /\ blobs'[b].com \in Vers(blobs[b])
    BY <1>1 DEF Settles, Vers
  <2> QED
    BY <1>1, <2>1 DEF LedgerInv, KeysUnique
<1> QED
  BY <1>2 DEF Pair

LEMMA PairUnique ==
    ASSUME LedgerInv, NEW r \in RefId, NEW s \in RefId,
           refs[r].com # Gone, refs[s].com # Gone, Pair(r) = Pair(s)
    PROVE  r = s
<1>1. BInv /\ NoDanglingReference /\ KeysUnique /\ RefsUnique
  BY DEF LedgerInv, CountInv
<1>2. /\ refs[r].com.blob \in BlobId /\ refs[s].com.blob \in BlobId
      /\ blobs[refs[r].com.blob].com # Gone /\ blobs[refs[s].com.blob].com # Gone
  BY <1>1, RowTypes DEF NoDanglingReference, Stored, Reference
<1>3. /\ refs[r].com.target = refs[s].com.target
      /\ blobs[refs[r].com.blob].com.key = blobs[refs[s].com.blob].com.key
  BY DEF Pair
<1>4. refs[r].com.blob = refs[s].com.blob
  BY <1>1, <1>2, <1>3 DEF KeysUnique, Vers
<1> QED
  BY <1>1, <1>3, <1>4 DEF RefsUnique, Vers

\* What becomes of the stored keys when c has written one blob.
LEMMA StoredAfter ==
    ASSUME LedgerInv, NEW c \in Client, Settles(c), NEW b \in BlobId, Held(c) = {b}
    PROVE  /\ blobs[b].new # Gone => StoredKeys' = StoredKeys \cup {blobs[b].new.key}
           /\ blobs[b].new = Gone /\ blobs[b].com # Gone =>
                  StoredKeys' = StoredKeys \ {blobs[b].com.key}
           /\ blobs[b].new = Gone /\ blobs[b].com = Gone => StoredKeys' = StoredKeys
<1>1. /\ \A d \in BlobId : d # b => blobs'[d] = blobs[d]
      /\ blobs'[b].com = blobs[b].new
  BY DEF Settles, Held
<1>2. /\ \A k : k \in StoredKeys <=> \E d \in BlobId : blobs[d].com # Gone /\ blobs[d].com.key = k
      /\ \A k : k \in StoredKeys' <=> \E d \in BlobId : blobs'[d].com # Gone /\ blobs'[d].com.key = k
  BY DEF StoredKeys, Stored
<1>3. blobs[b].com # Gone /\ blobs[b].new # Gone => blobs[b].com.key = blobs[b].new.key
  BY DEF LedgerInv, KeysUnique, Vers
<1>4. \A d \in BlobId : d # b /\ blobs[d].com # Gone /\ blobs[b].com # Gone =>
         blobs[d].com.key # blobs[b].com.key
  BY DEF LedgerInv, KeysUnique, Vers
<1>5. CASE blobs[b].new # Gone
  <2>1. \A k : k \in StoredKeys' <=> k \in StoredKeys \/ k = blobs[b].new.key
    BY <1>1, <1>2, <1>3, <1>5
  <2> QED
    BY <1>5, <2>1
<1>6. CASE blobs[b].new = Gone /\ blobs[b].com # Gone
  <2>1. \A k : k \in StoredKeys' <=> k \in StoredKeys /\ k # blobs[b].com.key
    BY <1>1, <1>2, <1>4, <1>6
  <2> QED
    BY <1>6, <2>1
<1>7. CASE blobs[b].new = Gone /\ blobs[b].com = Gone
  <2>1. \A k : k \in StoredKeys' <=> k \in StoredKeys
    BY <1>1, <1>2, <1>7
  <2> QED
    BY <1>7, <2>1
<1> QED
  BY <1>5, <1>6, <1>7

\* A commit that has written no reference changes no holder, ...
LEMMA HoldersKept ==
    ASSUME LedgerInv, NoDanglingReference', NEW c \in Client, Settles(c),
           \A r \in RefId : refs[r].by # c
    PROVE  Holders' = Holders
<1>1. \A r \in RefId : refs'[r] = refs[r]
  BY DEF Settles
<1>2. \A r \in RefId : refs[r].com # Gone => Pair(r)' = Pair(r)
  BY <1>1, PairKept
<1>3. Holders' = {Pair(r)' : r \in {i \in RefId : refs'[i].com # Gone}}
  BY DEF Holders
<1> QED
  BY <1>1, <1>2, <1>3 DEF Holders

\* ... one that has inserted a reference adds its pair, ...
LEMMA HoldersMore ==
    ASSUME LedgerInv, NoDanglingReference', NEW c \in Client, Settles(c),
           NEW r \in RefId, refs[r].by = c, \A s \in RefId : refs[s].by = c => s = r,
           refs[r].com = Gone, refs[r].new # Gone
    PROVE  Holders' = Holders \cup {Pair(r)'}
<1>1. /\ \A s \in RefId : s # r => refs'[s] = refs[s]
      /\ refs'[r].com # Gone
  BY DEF Settles
<1>2. \A s \in RefId : s # r /\ refs[s].com # Gone => Pair(s)' = Pair(s)
  BY <1>1, PairKept
<1>3. Holders' = {Pair(s)' : s \in {i \in RefId : refs'[i].com # Gone}}
  BY DEF Holders
<1> QED
  BY <1>1, <1>2, <1>3 DEF Holders

\* ... and one that has removed a reference takes its pair away.
LEMMA HoldersLess ==
    ASSUME LedgerInv, NoDanglingReference', NEW c \in Client, Settles(c),
           NEW r \in RefId, refs[r].by = c, \A s \in RefId : refs[s].by = c => s = r,
           refs[r].com # Gone, refs[r].new = Gone
    PROVE  Pair(r) \in Holders /\ Holders' = Holders \ {Pair(r)}
<1>1. /\ \A s \in RefId : s # r => refs'[s] = refs[s]
      /\ refs'[r].com = Gone
  BY DEF Settles
<1>2. \A s \in RefId : s # r /\ refs[s].com # Gone => Pair(s)' = Pair(s)
  BY <1>1, PairKept
<1>3. Holders' = {Pair(s)' : s \in {i \in RefId : refs'[i].com # Gone}}
  BY DEF Holders
<1>4. \A s \in RefId : s # r /\ refs[s].com # Gone => Pair(s) # Pair(r)
  BY PairUnique
<1> QED
  BY <1>1, <1>2, <1>3, <1>4 DEF Holders

\* A call that has written no blob has written no reference either.
LEMMA NothingHeld ==
    ASSUME LedgerInv, NEW c \in Client, tx[c].pc = "commit", Settles(c), Held(c) = {},
           NEW r \in RefId
    PROVE  refs[r].by # c
<1> SUFFICES ASSUME refs[r].by = c
             PROVE  FALSE
  OBVIOUS
<1>1. BInv /\ Wrote(c) /\ Locks(c)
  BY DEF LedgerInv, CountInv, Mine
<1>2. Removes(c, r) \/ Inserts(c, r)
  BY <1>1 DEF Wrote
<1>3. tx[c].blob \in BlobId
  BY <1>1, <1>2, RowTypes DEF Removes, Inserts, Reference
<1>4. blobs[tx[c].blob].by # c
  BY <1>3 DEF Held
<1>5. refs[r].new # Gone /\ blobs[tx[c].blob] = Stable(Gone)
  BY <1>1, <1>4 DEF Locks
<1>6. refs[r].new.blob = tx[c].blob /\ r \in Inserted(c)
  BY <1>2, <1>5 DEF Removes, Inserts, Inserted
<1>7. Sees(c, blobs[tx[c].blob]) # Gone
  BY <1>6 DEF Settles, KeysHold
<1> QED
  BY <1>4, <1>5, <1>7 DEF Sees, Stable

\* A put, and an attach, of one blob.
LEMMA PutLedger ==
    ASSUME LedgerInv, NoDanglingReference', NEW c \in Client, tx[c].pc = "commit", Settles(c),
           NEW b \in BlobId, b = tx[c].blob, Held(c) = {b}, blobs[b].new # Gone,
           tx[c].op \in Attaching \cup {"put"}
    PROVE  Ledger!Next
<1> DEFINE k == blobs[b].new.key
<1>1. BInv /\ Wrote(c)
  BY DEF LedgerInv, CountInv, Mine
<1>2. k \in Key
  <2>1. blobs[b].new \in Blob
    BY <1>1, RowTypes
  <2> QED
    BY <2>1 DEF Blob
<1>3. StoredKeys' = StoredKeys \cup {k}
  BY StoredAfter
<1>4. CASE \A r \in RefId : refs[r].by # c
  <2>1. Holders' = Holders
    BY <1>4, HoldersKept
  <2>2. Ledger!Put(k)
    BY <1>3, <2>1 DEF Ledger!Put
  <2> QED
    BY <1>2, <2>2 DEF Ledger!Next
<1>5. ASSUME NEW r \in RefId, refs[r].by = c
      PROVE  Ledger!Next
  <2>1. Inserts(c, r) /\ \A s \in RefId : refs[s].by = c => s = r
    BY <1>1, <1>5 DEF Wrote, Removes, Attaching
  <2>2. Holders' = Holders \cup {Pair(r)'}
    BY <1>5, <2>1, HoldersMore DEF Inserts
  <2>3. refs[r].new.target \in Target
    BY <1>1, <2>1, RowTypes DEF Inserts, Reference
  <2>4. Pair(r)' = <<refs[r].new.target, k>>
    <3>1. refs'[r].com = refs[r].new /\ refs[r].new.blob = b
      BY <1>5, <2>1 DEF Settles, Inserts
    <3>2. blobs'[b].com = blobs[b].new
      BY DEF Settles, Held
    <3> QED
      BY <3>1, <3>2 DEF Pair
  <2>5. Ledger!Attach(refs[r].new.target, k)
    BY <1>3, <2>2, <2>4 DEF Ledger!Attach
  <2>6. refs[r].new.target \in Ledger!Target
    BY <2>3 DEF Target, Ledger!Target
  <2> QED
    BY <1>2, <2>5, <2>6 DEF Ledger!Next
<1> QED
  BY <1>4, <1>5

\* The holders of a key are the committed references of its blob.
LEMMA HoldersOf ==
    ASSUME LedgerInv, NEW b \in BlobId, blobs[b].com # Gone,
           NEW t, <<t, blobs[b].com.key>> \in Holders
    PROVE  \E s \in RefId : /\ refs[s].com # Gone /\ refs[s].com.blob = b
                            /\ Pair(s) = <<t, blobs[b].com.key>>
<1>1. PICK s \in RefId : refs[s].com # Gone /\ Pair(s) = <<t, blobs[b].com.key>>
  BY DEF Holders
<1>2. BInv /\ NoDanglingReference /\ KeysUnique
  BY DEF LedgerInv, CountInv
<1>3. refs[s].com.blob \in BlobId /\ blobs[refs[s].com.blob].com # Gone
  BY <1>1, <1>2, RowTypes DEF NoDanglingReference, Stored, Reference
<1>4. blobs[refs[s].com.blob].com.key = blobs[b].com.key
  BY <1>1 DEF Pair
<1>5. refs[s].com.blob = b
  BY <1>2, <1>3, <1>4 DEF KeysUnique, Vers
<1> QED
  BY <1>1, <1>5

\* A release of one reference, and of its blob when it was the last one.
LEMMA ReleaseLedger ==
    ASSUME LedgerInv, NoDanglingReference', NEW c \in Client, tx[c].pc = "commit", Settles(c),
           NEW b \in BlobId, b = tx[c].blob, Held(c) = {b},
           NEW r \in RefId, tx[c].op = "release", refs[r].by = c,
           blobs[b].new # Gone => blobs[b].new.count > 0
    PROVE  Ledger!Next
<1> DEFINE k == blobs[b].com.key
           p == Pair(r)
<1>1. BInv /\ Wrote(c) /\ Counted(c) /\ NoDanglingReference /\ KeysUnique
  BY DEF LedgerInv, CountInv, Mine
<1>2. Removes(c, r) /\ \A s \in RefId : refs[s].by = c => s = r
  BY <1>1 DEF Wrote, Inserts, Attaching
<1>3. refs[r].com # Gone /\ refs[r].new = Gone /\ refs[r].com.blob = b
  BY <1>2 DEF Removes
<1>4. blobs[b].com # Gone
  BY <1>1, <1>3 DEF NoDanglingReference, Stored
<1>5. p \in Holders /\ Holders' = Holders \ {p}
  BY <1>2, <1>3, HoldersLess
<1>6. p = <<refs[r].com.target, k>> /\ refs[r].com.target \in Target
  <2>1. refs[r].com \in Reference
    BY <1>1, <1>3, RowTypes
  <2> QED
    BY <1>3, <2>1 DEF Pair, Reference
<1>7. k \in StoredKeys
  BY <1>4 DEF StoredKeys, Stored
<1> HIDE DEF k, p
<1> DEFINE H(S, i) == {t \in Target : <<t, i>> \in S}
<1>8. \A i : i # k => H({p}, i) = {}
  BY <1>6
<1>9. H({p}, k) # {}
  BY <1>6
<1>10. StoredKeys' = {i \in StoredKeys : H({p}, i) = {} \/ H(Holders \ {p}, i) # {}}
  <2>1. CASE blobs[b].new # Gone
    <3>1. StoredKeys' = StoredKeys
      <4>1. blobs[b].new.key = k
        BY <1>1, <1>4, <2>1 DEF KeysUnique, Vers, k
      <4>2. StoredKeys' = StoredKeys \cup {k}
        BY <2>1, <4>1, StoredAfter
      <4> QED
        BY <1>7, <4>2
    <3>2. RefsOf(c, b) # {}
      <4>1. blobs[b].by = c /\ Due(c, b) = 0
        BY DEF Held, Due
      <4>2. blobs[b].new.count = Cardinality(RefsOf(c, b)) + Due(c, b)
        BY <1>1, <2>1, <4>1 DEF Counted
      <4>3. Cardinality(RefsOf(c, b)) \in Nat
        BY FiniteRefs DEF RefsOf
      <4>4. Cardinality(RefsOf(c, b)) # 0
        BY <2>1, <4>1, <4>2, <4>3
      <4> QED
        BY <4>4, FS_EmptySet
    <3>3. PICK s \in RefId : Sees(c, refs[s]) # Gone /\ Sees(c, refs[s]).blob = b
      BY <3>2 DEF RefsOf
    <3>4. s # r /\ refs[s].com # Gone /\ refs[s].com.blob = b
      BY <1>2, <1>3, <3>3 DEF Sees
    <3>5. Pair(s) \in Holders /\ Pair(s) # p
      BY <1>3, <3>4, PairUnique DEF Holders, p
    <3>6. Pair(s) = <<refs[s].com.target, k>> /\ refs[s].com.target \in Target
      <4>1. refs[s].com \in Reference
        BY <1>1, <3>4, RowTypes
      <4> QED
        BY <3>4, <4>1 DEF Pair, Reference, k
    <3>7. H(Holders \ {p}, k) # {}
      BY <3>5, <3>6
    <3> QED
      BY <1>8, <3>1, <3>7
  <2>2. CASE blobs[b].new = Gone
    <3>1. StoredKeys' = StoredKeys \ {k}
      BY <1>4, <2>2, StoredAfter DEF k
    <3>2. b \in Deleted(c)
      BY <1>4, <2>2 DEF Deleted, Held
    <3>3. RefsOf(c, b) = {}
      BY <3>2 DEF Settles, KeysHold
    <3>4. ASSUME NEW t \in Target, <<t, k>> \in Holders \ {p}
          PROVE  FALSE
      <4>1. PICK s \in RefId : /\ refs[s].com # Gone /\ refs[s].com.blob = b
                               /\ Pair(s) = <<t, k>>
        BY <1>4, <3>4, HoldersOf DEF k
      <4>2. s # r
        BY <3>4, <4>1 DEF p
      <4>3. s \in RefsOf(c, b)
        BY <1>2, <4>1, <4>2 DEF RefsOf, Sees
      <4> QED
        BY <3>3, <4>3
    <3>5. H(Holders \ {p}, k) = {}
      BY <3>4
    <3> QED
      BY <1>8, <1>9, <3>1, <3>5
  <2> QED
    BY <2>1, <2>2
<1>11. Ledger!Remove({p})
  <2>1. \A S, i : Ledger!Holding(S, i) = H(S, i)
    BY DEF Ledger!Holding, Ledger!Target, Target
  <2> HIDE DEF H
  <2> QED
    BY <1>5, <1>10, <2>1 DEF Ledger!Remove
<1> QED
  BY <1>5, <1>11 DEF Ledger!Next

\* A discard of a blob that nothing refers to.
LEMMA DiscardLedger ==
    ASSUME LedgerInv, NoDanglingReference', NEW c \in Client, tx[c].pc = "commit", Settles(c),
           NEW b \in BlobId, Held(c) = {b}, tx[c].op = "discard", blobs[b].new = Gone
    PROVE  Ledger!Next \/ UNCHANGED <<StoredKeys, Holders>>
<1>1. BInv /\ Wrote(c)
  BY DEF LedgerInv, CountInv, Mine
<1>2. \A r \in RefId : refs[r].by # c
  BY <1>1 DEF Wrote, Removes, Inserts, Attaching
<1>3. Holders' = Holders
  BY <1>2, HoldersKept
<1>4. CASE blobs[b].com = Gone
  BY <1>3, <1>4, StoredAfter
<1>5. CASE blobs[b].com # Gone
  <2> DEFINE k == blobs[b].com.key
  <2>1. StoredKeys' = StoredKeys \ {k}
    BY <1>5, StoredAfter
  <2>2. RefsOf(c, b) = {}
    <3>1. b \in Deleted(c)
      BY <1>5 DEF Deleted, Held
    <3> QED
      BY <3>1 DEF Settles, KeysHold
  <2>3. ASSUME NEW t, <<t, k>> \in Holders
        PROVE  FALSE
    <3>1. PICK s \in RefId : refs[s].com # Gone /\ refs[s].com.blob = b
      BY <1>5, <2>3, HoldersOf
    <3>2. s \in RefsOf(c, b)
      BY <1>2, <3>1 DEF RefsOf, Sees
    <3> QED
      BY <2>2, <3>2
  <2>4. k \in Key
    <3>1. blobs[b].com \in Blob
      BY <1>1, <1>5, RowTypes
    <3> QED
      BY <3>1 DEF Blob
  <2> HIDE DEF k
  <2>5. Ledger!Holding(Holders, k) = {}
    BY <2>3 DEF Ledger!Holding
  <2>6. Ledger!Discard(k)
    BY <1>3, <2>1, <2>5 DEF Ledger!Discard
  <2> QED
    BY <2>4, <2>6 DEF Ledger!Next
<1> QED
  BY <1>4, <1>5

LEMMA CommitLedger ==
    ASSUME LedgerInv, NoDanglingReference', NEW c \in Client, Commit(c), KeysHold(c)
    PROVE  Ledger!Next \/ UNCHANGED <<StoredKeys, Holders>>
<1>1. BInv /\ OneBlob(c) /\ tx[c].pc = "commit"
  BY DEF LedgerInv, CountInv, Commit, At
<1>2. Settles(c) /\ Ends(c) /\ Held(c) \subseteq {tx[c].blob}
  BY <1>1, CommitSettles DEF OneBlob
<1>3. CASE Held(c) = {}
  <2>1. \A r \in RefId : refs[r].by # c
    BY <1>1, <1>2, <1>3, NothingHeld
  <2>2. Holders' = Holders
    BY <1>2, <2>1, HoldersKept
  <2>3. StoredKeys' = StoredKeys
    <3>1. \A b \in BlobId : blobs'[b] = blobs[b]
      BY <1>2, <1>3 DEF Settles, Held
    <3> QED
      BY <3>1 DEF StoredKeys, Stored
  <2> QED
    BY <2>2, <2>3
<1>4. CASE Held(c) # {}
  <2> DEFINE b == tx[c].blob
  <2>1. b \in BlobId /\ Held(c) = {b}
    <3>1. Held(c) \subseteq BlobId
      BY DEF Held
    <3> QED
      BY <1>2, <1>4, <3>1
  <2>2. CASE tx[c].op \in Attaching \cup {"put"} /\ \A d \in Held(c) : blobs[d].new # Gone
    BY <1>1, <1>2, <2>1, <2>2, PutLedger
  <2>3. CASE /\ tx[c].op = "release" /\ tx[c].ref \in RefId /\ refs[tx[c].ref].by = c
             /\ \A d \in Held(c) : blobs[d].new # Gone => blobs[d].new.count > 0
    BY <1>1, <1>2, <2>1, <2>3, ReleaseLedger
  <2>4. CASE tx[c].op = "discard" /\ \A d \in Held(c) : blobs[d].new = Gone
    BY <1>1, <1>2, <2>1, <2>4, DiscardLedger
  <2> QED
    BY <1>2, <2>2, <2>3, <2>4 DEF Ends
<1> QED
  BY <1>3, <1>4

LEMMA LedgerStep ==
    ASSUME NoPurge, LedgerInv, [Next]_vars
    PROVE  [Ledger!Next]_Ledger!lvars
<1>1. BInv /\ NoDanglingReference'
  BY LedgerInvNext DEF LedgerInv, CountInv
<1>2. ASSUME NEW c \in Client, Begin(c) \/ Statement(c) \/ Dies(c) \/ DeadlockAborts(c)
      PROVE  Ledger!Next \/ UNCHANGED <<StoredKeys, Holders>>
  <2>1. CASE Commit(c) /\ KeysHold(c)
    BY <1>1, <2>1, CommitLedger
  <2>2. CASE ~(Commit(c) /\ KeysHold(c))
    <3>1. Quiet(c)
      BY <1>1, <1>2, <2>2, QuietStep
    <3> QED
      BY <1>1, <3>1, QuietLedger
  <2> QED
    BY <2>1, <2>2
<1>3. CASE UNCHANGED vars
  <2>1. UNCHANGED <<StoredKeys, Holders>>
    BY <1>3 DEF vars, StoredKeys, Stored, Holders, Pair
  <2> QED
    BY <2>1 DEF Ledger!lvars
<1>4. CASE Next
  BY <1>2, <1>4 DEF Next, Ledger!lvars
<1> QED
  BY <1>3, <1>4

LEMMA LedgerInit == Init => Ledger!Init
<1> SUFFICES ASSUME Init
             PROVE  Ledger!Init
  OBVIOUS
<1>1. /\ \A b \in BlobId : blobs[b].com = Gone
      /\ \A r \in RefId : refs[r].com = Gone
  BY DEF Init, Stable
<1> QED
  BY <1>1 DEF Ledger!Init, StoredKeys, Stored, Holders

\* Puts, attaches, releases and discards behave like single steps on the
\* stored contents and their holders, for any number of clients: whatever
\* their statements interleave, each happens at once or not at all.
THEOREM LedgerKept ==
    ASSUME NoPurge
    PROVE  Spec => KeepsLedger
<1>1. Init => LedgerInv /\ Ledger!Init
  BY LedgerInvInit, LedgerInit
<1>2. LedgerInv /\ [Next]_vars => LedgerInv'
  BY LedgerInvNext
<1>3. LedgerInv /\ [Next]_vars => [Ledger!Next]_Ledger!lvars
  BY LedgerStep
<1> QED
  BY <1>1, <1>2, <1>3, PTL DEF Spec, KeepsLedger, Ledger!Spec
=============================================================================
