----------------------------- MODULE BlobPromise -----------------------------
(***************************************************************************)
(* The blob store implements BlobLedger: what is committed is all that a    *)
(* caller can rely on.                                                      *)
(***************************************************************************)
EXTENDS BlobStore

StoredKeys == {blobs[b].com.key : b \in {i \in BlobId : Stored(i)}}
Pair(r) == <<refs[r].com.target, blobs[refs[r].com.blob].com.key>>
Holders == {Pair(r) : r \in {i \in RefId : refs[i].com # Gone}}

Ledger == INSTANCE BlobLedger WITH stored <- StoredKeys, held <- Holders

\* Put, attach, release, discard and purge behave like single steps on the
\* stored contents and their holders, whatever the statements interleave.
KeepsLedger == Ledger!Spec
=============================================================================
