----------------------------- MODULE MCBlobStore -----------------------------
(***************************************************************************)
(* BlobStore and its promise for TLC: symmetry.                             *)
(***************************************************************************)
EXTENDS BlobPromise, TLC

\* Clients, contents and objects are interchangeable (safety runs only).
Alike == Permutations(Client) \cup Permutations(Key) \cup Permutations(Object)
             \cup Permutations(Field)
=============================================================================
