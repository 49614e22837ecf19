------------------------------- MODULE MCBm25 -------------------------------
(***************************************************************************)
(* Bm25 for TLC, with hashes of 8 bits: two tokens that differ in the sign  *)
(* of their hash, one with the smallest hash, words in upper and in lower   *)
(* case, stop lines in both, punctuation and an over-long token.            *)
(***************************************************************************)
EXTENDS Bm25

CONSTANTS a, A, b, m, stop, Z, z, noise, long

Lowers == [t \in Token |-> CASE t = A -> a [] t = Z -> z [] OTHER -> t]
Hashes ==
    [t \in Token |-> CASE t = a -> 5 [] t = b -> -5 [] t = m -> -128 [] t = z -> 127
                       [] t = stop -> 7 [] OTHER -> 0]

\* The stop lines are stop and Z.
Documents ==
    {<<a, b, a>>, <<A, noise, stop>>, <<b, A, z, m>>, <<Z, long>>, <<>>, <<m, z>>}
Queries == {<<a>>, <<A, A>>, <<b, Z>>, <<m>>, <<Z>>, <<stop, noise>>, <<long, z, b>>}
=============================================================================
