------------------------------ MODULE BlobLedger ------------------------------
(***************************************************************************)
(* What the blob store promises its callers: each call happens at once or   *)
(* not at all, and a content is there as long as something refers to it.    *)
(***************************************************************************)
CONSTANTS Key, Object, Field

VARIABLES
    stored,     \* keys of the stored contents
    held        \* which target refers to which key

lvars == <<stored, held>>

Target == Object \X Field
Holding(S, k) == {t \in Target : <<t, k>> \in S}

Init == stored = {} /\ held = {}

Put(k) ==
    /\ stored' = stored \cup {k}
    /\ UNCHANGED held

\* attach of a stored key, and put_and_attach of any.
Attach(t, k) ==
    /\ stored' = stored \cup {k}
    /\ held' = held \cup {<<t, k>>}

\* release removes one pair, purge those of one object; a key that loses its
\* last pair is gone with it, the others stay.
Remove(S) ==
    /\ S \subseteq held
    /\ held' = held \ S
    /\ stored' = {k \in stored : Holding(S, k) = {} \/ Holding(held \ S, k) # {}}

Discard(k) ==
    /\ Holding(held, k) = {}
    /\ stored' = stored \ {k}
    /\ UNCHANGED held

Next ==
    \/ \E k \in Key : Put(k) \/ Discard(k)
    \/ \E t \in Target, k \in Key : Attach(t, k)
    \/ \E p \in held : Remove({p})
    \/ \E o \in Object : \E S \in SUBSET {p \in held : p[1][1] = o} : Remove(S)

Spec == Init /\ [][Next]_lvars
=============================================================================
