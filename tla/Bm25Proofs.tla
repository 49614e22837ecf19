----------------------------- MODULE Bm25Proofs -----------------------------
(***************************************************************************)
(* For any tokens, hashes, stop lines, documents, queries and sizes of the  *)
(* batches: no embedding is lost or moved, its weights are those of the     *)
(* tokens of its document, and a query finds what shares a word with it.    *)
(*                                                                          *)
(* The loop of _stem is a recursive function.  That it has a value, and     *)
(* what the value holds, is shown of the first tokens for which it would    *)
(* fail, which exist when there are any.                                    *)
(***************************************************************************)
EXTENDS Bm25, FiniteSetTheorems, SequenceTheorems, WellFoundedInduction, TLAPS

-----------------------------------------------------------------------------
(* Numbers                                                                  *)

\* Every set of natural numbers has a least one ...
LEMMA LeastOf ==
    ASSUME NEW T \in SUBSET Nat, T # {}
    PROVE  \E x \in T : \A y \in T : x <= y
<1>1. IsWellFoundedOn(OpToRel(<, Nat), Nat)
  BY NatLessThanWellFounded
<1>2. PICK x \in T : \A y \in T : ~(<<y, x>> \in OpToRel(<, Nat))
  BY <1>1, WFMin
<1>3. \A y \in T : x <= y
  <2> TAKE y \in T
  <2>1. x \in Nat /\ y \in Nat
    OBVIOUS
  <2>2. ~(<<y, x>> \in OpToRel(<, Nat))
    BY <1>2
  <2>3. ~(y < x)
    BY <2>1, <2>2 DEF OpToRel
  <2> QED
    BY <2>1, <2>3
<1> QED
  BY <1>3

\* ... and a bounded one has a greatest.
LEMMA GreatestOf ==
    ASSUME NEW n \in Nat, NEW S \in SUBSET (1 .. n), S # {}
    PROVE  Max(S) \in S
<1> DEFINE T == {n - i : i \in S}
<1>1. \A i \in S : i \in 1 .. n
  OBVIOUS
<1>2. T \in SUBSET Nat /\ T # {}
  <2>1. \A i \in S : n - i \in Nat
    BY <1>1
  <2> QED
    BY <2>1
<1>3. PICK x \in T : \A y \in T : x <= y
  BY <1>2, LeastOf
<1>4. PICK i \in S : x = n - i
  BY <1>3
<1>5. \A j \in S : i >= j
  <2> TAKE j \in S
  <2>1. n - i <= n - j
    BY <1>3, <1>4
  <2> QED
    BY <1>1, <2>1
<1> QED
  BY <1>5 DEF Max

-----------------------------------------------------------------------------
(* Tokens                                                                   *)

\* f is what the loop makes of the first n tokens, and of those before them.
Stems(f, tokens, n) ==
    f = [i \in 0 .. n |->
            IF i = 0 THEN <<>>
            ELSE IF Kept(tokens[i]) THEN Append(f[i - 1], Lower[tokens[i]])
            ELSE f[i - 1]]

LEMMA StemmingGoesOn ==
    ASSUME NEW tokens, NEW n \in Nat, NEW f, Stems(f, tokens, n)
    PROVE  \E g : Stems(g, tokens, n + 1)
<1> DEFINE new == IF Kept(tokens[n + 1]) THEN Append(f[n], Lower[tokens[n + 1]]) ELSE f[n]
           g == [i \in 0 .. n + 1 |-> IF i = n + 1 THEN new ELSE f[i]]
<1>1. \A i \in 0 .. n :
         f[i] = IF i = 0 THEN <<>>
                ELSE IF Kept(tokens[i]) THEN Append(f[i - 1], Lower[tokens[i]])
                ELSE f[i - 1]
  BY DEF Stems
<1>2. ASSUME NEW i \in 0 .. n + 1
      PROVE  g[i] = IF i = 0 THEN <<>>
                    ELSE IF Kept(tokens[i]) THEN Append(g[i - 1], Lower[tokens[i]])
                    ELSE g[i - 1]
  <2>1. CASE i = n + 1
    <3>1. g[i] = new /\ i # 0 /\ i - 1 = n /\ n \in 0 .. n + 1 /\ n # n + 1
      BY <2>1
    <3>2. g[i - 1] = f[n]
      BY <3>1
    <3> QED
      BY <2>1, <3>1, <3>2
  <2>2. CASE i = 0
    <3>1. g[0] = f[0] /\ f[0] = <<>>
      BY <1>1
    <3> QED
      BY <2>2, <3>1
  <2>3. CASE i \in 1 .. n
    <3>1. g[i] = f[i] /\ i # 0 /\ i - 1 \in 0 .. n + 1 /\ i - 1 # n + 1 /\ i \in 0 .. n
      BY <2>3
    <3>2. g[i - 1] = f[i - 1]
      BY <3>1
    <3> QED
      BY <1>1, <3>1, <3>2
  <2> QED
    BY <2>1, <2>2, <2>3
<1>3. g = [i \in 0 .. n + 1 |-> g[i]]
  OBVIOUS
<1> HIDE DEF g, new
<1>4. Stems(g, tokens, n + 1)
  BY <1>2, <1>3 DEF Stems
<1> QED
  BY <1>4

LEMMA StemmingExists ==
    ASSUME NEW tokens, NEW n \in Nat
    PROVE  \E f : Stems(f, tokens, n)
<1> DEFINE T == {m \in Nat : ~ \E f : Stems(f, tokens, m)}
<1>1. SUFFICES ASSUME T # {}
               PROVE  FALSE
  OBVIOUS
<1>2. PICK m \in T : \A k \in T : m <= k
  BY <1>1, LeastOf
<1>3. CASE m = 0
  <2>1. Stems([i \in 0 .. 0 |-> <<>>], tokens, 0)
    BY DEF Stems
  <2> QED
    BY <1>2, <1>3, <2>1
<1>4. CASE m # 0
  <2>1. m - 1 \in Nat /\ m - 1 \notin T /\ m - 1 + 1 = m
    BY <1>2, <1>4
  <2>2. PICK f : Stems(f, tokens, m - 1)
    BY <2>1
  <2>3. \E g : Stems(g, tokens, m - 1 + 1)
    BY <2>1, <2>2, StemmingGoesOn
  <2> QED
    BY <1>2, <2>1, <2>3
<1> QED
  BY <1>3, <1>4

\* The loop keeps the tokens that are to be kept, in lower case.
LEMMA StemmedSoFar ==
    ASSUME NEW tokens \in Seq(Token), NEW f, Stems(f, tokens, Len(tokens)),
           NEW n \in 0 .. Len(tokens)
    PROVE  /\ f[n] \in Seq(Token)
           /\ ToSet(f[n]) = {Lower[tokens[j]] : j \in {j \in 1 .. n : Kept(tokens[j])}}
<1> DEFINE Right(m) ==
             /\ f[m] \in Seq(Token)
             /\ ToSet(f[m]) = {Lower[tokens[j]] : j \in {j \in 1 .. m : Kept(tokens[j])}}
           T == {m \in 0 .. Len(tokens) : ~Right(m)}
<1>1. Len(tokens) \in Nat
  OBVIOUS
<1>2. SUFFICES ASSUME T # {}
               PROVE  FALSE
  OBVIOUS
<1>3. \A i \in 0 .. Len(tokens) :
         f[i] = IF i = 0 THEN <<>>
                ELSE IF Kept(tokens[i]) THEN Append(f[i - 1], Lower[tokens[i]])
                ELSE f[i - 1]
  BY DEF Stems
<1>4. T \in SUBSET Nat
  BY <1>1
<1>5. PICK m \in T : \A k \in T : m <= k
  BY <1>2, <1>4, LeastOf
<1>6. m \in 0 .. Len(tokens) /\ ~Right(m)
  BY <1>5
<1>7. CASE m = 0
  <2>1. f[0] = <<>> /\ 1 .. 0 = {}
    BY <1>1, <1>3
  <2>2. Right(0)
    BY <2>1 DEF ToSet
  <2> QED
    BY <1>6, <1>7, <2>2
<1>8. CASE m # 0
  <2>1. m \in 1 .. Len(tokens) /\ m - 1 \in 0 .. Len(tokens) /\ ~(m <= m - 1)
    BY <1>1, <1>6, <1>8
  <2>2. Right(m - 1)
    BY <1>5, <2>1
  <2>3. f[m] = IF Kept(tokens[m]) THEN Append(f[m - 1], Lower[tokens[m]]) ELSE f[m - 1]
    BY <1>3, <2>1
  <2>4. tokens[m] \in Token /\ Lower[tokens[m]] \in Token
    BY <2>1, ElementOfSeq, LowerAssumption
  <2>5. \A j : j \in 1 .. m <=> j \in 1 .. m - 1 \/ j = m
    BY <2>1
  <2>6. CASE Kept(tokens[m])
    <3>1. f[m] \in Seq(Token)
      BY <2>2, <2>3, <2>4, <2>6
    <3>2. ToSet(f[m]) = ToSet(f[m - 1]) \cup {Lower[tokens[m]]}
      <4>1. PICK old \in Seq(Token) : old = f[m - 1]
        BY <2>2
      <4>2. PICK word \in Token : word = Lower[tokens[m]]
        BY <2>4
      <4>3. f[m] = Append(old, word)
        BY <2>3, <2>6, <4>1, <4>2
      <4>4. ToSet(Append(old, word)) = ToSet(old) \cup {word}
        BY AppendProperties DEF ToSet
      <4> QED
        BY <4>1, <4>2, <4>3, <4>4
    <3>3. Right(m)
      BY <2>2, <2>5, <2>6, <3>1, <3>2
    <3> QED
      BY <1>6, <3>3
  <2>7. CASE ~Kept(tokens[m])
    <3>1. Right(m)
      BY <2>2, <2>3, <2>5, <2>7
    <3> QED
      BY <1>6, <3>1
  <2> QED
    BY <2>6, <2>7
<1> QED
  BY <1>7, <1>8

\* What _stem returns.
LEMMA StemOf ==
    ASSUME NEW tokens \in Seq(Token)
    PROVE  /\ Stem(tokens) \in Seq(Token)
           /\ ToSet(Stem(tokens)) =
                {Lower[tokens[j]] : j \in {j \in DOMAIN tokens : Kept(tokens[j])}}
<1>1. Len(tokens) \in Nat /\ DOMAIN tokens = 1 .. Len(tokens)
  OBVIOUS
<1>2. PICK f : Stems(f, tokens, Len(tokens)) /\ Stem(tokens) = f[Len(tokens)]
  <2> DEFINE f == CHOOSE f : Stems(f, tokens, Len(tokens))
  <2>1. Stems(f, tokens, Len(tokens))
    BY <1>1, StemmingExists
  <2>2. Stem(tokens) = f[Len(tokens)]
    BY DEF Stem, Stems
  <2> QED
    BY <2>1, <2>2
<1>3. Len(tokens) \in 0 .. Len(tokens)
  BY <1>1
<1> QED
  BY <1>1, <1>2, <1>3, StemmedSoFar

LEMMA IdsOf ==
    ASSUME NEW tokens \in Seq(Token)
    PROVE  Ids(Stem(tokens)) =
             {TokenId(Lower[tokens[j]]) : j \in {j \in DOMAIN tokens : Kept(tokens[j])}}
<1>1. ToSet(Stem(tokens)) = {Lower[tokens[j]] : j \in {j \in DOMAIN tokens : Kept(tokens[j])}}
  BY StemOf
<1>2. Ids(Stem(tokens)) = {TokenId(t) : t \in ToSet(Stem(tokens))}
  BY DEF Ids, ToSet
<1> QED
  BY <1>1, <1>2

-----------------------------------------------------------------------------
(* Embeddings                                                               *)

\* What raw_embed makes of one document.
Embedded(d) == TermFrequency(Stem(d))

\* The ids are those of the tokens, and the weight of an id is that of one of
\* the tokens it stands for.
LEMMA TermFrequencyOf ==
    ASSUME NEW tokens \in Seq(Token)
    PROVE  /\ DOMAIN TermFrequency(tokens) = Ids(tokens)
           /\ \A id \in Ids(tokens) :
                 \E j \in DOMAIN tokens :
                     /\ TokenId(tokens[j]) = id
                     /\ TermFrequency(tokens)[id] = Weight(tokens[j], tokens)
<1> DEFINE first == {i \in DOMAIN tokens : \A j \in 1 .. i - 1 : tokens[j] # tokens[i]}
           at(id) == {i \in first : TokenId(tokens[i]) = id}
<1>1. TermFrequency(tokens) = [id \in Ids(tokens) |-> Weight(tokens[Max(at(id))], tokens)]
  BY DEF TermFrequency
<1>2. Len(tokens) \in Nat /\ DOMAIN tokens = 1 .. Len(tokens)
  OBVIOUS
<1>3. ASSUME NEW id \in Ids(tokens)
      PROVE  Max(at(id)) \in at(id)
  <2> DEFINE T == {i \in DOMAIN tokens : TokenId(tokens[i]) = id}
  <2>1. T \in SUBSET Nat /\ T # {}
    BY <1>2 DEF Ids
  <2>2. PICK i \in T : \A k \in T : i <= k
    BY <2>1, LeastOf
  <2>3. ASSUME NEW j \in 1 .. i - 1, tokens[j] = tokens[i]
        PROVE  FALSE
    <3>1. i \in DOMAIN tokens /\ TokenId(tokens[i]) = id
      OBVIOUS
    <3>2. j \in DOMAIN tokens /\ ~(i <= j)
      BY <1>2, <3>1
    <3>3. j \in T
      BY <2>3, <3>1, <3>2
    <3> QED
      BY <2>2, <3>2, <3>3
  <2>4. i \in at(id)
    BY <2>3
  <2>5. at(id) \in SUBSET (1 .. Len(tokens)) /\ at(id) # {}
    BY <1>2, <2>4
  <2> QED
    BY <1>2, <2>5, GreatestOf
<1>4. ASSUME NEW id \in Ids(tokens)
      PROVE  \E j \in DOMAIN tokens :
                 /\ TokenId(tokens[j]) = id
                 /\ TermFrequency(tokens)[id] = Weight(tokens[j], tokens)
  <2>1. PICK m : m = Max(at(id))
    OBVIOUS
  <2>2. m \in DOMAIN tokens /\ TokenId(tokens[m]) = id
    BY <1>3, <2>1
  <2>3. TermFrequency(tokens)[id] = Weight(tokens[m], tokens)
    BY <1>1, <2>1
  <2> QED
    BY <2>2, <2>3
<1> QED
  BY <1>1, <1>4

-----------------------------------------------------------------------------
(* The generator                                                            *)

LEMMA RawEmbedOf ==
    ASSUME NEW ds \in Seq(Document)
    PROVE  /\ RawEmbed(ds) \in Seq(Embedding)
           /\ Len(RawEmbed(ds)) = Len(ds)
           /\ \A i \in DOMAIN ds : RawEmbed(ds)[i] = Embedded(ds[i])
<1>1. Len(ds) \in Nat /\ DOMAIN ds = 1 .. Len(ds) /\ \A i \in DOMAIN ds : ds[i] \in Document
  OBVIOUS
<1>2. \A d \in Document : Embedded(d) \in Embedding
  BY DEF Embedding, Embedded
<1>3. RawEmbed(ds) = [i \in 1 .. Len(ds) |-> Embedded(ds[i])]
  BY <1>1 DEF RawEmbed, Embedded
<1>4. RawEmbed(ds) \in [1 .. Len(ds) -> Embedding]
  BY <1>1, <1>2, <1>3
<1>5. RawEmbed(ds) \in Seq(Embedding)
  BY <1>1, <1>4
<1> QED
  BY <1>1, <1>3, <1>4, <1>5

\* Every embedding is where its document is, delivered, computed or to come.
Placed ==
    /\ Len(out) + Len(batch) + Len(source) = Len(docs)
    /\ \A i \in DOMAIN out : out[i] = Embedded(docs[i])
    /\ \A i \in DOMAIN batch : batch[i] = Embedded(docs[Len(out) + i])
    /\ \A i \in DOMAIN source : source[i] = docs[Len(out) + Len(batch) + i]
    /\ pc = "done" /\ size > 0 => source = <<>>

Answered ==
    \/ asked = <<>> /\ answer = [raised |-> FALSE, indices |-> <<>>]
    \/ asked \in Query /\ answer = QueryEmbed(asked)

BInv == TypeOK /\ Placed /\ Answered

LEMMA BmInit == Init => BInv
<1> SUFFICES ASSUME Init
             PROVE  BInv
  OBVIOUS
<1>1. docs \in Seq(Document)
  <2>1. PICK m \in 0 .. MaxDocs : docs \in [1 .. m -> Document]
    BY BoundsAssumption DEF Init, SeqOf
  <2> QED
    BY <2>1
<1>2. source = docs /\ batch = <<>> /\ out = <<>> /\ asked = <<>> /\ pc = "idle"
  BY DEF Init
<1>3. TypeOK
  BY <1>1, <1>2, BoundsAssumption DEF Init, TypeOK
<1>4. Placed
  BY <1>1, <1>2 DEF Placed
<1>5. Answered
  BY DEF Init, Answered
<1> QED
  BY <1>3, <1>4, <1>5 DEF BInv

LEMMA TakenOf ==
    ASSUME TypeOK
    PROVE  /\ Taken \in 0 .. Len(source) /\ Len(source) \in Nat
           /\ Taken = 0 /\ size > 0 => source = <<>>
<1>1. Len(source) \in Nat /\ size \in Nat
  BY DEF TypeOK
<1>2. Len(source) = 0 => source = <<>>
  BY DEF TypeOK
<1> QED
  BY <1>1, <1>2 DEF Taken

\* A batch is the first of the documents that were not read.
LEMMA BatchRead ==
    ASSUME BInv, pc = "serial", batch = <<>>,
           batch' = RawEmbed(SubSeq(source, 1, Taken)),
           source' = SubSeq(source, Taken + 1, Len(source)),
           UNCHANGED <<docs, form, size, parallel, pc, out, asked, answer>>
    PROVE  BInv'
<1>1. source \in Seq(Document) /\ docs \in Seq(Document) /\ out \in Seq(Embedding)
  BY DEF BInv, TypeOK
<1>2. PICK t \in 0 .. Len(source) : t = Taken
  BY TakenOf DEF BInv
<1>3. PICK read : read = SubSeq(source, 1, t)
  OBVIOUS
<1>4. /\ read \in Seq(Document) /\ Len(read) = t
      /\ \A i \in 1 .. t : read[i] = source[i]
  BY <1>1, <1>3
<1>5. /\ source' \in Seq(Document) /\ Len(source') = Len(source) - t
      /\ \A i \in 1 .. Len(source) - t : source'[i] = source[t + i]
  BY <1>1, <1>2
<1>6. /\ batch' \in Seq(Embedding) /\ Len(batch') = t
      /\ \A i \in 1 .. t : batch'[i] = Embedded(read[i])
  <2>1. batch' = RawEmbed(read)
    BY <1>2, <1>3
  <2>2. /\ RawEmbed(read) \in Seq(Embedding) /\ Len(RawEmbed(read)) = t
        /\ \A i \in DOMAIN read : RawEmbed(read)[i] = Embedded(read[i])
    BY <1>4, RawEmbedOf
  <2>3. DOMAIN read = 1 .. t
    BY <1>4
  <2> QED
    BY <2>1, <2>2, <2>3
<1>l. Len(out) \in Nat /\ Len(source) \in Nat /\ t \in Nat /\ Len(docs) \in Nat
  BY <1>1, <1>2
<1>u. UNCHANGED <<out, docs, pc>>
  OBVIOUS
<1>7. TypeOK'
  BY <1>5, <1>6 DEF BInv, TypeOK
<1>8. /\ Len(out) + Len(source) = Len(docs)
      /\ \A i \in DOMAIN source : source[i] = docs[Len(out) + i]
  <2>1. Len(batch) = 0 /\ Len(out) \in Nat
    BY <1>1
  <2> QED
    BY <1>1, <2>1 DEF BInv, Placed
<1>9. Placed'
  <2>1. /\ Len(out') + Len(batch') + Len(source') = Len(docs')
        /\ pc' # "done"
    <3>1. Len(out') = Len(out) /\ Len(docs') = Len(docs)
      BY <1>u
    <3>2. Len(batch') = t /\ Len(source') = Len(source) - t /\ Len(out) + Len(source) = Len(docs)
      BY <1>5, <1>6, <1>8
    <3>3. Len(out) + t + (Len(source) - t) = Len(docs)
      <4>1. PICK n \in Nat, l \in Nat : n = Len(out) /\ l = Len(source)
        BY <1>l
      <4>2. n + l = Len(docs) /\ n + t + (l - t) = n + l
        BY <1>l, <3>2, <4>1
      <4> QED
        BY <4>1, <4>2
    <3>4. pc' # "done"
      BY <1>u
    <3> QED
      BY <3>1, <3>2, <3>3, <3>4
  <2>2. \A i \in DOMAIN out' : out'[i] = Embedded(docs'[i])
    BY DEF BInv, Placed
  <2>3. ASSUME NEW i \in DOMAIN batch'
        PROVE  batch'[i] = Embedded(docs'[Len(out') + i])
    <3>1. i \in 1 .. t /\ i \in DOMAIN source
      BY <1>1, <1>2, <1>6
    <3> QED
      BY <1>4, <1>6, <1>8, <3>1
  <2>4. ASSUME NEW i \in DOMAIN source'
        PROVE  source'[i] = docs'[Len(out') + Len(batch') + i]
    <3>1. i \in 1 .. Len(source) - t /\ t + i \in DOMAIN source
      BY <1>1, <1>2, <1>5
    <3>2. Len(out') + Len(batch') + i = Len(out) + (t + i)
      <4>1. Len(out') = Len(out) /\ Len(batch') = t /\ i \in Nat
        BY <1>6, <1>u, <3>1
      <4> QED
        BY <1>l, <4>1
    <3> QED
      BY <1>5, <1>8, <3>1, <3>2
  <2> QED
    BY <2>1, <2>2, <2>3, <2>4 DEF Placed
<1> QED
  BY <1>7, <1>9 DEF BInv, Answered

LEMMA Delivered ==
    ASSUME BInv, Deliver
    PROVE  BInv'
<1>1. /\ source \in Seq(Document) /\ docs \in Seq(Document)
      /\ out \in Seq(Embedding) /\ batch \in Seq(Embedding) /\ batch # <<>>
  BY DEF BInv, TypeOK, Deliver
<1>2. PICK n \in Nat, m \in Nat \ {0} : n = Len(out) /\ m = Len(batch)
  BY <1>1
<1>3. Head(batch) = batch[1] /\ batch[1] \in Embedding
  BY <1>1
<1>4. /\ out' \in Seq(Embedding) /\ Len(out') = n + 1 /\ out'[n + 1] = batch[1]
      /\ \A i \in 1 .. n : out'[i] = out[i]
  <2>1. PICK e \in Embedding : e = batch[1]
    BY <1>3
  <2>2. out' = Append(out, e)
    BY <1>3, <2>1 DEF Deliver
  <2> QED
    BY <1>1, <1>2, <2>1, <2>2, AppendProperties
<1>5. /\ batch' \in Seq(Embedding) /\ Len(batch') = m - 1
      /\ \A i \in 1 .. m - 1 : batch'[i] = batch[i + 1]
  <2>1. batch' = Tail(batch)
    BY DEF Deliver
  <2> QED
    BY <1>1, <1>2, <2>1
<1>6. UNCHANGED <<docs, form, size, parallel, pc, source, asked, answer>> /\ pc = "serial"
  BY DEF Deliver
<1>7. TypeOK'
  BY <1>4, <1>5, <1>6 DEF BInv, TypeOK
<1>8. /\ n + m + Len(source) = Len(docs)
      /\ \A i \in 1 .. n : out[i] = Embedded(docs[i])
      /\ \A i \in 1 .. m : batch[i] = Embedded(docs[n + i])
      /\ \A i \in DOMAIN source : source[i] = docs[n + m + i]
  <2>1. /\ Len(out) + Len(batch) + Len(source) = Len(docs)
        /\ \A i \in DOMAIN out : out[i] = Embedded(docs[i])
        /\ \A i \in DOMAIN batch : batch[i] = Embedded(docs[Len(out) + i])
        /\ \A i \in DOMAIN source : source[i] = docs[Len(out) + Len(batch) + i]
    BY DEF BInv, Placed
  <2>2. DOMAIN out = 1 .. n /\ DOMAIN batch = 1 .. m
    BY <1>1, <1>2
  <2> QED
    BY <1>2, <2>1, <2>2
<1>9. Placed'
  <2>1. n + 1 + (m - 1) = n + m /\ Len(source') = Len(source) /\ Len(docs') = Len(docs)
    BY <1>6
  <2>2. Len(out') + Len(batch') + Len(source') = Len(docs')
    BY <1>4, <1>5, <1>8, <2>1
  <2>3. ASSUME NEW i \in DOMAIN out'
        PROVE  out'[i] = Embedded(docs'[i])
    <3>1. i \in 1 .. n + 1
      BY <1>4
    <3>2. 1 \in 1 .. m
      OBVIOUS
    <3>3. CASE i = n + 1
      BY <1>4, <1>6, <1>8, <3>2, <3>3
    <3>4. CASE i \in 1 .. n
      BY <1>4, <1>6, <1>8, <3>4
    <3> QED
      BY <3>1, <3>3, <3>4
  <2>4. ASSUME NEW i \in DOMAIN batch'
        PROVE  batch'[i] = Embedded(docs'[Len(out') + i])
    <3>1. i \in 1 .. m - 1
      BY <1>5
    <3>2. i + 1 \in 1 .. m /\ n + (i + 1) = n + 1 + i
      BY <3>1
    <3>3. batch'[i] = batch[i + 1] /\ batch[i + 1] = Embedded(docs[n + (i + 1)])
      BY <1>5, <1>8, <3>1, <3>2
    <3> QED
      BY <1>4, <1>6, <3>2, <3>3
  <2>5. ASSUME NEW i \in DOMAIN source'
        PROVE  source'[i] = docs'[Len(out') + Len(batch') + i]
    <3>1. source[i] = docs[n + m + i] /\ source' = source /\ docs' = docs
      BY <1>6, <1>8
    <3>2. Len(out') + Len(batch') = n + m
      BY <1>4, <1>5, <2>1
    <3> QED
      BY <3>1, <3>2
  <2>6. pc' # "done"
    BY <1>6
  <2> QED
    BY <2>2, <2>3, <2>4, <2>5, <2>6 DEF Placed
<1> QED
  BY <1>6, <1>7, <1>9 DEF BInv, Answered

LEMMA BmNext == BInv /\ [Next]_vars => BInv'
<1> SUFFICES ASSUME BInv, [Next]_vars
             PROVE  BInv'
  OBVIOUS
<1>1. CASE UNCHANGED vars
  BY <1>1 DEF vars, BInv, TypeOK, Placed, Answered
<1>2. CASE Start
  BY <1>2 DEF Start, BInv, TypeOK, Placed, Answered
<1>3. CASE StartPool
  BY <1>3 DEF StartPool, BInv, TypeOK, Placed, Answered
<1>4. CASE NextBatch
  <2>1. CASE Taken = 0
    <3>1. /\ pc' = "done" /\ batch = <<>>
          /\ UNCHANGED <<docs, form, size, parallel, source, batch, out, asked, answer>>
      BY <1>4, <2>1 DEF NextBatch
    <3>2. size > 0 => source = <<>>
      BY <2>1, TakenOf DEF BInv
    <3> QED
      BY <3>1, <3>2 DEF BInv, TypeOK, Placed, Answered
  <2>2. CASE Taken # 0
    BY <1>4, <2>2, BatchRead DEF NextBatch
  <2> QED
    BY <2>1, <2>2
<1>5. CASE Deliver
  BY <1>5, Delivered
<1>6. ASSUME NEW q \in Query, Ask(q)
      PROVE  BInv'
  BY <1>6 DEF Ask, BInv, TypeOK, Placed, Answered
<1> QED
  BY <1>1, <1>2, <1>3, <1>4, <1>5, <1>6 DEF Next, Generate

LEMMA BmInvariant == Spec => []BInv
<1> QED
  BY BmInit, BmNext, PTL DEF Spec

-----------------------------------------------------------------------------
(* The theorems                                                             *)

\* The documents are read, the embeddings computed and delivered in sequences of
\* their types, and nothing is held back by a generator that has not started or
\* has ended (iter_batch, _embed_documents).
THEOREM EmbedderTypes == Spec => []TypeOK
<1>1. BInv => TypeOK
  BY DEF BInv
<1> QED
  BY <1>1, BmInvariant, PTL

\* For any number of documents and any size of the batches: what is delivered,
\* computed and still to come are the embeddings of the documents in their
\* order, and a generator that has ended has delivered them all, unless the size
\* is 0 (iter_batch, _embed_documents).
THEOREM EmbeddingsArrive == Spec => []NothingDropped
<1>1. ASSUME BInv, size > 0
      PROVE  /\ out \o batch \o RawEmbed(source) = RawEmbed(docs)
             /\ pc = "done" => Len(out) = Len(docs)
  <2>1. /\ source \in Seq(Document) /\ docs \in Seq(Document)
        /\ out \in Seq(Embedding) /\ batch \in Seq(Embedding)
        /\ pc = "done" => batch = <<>>
    BY <1>1 DEF BInv, TypeOK
  <2>2. PICK n \in Nat, m \in Nat, l \in Nat : n = Len(out) /\ m = Len(batch) /\ l = Len(source)
    BY <2>1
  <2>3. /\ n + m + l = Len(docs)
        /\ \A i \in 1 .. n : out[i] = Embedded(docs[i])
        /\ \A i \in 1 .. m : batch[i] = Embedded(docs[n + i])
        /\ \A i \in 1 .. l : source[i] = docs[n + m + i]
        /\ pc = "done" => source = <<>>
    <3>1. /\ Len(out) + Len(batch) + Len(source) = Len(docs)
          /\ \A i \in DOMAIN out : out[i] = Embedded(docs[i])
          /\ \A i \in DOMAIN batch : batch[i] = Embedded(docs[Len(out) + i])
          /\ \A i \in DOMAIN source : source[i] = docs[Len(out) + Len(batch) + i]
      BY <1>1 DEF BInv, Placed
    <3>2. DOMAIN out = 1 .. n /\ DOMAIN batch = 1 .. m /\ DOMAIN source = 1 .. l
      BY <2>1, <2>2
    <3>3. pc = "done" => source = <<>>
      BY <1>1 DEF BInv, Placed
    <3> QED
      BY <2>2, <3>1, <3>2, <3>3
  <2>4. PICK rest \in Seq(Embedding) : rest = RawEmbed(source)
    BY <2>1, RawEmbedOf
  <2>5. Len(rest) = l /\ \A i \in 1 .. l : rest[i] = Embedded(source[i])
    BY <2>1, <2>2, <2>4, RawEmbedOf
  <2>6. PICK all \in Seq(Embedding) : all = RawEmbed(docs)
    BY <2>1, RawEmbedOf
  <2>7. Len(all) = n + m + l /\ \A i \in 1 .. n + m + l : all[i] = Embedded(docs[i])
    BY <2>1, <2>3, <2>6, RawEmbedOf
  <2>8. PICK made \in Seq(Embedding) : made = out \o batch
    BY <2>1, ConcatProperties
  <2>9. /\ Len(made) = n + m
        /\ \A i \in 1 .. n + m : made[i] = IF i <= n THEN out[i] ELSE batch[i - n]
    <3>1. /\ Len(out \o batch) = Len(out) + Len(batch)
          /\ \A i \in 1 .. Len(out) + Len(batch) :
                (out \o batch)[i] = IF i <= Len(out) THEN out[i] ELSE batch[i - Len(out)]
      BY <2>1, ConcatProperties
    <3> QED
      BY <2>2, <2>8, <3>1
  <2>10. /\ made \o rest \in Seq(Embedding) /\ Len(made \o rest) = n + m + l
         /\ \A i \in 1 .. n + m + l :
               (made \o rest)[i] = IF i <= n + m THEN made[i] ELSE rest[i - (n + m)]
    <3>1. /\ made \o rest \in Seq(Embedding) /\ Len(made \o rest) = Len(made) + Len(rest)
          /\ \A i \in 1 .. Len(made) + Len(rest) :
                (made \o rest)[i] = IF i <= Len(made) THEN made[i] ELSE rest[i - Len(made)]
      BY ConcatProperties
    <3>2. Len(made) = n + m /\ Len(rest) = l
      BY <2>5, <2>9
    <3> QED
      BY <3>1, <3>2
  <2>11. ASSUME NEW i \in 1 .. n + m + l
         PROVE  (made \o rest)[i] = all[i]
    <3>1. CASE i \in 1 .. n
      BY <2>3, <2>7, <2>9, <2>10, <3>1
    <3>2. CASE i \in n + 1 .. n + m
      <4>1. i - n \in 1 .. m /\ n + (i - n) = i /\ ~(i <= n) /\ i <= n + m /\ i \in 1 .. n + m
        BY <3>2
      <4>2. (made \o rest)[i] = batch[i - n]
        BY <2>9, <2>10, <4>1
      <4> QED
        BY <2>3, <2>7, <4>1, <4>2
    <3>3. CASE i \in n + m + 1 .. n + m + l
      <4>1. i - (n + m) \in 1 .. l /\ n + m + (i - (n + m)) = i /\ ~(i <= n + m)
        BY <3>3
      <4>2. (made \o rest)[i] = rest[i - (n + m)]
        BY <2>10, <4>1
      <4> QED
        BY <2>3, <2>5, <2>7, <4>1, <4>2
    <3>4. i \in 1 .. n \/ i \in n + 1 .. n + m \/ i \in n + m + 1 .. n + m + l
      OBVIOUS
    <3> QED
      BY <3>1, <3>2, <3>3, <3>4
  <2>12. made \o rest = all
    BY <2>7, <2>10, <2>11, SeqEqual
  <2>13. pc = "done" => n = Len(docs)
    BY <2>1, <2>2, <2>3
  <2> QED
    BY <2>2, <2>4, <2>6, <2>8, <2>12, <2>13
<1>2. BInv => NothingDropped
  BY <1>1 DEF NothingDropped
<1> QED
  BY <1>2, BmInvariant, PTL

\* However many tokens share an id, and whatever is stemmed away: the indices of
\* an embedding are the ids of the kept tokens of its document, and the weight of
\* each is that of one of the tokens it stands for (_stem, _term_frequency).
THEOREM WeightsAreOfTokens == Spec => []WeightsOfTokens
<1>1. BInv => WeightsOfTokens
  <2> SUFFICES ASSUME BInv, NEW i \in DOMAIN out
               PROVE  /\ DOMAIN out[i] = Ids(Stem(docs[i]))
                      /\ \A id \in DOMAIN out[i] :
                            \E j \in DOMAIN Stem(docs[i]) :
                                /\ TokenId(Stem(docs[i])[j]) = id
                                /\ out[i][id] = Weight(Stem(docs[i])[j], Stem(docs[i]))
    BY DEF WeightsOfTokens
  <2>1. out[i] = Embedded(docs[i])
    BY DEF BInv, Placed
  <2>2. docs[i] \in Document
    <3>1. Len(out) <= Len(docs) /\ Len(docs) \in Nat /\ Len(out) \in Nat
      BY DEF BInv, Placed, TypeOK
    <3>2. i \in 1 .. Len(out) /\ docs \in Seq(Document)
      BY DEF BInv, TypeOK
    <3> QED
      BY <3>1, <3>2
  <2>3. PICK stems \in Seq(Token) : stems = Stem(docs[i])
    BY <2>2, StemOf, DocumentAssumption
  <2>4. out[i] = TermFrequency(stems)
    BY <2>1, <2>3 DEF Embedded
  <2>5. /\ DOMAIN out[i] = Ids(stems)
        /\ \A id \in Ids(stems) :
              \E j \in DOMAIN stems :
                  TokenId(stems[j]) = id /\ out[i][id] = Weight(stems[j], stems)
    BY <2>4, TermFrequencyOf
  <2> QED
    BY <2>3, <2>5
<1> QED
  BY <1>1, BmInvariant, PTL

LEMMA TokenIdFits ==
    ASSUME NEW t \in Token, Hash[t] # -IntMax - 1
    PROVE  TokenId(t) <= IntMax
BY HashAssumption, IntMaxAssumption DEF TokenId

\* A query finds every document it shares a kept word with, in any case, if none
\* of its words has the smallest hash (_stem, compute_token_id, query_embed).
THEOREM QueriesFind == Spec => []QueryFinds
<1>1. BInv => QueryFinds
  <2> SUFFICES ASSUME BInv, pc = "done", \A m \in DOMAIN asked : Hash[Lower[asked[m]]] # -IntMax - 1
               PROVE  /\ ~answer.raised
                      /\ \A i \in DOMAIN out :
                            (\E m \in DOMAIN asked, n \in DOMAIN docs[i] :
                                /\ Lower[asked[m]] = Lower[docs[i][n]]
                                /\ Kept(asked[m]) /\ Kept(docs[i][n]))
                            => DOMAIN answer.indices \cap DOMAIN out[i] # {}
    BY DEF QueryFinds
  <2>1. CASE asked = <<>> /\ answer = [raised |-> FALSE, indices |-> <<>>]
    BY <2>1
  <2>2. CASE asked \in Query /\ answer = QueryEmbed(asked)
    <3>1. asked \in Seq(Token)
      BY <2>2, DocumentAssumption
    <3>2. Ids(Stem(asked)) = {TokenId(Lower[asked[j]]) : j \in {j \in DOMAIN asked : Kept(asked[j])}}
      BY <3>1, IdsOf
    <3>3. \A id \in Ids(Stem(asked)) : ~(id > IntMax)
      <4>1. ASSUME NEW j \in DOMAIN asked
            PROVE  ~(TokenId(Lower[asked[j]]) > IntMax)
        <5>1. Lower[asked[j]] \in Token
          BY <3>1, LowerAssumption
        <5>2. TokenId(Lower[asked[j]]) <= IntMax
          BY <5>1, TokenIdFits
        <5>3. TokenId(Lower[asked[j]]) \in Int
          BY <5>1, HashAssumption, IntMaxAssumption DEF TokenId
        <5> QED
          BY <5>2, <5>3, IntMaxAssumption
      <4> QED
        BY <3>2, <4>1
    <3>4. answer = [raised |-> FALSE, indices |-> Counted(Stem(asked))]
      BY <2>2, <3>3 DEF QueryEmbed
    <3>5. ~answer.raised /\ DOMAIN answer.indices = Ids(Stem(asked))
      BY <3>4 DEF Counted
    <3>6. ASSUME NEW i \in DOMAIN out, NEW m \in DOMAIN asked, NEW n \in DOMAIN docs[i],
                 Lower[asked[m]] = Lower[docs[i][n]], Kept(asked[m]), Kept(docs[i][n])
          PROVE  DOMAIN answer.indices \cap DOMAIN out[i] # {}
      <4>1. docs[i] \in Document
        <5>1. Len(out) <= Len(docs) /\ Len(docs) \in Nat /\ Len(out) \in Nat
          BY DEF BInv, Placed, TypeOK
        <5>2. i \in 1 .. Len(out) /\ docs \in Seq(Document)
          BY DEF BInv, TypeOK
        <5> QED
          BY <5>1, <5>2
      <4>2. docs[i] \in Seq(Token)
        BY <4>1, DocumentAssumption
      <4>3. DOMAIN out[i] = Ids(Stem(docs[i]))
        <5>1. out[i] = TermFrequency(Stem(docs[i]))
          BY DEF BInv, Placed, Embedded
        <5> QED
          BY <4>2, <5>1, StemOf, TermFrequencyOf
      <4>4. TokenId(Lower[docs[i][n]]) \in Ids(Stem(docs[i]))
        BY <3>6, <4>2, IdsOf
      <4>5. TokenId(Lower[asked[m]]) \in Ids(Stem(asked))
        BY <3>2, <3>6
      <4> QED
        BY <3>5, <3>6, <4>3, <4>4, <4>5
    <3> QED
      BY <3>5, <3>6
  <2> QED
    BY <2>1, <2>2 DEF BInv, Answered
<1> QED
  BY <1>1, BmInvariant, PTL
=============================================================================
