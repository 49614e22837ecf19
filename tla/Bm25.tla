-------------------------------- MODULE Bm25 --------------------------------
(***************************************************************************)
(* The sparse embedder (lib/agentic/embedder/bm25.py): one call of embed()  *)
(* is a generator over a list, a stream or a single text, which reads its   *)
(* documents in batches and delivers one embedding after the other; queries *)
(* are embedded against what it delivered.                                  *)
(*                                                                          *)
(* A document is the sequence of tokens jieba cuts it into.  A weight is    *)
(* what the BM25 formula computes it from: how often a token occurs and the *)
(* length of its document; k, b and avg_len are the same for every token.   *)
(* An embedding of a document is the dict whose keys and values become its  *)
(* lists of indices and of values.                                          *)
(***************************************************************************)
EXTENDS Integers, Sequences, FiniteSets, SequencesExt

CONSTANTS
    Token,      \* the tokens there are
    Lower,      \* str.lower
    Noise,      \* tokens of which _punctuation leaves nothing
    Long,       \* tokens longer than token_max_length
    StopLine,   \* the lines of the stop word files, as they were loaded
    Hash,       \* mmh3.hash, a signed integer of the width of an int32
    IntMax,     \* the largest int32
    Document,   \* the documents that are embedded ...
    MaxDocs,    \* ... at most so many in a call
    Query,      \* the queries that are asked
    MaxBatch    \* the largest batch_size

ASSUME IntMaxAssumption == IntMax \in Nat
ASSUME LowerAssumption == Lower \in [Token -> Token]
ASSUME HashAssumption == Hash \in [Token -> -IntMax - 1 .. IntMax]
ASSUME TokenAssumption == Noise \cup Long \cup StopLine \subseteq Token
ASSUME DocumentAssumption == Document \cup Query \subseteq Seq(Token)
ASSUME BoundsAssumption == MaxDocs \in Nat /\ MaxBatch \in Nat

VARIABLES
    docs,       \* the documents embed() was called with
    form,       \* whether they are a text, a list or another iterable
    size,       \* batch_size
    parallel,   \* whether a number of workers was asked for
    pc,         \* where the generator is
    source,     \* the documents it has not read
    batch,      \* the embeddings it has computed and not delivered
    out,        \* the embeddings it has delivered
    asked,      \* the last query, and what query_embed made of it
    answer

vars == <<docs, form, size, parallel, pc, source, batch, out, asked, answer>>

-----------------------------------------------------------------------------
(* Tokens                                                                   *)

TokenId(t) == IF Hash[t] < 0 THEN -Hash[t] ELSE Hash[t]

\* The stop words are looked up in lower case and were loaded as they stand.
Kept(t) == t \notin Noise /\ Lower[t] \notin StopLine /\ t \notin Long

\* The loop of _stem: what it has made of the first i tokens.
Stem(tokens) ==
    LET stemmed[i \in 0 .. Len(tokens)] ==
            IF i = 0 THEN <<>>
            ELSE IF Kept(tokens[i]) THEN Append(stemmed[i - 1], Lower[tokens[i]])
            ELSE stemmed[i - 1]
    IN  stemmed[Len(tokens)]

-----------------------------------------------------------------------------
(* Embeddings                                                               *)

Ids(tokens) == {TokenId(tokens[i]) : i \in DOMAIN tokens}

Occurrences(t, tokens) == Cardinality({i \in DOMAIN tokens : tokens[i] = t})
Weight(t, tokens) == [occurrences |-> Occurrences(t, tokens), length |-> Len(tokens)]

\* Mutant of TermFrequency: the weights of tokens with one id are added.
TermFrequencyAdded(tokens) ==
    [id \in Ids(tokens) |->
        [occurrences |-> Cardinality({i \in DOMAIN tokens : TokenId(tokens[i]) = id}),
         length |-> Len(tokens)]]

\* The tokens are weighed in the order of their first occurrence, and the
\* weight of one replaces that of an earlier one with the same id.
TermFrequency(tokens) ==
    LET first == {i \in DOMAIN tokens : \A j \in 1 .. i - 1 : tokens[j] # tokens[i]}
        last(id) == tokens[Max({i \in first : TokenId(tokens[i]) = id})]
    IN  [id \in Ids(tokens) |-> Weight(last(id), tokens)]

RawEmbed(ds) == [i \in DOMAIN ds |-> TermFrequency(Stem(ds[i]))]

\* The indices of a query are sorted: it is told which there are, and how often.
Counted(tokens) ==
    [id \in Ids(tokens) |-> Cardinality({i \in DOMAIN tokens : TokenId(tokens[i]) = id})]

\* Mutant of QueryEmbed: the tokens of a query are not stemmed.
QueryEmbedUnstemmed(q) ==
    IF \E id \in Ids(q) : id > IntMax THEN [raised |-> TRUE, indices |-> <<>>]
    ELSE [raised |-> FALSE, indices |-> Counted(q)]

\* The ids of a query are put in an array of int32, where the one of the
\* smallest hash does not fit.  Every token counts once for each occurrence.
QueryEmbed(q) ==
    IF \E id \in Ids(Stem(q)) : id > IntMax THEN [raised |-> TRUE, indices |-> <<>>]
    ELSE [raised |-> FALSE, indices |-> Counted(Stem(q))]

-----------------------------------------------------------------------------
(* The generator                                                            *)

Init ==
    /\ docs \in SeqOf(Document, MaxDocs)
    /\ form \in {"text", "list", "stream"}
    /\ form = "text" => Len(docs) = 1
    /\ size \in 0 .. MaxBatch
    /\ parallel \in BOOLEAN
    /\ pc = "idle"
    /\ source = docs
    /\ batch = <<>>
    /\ out = <<>>
    /\ asked = <<>>
    /\ answer = [raised |-> FALSE, indices |-> <<>>]

Small ==
    \/ form = "text"
    \/ form = "list" /\ Len(docs) <= size

\* The first next() on the generator.
Start ==
    /\ pc = "idle"
    /\ pc' = IF parallel /\ ~Small THEN "pool" ELSE "serial"
    /\ UNCHANGED <<docs, form, size, parallel, source, batch, out, asked, answer>>

\* What iter_batch reads next.
Taken == IF size < Len(source) THEN size ELSE Len(source)

\* The workers are made with all that _embed_documents passes on.
InitParams == {"k", "b", "avg_len", "token_max_length", "stopwords_files"}
WorkerKwargs == InitParams \cup {"tokenizer"}

\* The pool delivers what the serial loop does, if its workers can be made; they
\* raise in the constructor, but without a batch ordered_map waits for none.
StartPool ==
    /\ pc = "pool"
    /\ pc' = IF Taken = 0 \/ WorkerKwargs \subseteq InitParams THEN "serial" ELSE "raised"
    /\ UNCHANGED <<docs, form, size, parallel, source, batch, out, asked, answer>>

\* Mutants of NextBatch: the loop goes on while there is an iterator, which is
\* always; or it ends at a batch that is not full.
NextBatchUnbroken ==
    /\ pc = "serial"
    /\ batch = <<>>
    /\ LET n == IF size < Len(source) THEN size ELSE Len(source)
       IN  batch' = RawEmbed(SubSeq(source, 1, n)) /\ source' = SubSeq(source, n + 1, Len(source))
    /\ UNCHANGED <<docs, form, size, parallel, pc, out, asked, answer>>

NextBatchFull ==
    /\ pc = "serial"
    /\ batch = <<>>
    /\ IF Len(source) < size \/ size = 0
       THEN pc' = "done" /\ UNCHANGED <<source, batch>>
       ELSE /\ batch' = RawEmbed(SubSeq(source, 1, size))
            /\ source' = SubSeq(source, size + 1, Len(source))
            /\ UNCHANGED pc
    /\ UNCHANGED <<docs, form, size, parallel, out, asked, answer>>

\* iter_batch and raw_embed: a batch is read and embedded whole before its
\* first embedding is delivered; an empty one ends the generator.
NextBatch ==
    /\ pc = "serial"
    /\ batch = <<>>
    /\ IF Taken = 0
       THEN pc' = "done" /\ UNCHANGED <<source, batch>>
       ELSE /\ batch' = RawEmbed(SubSeq(source, 1, Taken))
            /\ source' = SubSeq(source, Taken + 1, Len(source))
            /\ UNCHANGED pc
    /\ UNCHANGED <<docs, form, size, parallel, out, asked, answer>>

Deliver ==
    /\ pc = "serial"
    /\ batch # <<>>
    /\ out' = Append(out, Head(batch))
    /\ batch' = Tail(batch)
    /\ UNCHANGED <<docs, form, size, parallel, pc, source, asked, answer>>

\* query_embed, asked of a finished index.
Ask(q) ==
    /\ pc = "done"
    /\ asked' = q
    /\ answer' = QueryEmbed(q)
    /\ UNCHANGED <<docs, form, size, parallel, pc, source, batch, out>>

Generate == Start \/ StartPool \/ NextBatch \/ Deliver
Next == Generate \/ \E q \in Query : Ask(q)

\* The caller goes through the generator to its end.
Spec == Init /\ [][Next]_vars
FairSpec == Spec /\ WF_vars(Generate)

-----------------------------------------------------------------------------
Embedding == {TermFrequency(Stem(d)) : d \in Document}

\* Type invariant: a generator that has ended holds nothing back.
TypeOK ==
    /\ docs \in Seq(Document)
    /\ source \in Seq(Document)
    /\ form \in {"text", "list", "stream"}
    /\ size \in Nat
    /\ parallel \in BOOLEAN
    /\ pc \in {"idle", "pool", "serial", "raised", "done"}
    /\ batch \in Seq(Embedding)
    /\ out \in Seq(Embedding)
    /\ pc # "serial" => batch = <<>>
    /\ asked \in Query \cup {<<>>}

\* Whatever the size of the batches, the embeddings delivered, computed and
\* still to be computed are those of the documents, in their order: none is
\* lost, doubled or moved at the boundary of a batch (iter_batch,
\* _embed_documents).  A batch_size of 0 delivers nothing.
NothingDropped ==
    size > 0 =>
        /\ out \o batch \o RawEmbed(source) = RawEmbed(docs)
        /\ pc = "done" => Len(out) = Len(docs)

\* The weights of an embedding belong to the tokens of its document: its
\* indices are the ids of the tokens that are kept, each with the weight of its
\* token - of one of them when several share the id, never of both
\* (_term_frequency, raw_embed).
WeightsOfTokens ==
    \A i \in DOMAIN out :
        LET stems == Stem(docs[i])
        IN  /\ DOMAIN out[i] = Ids(stems)
            /\ \A id \in DOMAIN out[i] :
                  \E j \in DOMAIN stems :
                      TokenId(stems[j]) = id /\ out[i][id] = Weight(stems[j], stems)

\* A query finds every document it shares a word with, in any case: they have
\* an index in common.  Only a word whose hash is the smallest integer of its
\* width, whose abs is not one, keeps it from answering (_stem, query_embed).
QueryFinds ==
    (pc = "done" /\ \A m \in DOMAIN asked : Hash[Lower[asked[m]]] # -IntMax - 1) =>
        /\ ~answer.raised
        /\ \A i \in DOMAIN out :
              (\E m \in DOMAIN asked, n \in DOMAIN docs[i] :
                  /\ Lower[asked[m]] = Lower[docs[i][n]]
                  /\ Kept(asked[m]) /\ Kept(docs[i][n]))
              => DOMAIN answer.indices \cap DOMAIN out[i] # {}

\* The generator ends, for every batch_size, 0 included (iter_batch, whose
\* loop condition is always true).
EmbedEnds == pc = "idle" ~> pc \in {"done", "raised"}
=============================================================================
