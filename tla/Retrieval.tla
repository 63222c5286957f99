------------------------------ MODULE Retrieval ------------------------------
(* The ranking of candidate chunks (retrieval._candidate_scores and         *)
(* rank_chunks, method hybrid): a lexical score from the words the question *)
(* shares with the chunk, its document and the document's identity; the     *)
(* cosine with chunks of the current embedding model; and the fusion of the *)
(* two orders by reciprocal ranks.                                          *)
(*                                                                          *)
(* Scores are integers: Unit stands for a lexical score of 1, Fused for a   *)
(* fused score of 1, both multiples of every denominator that occurs        *)
(* (Exact).                                                                 *)
EXTENDS Integers, Sequences, FiniteSets, FiniteSetsExt

CONSTANTS Fields,        \* query words that name a field: fee, term, ...
          Names,         \* query words distinctive enough to name a document
          OtherWords,
          Unit, Fused,   \* what stands for a score of 1
          Documents,     \* 1 .. n, in the order in which they are found
          MaxWords,      \* bound: words of the query
          MaxChunks      \* bound: candidates

VARIABLES query,         \* its words and the scope it asks for
          titles,        \* the identity lines of each document
          chunks,        \* the candidates, in the order of their ids
          lexical,       \* their lexical scores
          lexicalRank, denseRank,
          fused          \* their fused scores

vars == <<query, titles, chunks, lexical, lexicalRank, denseRank, fused>>

Words == Fields \cup Names \cup OtherWords
RRF_K == 60
Boost == Fused \div 100  \* NAMED_ENTITY_DOCUMENT_BOOST

\* No division of the code's scores leaves a remainder.
Exact == /\ Unit \in Nat \ {0} /\ Fused \in Nat \ {0}
         /\ \A n \in 1 .. MaxWords : Unit % (20 * n) = 0
         /\ \A r \in 1 .. MaxChunks : Fused % (2 * (RRF_K + r)) = 0
         /\ Fused % 100 = 0

\* The cosine, in steps; chunks of another embedding model have none.
Chunks == [document : Documents, words : SUBSET query.words, current : {TRUE}, cosine : 0 .. 1]
          \cup [document : Documents, words : SUBSET query.words, current : {FALSE}, cosine : {0}]
-----------------------------------------------------------------------------
(* Forms the definitions below must not take. *)
RankById(score) == [i \in DOMAIN score |-> Cardinality({j \in DOMAIN score : j <= i})]
-----------------------------------------------------------------------------
(* _candidate_scores: words of a document, of its identity, and the names  *)
(* that only one document has.                                             *)
ChunksOf(d) == {i \in DOMAIN chunks : chunks[i].document = d}
Present == {chunks[i].document : i \in DOMAIN chunks}
DocumentWords(d) == titles[d].words \cup UNION {chunks[i].words : i \in ChunksOf(d)}
Distinctive == {w \in query.words \cap Names :
                   Cardinality({d \in Present : w \in titles[d].words}) = 1}

Coverage(words) == (Unit * Cardinality(words \cap query.words)) \div Cardinality(query.words)
RequestedFields == query.words \cap Fields
FieldCoverage(i) == (Unit * Cardinality(RequestedFields \cap chunks[i].words))
                       \div Cardinality(RequestedFields)
EntityCoverage(i) ==
    IF Distinctive \cap titles[chunks[i].document].words # {} THEN Unit ELSE 0
ScopeCoverage(i) == IF titles[chunks[i].document].scope = query.scope THEN Unit ELSE 0

(* The weights, in twentieths.  *)
LexicalScore(i) ==
    LET local == Coverage(chunks[i].words)
        document == Coverage(DocumentWords(chunks[i].document))
        weighted ==
            IF RequestedFields # {}
            THEN IF Distinctive # {}
                 THEN 8 * FieldCoverage(i) + 3 * local + 2 * document + 7 * EntityCoverage(i)
                 ELSE IF query.scope # "none"
                      THEN 10 * FieldCoverage(i) + 3 * local + 2 * document + 5 * ScopeCoverage(i)
                      ELSE 13 * FieldCoverage(i) + 5 * local + 2 * document
            ELSE IF Distinctive # {}
                 THEN 11 * local + 2 * document + 7 * EntityCoverage(i)
                 ELSE 16 * local + 4 * document
    IN  weighted \div 20
Compatible == {i \in DOMAIN chunks : chunks[i].current}

(* rank_chunks: ranks by score, the earlier id first among equals.  *)
RankBy(score) ==
    [i \in DOMAIN score |->
        1 + Cardinality({j \in DOMAIN score :
                            \/ score[j] > score[i]
                            \/ score[j] = score[i] /\ j < i})]
Reciprocal(rank) == Fused \div (RRF_K + rank)
Fusion(i, dense) ==
    (IF i \in DOMAIN dense
     THEN (Reciprocal(lexicalRank[i]) + Reciprocal(dense[i])) \div 2
     ELSE Reciprocal(lexicalRank[i]))
    + (IF EntityCoverage(i) > 0 THEN Boost ELSE 0)

(* Sorted by fused score, then lexical score, then id.  *)
Position(scores, i) ==
    1 + Cardinality({j \in DOMAIN chunks :
            \/ scores[j] > scores[i]
            \/ scores[j] = scores[i] /\ lexical[j] > lexical[i]
            \/ scores[j] = scores[i] /\ lexical[j] = lexical[i] /\ j < i})
-----------------------------------------------------------------------------
Init == /\ query \in [words : {W \in SUBSET Words : Cardinality(W) \in 1 .. MaxWords},
                      scope : {"none", "agreement"}]
        /\ query.scope # "none" => query.words \subseteq Fields
        /\ titles \in [Documents -> [words : SUBSET (query.words \cap Names),
                                     scope : {"agreement", "other"}]]
        /\ query.scope = "none" => \A d \in Documents : titles[d].scope = "other"
        /\ chunks = <<>>
        /\ lexical = <<>>
        /\ lexicalRank = <<>>
        /\ denseRank = <<>>
        /\ fused = <<>>

(* The database returns another candidate.  *)
Fetch == /\ Len(chunks) < MaxChunks
         /\ lexical = <<>>
         /\ \E c \in Chunks : /\ c.document <= Cardinality(Present) + 1
                              /\ chunks' = Append(chunks, c)
         /\ UNCHANGED <<query, titles, lexical, lexicalRank, denseRank, fused>>

ScoreCandidates ==
    /\ lexical = <<>> /\ chunks # <<>>
    /\ lexical' = [i \in DOMAIN chunks |-> LexicalScore(i)]
    /\ UNCHANGED <<query, titles, chunks, lexicalRank, denseRank, fused>>

RankCandidates ==
    /\ lexical # <<>> /\ lexicalRank = <<>>
    /\ lexicalRank' = RankBy(lexical)
    /\ denseRank' = RankBy([i \in Compatible |-> chunks[i].cosine])
    /\ UNCHANGED <<query, titles, chunks, lexical, fused>>

Fuse == /\ lexicalRank # <<>> /\ fused = <<>>
        /\ fused' = [i \in DOMAIN chunks |-> Fusion(i, denseRank)]
        /\ UNCHANGED <<query, titles, chunks, lexical, lexicalRank, denseRank>>

Next == Fetch \/ ScoreCandidates \/ RankCandidates \/ Fuse

Spec == Init /\ [][Next]_vars
-----------------------------------------------------------------------------
(* The dense ranks, had chunk i been embedded by the current model and     *)
(* found closest of all.                                                   *)
Reembedded(i) == [j \in Compatible \cup {i} |-> IF j = i THEN 1 ELSE 1 + denseRank[j]]

(* No rank is shared; a chunk ahead in both orders, of a document named at *)
(* least as well, is ahead of the other; chunks of the document that the   *)
(* question names come before all others; and re-embedding an old chunk    *)
(* as the closest one costs it no place, although old chunks are ranked    *)
(* without a cosine.                                                       *)
RankingIsFair ==
    fused # <<>> =>
        LET Place(i) == Position(fused, i)
            Named(i) == EntityCoverage(i) > 0
        IN  /\ {Place(i) : i \in DOMAIN chunks} = DOMAIN chunks
            /\ \A i, j \in Compatible :
                  /\ lexical[i] > lexical[j]
                  /\ chunks[i].cosine > chunks[j].cosine
                  /\ Named(j) => Named(i)
                  => Place(i) < Place(j)
            /\ \A i, j \in DOMAIN chunks : Named(i) /\ ~Named(j) => Place(i) < Place(j)
            /\ \A i \in DOMAIN chunks \ Compatible :
                  Position([j \in DOMAIN chunks |-> Fusion(j, Reembedded(i))], i) <= Place(i)
-----------------------------------------------------------------------------
(* The inductive invariant: what was computed last rests on all of what was *)
(* computed before.                                                         *)
RankingInv ==
    /\ chunks \in Seq(Chunks) /\ Len(chunks) <= MaxChunks
    /\ query.words \subseteq Words /\ Cardinality(query.words) \in 1 .. MaxWords
    /\ lexical # <<>> => lexical \in [DOMAIN chunks -> Int]
    /\ lexicalRank # <<>> =>
          /\ lexical # <<>>
          /\ lexicalRank = RankBy(lexical)
          /\ denseRank = RankBy([i \in Compatible |-> chunks[i].cosine])
    /\ fused # <<>> =>
          /\ lexicalRank # <<>>
          /\ fused = [i \in DOMAIN chunks |-> Fusion(i, denseRank)]
=============================================================================
