------------------------------ MODULE Retrieval ------------------------------
(***************************************************************************)
(* One search request: POST /v4/search over memories, documents or both,   *)
(* and POST /v3/search, which groups chunks by document.  From the tag and *)
(* the filter that scope it, through the candidates that the index yields, *)
(* the reranker and the relative cutoff, to the page that is returned.     *)
(*                                                                         *)
(* The tables do not change.  The ranking is a choice of scores; what the  *)
(* vector index leaves out, and what a reranker answers, are choices too.  *)
(***************************************************************************)
EXTENDS ContainerTags, MetaFilter, FiniteSetsExt

CONSTANTS
  Memory,        \* memory rows by id: [tag, meta, status]
  Chunk,         \* chunk rows by id: [tag, document]
  Document,      \* metadata of each document
  Request,       \* requests that may come in
  Score,         \* relevance scores
  DefaultLimit,  \* DEFAULT_LIMIT
  MaxLimit,      \* MAX_LIMIT
  MaxPool,       \* the cap of filter_pool
  RerankPool,    \* RERANK_POOL
  Fanout,        \* greatest(50, ...) of the two SQL templates
  MaxScan,       \* index entries an iterative walk visits before it gives up,
                 \* hnsw.max_scan_tuples (of pgvector, 20000 unless it is set)
  MinBudget,     \* least and greatest number of chunks fetched
  MaxBudget      \*   for grouping

ASSUME RetrievalAssumption ==
  /\ IsFiniteSet(DOMAIN Memory) /\ DOMAIN Memory \subseteq Nat
  /\ IsFiniteSet(DOMAIN Chunk) /\ DOMAIN Chunk \subseteq Nat
  /\ Score \subseteq Nat
  /\ DefaultLimit \in 1 .. MaxLimit
  /\ MaxLimit <= MaxPool /\ MinBudget <= MaxBudget
  /\ {DefaultLimit, MaxLimit, MaxPool, MinBudget, MaxBudget} \subseteq Nat
  /\ {Fanout, MaxScan, RerankPool} \subseteq Nat

\* Rows as the tables hold them, and requests as the wire types read them.
ASSUME RowAssumption ==
  /\ \A m \in DOMAIN Memory : IsMetadata(Memory[m].meta)
  /\ \A c \in DOMAIN Chunk : Chunk[c].document \in DOMAIN Document
  /\ \A d \in DOMAIN Document : IsMetadata(Document[d])

ASSUME RequestAssumption ==
  \A r \in Request :
    /\ r.singular \subseteq String /\ r.plural \subseteq Seq(String)
    /\ r.filter \subseteq Filter
    /\ r.limit \subseteq Int /\ r.threshold \subseteq Int
    /\ \A a, b \in r.threshold : a = b
    /\ r.includeForgotten \in BOOLEAN /\ r.rerank \in BOOLEAN
    /\ r.mode \in {"memories", "documents", "hybrid", "grouped"}

VARIABLES
  request,  \* the request being served
  stage,    \* how far it has got
  pool,     \* the memories the SQL returned
  results,  \* what recall and chunk search have contributed
  answer    \* the page: hits, or documents with their chunks

retrieval == <<request, stage, pool, results, answer>>

RetrievalInit ==
  /\ request \in Request
  /\ stage = "asked"
  /\ pool = <<>> /\ results = <<>> /\ answer = <<>>

-----------------------------------------------------------------------------
(* What the request asks for. *)

Least(a, b) == IF a < b THEN a ELSE b
Greatest(a, b) == IF a > b THEN a ELSE b
Clamp(n, low, high) == Greatest(low, Least(n, high))

\* Faulty variant: only the lower end is clamped.
LimitUncapped == IF request.limit = {} THEN DefaultLimit
                 ELSE Greatest(1, CHOOSE n \in request.limit : TRUE)

\* clamp_limit: an absent limit is the default.
Limit == IF request.limit = {} THEN DefaultLimit
         ELSE Clamp(CHOOSE n \in request.limit : TRUE, 1, MaxLimit)

\* filter_pool.
FilterPool(limit) == Least(limit * 4, MaxPool)

\* A cutoff thins the results afterwards, so more of them are fetched.
RecallLimit == IF request.threshold = {} THEN Limit ELSE FilterPool(Limit)

ChunkBudget == Clamp(Limit * 8, MinBudget, MaxBudget)

Tag == Resolve(request.singular, request.plural)
Scope == Parse(CHOOSE t \in Tag : TRUE)

Visible(m) ==
  \/ Memory[m].status = "active"
  \/ Memory[m].status = "forgotten" /\ request.includeForgotten

Passes(meta) == \A f \in request.filter : Selects(f, meta)

MemoriesInScope ==
  {m \in DOMAIN Memory : InScope(Memory[m].tag, Scope) /\ Visible(m)}

ChunksInScope == {c \in DOMAIN Chunk : InScope(Chunk[c].tag, Scope)}

-----------------------------------------------------------------------------
(* The two searches. *)

\* Faulty variant: the index is never walked on.
ReachedOnce(table, rows, limit) == SUBSET rows

\* The rows among `rows` that the walk of the table's index may reach.  Without
\* iterative scan it stops early and may miss any; with it, it goes on until
\* the fan-out is full, no entry is left, or so many have been visited.
Reached(table, rows, limit) ==
  IF Scope.tags = <<>> THEN SUBSET rows
  ELSE {found \in SUBSET rows :
          \/ Cardinality(found) >= Least(Greatest(Fanout, limit), Cardinality(rows))
          \/ Cardinality(rows \ found) + MaxScan <= Cardinality(table)}

\* The elements of S in order, when ahead[x] are those before x.
InOrder(S, ahead) ==
  [k \in 1 .. Cardinality(S) |-> CHOOSE x \in S : Cardinality(ahead[x]) = k - 1]

\* ORDER BY score DESC, then a fixed order, LIMIT limit.
Ranked(found, score, limit, kind) ==
  LET ahead == [a \in found |->
        {b \in found : score[b] > score[a] \/ (score[b] = score[a] /\ b < a)}]
      ids == InOrder(found, ahead)
  IN [i \in 1 .. Least(Len(ids), limit) |->
        [of |-> kind, id |-> ids[i], score |-> score[ids[i]]]]

\* The elements of s at `places`.
Picked(s, places) ==
  LET ascending == InOrder(places, [i \in places |-> {j \in places : j < i}])
  IN [k \in DOMAIN ascending |-> s[ascending[k]]]

\* What is read of a page, when there is room for so many.
Truncate(s, limit) == SubSeq(s, 1, Least(Len(s), limit))

PoolLimit == IF request.rerank THEN Greatest(RecallLimit, RerankPool) ELSE RecallLimit

\* recall_scoped, as far as recall_memories.
RecallMemories ==
  /\ stage = "asked" /\ Tag # {}
  /\ request.mode \in {"memories", "hybrid"}
  /\ LET rows == {m \in MemoriesInScope : Passes(Memory[m].meta)} IN
     \E found \in Reached(DOMAIN Memory, rows, PoolLimit) : \E score \in [found -> Score] :
       pool' = Ranked(found, score, PoolLimit, "memory")
  /\ stage' = "pooled"
  /\ UNCHANGED <<request, results, answer>>

AfterRecall == IF request.mode = "hybrid" THEN "recalled" ELSE "fetched"

\* The order of n hits that a reranker's answer stands for: the positions it
\* names, where it first does, then those it left out.
RerankedOrder(n, scored) ==
  LET turn(i) == IF i \in ToSet(scored) THEN SelectInSeq(scored, LAMBDA j : j = i)
                 ELSE Len(scored) + i
  IN InOrder(1 .. n, [i \in 1 .. n |-> {j \in 1 .. n : turn(j) < turn(i)}])

\* Faulty variant: only what the reranker names is kept.
ReorderNamed(hits, scored) ==
  [k \in 1 .. Len(SelectSeq(scored, LAMBDA i : i <= Len(hits))) |->
     hits[SelectSeq(scored, LAMBDA i : i <= Len(hits))[k]]]

Reorder(hits, scored) ==
  [k \in 1 .. Len(hits) |-> hits[RerankedOrder(Len(hits), scored)[k]]]

\* A reranker may name any positions, out of range or twice, and any number.
Rerank ==
  /\ stage = "pooled" /\ request.rerank
  /\ \E scored \in SeqOf(1 .. Len(pool) + 1, Len(pool)) :
       results' = Truncate(Reorder(pool, scored), RecallLimit)
  /\ stage' = AfterRecall
  /\ UNCHANGED <<request, pool, answer>>

\* No reranker, or the request opts out, or it failed: the retrieval order.
KeepOrder ==
  /\ stage = "pooled"
  /\ results' = Truncate(pool, RecallLimit)
  /\ stage' = AfterRecall
  /\ UNCHANGED <<request, pool, answer>>

\* search_documents of the engine: chunks behind whatever memories there are.
SearchChunks ==
  /\ \/ stage = "asked" /\ Tag # {} /\ request.mode \in {"documents", "grouped"}
     \/ stage = "recalled"
  /\ LET limit == IF request.mode = "grouped" THEN ChunkBudget ELSE RecallLimit
         rows == {c \in ChunksInScope : Passes(Document[Chunk[c].document])}
     IN \E found \in Reached(DOMAIN Chunk, rows, limit) : \E score \in [found -> Score] :
          results' = results \o Ranked(found, score, limit, "chunk")
  /\ stage' = IF request.mode = "grouped" THEN "grouping" ELSE "fetched"
  /\ UNCHANGED <<request, pool, answer>>

-----------------------------------------------------------------------------
(* The page. *)

TopScore == Max({0} \cup {results[i].score : i \in DOMAIN results})

\* Faulty variant: the first hit is taken for the strongest.
AboveFirst(h, percent) == h.score * 100 >= percent * results[1].score

\* The threshold, in percent of the strongest hit.
AboveCutoff(h, percent) ==
  TopScore > 0 => h.score * 100 >= percent * TopScore

Cut ==
  /\ stage = "fetched"
  /\ LET kept == {i \in DOMAIN results :
                   \A percent \in request.threshold : AboveCutoff(results[i], percent)}
     IN answer' = Truncate(Picked(results, kept), Limit)
  /\ stage' = "answered"
  /\ UNCHANGED <<request, pool, results>>

\* Faulty variant: a document moves up when another of its chunks comes.
AddChunkMoving(docs, h) ==
  LET d == Chunk[h.id].document
      others == SelectSeq(docs, LAMBDA e : e.document # d)
      mine == SelectSeq(docs, LAMBDA e : e.document = d)
  IN Append(others, [document |-> d, score |-> h.score,
                     chunks |-> IF mine = <<>> THEN <<h.id>>
                                ELSE Append(mine[1].chunks, h.id)])

\* group_by_document: h joins its document, which came with its first chunk.
AddChunk(docs, h) ==
  LET d == Chunk[h.id].document
      k == SelectInSeq(docs, LAMBDA e : e.document = d)
  IN IF k = 0
     THEN Append(docs, [document |-> d, score |-> h.score, chunks |-> <<h.id>>])
     ELSE [docs EXCEPT ![k].score = Greatest(@, h.score),
                       ![k].chunks = Append(@, h.id)]

\* The documents of hits, when the first i hits have been added.
Grouped(hits) ==
  LET docs[i \in 0 .. Len(hits)] == IF i = 0 THEN <<>> ELSE AddChunk(docs[i - 1], hits[i])
  IN docs

GroupByDocument ==
  /\ stage = "grouping"
  /\ answer' = Truncate(Grouped(results)[Len(results)], Limit)
  /\ stage' = "answered"
  /\ UNCHANGED <<request, pool, results>>

-----------------------------------------------------------------------------

\* No usable containerTag (400), or the embedder, the rewriter or the database
\* failed (500), as on a number that overflows ::numeric: the request ends
\* without a page.
Refuse ==
  /\ stage \in {"asked", "recalled"}
  /\ stage' = "failed"
  /\ UNCHANGED <<request, pool, results, answer>>

RetrievalNext ==
  \/ RecallMemories \/ Rerank \/ KeepOrder \/ SearchChunks
  \/ Cut \/ GroupByDocument \/ Refuse

RetrievalSpec == RetrievalInit /\ [][RetrievalNext]_retrieval

-----------------------------------------------------------------------------
(* Properties. *)

Hit == [of : {"memory", "chunk"}, id : Nat, score : Score]

RetrievalTypeOK ==
  /\ request.mode \in {"memories", "documents", "hybrid", "grouped"}
  /\ stage \in {"asked", "pooled", "recalled", "fetched", "grouping", "answered",
                "failed"}
  /\ \A s \in {pool, results} : ToSet(s) \subseteq Hit
  /\ Len(pool) <= Greatest(MaxPool, RerankPool) /\ Len(answer) <= MaxLimit

\* Memories the request is after, as the reference evaluation of its filter
\* defines them, and those of which that evaluation and the SQL's must agree.
Wanted(m) ==
  m \in MemoriesInScope /\ \A f \in request.filter : Matches(f, Memory[m].meta)
Claimed(m) == \A f \in request.filter : Comparable(f, Memory[m].meta)

Shown == {answer[i].id : i \in DOMAIN answer}

\* The filter that runs in SQL is the filter that was asked for (query.rs, "so it
\* is exact"), of what the two evaluations read alike: a page shows nothing the
\* reference evaluation rejects, and under a container tag, where the index walk
\* goes on, it misses, if it has room, no more than the walk leaves unvisited.
SearchExact ==
  stage = "answered" /\ request.mode = "memories" =>
    /\ \A m \in Shown : Claimed(m) => Wanted(m)
    /\ /\ Scope.tags # <<>> /\ request.threshold = {}
       /\ Cardinality(MemoriesInScope) <= Least(Fanout, Limit)
       => LET missing == {m \in DOMAIN Memory : Wanted(m) /\ Claimed(m)} \ Shown IN
          Cardinality(missing) <= Greatest(0, Cardinality(DOMAIN Memory) - MaxScan)

\* A tag survives being taken apart (container_tag.rs:9): what is stored under
\* it can be echoed, and no two tags share a scope.
TagsRoundTrip == \A t \in Tag : Reconstruct(Parse(t)) = t

\* Reranking never shrinks or pads a result: whatever positions the reranker
\* answers with, recall returns as many memories as it has room for, each
\* once, all from the pool.
RerankKeepsAll ==
  stage \in {"recalled", "fetched", "answered"} /\ request.mode \in {"memories", "hybrid"} =>
    LET recalled == Picked(results, {i \in DOMAIN results : results[i].of = "memory"}) IN
    /\ Len(recalled) = Least(RecallLimit, Len(pool))
    /\ IsInjective(recalled)
    /\ ToSet(recalled) \subseteq ToSet(pool)

\* The cutoff is relative to the strongest hit, wherever the reranker has put
\* it: nothing weaker than that is shown, no earlier hit that meets it gives
\* way to a later one, and a cutoff of at most 100 percent empties no page.
CutoffRelative ==
  stage = "answered" /\ request.mode # "grouped" =>
    \A percent \in request.threshold :
      /\ \A h \in ToSet(answer), g \in ToSet(results) :
           h.score * 100 >= percent * g.score
      /\ \A i \in 1 .. Least(Limit, Len(results)) :
           (\A g \in ToSet(results) : results[i].score * 100 >= percent * g.score)
           => results[i] \in ToSet(answer)
      /\ percent <= 100 /\ results # <<>> => answer # <<>>

\* Chunks come back under their documents: every document once with all its
\* chunks that were found, in order of its best chunk, and none is left out of
\* a page for one with a weaker best chunk.
GroupedByBest ==
  stage = "answered" /\ request.mode = "grouped" =>
    LET found(d) == Picked(results, {i \in DOMAIN results :
                                       Chunk[results[i].id].document = d})
        best(d) == Max({h.score : h \in ToSet(found(d))})
        hit == {Chunk[h.id].document : h \in ToSet(results)}
        shown == {answer[i].document : i \in DOMAIN answer}
    IN /\ Len(answer) = Least(Limit, Cardinality(hit))
       /\ Cardinality(shown) = Len(answer) /\ shown \subseteq hit
       /\ \A i \in DOMAIN answer :
            /\ answer[i].score = best(answer[i].document)
            /\ LET mine == found(answer[i].document) IN
               answer[i].chunks = [k \in DOMAIN mine |-> mine[k].id]
            /\ \A d \in hit \ {answer[j].document : j \in 1 .. i} :
                 best(d) <= answer[i].score
=============================================================================
