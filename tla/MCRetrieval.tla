----------------------------- MODULE MCRetrieval -----------------------------
(***************************************************************************)
(* Small instances of Chunker, Retrieval and Benchmark side by side: a     *)
(* behaviour is one text being chunked, one search request being served or *)
(* one benchmark being run, the other two resting.  Nothing is shared.     *)
(***************************************************************************)
EXTENDS Chunker, Retrieval, Benchmark, TLC

(* Texts to chunk: the short ones of two characters, and longer ones with   *)
(* few blanks, for which three windows can move by half a window.           *)

Letter == {"x", " "}
Space == {" "}
ShortTexts == UNION {[1 .. n -> Letter] : n \in 0 .. 7}
LongText(n, blanks) == [i \in 1 .. n |-> IF i \in blanks THEN " " ELSE "x"]
FewBlanks == {b \in SUBSET (1 .. 10) : Cardinality(b) <= 2}
LongTexts == {LongText(n, blanks) : n \in {10, 12}, blanks \in FewBlanks}

(* What the metadata and the filters are made of. *)

\* "E'" and "e'" stand for a letter beyond ASCII.  As f64, 2^53 + 1 is 2^53;
\* 1e400 is infinite, and 1e200000 overflows ::numeric too.
Words == {"ab", "Ab", "b", "[ab]"}
Digits == {"7", " 7", "8", "1e20", "100000000000000000000"}
Large == {"9007199254740992", "9007199254740993"}
Texts == Words \cup Digits \cup Large \cup {"E'", "e'", "1e400", "1e200000"}
AsciiCase == [t \in Texts |-> IF t = "Ab" THEN "ab" ELSE t]
AnyCase == [t \in Texts |-> IF t = "E'" THEN "e'" ELSE AsciiCase[t]]
AsciiTexts == Texts \ {"E'", "e'"}
Parts == {<<t, t>> : t \in Texts}
         \cup {<<"ab", "b">>, <<"Ab", "b">>, <<" 7", "7">>, <<"[ab]", "ab">>, <<"[ab]", "b">>}
Parsed == [t \in Digits \cup Large |->
             CASE t \in {"7", " 7"} -> 1 [] t = "8" -> 2
               [] t \in Large -> 3 [] OTHER -> 5]
Cast == [t \in Digits \cup Large \cup {"1e400"} |->
           CASE t = "9007199254740993" -> 4 [] t = "1e400" -> 6 [] OTHER -> Parsed[t]]
Numerals == (Texts \ (Words \cup {" 7", "E'", "e'"}))

Json(type, value) == [type |-> type, text |-> value, column |-> value, items |-> {}]
JsonArray == [Json("array", "[ab]") EXCEPT !.items = {"ab"}]
Float == [Json("number", "1e20") EXCEPT !.column = "100000000000000000000"]
Meta(value) == [k \in {"k"} |-> value]
NoMeta == [k \in {} |-> JsonArray]

Leaf(type, value, operator, negate, ignoreCase) ==
  [node |-> "leaf", key |-> "k", value |-> value, filterType |-> type,
   operator |-> operator, negate |-> negate, ignoreCase |-> ignoreCase]
Combined(op, children) == [node |-> op, children |-> children]

Leaves ==
  {Leaf(type, value, "none", negate, ignoreCase) :
     type \in {"metadata", "other", "array_contains", "string_contains"},
     value \in {"ab", "b", "7", "e'", "1e20"}, negate \in BOOLEAN, ignoreCase \in BOOLEAN}
  \cup {Leaf("numeric", value, operator, negate, FALSE) :
          value \in {"7", " 7", "8", "ab", "9007199254740992"},
          operator \in {">", "<=", "=", "none"}, negate \in BOOLEAN}

Seven == Leaf("numeric", "7", "=", FALSE, FALSE)
NotSeven == Leaf("metadata", "7", "none", TRUE, FALSE)
Trees ==
  {Combined(op, <<>>) : op \in {"and", "or"}}
  \cup {Combined(op, <<f, g>>) :
          op \in {"and", "or"}, f \in {Seven, NotSeven}, g \in {Seven, NotSeven}}
  \cup {Combined(op, <<Combined(inner, <<f>>), NotSeven>>) :
          op \in {"and", "or"}, inner \in {"and", "or"}, f \in {Seven, NotSeven}}
  \cup {Combined("or", <<Combined("and", <<Combined("or", <<f>>)>>)>>) :
          f \in {Seven, NotSeven}}

Subtrees ==
  {Combined(op, <<f>>) : op \in {"and", "or"}, f \in {Seven, NotSeven}}
  \cup {Combined("and", <<Combined("or", <<f>>)>>) : f \in {Seven, NotSeven}}
Filters == Leaves \cup Trees \cup Subtrees

(* Rows: those of bob, and more of eve's; kim's and lee's hold what Rust and *)
(* SQL read differently.  All are under the tag acme.                       *)

Segments == {"user", "", "acme", "bob", "eve", "kim", "lee"}
OddSegments == Segments \cup {"#"}
Bob == <<"acme", "user", "bob">>
Eve == <<"acme", "user", "eve">>
Kim == <<"acme", "user", "kim">>
Lee == <<"acme", "user", "lee">>

Row(tag, meta, status) == [tag |-> tag, meta |-> meta, status |-> status]
Memories == <<
  Row(Bob, NoMeta, "active"),
  Row(Bob, Meta(Json("number", "7")), "active"),
  Row(Bob, Meta(JsonArray), "forgotten"),
  Row(Eve, Meta(Json("string", "Ab")), "active"),
  Row(Eve, Meta(Json("string", " 7")), "active"),
  Row(Eve, Meta(Json("null", "ab")), "active"),
  Row(Eve, NoMeta, "superseded"),
  Row(Kim, Meta(Json("string", "E'")), "active"),
  Row(Kim, Meta(Json("number", "9007199254740993")), "active"),
  Row(Kim, Meta(Float), "active"),
  Row(Lee, Meta(Json("string", "1e400")), "active"),
  Row(Lee, Meta(Json("string", "1e200000")), "active")>>

Chunks == <<
  [tag |-> Bob, document |-> 1], [tag |-> Bob, document |-> 2],
  [tag |-> Eve, document |-> 3], [tag |-> Eve, document |-> 4],
  [tag |-> Eve, document |-> 3], [tag |-> Eve, document |-> 4]>>
Documents == <<NoMeta, Meta(Json("number", "7")), NoMeta, Meta(Json("number", "8"))>>

(* Requests: on tags, on filters, on ranking, and grouped by document. *)

Ask == [singular |-> {Bob}, plural |-> {}, filter |-> {}, includeForgotten |-> FALSE,
        limit |-> {9}, threshold |-> {}, rerank |-> FALSE, mode |-> "memories"]

TagsUpTo(n) == UNION {[1 .. k -> {"user", "", "acme", "#"}] : k \in 1 .. n}
TagRequests ==
  {[Ask EXCEPT !.singular = {t}] : t \in TagsUpTo(4)}
  \cup {[Ask EXCEPT !.singular = s, !.plural = {p}] :
          s \in {{}, {<<"">>}, {Bob}}, p \in {<<>>, <<Eve>>, <<<<"">>>>, <<Bob, Eve>>}}
FilterRequests ==
  {[Ask EXCEPT !.singular = {t}, !.filter = {f}, !.includeForgotten = forgotten] :
     t \in {Bob, Eve, Kim, Lee}, f \in Leaves \cup Trees, forgotten \in BOOLEAN}
RankRequests ==
  {[Ask EXCEPT !.singular = {<<"user", "bob">>}, !.includeForgotten = TRUE,
               !.limit = limit, !.threshold = threshold, !.rerank = rerank, !.mode = mode] :
     limit \in {{}, {0}, {9}}, threshold \in {{}, {50}, {100}}, rerank \in BOOLEAN,
     mode \in {"memories", "hybrid"}}
DocumentRequests ==
  {[Ask EXCEPT !.singular = {t}, !.limit = limit, !.mode = mode, !.filter = filter] :
     t \in {Eve, <<"user", "eve">>}, limit \in {{0}, {9}},
     mode \in {"documents", "grouped"}, filter \in {{}, {Leaf("numeric", "7", ">", FALSE, FALSE)}}}
Requests ==
  {Ask} \cup TagRequests \cup FilterRequests \cup RankRequests \cup DocumentRequests

ChunkerRests ==
  /\ text = <<>> /\ window = 0 /\ overlap = 0 /\ start = 0 /\ chunks = <<>> /\ over = TRUE

RetrievalRests ==
  /\ request = Ask /\ stage = "failed" /\ pool = <<>> /\ results = <<>> /\ answer = <<>>

(* Two backends and two cases of two questions, one of them an abstention.  *)

Cases == <<<<"typed", "typed">>, <<"typed", "abstention">>>>
Buckets == {"typed", "abstention"}

BenchmarkRests ==
  /\ phase = "finished" /\ backend = 1 /\ at = Start /\ unfit = {} /\ keyed = [b \in Backend |-> <<>>]
  /\ lines = Backend \X Asked /\ table = <<>>
  /\ got = [b \in Backend |-> [k \in Asked |-> "skipped"]]

MCInit ==
  \/ /\ text \in ShortTexts \cup LongTexts /\ window \in {0, 4, 7} /\ overlap \in {0, 1, 6}
     /\ start = 0 /\ chunks = <<>> /\ over = (Len(text) = 0)
     /\ RetrievalRests /\ BenchmarkRests
  \/ RetrievalInit /\ ChunkerRests /\ BenchmarkRests
  \/ BenchmarkInit /\ ChunkerRests /\ RetrievalRests

ServesSearch == UNCHANGED <<chunking, benchmark>>
RunsBenchmark == UNCHANGED <<chunking, retrieval>>

MCNext ==
  \/ Window          /\ UNCHANGED <<retrieval, benchmark>>
  \/ BlankWindow     /\ UNCHANGED <<retrieval, benchmark>>
  \/ RecallMemories  /\ ServesSearch
  \/ Rerank          /\ ServesSearch
  \/ KeepOrder       /\ ServesSearch
  \/ SearchChunks    /\ ServesSearch
  \/ Cut             /\ ServesSearch
  \/ GroupByDocument /\ ServesSearch
  \/ Refuse          /\ ServesSearch
  \/ IngestCase      /\ RunsBenchmark
  \/ Ingested        /\ RunsBenchmark
  \/ SkipCase        /\ RunsBenchmark
  \/ ScoreQuestion   /\ RunsBenchmark
  \/ CaseDone        /\ RunsBenchmark
  \/ NextBackend     /\ RunsBenchmark
  \/ AssembleRow     /\ RunsBenchmark
  \/ Report          /\ RunsBenchmark

MCSpec == MCInit /\ [][MCNext]_<<chunking, retrieval, benchmark>>

\* Every variable of the first two keeps its type, and no answer exceeds
\* MAX_LIMIT.
TypeOK == ChunkTypeOK /\ RetrievalTypeOK
=============================================================================
