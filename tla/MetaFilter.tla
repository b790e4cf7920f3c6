------------------------------ MODULE MetaFilter ------------------------------
(***************************************************************************)
(* The metadata filter of a search, evaluated twice: by `matches`, which   *)
(* defines what it means, and by the SQL that `to_sql` builds and every    *)
(* search runs.                                                            *)
(*                                                                         *)
(* Texts are opaque; what the comparisons need of them is given, apart for *)
(* Rust and for PostgreSQL, which read letters and numbers differently.  A *)
(* JSON value is [type, text, column, items]: `text` is its rendering by   *)
(* serde_json, `column` the one that jsonb's ->> yields, and `items` the   *)
(* strings in an array.  Metadata maps some keys to values.  A node of the *)
(* tree is [node |-> "or" or "and", children] or a leaf.                   *)
(***************************************************************************)
EXTENDS Integers, Sequences

CONSTANTS
  AsciiLower, \* each text as eq_ignore_ascii_case compares it
  Lowercase,  \* each text as str::to_lowercase leaves it
  SqlLower,   \* each text as lower() leaves it
  Ascii,      \* texts without a letter beyond ASCII
  Substring,  \* <<t, u>> where u is a substring of t
  Number,     \* the place among the numbers of the finite f64 that each text
              \* parses to, blanks trimmed, for those that do
  Numeral,    \* texts that match the SQL's numeric shape
  Exact,      \* the place among the numbers of what each text comes to as
              \* ::numeric, for those it takes
  Short,      \* texts of a number with so few digits, and so far from the
              \* ends of f64, that rounding keeps it apart from the others
  Filter,     \* the trees that requests carry, and their subtrees
  MaxDepth    \* MAX_DEPTH, META_FILTER_MAX_DEPTH

ASSUME FilterAssumption ==
  /\ MaxDepth \in Nat
  /\ \A t \in Ascii : AsciiLower[t] = SqlLower[t] /\ Lowercase[t] = SqlLower[t]
  /\ \A t \in Short : t \in DOMAIN Number /\ t \in DOMAIN Exact
  /\ \A t, u \in Short :
       /\ {Number[t], Exact[t]} \subseteq Int
       /\ Number[t] < Number[u] <=> Exact[t] < Exact[u]
  /\ \A f \in Filter : \/ f.node = "leaf" /\ f.negate \in BOOLEAN
                       \/ f.node \in {"and", "or"} /\ f.children \in Seq(Filter)

\* What may stand under the keys of a metadata column.  Only numbers have two
\* renderings, of the same f64, and jsonb's is of the shape of a number.
IsMetadata(meta) ==
  \A k \in DOMAIN meta :
    LET v == meta[k] IN
    /\ v.type \in {"string", "number", "bool", "null", "array", "object"}
    /\ v.type # "number" => v.column = v.text
    /\ v.type = "number" =>
         /\ v.column \in Numeral
         /\ {v.text, v.column} \subseteq DOMAIN Number /\ Number[v.text] = Number[v.column]
    /\ v.type \notin {"string", "number"} => v.text \notin Numeral \cup DOMAIN Number

Fold(lower, leaf, t) == IF leaf.ignoreCase THEN lower[t] ELSE t

Compare(operator, a, b) ==
  \/ operator = ">" /\ a > b
  \/ operator = "<" /\ a < b
  \/ operator = ">=" /\ a >= b
  \/ operator = "<=" /\ a <= b
  \/ operator = "=" /\ a = b

-----------------------------------------------------------------------------
(* filter.rs: matches. *)

IsScalar(v) == v.type \in {"string", "number", "bool"}

EvalNumeric(leaf, v) ==
  /\ v.type \in {"string", "number"}
  /\ v.text \in DOMAIN Number /\ leaf.value \in DOMAIN Number
  /\ Compare(leaf.operator, Number[v.text], Number[leaf.value])

EvalLeaf(leaf, v) ==
  CASE leaf.filterType = "numeric" -> EvalNumeric(leaf, v)
    [] leaf.filterType = "array_contains" ->
         v.type = "array" /\ leaf.value \in v.items
    [] leaf.filterType = "string_contains" ->
         /\ IsScalar(v)
         /\ <<Fold(Lowercase, leaf, v.text), Fold(Lowercase, leaf, leaf.value)>> \in Substring
    [] OTHER ->
         /\ IsScalar(v)
         /\ Fold(AsciiLower, leaf, v.text) = Fold(AsciiLower, leaf, leaf.value)

\* A missing key is a non-match before the negation.
MatchesLeaf(leaf, meta) ==
  (leaf.key \in DOMAIN meta /\ EvalLeaf(leaf, meta[leaf.key])) # leaf.negate

\* One level of matches_at; `below` is what the subtrees come to.
MatchesLevel(meta, below) ==
  [f \in Filter |->
     CASE f.node = "leaf" -> MatchesLeaf(f, meta)
       [] f.node = "and" -> \A i \in DOMAIN f.children : below[f.children[i]]
       [] f.node = "or" ->
            f.children = <<>> \/ \E i \in DOMAIN f.children : below[f.children[i]]]

\* matches_at with n levels left before MAX_DEPTH.
Matching(meta) ==
  LET within[n \in 0 .. MaxDepth] ==
        IF n = 0 THEN [f \in Filter |-> FALSE] ELSE MatchesLevel(meta, within[n - 1])
  IN within

Matches(f, meta) == Matching(meta)[MaxDepth][f]

-----------------------------------------------------------------------------
(* store: to_sql.  A value of SQL is the set of the one value it has; {} is *)
(* NULL, which every operator but COALESCE passes on, and BOOLEAN an error. *)

\* to_meta_filter: an unknown or missing filterType is equality.
Kind(filterType) ==
  IF filterType \in {"numeric", "array_contains", "string_contains"}
  THEN filterType ELSE "equality"

\* Faulty variant: nothing makes a NULL comparison false.
NotCoalesced(b) == b

\* COALESCE(b, false).
Coalesce(b) == IF b = {} THEN {FALSE} ELSE b

\* metadata ->> key: the text of any value but null.
ColumnText(leaf, meta) ==
  IF leaf.key \in DOMAIN meta /\ meta[leaf.key].type # "null"
  THEN {meta[leaf.key].column} ELSE {}

\* The shape is tested before the cast, which may still overflow.
NumericSql(leaf, t) ==
  IF t \notin Numeral THEN {FALSE}
  ELSE IF {t, leaf.value} \subseteq DOMAIN Exact
       THEN {Compare(leaf.operator, Exact[t], Exact[leaf.value])} ELSE BOOLEAN

ComparisonSql(leaf, t) ==
  LET column == Fold(SqlLower, leaf, t)
      value == Fold(SqlLower, leaf, leaf.value)
  IN CASE Kind(leaf.filterType) = "numeric" -> NumericSql(leaf, t)
       [] Kind(leaf.filterType) = "string_contains" -> {(<<column, value>> \in Substring)}
       [] OTHER -> {column = value}

\* body_sql; a numeric leaf that names no number or operator is just `false`.
BodySql(leaf, meta) ==
  CASE leaf.filterType = "numeric"
       /\ (leaf.value \notin DOMAIN Number
           \/ leaf.operator \notin {">", "<", ">=", "<=", "="}) -> {FALSE}
    [] leaf.filterType = "array_contains" ->
         Coalesce(IF leaf.key \notin DOMAIN meta THEN {}
                  ELSE {meta[leaf.key].type = "array"
                        /\ leaf.value \in meta[leaf.key].items})
    [] OTHER -> Coalesce(UNION {ComparisonSql(leaf, t) : t \in ColumnText(leaf, meta)})

LeafSql(leaf, meta) ==
  IF leaf.negate THEN {~b : b \in BodySql(leaf, meta)} ELSE BodySql(leaf, meta)

\* AND and OR of SQL values.  One that decides may be evaluated first.
AndSql(values) ==
  IF {FALSE} \in values THEN {FALSE}
  ELSE IF BOOLEAN \in values THEN BOOLEAN ELSE IF {} \in values THEN {} ELSE {TRUE}

OrSql(values) ==
  IF {TRUE} \in values THEN {TRUE}
  ELSE IF BOOLEAN \in values THEN BOOLEAN ELSE IF {} \in values THEN {} ELSE {FALSE}

\* One level of to_sql, on the values its subtrees have.
SqlLevel(meta, below) ==
  [f \in Filter |->
     LET parts == {below[f.children[i]] : i \in DOMAIN f.children} IN
     CASE f.node = "leaf" -> LeafSql(f, meta)
       [] f.node = "and" -> AndSql(parts)
       [] f.node = "or" -> IF f.children = <<>> THEN {TRUE} ELSE OrSql(parts)]

\* The value of the SQL that n levels before META_FILTER_MAX_DEPTH yield.
Sql(meta) ==
  LET within[n \in 0 .. MaxDepth] ==
        IF n = 0 THEN [f \in Filter |-> {FALSE}] ELSE SqlLevel(meta, within[n - 1])
  IN within

\* A WHERE clause keeps the rows for which it is TRUE.  A row for which it is
\* an error fails the statement if it is come to.
Selects(f, meta) == Sql(meta)[MaxDepth][f] = {TRUE}

-----------------------------------------------------------------------------

\* Where the two agree: on what is in an array, on what is no number to either,
\* on numbers too short for rounding to matter and without blanks around them,
\* and on the texts of scalars, of ASCII if their case is ignored, that serde_json
\* and jsonb render alike.
ComparableLeaf(leaf, meta) ==
  leaf.key \in DOMAIN meta /\ meta[leaf.key].type # "null" =>
    LET v == meta[leaf.key] IN
    CASE leaf.filterType = "array_contains" -> TRUE
      [] leaf.filterType = "numeric" ->
           \/ leaf.value \notin DOMAIN Number
           \/ v.text \notin DOMAIN Number /\ v.column \notin Numeral
           \/ v.column \in Numeral /\ {v.column, leaf.value} \subseteq Short
      [] OTHER -> /\ IsScalar(v) /\ v.column = v.text
                  /\ leaf.ignoreCase => {v.text, leaf.value} \subseteq Ascii

ComparableLevel(meta, below) ==
  [f \in Filter |->
     IF f.node = "leaf" THEN ComparableLeaf(f, meta)
     ELSE \A i \in DOMAIN f.children : below[f.children[i]]]

\* Every leaf of the tree that is not too deep to count.
Comparing(meta) ==
  LET within[n \in 0 .. MaxDepth] ==
        IF n = 0 THEN [f \in Filter |-> TRUE] ELSE ComparableLevel(meta, within[n - 1])
  IN within

Comparable(f, meta) == Comparing(meta)[MaxDepth][f]
=============================================================================
