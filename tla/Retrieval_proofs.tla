---------------------------- MODULE Retrieval_proofs ----------------------------
(***************************************************************************)
(* Proofs about a search, for tables of any size, any filters, tags,       *)
(* limits, scores and answers of a reranker: that the SQL of a filter      *)
(* selects what the filter means, that a tag survives being parsed, and    *)
(* what a page shows of what the index and the reranker have yielded.      *)
(***************************************************************************)
EXTENDS MCRetrieval, Chunker_proofs, FiniteSetTheorems, WellFoundedInduction, TLAPS

-----------------------------------------------------------------------------
(* Naturals, recursion and orders. *)

LEMMA LeastNat ==
  ASSUME NEW S \in SUBSET Nat, S # {}
  PROVE  \E x \in S : \A y \in S : x <= y
<1> DEFINE R == OpToRel(<, Nat)
<1>1. IsWellFoundedOn(R, Nat)
  BY NatLessThanWellFounded
<1>2. \E x \in S : \A y \in S : ~(<<y, x>> \in R)
  <2> HIDE DEF R
  <2> QED BY <1>1, WFMin
<1>3. \A x, y \in S : ~(<<y, x>> \in R) => x <= y
  BY DEF OpToRel
<1> HIDE DEF R
<1> QED BY <1>2, <1>3

\* A set of naturals that has 0 and every successor is all of them.
LEMMA AllNats ==
  ASSUME NEW P \in SUBSET Nat, 0 \in P, \A n \in P : n + 1 \in P
  PROVE  P = Nat
<1>1. SUFFICES ASSUME Nat \ P # {} PROVE FALSE
  OBVIOUS
<1>2. PICK x \in Nat \ P : \A y \in Nat \ P : x <= y
  BY <1>1, LeastNat
<1>3. x # 0 /\ x - 1 \in Nat
  BY <1>2
<1>4. x - 1 \in P
  BY <1>2, <1>3
<1>5. (x - 1) + 1 \in P
  BY <1>4
<1> QED BY <1>2, <1>3, <1>5

\* f runs from v0 by n steps, and there is such an f.
Iterates(f, v0, step, n) == f[0] = v0 /\ \A i \in 1 .. n : f[i] = step[i][f[i - 1]]

LEMMA Iteration ==
  ASSUME NEW V, NEW v0 \in V, NEW step \in [Nat -> [V -> V]], NEW n \in Nat
  PROVE  \E f \in [0 .. n -> V] : Iterates(f, v0, step, n)
<1> DEFINE Runs(m) == \E f \in [0 .. m -> V] : Iterates(f, v0, step, m)
           P == {m \in Nat : Runs(m)}
<1>1. 0 \in P
  <2> DEFINE f == [i \in 0 .. 0 |-> v0]
  <2>1. f \in [0 .. 0 -> V] /\ f[0] = v0 /\ 1 .. 0 = {}
    OBVIOUS
  <2>2. \A i \in 1 .. 0 : f[i] = step[i][f[i - 1]]
    BY <2>1
  <2> HIDE DEF f
  <2>3. Runs(0)
    BY <2>1, <2>2 DEF Iterates
  <2> HIDE DEF Runs
  <2> QED BY <2>3
<1>2. ASSUME NEW m \in P PROVE m + 1 \in P
  <2>1. PICK f \in [0 .. m -> V] :
          f[0] = v0 /\ \A i \in 1 .. m : f[i] = step[i][f[i - 1]]
    BY DEF Iterates
  <2>2. f[m] \in V /\ step[m + 1] \in [V -> V] /\ step[m + 1][f[m]] \in V
    BY <2>1
  <2> DEFINE g == [i \in 0 .. m + 1 |-> IF i = m + 1 THEN step[m + 1][f[m]] ELSE f[i]]
  <2>3. g \in [0 .. m + 1 -> V]
    BY <2>1, <2>2
  <2>4. g[0] = v0
    BY <2>1
  <2>5. \A i \in 1 .. m + 1 : g[i] = step[i][g[i - 1]]
    <3>1. TAKE i \in 1 .. m + 1
    <3>2. CASE i = m + 1
      BY <3>2
    <3>3. CASE i # m + 1
      <4>1. i \in 1 .. m /\ i - 1 \in 0 .. m /\ i - 1 # m + 1 /\ i \in 0 .. m + 1
            /\ i - 1 \in 0 .. m + 1
        BY <3>3
      <4>2. f[i] = step[i][f[i - 1]]
        BY <2>1, <4>1
      <4> QED BY <4>1, <4>2
    <3> QED BY <3>2, <3>3
  <2> HIDE DEF g
  <2>6. Runs(m + 1)
    BY <2>3, <2>4, <2>5 DEF Iterates
  <2>7. m + 1 \in Nat
    OBVIOUS
  <2> HIDE DEF Runs
  <2> QED BY <2>6, <2>7
<1> HIDE DEF Runs
<1>3. P = Nat
  BY <1>1, <1>2, AllNats
<1>4. Runs(n)
  BY <1>3
<1> QED BY <1>4 DEF Runs

\* ahead[x] are the elements of S before x in a strict total order.
StrictOrder(S, ahead) ==
  /\ ahead \in [S -> SUBSET S]
  /\ \A x \in S : x \notin ahead[x]
  /\ \A x, y \in S : x = y \/ x \in ahead[y] \/ y \in ahead[x]
  /\ \A x, y \in S : y \in ahead[x] => ahead[y] \subseteq ahead[x]

\* `ordered` lists S in that order, every element once.
Lists(ordered, S, ahead) ==
  /\ Cardinality(S) \in Nat
  /\ ordered \in [1 .. Cardinality(S) -> S]
  /\ \A k \in 1 .. Cardinality(S) : Cardinality(ahead[ordered[k]]) = k - 1
  /\ \A x \in S : \E k \in 1 .. Cardinality(S) : ordered[k] = x
  /\ \A j, k \in 1 .. Cardinality(S) : j < k => ordered[j] \in ahead[ordered[k]]

LEMMA OrderIsOrder ==
  ASSUME NEW S, IsFiniteSet(S), NEW ahead, StrictOrder(S, ahead)
  PROVE  Lists(InOrder(S, ahead), S, ahead)
<1> DEFINE ordered == InOrder(S, ahead)
<1>0. /\ ahead \in [S -> SUBSET S]
      /\ \A x \in S : x \notin ahead[x]
      /\ \A x, y \in S : x = y \/ x \in ahead[y] \/ y \in ahead[x]
      /\ \A x, y \in S : y \in ahead[x] => ahead[y] \subseteq ahead[x]
  BY DEF StrictOrder
<1> DEFINE n == Cardinality(S)
           rank == [x \in S |-> Cardinality(ahead[x])]
<1>1. n \in Nat
  BY FS_CardinalityType
<1>2. ASSUME NEW x \in S
      PROVE  IsFiniteSet(ahead[x]) /\ rank[x] \in 0 .. n - 1
  <2>1. IsFiniteSet(ahead[x]) /\ Cardinality(ahead[x]) <= n
        /\ (n = Cardinality(ahead[x]) => S = ahead[x])
    BY <1>0, FS_Subset
  <2>2. Cardinality(ahead[x]) \in Nat
    BY <2>1, FS_CardinalityType
  <2>3. S # ahead[x]
    BY <1>0
  <2> QED BY <1>1, <2>1, <2>2, <2>3
<1>3. ASSUME NEW x \in S, NEW y \in S, y \in ahead[x]
      PROVE  rank[y] < rank[x]
  <2>1. ahead[y] \in SUBSET ahead[x] /\ y \notin ahead[y]
    BY <1>0, <1>3
  <2>2. IsFiniteSet(ahead[x])
    BY <1>2
  <2>3. Cardinality(ahead[y]) <= Cardinality(ahead[x])
        /\ (Cardinality(ahead[x]) = Cardinality(ahead[y]) => ahead[x] = ahead[y])
    BY <2>1, <2>2, FS_Subset
  <2>4. ahead[x] # ahead[y]
    BY <1>3, <2>1
  <2>5. rank[x] \in Nat /\ rank[y] \in Nat
    BY <1>1, <1>2
  <2> QED BY <2>3, <2>4, <2>5
<1>4. rank \in Injection(S, 0 .. n - 1)
  <2>1. rank \in [S -> 0 .. n - 1]
    BY <1>2
  <2>2. \A x, y \in S : rank[x] = rank[y] => x = y
    <3>1. TAKE x, y \in S
    <3>2. rank[x] \in Int /\ rank[y] \in Int
      BY <1>1, <1>2
    <3> HIDE DEF rank
    <3> QED BY <1>0, <1>3, <3>2
  <2> QED BY <2>1, <2>2 DEF Injection, IsInjective
<1>5. IsFiniteSet(0 .. n - 1) /\ Cardinality(0 .. n - 1) = n
  BY <1>1, FS_Interval
<1>6. rank \in Surjection(S, 0 .. n - 1)
  <2> HIDE DEF rank
  <2> QED BY <1>4, <1>5, FS_Injection
<1>7. ASSUME NEW k \in 1 .. n
      PROVE  ordered[k] \in S /\ Cardinality(ahead[ordered[k]]) = k - 1
  <2>1. k - 1 \in 0 .. n - 1
    BY <1>1
  <2>2. \E x \in S : rank[x] = k - 1
    BY <1>6, <2>1 DEF Surjection
  <2>3. ordered[k] = CHOOSE x \in S : Cardinality(ahead[x]) = k - 1
    BY DEF InOrder
  <2> QED BY <2>2, <2>3
<1> HIDE DEF ordered
<1>8. ordered \in [1 .. n -> S]
  BY <1>7 DEF InOrder, ordered
<1>9. ASSUME NEW x \in S PROVE \E k \in 1 .. n : ordered[k] = x
  <2> DEFINE k == rank[x] + 1
  <2>1. k \in 1 .. n /\ k - 1 = rank[x]
    BY <1>1, <1>2
  <2> HIDE DEF k
  <2>2. ordered[k] \in S /\ rank[ordered[k]] = rank[x]
    BY <1>7, <2>1
  <2>3. ordered[k] = x
    <3> HIDE DEF rank
    <3> QED BY <1>4, <2>2 DEF Injection, IsInjective
  <2> QED BY <2>1, <2>3
<1>10. ASSUME NEW j \in 1 .. n, NEW k \in 1 .. n, j < k
       PROVE  ordered[j] \in ahead[ordered[k]]
  <2>1. ordered[j] \in S /\ ordered[k] \in S /\ rank[ordered[j]] = j - 1 /\ rank[ordered[k]] = k - 1
    BY <1>7
  <2>2. ordered[j] # ordered[k]
    BY <2>1, <1>1, <1>10
  <2>3. ~(rank[ordered[k]] < rank[ordered[j]])
    BY <2>1, <1>1, <1>10
  <2> HIDE DEF rank
  <2> QED BY <1>0, <1>3, <2>1, <2>2, <2>3
<1> QED BY <1>1, <1>7, <1>8, <1>9, <1>10 DEF Lists, ordered

\* p lists the places in order, and q the elements of s there.
Picks(p, q, s, places) ==
  /\ Cardinality(places) \in Nat /\ Cardinality(places) <= Len(s)
  /\ p \in [1 .. Cardinality(places) -> places]
  /\ \A i \in places : \E k \in 1 .. Cardinality(places) : p[k] = i
  /\ \A j, k \in 1 .. Cardinality(places) : j < k => p[j] < p[k]
  /\ \A k \in 1 .. Cardinality(places) : k <= p[k]
  /\ Len(q) = Cardinality(places)
  /\ \A k \in 1 .. Cardinality(places) : q[k] = s[p[k]]

LEMMA PickedInOrder ==
  ASSUME NEW T, NEW s \in Seq(T), NEW places \in SUBSET (1 .. Len(s))
  PROVE  Picked(s, places) \in Seq(T) /\ \E p : Picks(p, Picked(s, places), s, places)
<1> DEFINE p == InOrder(places, [i \in places |-> {j \in places : j < i}])
<1> DEFINE ahead == [i \in places |-> {j \in places : j < i}]
           n == Cardinality(places)
<1>1. IsFiniteSet(places) /\ n <= Len(s)
  <2>1. Len(s) \in Nat /\ IsFiniteSet(1 .. Len(s)) /\ Cardinality(1 .. Len(s)) = Len(s)
    BY FS_Interval
  <2> QED BY <2>1, FS_Subset
<1>2. ahead \in [places -> SUBSET places]
  OBVIOUS
<1>3. \A i \in places : i \in Int
  OBVIOUS
<1>4. /\ \A i \in places : i \notin ahead[i]
      /\ \A i, j \in places : i = j \/ i \in ahead[j] \/ j \in ahead[i]
      /\ \A i, j \in places : j \in ahead[i] => ahead[j] \subseteq ahead[i]
  <2>1. \A i, j \in places : j \in ahead[i] <=> j < i
    OBVIOUS
  <2> HIDE DEF ahead
  <2>2. ASSUME NEW i \in places, NEW j \in places, j \in ahead[i]
        PROVE  ahead[j] \subseteq ahead[i]
    <3>1. ASSUME NEW h \in ahead[j] PROVE h \in ahead[i]
      <4>1. h \in places
        BY <1>2, <3>1
      <4> QED BY <1>3, <2>1, <2>2, <3>1, <4>1
    <3> QED BY <3>1
  <2> QED BY <1>3, <2>1, <2>2
<1>5. p = InOrder(places, ahead)
  OBVIOUS
<1>12. Picked(s, places) = [k \in DOMAIN p |-> s[p[k]]]
  BY DEF Picked
<1> HIDE DEF ahead, p
<1>6. /\ n \in Nat
      /\ p \in [1 .. n -> places]
      /\ \A k \in 1 .. n : Cardinality(ahead[p[k]]) = k - 1
      /\ \A i \in places : \E k \in 1 .. n : p[k] = i
      /\ \A j, k \in 1 .. n : j < k => p[j] \in ahead[p[k]]
  <2>1. StrictOrder(places, ahead)
    BY <1>2, <1>4 DEF StrictOrder
  <2>2. Lists(p, places, ahead)
    BY <1>1, <1>5, <2>1, OrderIsOrder
  <2> QED BY <2>2 DEF Lists
<1>7. \A j, k \in 1 .. n : j < k => p[j] < p[k]
  BY <1>6 DEF ahead
<1>8. ASSUME NEW k \in 1 .. n PROVE k <= p[k]
  <2> DEFINE i == p[k]
  <2>0. i \in places /\ Cardinality(ahead[i]) = k - 1
    BY <1>6
  <2> HIDE DEF i
  <2>1. i \in 1 .. Len(s) /\ i - 1 \in Nat
    BY <2>0
  <2>2. ahead[i] \in SUBSET (1 .. i - 1)
    <3>1. i \in places
      BY <2>0
    <3>2. ahead[i] = {j \in places : j < i}
      BY <3>1 DEF ahead
    <3>3. ASSUME NEW j \in places, j < i PROVE j \in 1 .. i - 1
      BY <2>1, <3>3
    <3> QED BY <3>2, <3>3
  <2>3. IsFiniteSet(1 .. i - 1) /\ Cardinality(1 .. i - 1) = i - 1
    BY <2>1, FS_Interval
  <2>4. Cardinality(ahead[i]) <= i - 1
    BY <2>2, <2>3, FS_Subset
  <2>5. k <= i
    BY <1>6, <2>0, <2>1, <2>4
  <2> QED BY <2>5 DEF i
<1>9. Picked(s, places) = [k \in 1 .. n |-> s[p[k]]]
  <2>1. DOMAIN p = 1 .. n
    BY <1>6
  <2> QED BY <1>12, <2>1
<1>10. ASSUME NEW k \in 1 .. n PROVE s[p[k]] \in T
  <2>1. p[k] \in places
    BY <1>6
  <2>2. p[k] \in 1 .. Len(s)
    BY <2>1
  <2> QED BY <2>2
<1> DEFINE q == Picked(s, places)
<1>11. q \in Seq(T) /\ Len(q) = n /\ \A k \in 1 .. n : q[k] = s[p[k]]
  <2> DEFINE f == [k \in 1 .. n |-> s[p[k]]]
  <2>1. f \in Seq(T) /\ Len(f) = n /\ \A k \in 1 .. n : f[k] = s[p[k]]
    BY <1>6, <1>10
  <2>2. q = f
    BY <1>9
  <2> HIDE DEF q, f
  <2> QED BY <2>1, <2>2
<1> HIDE DEF q
<1>13. Picks(p, q, s, places)
  BY <1>1, <1>6, <1>7, <1>8, <1>11 DEF Picks
<1> QED BY <1>11, <1>13 DEF q

LEMMA TruncateHolds ==
  ASSUME NEW T, NEW s \in Seq(T), NEW limit \in Nat
  PROVE  /\ Truncate(s, limit) \in Seq(T)
         /\ Len(Truncate(s, limit)) = Least(Len(s), limit)
         /\ Least(Len(s), limit) \in 0 .. Len(s)
         /\ \A i \in 1 .. Least(Len(s), limit) : Truncate(s, limit)[i] = s[i]
<1>1. Least(Len(s), limit) \in 0 .. Len(s)
  BY DEF Least
<1> QED BY <1>1 DEF Truncate

-----------------------------------------------------------------------------
(* Filters. *)

\* An SQL value that is one truth value is neither NULL nor an error.
LEMMA OneIsNotBoth ==
  ASSUME NEW b
  PROVE  {b} # {} /\ {b} # BOOLEAN
<1>1. ASSUME {b} = BOOLEAN PROVE FALSE
  <2>1. TRUE \in BOOLEAN /\ FALSE \in BOOLEAN
    OBVIOUS
  <2>2. b = TRUE
    BY <1>1, <2>1
  <2>3. b = FALSE
    BY <1>1, <2>1
  <2> QED BY <2>2, <2>3
<1> QED BY <1>1

\* Rounding does not change how numbers this short compare.
LEMMA ShortCompares ==
  ASSUME NEW a \in Short, NEW b \in Short, NEW operator
  PROVE  Compare(operator, Number[a], Number[b]) <=> Compare(operator, Exact[a], Exact[b])
<1> DEFINE na == Number[a]  nb == Number[b]  ea == Exact[a]  eb == Exact[b]
<1>1. na \in Int /\ nb \in Int /\ ea \in Int /\ eb \in Int
  BY FilterAssumption
<1>2. (na < nb <=> ea < eb) /\ (nb < na <=> eb < ea)
  BY FilterAssumption
<1> HIDE DEF na, nb, ea, eb
<1>3. Compare(operator, na, nb) <=> Compare(operator, ea, eb)
  <2>1. na = nb <=> ea = eb
    BY <1>1, <1>2
  <2>2. (na <= nb <=> ea <= eb) /\ (na >= nb <=> ea >= eb) /\ (na > nb <=> ea > eb)
    BY <1>1, <1>2
  <2> QED BY <1>2, <2>1, <2>2 DEF Compare
<1> QED BY <1>3 DEF na, nb, ea, eb

\* A number that both evaluations read compares alike in both.
LEMMA NumericExact ==
  ASSUME NEW leaf, NEW meta, IsMetadata(meta), ComparableLeaf(leaf, meta),
         leaf.key \in DOMAIN meta, leaf.filterType = "numeric", leaf.value \in DOMAIN Number,
         NEW v, v = meta[leaf.key], v.type # "null"
  PROVE  NumericSql(leaf, v.column) = {EvalNumeric(leaf, v)}
<1>1. /\ v.type # "number" => v.column = v.text
      /\ v.type = "number" => /\ v.text \in DOMAIN Number
                              /\ Number[v.text] = Number[v.column]
      /\ v.type \notin {"string", "number"} => v.text \notin Numeral \cup DOMAIN Number
  BY DEF IsMetadata
<1>2. \/ v.text \notin DOMAIN Number /\ v.column \notin Numeral
      \/ v.column \in Numeral /\ {v.column, leaf.value} \subseteq Short
  BY DEF ComparableLeaf
<1>3. CASE v.text \notin DOMAIN Number /\ v.column \notin Numeral
  BY <1>3 DEF NumericSql, EvalNumeric
<1>4. CASE v.column \in Numeral /\ v.column \in Short /\ leaf.value \in Short
  <2>1. v.type \in {"string", "number"}
    BY <1>1, <1>4
  <2>2. v.text \in DOMAIN Number /\ Number[v.text] = Number[v.column]
    BY <1>1, <1>4, FilterAssumption
  <2>3. {v.column, leaf.value} \subseteq DOMAIN Exact
    BY <1>4, FilterAssumption
  <2>4. NumericSql(leaf, v.column) = {Compare(leaf.operator, Exact[v.column], Exact[leaf.value])}
    BY <1>4, <2>3 DEF NumericSql
  <2>5. EvalNumeric(leaf, v) <=> Compare(leaf.operator, Number[v.column], Number[leaf.value])
    BY <2>1, <2>2 DEF EvalNumeric
  <2>6. EvalNumeric(leaf, v) <=> Compare(leaf.operator, Exact[v.column], Exact[leaf.value])
    BY <1>4, <2>5, ShortCompares
  <2> DEFINE e == EvalNumeric(leaf, v)
             c == Compare(leaf.operator, Exact[v.column], Exact[leaf.value])
  <2>7. e \in BOOLEAN /\ c \in BOOLEAN
    BY DEF EvalNumeric, Compare
  <2>8. NumericSql(leaf, v.column) = {c} /\ (e <=> c)
    BY <2>4, <2>6
  <2> HIDE DEF e, c
  <2>9. {c} = {e}
    BY <2>7, <2>8
  <2> QED BY <2>8, <2>9 DEF e
<1> QED BY <1>2, <1>3, <1>4

\* The texts that both evaluations read fold alike in both.
LEMMA FoldsAlike ==
  ASSUME NEW leaf, NEW t, leaf.ignoreCase => t \in Ascii
  PROVE  /\ Fold(AsciiLower, leaf, t) = Fold(SqlLower, leaf, t)
         /\ Fold(Lowercase, leaf, t) = Fold(SqlLower, leaf, t)
BY FilterAssumption DEF Fold

\* The value of the SQL of a leaf is what the leaf means.
LEMMA LeafExact ==
  ASSUME NEW leaf, leaf.negate \in BOOLEAN, NEW meta, IsMetadata(meta), ComparableLeaf(leaf, meta)
  PROVE  LeafSql(leaf, meta) = {MatchesLeaf(leaf, meta)}
<1> DEFINE v == meta[leaf.key]
           found == leaf.key \in DOMAIN meta
           type == leaf.filterType
<1>1. found => /\ v.type \in {"string", "number", "bool", "null", "array", "object"}
               /\ v.type # "null" /\ type \notin {"array_contains", "numeric"} =>
                    /\ IsScalar(v) /\ v.column = v.text
                    /\ leaf.ignoreCase => v.text \in Ascii /\ leaf.value \in Ascii
  BY DEF IsMetadata, ComparableLeaf
<1>2. BodySql(leaf, meta) = {found /\ EvalLeaf(leaf, v)}
  <2>1. CASE type = "array_contains"
    <3>1. EvalLeaf(leaf, v) <=> v.type = "array" /\ leaf.value \in v.items
      BY <2>1 DEF EvalLeaf
    <3>2. BodySql(leaf, meta) = Coalesce(IF ~found THEN {} ELSE {v.type = "array" /\ leaf.value \in v.items})
      BY <2>1 DEF BodySql
    <3> QED BY <3>1, <3>2 DEF Coalesce
  <2>2. CASE type # "array_contains" /\ ~found
    <3>1. ColumnText(leaf, meta) = {}
      BY <2>2 DEF ColumnText
    <3>2. Coalesce(UNION {ComparisonSql(leaf, t) : t \in ColumnText(leaf, meta)}) = {FALSE}
      BY <3>1 DEF Coalesce
    <3> QED BY <2>2, <3>2 DEF BodySql
  <2>3. CASE type # "array_contains" /\ found /\ v.type = "null"
    <3>1. ColumnText(leaf, meta) = {}
      BY <2>3 DEF ColumnText
    <3>2. Coalesce(UNION {ComparisonSql(leaf, t) : t \in ColumnText(leaf, meta)}) = {FALSE}
      BY <3>1 DEF Coalesce
    <3>3. ~EvalLeaf(leaf, v)
      BY <2>3 DEF EvalLeaf, EvalNumeric, IsScalar
    <3> QED BY <2>3, <3>2, <3>3 DEF BodySql
  <2>4. CASE type # "array_contains" /\ found /\ v.type # "null"
    <3>1. ColumnText(leaf, meta) = {v.column}
      BY <2>4 DEF ColumnText
    <3>2. UNION {ComparisonSql(leaf, t) : t \in ColumnText(leaf, meta)}
            = ComparisonSql(leaf, v.column)
      BY <3>1
    <3>3. ASSUME NEW b \in BOOLEAN, ComparisonSql(leaf, v.column) = {b}
          PROVE  Coalesce(UNION {ComparisonSql(leaf, t) : t \in ColumnText(leaf, meta)}) = {b}
      BY <3>2, <3>3 DEF Coalesce
    <3>4. CASE type = "numeric"
      <4>1. EvalLeaf(leaf, v) <=> EvalNumeric(leaf, v)
        BY <3>4 DEF EvalLeaf
      <4>2. CASE leaf.value \notin DOMAIN Number \/ leaf.operator \notin {">", "<", ">=", "<=", "="}
        <5>1. BodySql(leaf, meta) = {FALSE}
          BY <3>4, <4>2 DEF BodySql
        <5>2. ~EvalNumeric(leaf, v)
          BY <4>2 DEF EvalNumeric, Compare
        <5> QED BY <4>1, <5>1, <5>2
      <4>3. CASE leaf.value \in DOMAIN Number /\ leaf.operator \in {">", "<", ">=", "<=", "="}
        <5>1. BodySql(leaf, meta)
                = Coalesce(UNION {ComparisonSql(leaf, t) : t \in ColumnText(leaf, meta)})
          BY <3>4, <4>3 DEF BodySql
        <5>2. ComparisonSql(leaf, v.column) = NumericSql(leaf, v.column)
          BY <3>4 DEF ComparisonSql, Kind
        <5>3. NumericSql(leaf, v.column) = {EvalNumeric(leaf, v)}
          BY <2>4, <3>4, <4>3, NumericExact
        <5>4. EvalNumeric(leaf, v) \in BOOLEAN
          BY DEF EvalNumeric, Compare
        <5> QED BY <2>4, <3>3, <4>1, <5>1, <5>2, <5>3, <5>4
      <4> QED BY <4>2, <4>3
    <3>5. CASE type # "numeric"
      <4> DEFINE fold(lower, t) == Fold(lower, leaf, t)
      <4>1. BodySql(leaf, meta)
              = Coalesce(UNION {ComparisonSql(leaf, t) : t \in ColumnText(leaf, meta)})
        BY <2>4, <3>5 DEF BodySql
      <4>2. IsScalar(v) /\ v.column = v.text
        BY <1>1, <2>4, <3>5
      <4>3. \A t \in {v.text, leaf.value} :
              /\ fold(AsciiLower, t) = fold(SqlLower, t)
              /\ fold(Lowercase, t) = fold(SqlLower, t)
        BY <1>1, <2>4, <3>5, FoldsAlike
      <4>4. CASE type = "string_contains"
        <5> DEFINE part == <<fold(SqlLower, v.text), fold(SqlLower, leaf.value)>> \in Substring
        <5>1. ComparisonSql(leaf, v.column) = {part}
          BY <4>2, <4>4 DEF ComparisonSql, Kind
        <5>2. EvalLeaf(leaf, v) <=> part
          BY <4>2, <4>3, <4>4 DEF EvalLeaf
        <5>3. part \in BOOLEAN
          OBVIOUS
        <5> HIDE DEF part
        <5> QED BY <2>4, <3>3, <4>1, <5>1, <5>2, <5>3
      <4>5. CASE type # "string_contains"
        <5> DEFINE same == fold(SqlLower, v.text) = fold(SqlLower, leaf.value)
        <5>1. ComparisonSql(leaf, v.column) = {same}
          BY <2>4, <3>5, <4>2, <4>5 DEF ComparisonSql, Kind
        <5>2. EvalLeaf(leaf, v) <=> same
          BY <2>4, <3>5, <4>2, <4>3, <4>5 DEF EvalLeaf
        <5>3. same \in BOOLEAN
          OBVIOUS
        <5> HIDE DEF same
        <5> QED BY <2>4, <3>3, <4>1, <5>1, <5>2, <5>3
      <4> QED BY <4>4, <4>5
    <3> QED BY <3>4, <3>5
  <2> QED BY <2>1, <2>2, <2>3, <2>4
<1>3. MatchesLeaf(leaf, meta) = ((found /\ EvalLeaf(leaf, v)) # leaf.negate)
  BY DEF MatchesLeaf
<1> DEFINE e == (found /\ EvalLeaf(leaf, v))
<1>4. e \in BOOLEAN
  OBVIOUS
<1> HIDE DEF e
<1>5. BodySql(leaf, meta) = {e} /\ MatchesLeaf(leaf, meta) = (e # leaf.negate)
  BY <1>2, <1>3 DEF e
<1>6. CASE leaf.negate = TRUE
  <2>1. LeafSql(leaf, meta) = {~e}
    BY <1>5, <1>6 DEF LeafSql
  <2>2. (e # leaf.negate) = ~e
    BY <1>4, <1>6
  <2> QED BY <1>5, <2>1, <2>2
<1>7. CASE leaf.negate = FALSE
  <2>1. LeafSql(leaf, meta) = {e}
    BY <1>5, <1>7 DEF LeafSql
  <2>2. (e # leaf.negate) = e
    BY <1>4, <1>7
  <2> QED BY <1>5, <2>1, <2>2
<1> QED BY <1>6, <1>7

\* The levels that matches_at, to_sql and Comparable walk.
LEMMA MatchingLevels ==
  ASSUME NEW meta
  PROVE  /\ Matching(meta)[0] = [f \in Filter |-> FALSE]
         /\ \A n \in 1 .. MaxDepth : Matching(meta)[n] = MatchesLevel(meta, Matching(meta)[n - 1])
<1> DEFINE V == [Filter -> BOOLEAN]
           none == [f \in Filter |-> FALSE]
           step == [i \in Nat |-> [v \in V |-> MatchesLevel(meta, v)]]
           Next1(w) == [n \in 0 .. MaxDepth |->
                          IF n = 0 THEN none ELSE MatchesLevel(meta, w[n - 1])]
<1>1. \A v \in V : MatchesLevel(meta, v) \in V
  BY FilterAssumption DEF MatchesLevel, MatchesLeaf
<1>2. none \in V /\ step \in [Nat -> [V -> V]] /\ MaxDepth \in Nat
  BY <1>1, FilterAssumption
<1> HIDE DEF V, none
<1>3. PICK f \in [0 .. MaxDepth -> V] : Iterates(f, none, step, MaxDepth)
  <2> HIDE DEF step
  <2> QED BY <1>2, Iteration
<1>4. f = Next1(f)
  <2>1. ASSUME NEW i \in 1 .. MaxDepth PROVE f[i] = MatchesLevel(meta, f[i - 1])
    <3>1. i \in Nat /\ f[i - 1] \in V
      BY <1>2, <1>3
    <3> QED BY <1>3, <3>1 DEF Iterates
  <2> QED BY <1>2, <1>3, <2>1 DEF Iterates
<1>5. Matching(meta) = CHOOSE w : w = Next1(w)
  BY DEF Matching, none
<1>6. Matching(meta) = Next1(Matching(meta))
  BY <1>4, <1>5
<1> DEFINE m == Matching(meta)
<1> HIDE DEF m
<1>7. m = Next1(m)
  BY <1>6 DEF m
<1>8. m[0] = none /\ \A n \in 1 .. MaxDepth : m[n] = MatchesLevel(meta, m[n - 1])
  BY <1>2, <1>7
<1> QED BY <1>8 DEF m, none

LEMMA SqlLevels ==
  ASSUME NEW meta
  PROVE  /\ Sql(meta)[0] = [f \in Filter |-> {FALSE}]
         /\ \A n \in 1 .. MaxDepth : Sql(meta)[n] = SqlLevel(meta, Sql(meta)[n - 1])
<1> DEFINE V == [Filter -> SUBSET BOOLEAN]
           none == [f \in Filter |-> {FALSE}]
           step == [i \in Nat |-> [v \in V |-> SqlLevel(meta, v)]]
           Next1(w) == [n \in 0 .. MaxDepth |->
                          IF n = 0 THEN none ELSE SqlLevel(meta, w[n - 1])]
<1>1. ASSUME NEW v \in V PROVE SqlLevel(meta, v) \in V
  <2>1. ASSUME NEW f \in Filter, f.node = "leaf" PROVE LeafSql(f, meta) \in SUBSET BOOLEAN
    <3>1. BodySql(f, meta) \in SUBSET BOOLEAN
      <4>1. ASSUME NEW b \in SUBSET BOOLEAN PROVE Coalesce(b) \in SUBSET BOOLEAN
        BY DEF Coalesce
      <4>2. ASSUME NEW t PROVE ComparisonSql(f, t) \in SUBSET BOOLEAN
        <5>0. NumericSql(f, t) \in SUBSET BOOLEAN
          <6>1. \A a, b : Compare(f.operator, a, b) \in BOOLEAN
            BY DEF Compare
          <6> QED BY <6>1 DEF NumericSql
        <5>1. CASE Kind(f.filterType) = "numeric"
          BY <5>0, <5>1 DEF ComparisonSql
        <5>2. CASE Kind(f.filterType) = "string_contains"
          BY <5>2 DEF ComparisonSql
        <5>3. CASE Kind(f.filterType) \notin {"numeric", "string_contains"}
          BY <5>3 DEF ComparisonSql
        <5> QED BY <5>1, <5>2, <5>3
      <4>3. UNION {ComparisonSql(f, t) : t \in ColumnText(f, meta)} \in SUBSET BOOLEAN
        BY <4>2
      <4>4. (IF f.key \notin DOMAIN meta THEN {}
             ELSE {meta[f.key].type = "array" /\ f.value \in meta[f.key].items}) \in SUBSET BOOLEAN
        OBVIOUS
      <4>5. Coalesce(UNION {ComparisonSql(f, t) : t \in ColumnText(f, meta)}) \in SUBSET BOOLEAN
        BY <4>1, <4>3
      <4>6. Coalesce(IF f.key \notin DOMAIN meta THEN {}
                     ELSE {meta[f.key].type = "array" /\ f.value \in meta[f.key].items})
              \in SUBSET BOOLEAN
        BY <4>1, <4>4
      <4> QED BY <4>5, <4>6 DEF BodySql
    <3> QED BY <3>1 DEF LeafSql
  <2>2. \A values : AndSql(values) \in SUBSET BOOLEAN /\ OrSql(values) \in SUBSET BOOLEAN
    BY DEF AndSql, OrSql
  <2> QED BY <2>1, <2>2, FilterAssumption DEF SqlLevel
<1>2. none \in V /\ step \in [Nat -> [V -> V]] /\ MaxDepth \in Nat
  BY <1>1, FilterAssumption
<1> HIDE DEF V, none
<1>3. PICK f \in [0 .. MaxDepth -> V] : Iterates(f, none, step, MaxDepth)
  <2> HIDE DEF step
  <2> QED BY <1>2, Iteration
<1>4. f = Next1(f)
  <2>1. ASSUME NEW i \in 1 .. MaxDepth PROVE f[i] = SqlLevel(meta, f[i - 1])
    <3>1. i \in Nat /\ f[i - 1] \in V
      BY <1>2, <1>3
    <3> QED BY <1>3, <3>1 DEF Iterates
  <2> QED BY <1>2, <1>3, <2>1 DEF Iterates
<1>5. Sql(meta) = CHOOSE w : w = Next1(w)
  BY DEF Sql, none
<1>6. Sql(meta) = Next1(Sql(meta))
  BY <1>4, <1>5
<1> DEFINE m == Sql(meta)
<1> HIDE DEF m
<1>7. m = Next1(m)
  BY <1>6 DEF m
<1>8. m[0] = none /\ \A n \in 1 .. MaxDepth : m[n] = SqlLevel(meta, m[n - 1])
  BY <1>2, <1>7
<1> QED BY <1>8 DEF m, none

LEMMA ComparingLevels ==
  ASSUME NEW meta
  PROVE  /\ Comparing(meta)[0] = [f \in Filter |-> TRUE]
         /\ \A n \in 1 .. MaxDepth : Comparing(meta)[n] = ComparableLevel(meta, Comparing(meta)[n - 1])
<1> DEFINE V == [Filter -> BOOLEAN]
           none == [f \in Filter |-> TRUE]
           step == [i \in Nat |-> [v \in V |-> ComparableLevel(meta, v)]]
           Next1(w) == [n \in 0 .. MaxDepth |->
                          IF n = 0 THEN none ELSE ComparableLevel(meta, w[n - 1])]
<1>1. \A v \in V : ComparableLevel(meta, v) \in V
  BY FilterAssumption DEF ComparableLevel, ComparableLeaf
<1>2. none \in V /\ step \in [Nat -> [V -> V]] /\ MaxDepth \in Nat
  BY <1>1, FilterAssumption
<1> HIDE DEF V, none
<1>3. PICK f \in [0 .. MaxDepth -> V] : Iterates(f, none, step, MaxDepth)
  <2> HIDE DEF step
  <2> QED BY <1>2, Iteration
<1>4. f = Next1(f)
  <2>1. ASSUME NEW i \in 1 .. MaxDepth PROVE f[i] = ComparableLevel(meta, f[i - 1])
    <3>1. i \in Nat /\ f[i - 1] \in V
      BY <1>2, <1>3
    <3> QED BY <1>3, <3>1 DEF Iterates
  <2> QED BY <1>2, <1>3, <2>1 DEF Iterates
<1>5. Comparing(meta) = CHOOSE w : w = Next1(w)
  BY DEF Comparing, none
<1>6. Comparing(meta) = Next1(Comparing(meta))
  BY <1>4, <1>5
<1> DEFINE m == Comparing(meta)
<1> HIDE DEF m
<1>7. m = Next1(m)
  BY <1>6 DEF m
<1>8. m[0] = none /\ \A n \in 1 .. MaxDepth : m[n] = ComparableLevel(meta, m[n - 1])
  BY <1>2, <1>7
<1> QED BY <1>8 DEF m, none

\* The SQL of a filter is exact: of every row whose metadata SQL can compare
\* (Comparable), the WHERE clause that to_sql builds keeps just those that
\* matches accepts, whatever the shape of the tree and however deep it is.
THEOREM FilterExact ==
  \A f \in Filter : \A meta :
    IsMetadata(meta) /\ Comparable(f, meta) => (Selects(f, meta) <=> Matches(f, meta))
<1>1. TAKE f \in Filter
<1>2. TAKE meta
<1>3. HAVE IsMetadata(meta) /\ Comparable(f, meta)
<1> DEFINE s == Sql(meta)
           m == Matching(meta)
           c == Comparing(meta)
           Agree(n) == \A g \in Filter : m[n][g] \in BOOLEAN /\ (c[n][g] => s[n][g] = {m[n][g]})
           P == {n \in Nat : n <= MaxDepth => Agree(n)}
<1>4. /\ s[0] = [g \in Filter |-> {FALSE}] /\ m[0] = [g \in Filter |-> FALSE]
      /\ \A n \in 1 .. MaxDepth :
           /\ s[n] = SqlLevel(meta, s[n - 1])
           /\ m[n] = MatchesLevel(meta, m[n - 1])
           /\ c[n] = ComparableLevel(meta, c[n - 1])
  BY SqlLevels, MatchingLevels, ComparingLevels
<1> HIDE DEF s, m, c
<1>5. Agree(0)
  BY <1>4
<1>6. ASSUME NEW n \in Nat, n + 1 <= MaxDepth, Agree(n) PROVE Agree(n + 1)
  <2>1. /\ n + 1 \in 1 .. MaxDepth /\ n + 1 - 1 = n
    BY <1>6, FilterAssumption
  <2>2. /\ s[n + 1] = SqlLevel(meta, s[n])
        /\ m[n + 1] = MatchesLevel(meta, m[n])
        /\ c[n + 1] = ComparableLevel(meta, c[n])
    BY <1>4, <2>1
  <2>3. SUFFICES ASSUME NEW g \in Filter
                 PROVE  /\ m[n + 1][g] \in BOOLEAN
                        /\ c[n + 1][g] => s[n + 1][g] = {m[n + 1][g]}
    OBVIOUS
  <2> DEFINE sn == s[n]  mn == m[n]  cn == c[n]
             parts == {sn[g.children[i]] : i \in DOMAIN g.children}
  <2>4. \A h \in Filter : mn[h] \in BOOLEAN /\ (cn[h] => sn[h] = {mn[h]})
    BY <1>6
  <2>5. CASE g.node = "leaf"
    <3>1. g.negate \in BOOLEAN
      BY <2>5, FilterAssumption
    <3>2. m[n + 1][g] = MatchesLeaf(g, meta) /\ s[n + 1][g] = LeafSql(g, meta)
          /\ c[n + 1][g] = ComparableLeaf(g, meta)
      BY <2>2, <2>5 DEF MatchesLevel, SqlLevel, ComparableLevel
    <3>3. MatchesLeaf(g, meta) \in BOOLEAN
      BY DEF MatchesLeaf
    <3>4. ComparableLeaf(g, meta) => LeafSql(g, meta) = {MatchesLeaf(g, meta)}
      BY <1>3, <3>1, LeafExact
    <3> QED BY <3>2, <3>3, <3>4
  <2>6. CASE g.node # "leaf"
    <3>1. g.node \in {"and", "or"} /\ g.children \in Seq(Filter)
      BY <2>6, FilterAssumption
    <3>2. \A i \in DOMAIN g.children : g.children[i] \in Filter
      BY <3>1
    <3>3. c[n + 1][g] <=> \A i \in DOMAIN g.children : cn[g.children[i]]
      BY <2>2, <2>6 DEF ComparableLevel
    <3>4. CASE g.node = "and"
      <4>1. m[n + 1][g] = (\A i \in DOMAIN g.children : mn[g.children[i]])
        BY <2>2, <3>4 DEF MatchesLevel
      <4>2. s[n + 1][g] = AndSql(parts)
        BY <2>2, <3>4 DEF SqlLevel
      <4> HIDE DEF sn, mn, cn
      <4>3. ASSUME \A i \in DOMAIN g.children : cn[g.children[i]]
            PROVE  AndSql(parts) = {\A i \in DOMAIN g.children : mn[g.children[i]]}
        <5>1. \A i \in DOMAIN g.children : sn[g.children[i]] = {mn[g.children[i]]}
                                          /\ mn[g.children[i]] \in BOOLEAN
          BY <2>4, <3>2, <4>3
        <5>2. {} \notin parts /\ BOOLEAN \notin parts
          <6>1. \A i \in DOMAIN g.children : sn[g.children[i]] \notin {{}, BOOLEAN}
            BY <5>1, OneIsNotBoth
          <6> QED BY <6>1
        <5>3. {FALSE} \in parts <=> \E i \in DOMAIN g.children : ~mn[g.children[i]]
          BY <5>1
        <5> HIDE DEF parts
        <5>4. CASE \E i \in DOMAIN g.children : ~mn[g.children[i]]
          <6>1. (\A i \in DOMAIN g.children : mn[g.children[i]]) = FALSE
            BY <5>4
          <6> QED BY <5>3, <5>4, <6>1 DEF AndSql
        <5>5. CASE \A i \in DOMAIN g.children : mn[g.children[i]]
          <6>1. (\A i \in DOMAIN g.children : mn[g.children[i]]) = TRUE
            BY <5>5
          <6> QED BY <5>2, <5>3, <5>5, <6>1 DEF AndSql
        <5> QED BY <5>4, <5>5
      <4> QED BY <3>3, <4>1, <4>2, <4>3
    <3>5. CASE g.node = "or"
      <4> DEFINE any == g.children = <<>> \/ \E i \in DOMAIN g.children : mn[g.children[i]]
      <4>1. m[n + 1][g] = any
        BY <2>2, <3>5 DEF MatchesLevel
      <4>2. s[n + 1][g] = IF g.children = <<>> THEN {TRUE} ELSE OrSql(parts)
        BY <2>2, <3>5 DEF SqlLevel
      <4> HIDE DEF sn, mn, cn
      <4>3. ASSUME \A i \in DOMAIN g.children : cn[g.children[i]]
            PROVE  (IF g.children = <<>> THEN {TRUE} ELSE OrSql(parts)) = {any}
        <5>1. \A i \in DOMAIN g.children : sn[g.children[i]] = {mn[g.children[i]]}
                                          /\ mn[g.children[i]] \in BOOLEAN
          BY <2>4, <3>2, <4>3
        <5>2. {} \notin parts /\ BOOLEAN \notin parts
          <6>1. \A i \in DOMAIN g.children : sn[g.children[i]] \notin {{}, BOOLEAN}
            BY <5>1, OneIsNotBoth
          <6> QED BY <6>1
        <5>3. {TRUE} \in parts <=> \E i \in DOMAIN g.children : mn[g.children[i]]
          BY <5>1
        <5> HIDE DEF parts
        <5>4. CASE any
          <6>1. any = TRUE
            BY <5>4
          <6> QED BY <5>3, <5>4, <6>1 DEF OrSql
        <5>5. CASE ~any
          <6>1. any = FALSE
            BY <5>5
          <6> QED BY <5>2, <5>3, <5>5, <6>1 DEF OrSql
        <5> QED BY <5>4, <5>5
      <4>4. any \in BOOLEAN
        OBVIOUS
      <4> HIDE DEF any
      <4> QED BY <3>3, <4>1, <4>2, <4>3, <4>4
    <3> QED BY <3>1, <3>4, <3>5
  <2> QED BY <2>5, <2>6
<1> HIDE DEF Agree
<1>7. ASSUME NEW n \in P PROVE n + 1 \in P
  BY <1>6, FilterAssumption
<1>8. P = Nat
  <2>1. 0 \in P
    BY <1>5
  <2> HIDE DEF P
  <2>2. P \in SUBSET Nat
    BY DEF P
  <2> QED BY <1>7, <2>1, <2>2, AllNats
<1>9. MaxDepth \in Nat /\ Agree(MaxDepth)
  BY <1>8, FilterAssumption
<1>10. c[MaxDepth][f] => s[MaxDepth][f] = {m[MaxDepth][f]}
  BY <1>9 DEF Agree
<1>11. m[MaxDepth][f] \in BOOLEAN
  BY <1>9 DEF Agree
<1> QED BY <1>3, <1>10, <1>11 DEF Comparable, Selects, Matches, s, m, c

-----------------------------------------------------------------------------
(* Container tags. *)

LEMMA Slice ==
  ASSUME NEW T, NEW t \in Seq(T), NEW a \in 1 .. Len(t) + 1, NEW b \in a - 1 .. Len(t)
  PROVE  /\ SubSeq(t, a, b) \in Seq(T) /\ Len(SubSeq(t, a, b)) = b - a + 1
         /\ \A i \in 1 .. b - a + 1 : SubSeq(t, a, b)[i] = t[a + i - 1]
OBVIOUS

LEMMA SliceOne ==
  ASSUME NEW T, NEW t \in Seq(T), NEW j \in 1 .. Len(t)
  PROVE  SubSeq(t, j, j) = <<t[j]>>
<1>1. j \in Int /\ j - j + 1 = 1 /\ j + 1 - 1 = j
  OBVIOUS
<1>2. SubSeq(t, j, j) \in Seq(T) /\ Len(SubSeq(t, j, j)) = 1 /\ SubSeq(t, j, j)[1] = t[j]
  BY <1>1, Slice
<1>3. ASSUME NEW u \in Seq(T), Len(u) = 1 PROVE u = <<u[1]>>
  BY <1>3
<1> QED BY <1>2, <1>3

\* Concatenation, and equality of sequences.
LEMMA Concatenates ==
  ASSUME NEW T, NEW u \in Seq(T), NEW v \in Seq(T)
  PROVE  /\ u \o v \in Seq(T) /\ Len(u \o v) = Len(u) + Len(v)
         /\ \A i \in 1 .. Len(u) + Len(v) :
              (u \o v)[i] = IF i <= Len(u) THEN u[i] ELSE v[i - Len(u)]
OBVIOUS

LEMMA SameSequence ==
  ASSUME NEW T, NEW u \in Seq(T), NEW v \in Seq(T), Len(u) = Len(v),
         \A i \in 1 .. Len(u) : u[i] = v[i]
  PROVE  u = v
OBVIOUS

LEMMA JoinParts ==
  ASSUME NEW T, NEW t \in Seq(T), NEW a \in 0 .. Len(t), NEW b \in a .. Len(t)
  PROVE  /\ SubSeq(t, 1, a) \in Seq(T) /\ SubSeq(t, a + 1, b) \in Seq(T)
         /\ SubSeq(t, 1, a) \o SubSeq(t, a + 1, b) = SubSeq(t, 1, b)
<1> DEFINE u == SubSeq(t, 1, a)  v == SubSeq(t, a + 1, b)  w == SubSeq(t, 1, b)
<1>0. a \in Nat /\ b \in Nat /\ b - a \in Nat /\ a <= b
  OBVIOUS
<1>1. u \in Seq(T) /\ Len(u) = a /\ \A i \in 1 .. a : u[i] = t[i]
  OBVIOUS
<1>2. v \in Seq(T) /\ Len(v) = b - a /\ \A i \in 1 .. b - a : v[i] = t[a + i]
  OBVIOUS
<1>3. w \in Seq(T) /\ Len(w) = b /\ \A i \in 1 .. b : w[i] = t[i]
  OBVIOUS
<1> HIDE DEF u, v, w
<1>4. u \o v \in Seq(T) /\ Len(u \o v) = b
        /\ \A i \in 1 .. b : (u \o v)[i] = IF i <= a THEN u[i] ELSE v[i - a]
  <2>0. u \in Seq(T) /\ v \in Seq(T)
    BY <1>1, <1>2
  <2>1. u \o v \in Seq(T) /\ Len(u \o v) = Len(u) + Len(v)
    BY <2>0, Concatenates
  <2>2. Len(u) + Len(v) = b
    BY <1>0, <1>1, <1>2
  <2>3. \A i \in 1 .. Len(u) + Len(v) : (u \o v)[i] = IF i <= Len(u) THEN u[i] ELSE v[i - Len(u)]
    BY <2>0, Concatenates
  <2> QED BY <1>1, <2>1, <2>2, <2>3
<1>5. ASSUME NEW i \in 1 .. b PROVE (u \o v)[i] = w[i]
  <2>1. CASE i <= a
    BY <1>0, <1>1, <1>3, <1>4, <2>1
  <2>2. CASE i > a
    <3>1. (u \o v)[i] = v[i - a] /\ i - a \in 1 .. b - a /\ a + (i - a) = i
      BY <1>0, <1>4, <2>2
    <3> QED BY <1>2, <1>3, <3>1
  <2>3. i <= a \/ i > a
    BY <1>0
  <2> QED BY <2>1, <2>2, <2>3
<1>6. u \o v = w
  <2>1. u \o v \in Seq(T) /\ w \in Seq(T) /\ Len(u \o v) = b /\ Len(w) = b
    BY <1>3, <1>4
  <2> QED BY <1>5, <2>1, SameSequence
<1> QED BY <1>1, <1>2, <1>6 DEF u, v, w

\* Consecutive pieces of a sequence, cut at the given ends, flatten to it.
LEMMA FlattenPieces ==
  ASSUME NEW T, NEW t \in Seq(T), NEW pieces \in Seq(Seq(T)), Len(pieces) > 0,
         NEW end \in [0 .. Len(pieces) -> 0 .. Len(t)],
         end[0] = 0, end[Len(pieces)] = Len(t),
         \A i \in 1 .. Len(pieces) : /\ end[i - 1] <= end[i]
                                     /\ pieces[i] = SubSeq(t, end[i - 1] + 1, end[i])
  PROVE  FlattenSeq(pieces) = t
<1> DEFINE k == Len(pieces)
           joined == [i \in 1 .. k |-> SubSeq(t, 1, end[i])]
           Flat(w) == [i \in 1 .. k |-> IF i = 1 THEN pieces[i] ELSE w[i - 1] \o pieces[i]]
           flatten == CHOOSE w : w = Flat(w)
<1>1. k \in Nat /\ k > 0
  OBVIOUS
<1>2. joined = Flat(joined)
  <2>1. ASSUME NEW i \in 1 .. k
        PROVE  joined[i] = IF i = 1 THEN pieces[i] ELSE joined[i - 1] \o pieces[i]
    <3>1. i \in 1 .. Len(pieces) /\ i - 1 \in 0 .. k /\ i \in 0 .. k
      BY <1>1
    <3>2. end[i - 1] \in 0 .. Len(t) /\ end[i] \in end[i - 1] .. Len(t)
      <4>1. end[i - 1] \in 0 .. Len(t) /\ end[i] \in 0 .. Len(t)
        BY <3>1
      <4>2. end[i - 1] <= end[i]
        BY <3>1
      <4> QED BY <4>1, <4>2
    <3>3. pieces[i] = SubSeq(t, end[i - 1] + 1, end[i])
      BY <3>1
    <3>4. SubSeq(t, 1, end[i - 1]) \o pieces[i] = SubSeq(t, 1, end[i])
      BY <3>2, <3>3, JoinParts
    <3>5. CASE i = 1
      <4>1. end[i - 1] = 0 /\ end[i - 1] + 1 = 1
        BY <3>5
      <4>2. pieces[i] = SubSeq(t, 1, end[i])
        BY <3>3, <4>1
      <4>3. joined[i] = SubSeq(t, 1, end[i])
        OBVIOUS
      <4> QED BY <3>5, <4>2, <4>3
    <3>6. CASE i # 1
      <4>1. joined[i - 1] = SubSeq(t, 1, end[i - 1])
        <5>1. i - 1 \in 1 .. k
          BY <1>1, <3>6
        <5> QED BY <5>1
      <4> QED BY <3>4, <3>6, <4>1
    <3> QED BY <3>5, <3>6
  <2> HIDE DEF k
  <2> QED BY <2>1
<1>3. flatten = Flat(flatten)
  <2> HIDE DEF joined, Flat
  <2> QED BY <1>2
<1>4. FlattenSeq(pieces) = flatten[k]
  BY <1>1 DEF FlattenSeq
<1> HIDE DEF flatten
<1>5. ASSUME NEW i \in 1 .. k PROVE flatten[i] = IF i = 1 THEN pieces[i] ELSE flatten[i - 1] \o pieces[i]
  BY <1>3
<1> DEFINE P == {n \in Nat : n + 1 \in 1 .. k => flatten[n + 1] = joined[n + 1]}
<1>6. 0 \in P
  <2>1. 1 \in 1 .. k
    BY <1>1
  <2>2. flatten[1] = pieces[1] /\ joined[1] = pieces[1]
    BY <1>2, <1>5, <2>1
  <2> QED BY <2>2
<1>7. ASSUME NEW n \in P PROVE n + 1 \in P
  <2>1. ASSUME n + 1 + 1 \in 1 .. k PROVE flatten[n + 1 + 1] = joined[n + 1 + 1]
    <3> DEFINE i == n + 1 + 1
    <3>1. n \in Nat /\ i \in 1 .. k /\ i # 1 /\ i - 1 = n + 1 /\ n + 1 \in 1 .. k
      BY <1>1, <2>1
    <3>2. flatten[i - 1] = joined[i - 1]
      BY <3>1
    <3> HIDE DEF i
    <3>3. flatten[i] = flatten[i - 1] \o pieces[i]
      BY <1>5, <3>1
    <3> HIDE DEF joined
    <3>4. Flat(joined)[i] = joined[i - 1] \o pieces[i]
      BY <3>1
    <3>5. joined[i] = joined[i - 1] \o pieces[i]
      BY <1>2, <3>4
    <3>6. flatten[i] = joined[i]
      BY <3>2, <3>3, <3>5
    <3> QED BY <3>6 DEF i
  <2> QED BY <2>1
<1>8. P = Nat
  <2> HIDE DEF P
  <2>1. P \in SUBSET Nat
    BY DEF P
  <2> QED BY <1>6, <1>7, <2>1, AllNats
<1>9. flatten[k] = joined[k]
  <2>1. k - 1 \in Nat /\ k - 1 + 1 = k /\ k \in 1 .. k
    BY <1>1
  <2>2. k - 1 \in P
    <3> HIDE DEF P, k
    <3> QED BY <1>8, <2>1
  <2> HIDE DEF joined
  <2>3. k - 1 + 1 \in 1 .. k => flatten[k - 1 + 1] = joined[k - 1 + 1]
    BY <2>2
  <2> QED BY <2>1, <2>3
<1>10. joined[k] = SubSeq(t, 1, Len(t))
  BY <1>1
<1>11. SubSeq(t, 1, Len(t)) = t
  OBVIOUS
<1> QED BY <1>4, <1>9, <1>10, <1>11

\* A container tag of any length survives parse_container_tag: what it makes of
\* the tag is rejoined to the tag (container_tag.rs:9).
THEOREM TagSurvives ==
  \A t \in String : Reconstruct(Parse(t)) = t
<1> SUFFICES ASSUME NEW t \in String PROVE Reconstruct(Parse(t)) = t
  OBVIOUS
<1> DEFINE T == AnySegment
           n == Len(t)
<1>1. t \in Seq(T) /\ n \in Nat /\ n > 0 /\ User \in T
  BY SegmentAssumption DEF String
<1>2. CASE n < 2
  <2> DEFINE pieces == <<t>>
             end == [i \in 0 .. 1 |-> i]
  <2>1. n = 1 /\ Append(<<>>, t) = pieces /\ pieces \in Seq(Seq(T)) /\ Len(pieces) = 1
    <3>1. n = 1
      <4> HIDE DEF n
      <4> QED BY <1>1, <1>2
    <3> DEFINE Q == Seq(T)
    <3>2. t \in Q
      BY <1>1
    <3> HIDE DEF Q, n
    <3>3. Append(<<>>, t) = <<t>> /\ <<t>> \in Seq(Q) /\ Len(<<t>>) = 1
      BY <3>2
    <3> QED BY <3>1, <3>3 DEF Q
  <2>2. \A i \in 1 .. 1 : end[i - 1] <= end[i] /\ pieces[i] = SubSeq(t, end[i - 1] + 1, end[i])
    <3>1. SubSeq(t, 1, 1) = t
      BY <1>1, <2>1
    <3> QED BY <3>1
  <2>3. end \in [0 .. 1 -> 0 .. n] /\ end[0] = 0 /\ end[1] = n
    BY <2>1
  <2>4. Reconstruct(Parse(t)) = FlattenSeq(pieces)
    BY <1>2, <2>1 DEF Reconstruct, Parse
  <2> HIDE DEF pieces, end
  <2>5. FlattenSeq(pieces) = t
    BY <1>1, <2>1, <2>2, <2>3, FlattenPieces
  <2> QED BY <2>4, <2>5
<1>3. CASE n >= 2 /\ t[n - 1] = User
  <2> DEFINE s == SubSeq(t, 1, n - 2)
             p == (Len(s) + 1) \div 2
             actor == <<User, t[n]>>
             pieces == Append(PairUp(s), actor)
             end == [i \in 0 .. p + 1 |-> IF i = p + 1 THEN n ELSE Least(2 * i, n - 2)]
  <2>1. s \in Seq(T) /\ Len(s) = n - 2 /\ \A i \in 1 .. n - 2 : s[i] = t[i]
    <3>1. n - 2 \in 0 .. n
      BY <1>1, <1>3
    <3>2. SubSeq(t, 1, n - 2) \in Seq(T) /\ Len(SubSeq(t, 1, n - 2)) = n - 2 - 1 + 1
          /\ \A i \in 1 .. n - 2 - 1 + 1 : SubSeq(t, 1, n - 2)[i] = t[1 + i - 1]
      <4>1. 1 \in 1 .. n + 1 /\ n - 2 \in 1 - 1 .. n
        BY <3>1
      <4> QED BY <1>1, <4>1, Slice
    <3>3. n - 2 - 1 + 1 = n - 2 /\ \A i \in 1 .. n - 2 : 1 + i - 1 = i
      <4> HIDE DEF n
      <4> QED BY <1>1
    <3> HIDE DEF n
    <3> QED BY <3>2, <3>3
  <2>2. p \in Nat /\ p = (n - 1) \div 2 /\ (2 * p = n - 2 \/ 2 * p = n - 1)
    <3>1. p = (n - 1) \div 2
      <4>1. Len(s) + 1 = n - 1
        BY <1>1, <2>1
      <4> QED BY <4>1
    <3> HIDE DEF s, p, n
    <3> QED BY <1>1, <1>3, <3>1
  <2> HIDE DEF s, p
  <2>3. ASSUME NEW i \in 1 .. p
        PROVE  /\ 2 * i - 1 \in 1 .. n - 2 /\ Least(2 * (i - 1), n - 2) = 2 * i - 2
               /\ PairUp(s)[i] = SubSeq(t, 2 * i - 1, Least(2 * i, n - 2))
    <3>1. i \in Int /\ 2 * i - 1 \in 1 .. n - 2
      BY <1>1, <1>3, <2>2
    <3>2. Least(2 * (i - 1), n - 2) = 2 * i - 2
      BY <1>1, <3>1 DEF Least
    <3>3. PairUp(s)[i] = IF 2 * i <= Len(s) THEN SubSeq(s, 2 * i - 1, 2 * i) ELSE <<s[2 * i - 1]>>
      BY DEF PairUp, p
    <3>4. CASE 2 * i <= n - 2
      <4>1. Least(2 * i, n - 2) = 2 * i
        BY <3>4 DEF Least
      <4>2. SubSeq(s, 2 * i - 1, 2 * i) = SubSeq(t, 2 * i - 1, 2 * i)
        BY <1>1, <2>1, <3>1, <3>4
      <4> QED BY <2>1, <3>1, <3>2, <3>3, <3>4, <4>1, <4>2
    <3>5. CASE 2 * i > n - 2
      <4>1. 2 * i - 1 = n - 2 /\ Least(2 * i, n - 2) = n - 2
        BY <1>1, <2>2, <3>1, <3>5 DEF Least
      <4>2. n - 2 \in 1 .. n
        BY <1>1, <3>1, <4>1
      <4>3. SubSeq(t, n - 2, n - 2) = <<t[n - 2]>>
        <5> DEFINE j == n - 2
        <5>1. j \in 1 .. Len(t)
          BY <4>2
        <5> HIDE DEF j
        <5>2. SubSeq(t, j, j) = <<t[j]>>
          BY <1>1, <5>1, SliceOne
        <5> QED BY <5>2 DEF j
      <4>4. PairUp(s)[i] = <<s[n - 2]>> /\ s[n - 2] = t[n - 2]
        <5>1. ~(2 * i <= Len(s))
          BY <1>1, <2>1, <3>1, <3>5
        <5>2. n - 2 \in 1 .. n - 2
          BY <1>1, <3>1, <4>1
        <5> HIDE DEF n
        <5> QED BY <2>1, <3>3, <4>1, <5>1, <5>2
      <4> QED BY <3>1, <3>2, <4>1, <4>3, <4>4
    <3> QED BY <1>1, <3>1, <3>4, <3>5
  <2>4. PairUp(s) \in Seq(Seq(T)) /\ Len(PairUp(s)) = p
    <3>1. \A i \in 1 .. p : PairUp(s)[i] \in Seq(T)
      <4>1. TAKE i \in 1 .. p
      <4>2. Least(2 * i, n - 2) \in Int /\ Least(2 * i, n - 2) <= n
        BY <1>1 DEF Least
      <4>3. SubSeq(t, 2 * i - 1, Least(2 * i, n - 2)) \in Seq(T)
        BY <1>1, <2>3, <4>2
      <4> QED BY <2>3, <4>3
    <3>2. PairUp(s) = [i \in 1 .. p |-> PairUp(s)[i]]
      BY DEF PairUp, p
    <3> DEFINE u == PairUp(s)
    <3> HIDE DEF u
    <3>3. u = [i \in 1 .. p |-> u[i]] /\ \A i \in 1 .. p : u[i] \in Seq(T)
      BY <3>1, <3>2 DEF u
    <3> DEFINE Q == Seq(T)
    <3> HIDE DEF Q
    <3>4. \A i \in 1 .. p : u[i] \in Q
      BY <3>3 DEF Q
    <3>5. u \in Seq(Q) /\ Len(u) = p
      BY <2>2, <3>3, <3>4
    <3> QED BY <3>5 DEF u, Q
  <2>5. pieces \in Seq(Seq(T)) /\ Len(pieces) = p + 1
        /\ pieces[p + 1] = actor /\ \A i \in 1 .. p : pieces[i] = PairUp(s)[i]
    <3>1. actor \in Seq(T)
      BY <1>1, <1>3
    <3> HIDE DEF actor
    <3> QED BY <2>2, <2>4, <3>1
  <2>6. actor = SubSeq(t, n - 1, n)
    BY <1>1, <1>3
  <2>7. end \in [0 .. p + 1 -> 0 .. n] /\ end[0] = 0 /\ end[p + 1] = n
        /\ end[p] = n - 2
    <3> HIDE DEF n
    <3>1. ASSUME NEW i \in 0 .. p PROVE Least(2 * i, n - 2) \in 0 .. n
      BY <1>1, <1>3, <2>2 DEF Least
    <3>2. end \in [0 .. p + 1 -> 0 .. n]
      BY <1>1, <2>2, <3>1
    <3>3. Least(2 * 0, n - 2) = 0 /\ Least(2 * p, n - 2) = n - 2
      BY <1>1, <1>3, <2>2 DEF Least
    <3> QED BY <1>1, <2>2, <3>2, <3>3
  <2>8. ASSUME NEW i \in 1 .. p + 1
        PROVE  end[i - 1] <= end[i] /\ pieces[i] = SubSeq(t, end[i - 1] + 1, end[i])
    <3>1. CASE i = p + 1
      <4>1. end[i - 1] = n - 2 /\ end[i] = n
        BY <2>2, <2>7, <3>1
      <4>2. n - 2 + 1 = n - 1 /\ n - 2 <= n
        BY <1>1
      <4> HIDE DEF end, pieces
      <4> QED BY <2>5, <2>6, <3>1, <4>1, <4>2
    <3>2. CASE i # p + 1
      <4>1. i \in 1 .. p /\ i - 1 \in 0 .. p
        BY <2>2, <3>2
      <4>2. end[i - 1] = Least(2 * (i - 1), n - 2) /\ end[i] = Least(2 * i, n - 2)
        BY <2>2, <4>1
      <4> HIDE DEF end, pieces
      <4>3. end[i - 1] = 2 * i - 2 /\ 2 * i - 2 + 1 = 2 * i - 1
        BY <2>3, <4>1, <4>2
      <4>4. end[i - 1] <= end[i]
        BY <1>1, <2>2, <2>3, <4>1, <4>2, <4>3 DEF Least
      <4> QED BY <2>3, <2>5, <4>1, <4>2, <4>3, <4>4
    <3> QED BY <3>1, <3>2
  <2>9. Reconstruct(Parse(t)) = FlattenSeq(pieces)
    BY <1>3 DEF Reconstruct, Parse, s
  <2> HIDE DEF pieces, end
  <2>10. FlattenSeq(pieces) = t
    <3>1. p + 1 > 0
      BY <2>2
    <3> QED BY <1>1, <2>5, <2>7, <2>8, <3>1, FlattenPieces
  <2> QED BY <2>9, <2>10
<1>4. CASE n >= 2 /\ t[n - 1] # User
  <2> DEFINE tags == [i \in 1 .. n - 1 |-> <<t[i]>>]
             pieces == Append(tags, <<t[n]>>)
             end == [i \in 0 .. n |-> i]
             Q == Seq(T)
  <2>1. ASSUME NEW i \in 1 .. n PROVE <<t[i]>> \in Q /\ <<t[i]>> = SubSeq(t, i - 1 + 1, i)
    BY <1>1, <2>1
  <2> HIDE DEF Q
  <2>2. tags \in Seq(Q) /\ Len(tags) = n - 1
    BY <1>1, <1>4, <2>1
  <2>3. pieces \in Seq(Q) /\ Len(pieces) = n /\ \A i \in 1 .. n : pieces[i] = <<t[i]>>
    <3>1. <<t[n]>> \in Q
      BY <1>1, <2>1
    <3>2. \A i \in 1 .. n - 1 : tags[i] = <<t[i]>>
      OBVIOUS
    <3> HIDE DEF tags
    <3> QED BY <1>1, <1>4, <2>2, <3>1, <3>2
  <2>4. end \in [0 .. n -> 0 .. n] /\ end[0] = 0 /\ end[n] = n
    BY <1>1
  <2>5. Reconstruct(Parse(t)) = FlattenSeq(pieces)
    BY <1>1, <1>4 DEF Reconstruct, Parse
  <2> HIDE DEF pieces
  <2>6. ASSUME NEW i \in 1 .. n
        PROVE  end[i - 1] <= end[i] /\ pieces[i] = SubSeq(t, end[i - 1] + 1, end[i])
    <3>1. end[i - 1] = i - 1 /\ end[i] = i
      BY <1>1
    <3>2. pieces[i] = SubSeq(t, i - 1 + 1, i) /\ i - 1 <= i
      BY <2>1, <2>3
    <3> HIDE DEF end
    <3> QED BY <3>1, <3>2
  <2> HIDE DEF end
  <2>7. pieces \in Seq(Seq(T))
    BY <2>3 DEF Q
  <2>8. FlattenSeq(pieces) = t
    BY <1>1, <2>3, <2>4, <2>6, <2>7, FlattenPieces
  <2> QED BY <2>5, <2>8
<1> QED BY <1>1, <1>2, <1>3, <1>4

-----------------------------------------------------------------------------
(* The inductive invariant of a search. *)

Recalling == request.mode \in {"memories", "hybrid"}

\* The memories that the SQL of a recall may return.
Rows == {m \in MemoriesInScope : Passes(Memory[m].meta)}

\* How far a request of each mode can be, and what it has then.
StageInv ==
  /\ request \in Request
  /\ \/ stage \in {"asked", "failed"}
     \/ stage = "pooled" /\ Recalling
     \/ stage = "recalled" /\ request.mode = "hybrid"
     \/ stage = "fetched" /\ request.mode # "grouped"
     \/ stage = "grouping" /\ request.mode = "grouped"
     \/ stage = "answered"
  /\ stage \in {"asked", "pooled"} => results = <<>>

Distinct(s) == \A i, j \in 1 .. Len(s) : s[i] = s[j] => i = j

PoolIds == {pool[i].id : i \in 1 .. Len(pool)}

\* How many entries of the index a walk may leave unvisited.
Unvisited == Greatest(0, Cardinality(DOMAIN Memory) - MaxScan)

\* The pool holds different rows that the SQL may return; under a container
\* tag it holds all of them when they are few, but for what the walk left out.
PoolInv ==
  /\ pool \in Seq(Hit) /\ Len(pool) <= PoolLimit
  /\ \A i \in 1 .. Len(pool) : pool[i].of = "memory" /\ pool[i].id \in Rows
  /\ Distinct(pool)
  /\ Len(pool) <= Cardinality(Rows)
  /\ /\ stage \notin {"asked", "failed"} /\ Recalling
     /\ Scope.tags # <<>> /\ Cardinality(Rows) <= Least(Fanout, PoolLimit)
     => Cardinality(Rows \ PoolIds) <= Unvisited

\* How many memories recall returns.
Room == Least(RecallLimit, Len(pool))

\* The results begin with memories of the pool, each once, as many as there is
\* room for; whatever is behind them are chunks.
ResultsInv ==
  /\ results \in Seq(Hit)
  /\ stage \in {"recalled", "fetched", "answered"} /\ Recalling =>
       /\ Room <= Len(results)
       /\ stage = "recalled" \/ request.mode = "memories" => Len(results) = Room
       /\ \A i \in 1 .. Room : \E j \in 1 .. Len(pool) : results[i] = pool[j]
       /\ \A i, j \in 1 .. Room : results[i] = results[j] => i = j
       /\ \A i \in Room + 1 .. Len(results) : results[i].of = "chunk"
       /\ Len(pool) <= RecallLimit =>
            \A j \in 1 .. Len(pool) : \E i \in 1 .. Room : results[i] = pool[j]

\* The chunks that grouping starts from are in order of their scores.
ChunksInv ==
  stage \in {"grouping", "answered"} /\ request.mode = "grouped" =>
    /\ \A i \in 1 .. Len(results) : results[i].id \in DOMAIN Chunk
    /\ \A i, j \in 1 .. Len(results) : i < j => results[i].score >= results[j].score

\* The positions of the hits that meet the cutoff.
Kept == {i \in DOMAIN results :
           \A percent \in request.threshold : AboveCutoff(results[i], percent)}

AnswerInv ==
  /\ stage # "answered" => answer = <<>>
  /\ stage = "answered" /\ request.mode # "grouped" =>
       answer = Truncate(Picked(results, Kept), Limit)
  /\ stage = "answered" /\ request.mode = "grouped" =>
       answer = Truncate(Grouped(results)[Len(results)], Limit)

SearchInv == StageInv /\ PoolInv /\ ResultsInv /\ ChunksInv /\ AnswerInv

-----------------------------------------------------------------------------
(* What the steps are made of. *)

LEMMA Limits ==
  ASSUME request \in Request
  PROVE  /\ Limit \in 1 .. MaxLimit /\ MaxLimit \in Nat /\ Limit \in Nat
         /\ RecallLimit \in Nat /\ Limit <= RecallLimit
         /\ request.threshold = {} => RecallLimit = Limit
         /\ PoolLimit \in Nat /\ RecallLimit <= PoolLimit
         /\ PoolLimit <= Greatest(MaxPool, RerankPool)
         /\ ChunkBudget \in Nat
<1>1. /\ DefaultLimit \in 1 .. MaxLimit
      /\ MaxLimit <= MaxPool /\ MinBudget <= MaxBudget
      /\ MaxLimit \in Nat /\ MaxPool \in Nat /\ MinBudget \in Nat /\ MaxBudget \in Nat
      /\ RerankPool \in Nat
  BY RetrievalAssumption
<1>2. Limit \in 1 .. MaxLimit
  <2>1. CASE request.limit = {}
    BY <1>1, <2>1 DEF Limit
  <2>2. CASE request.limit # {}
    <3> DEFINE n == CHOOSE x \in request.limit : TRUE
    <3>1. n \in request.limit /\ request.limit \subseteq Int
      BY <2>2, RequestAssumption
    <3>2. Limit = Clamp(n, 1, MaxLimit)
      BY <2>2 DEF Limit
    <3> HIDE DEF n
    <3>3. n \in Int
      BY <3>1
    <3> QED BY <1>1, <3>2, <3>3 DEF Clamp, Greatest, Least
  <2> QED BY <2>1, <2>2
<1>3. RecallLimit \in Nat /\ Limit <= RecallLimit /\ RecallLimit <= MaxPool
  <2>1. FilterPool(Limit) \in Nat /\ Limit <= FilterPool(Limit) /\ FilterPool(Limit) <= MaxPool
    BY <1>1, <1>2 DEF FilterPool, Least
  <2> QED BY <1>1, <1>2, <2>1 DEF RecallLimit
<1>4. /\ PoolLimit \in Nat /\ RecallLimit <= PoolLimit
      /\ PoolLimit <= Greatest(MaxPool, RerankPool)
  BY <1>1, <1>3 DEF PoolLimit, Greatest
<1>5. ChunkBudget \in Nat
  BY <1>1, <1>2 DEF ChunkBudget, Clamp, Greatest, Least
<1> QED BY <1>1, <1>2, <1>3, <1>4, <1>5 DEF RecallLimit

\* What a request asks for does not change while it is served.
LEMMA SameRequest ==
  ASSUME UNCHANGED request
  PROVE  /\ UNCHANGED <<Limit, RecallLimit, PoolLimit, Tag, Scope, MemoriesInScope, Rows>>
         /\ UNCHANGED Recalling
<1>1. UNCHANGED <<Limit, RecallLimit, PoolLimit, Tag, Scope>>
  BY DEF Limit, RecallLimit, PoolLimit, Tag, Scope
<1>2. UNCHANGED MemoriesInScope
  BY <1>1 DEF MemoriesInScope, Visible
<1>3. UNCHANGED Rows
  BY <1>2 DEF Rows, Passes
<1> QED BY <1>1, <1>2, <1>3 DEF Recalling

LEMMA RowsFinite ==
  /\ IsFiniteSet(Rows) /\ Rows \subseteq DOMAIN Memory /\ DOMAIN Memory \subseteq Nat
  /\ Rows \subseteq MemoriesInScope /\ IsFiniteSet(MemoriesInScope)
  /\ Cardinality(Rows) \in Nat /\ Cardinality(MemoriesInScope) \in Nat
  /\ Cardinality(Rows) <= Cardinality(MemoriesInScope)
<1>1. Rows \in SUBSET MemoriesInScope /\ MemoriesInScope \in SUBSET DOMAIN Memory
  BY DEF Rows, MemoriesInScope
<1>2. IsFiniteSet(DOMAIN Memory) /\ DOMAIN Memory \subseteq Nat
  BY RetrievalAssumption
<1>3. IsFiniteSet(MemoriesInScope)
  BY <1>1, <1>2, FS_Subset
<1>4. IsFiniteSet(Rows) /\ Cardinality(Rows) <= Cardinality(MemoriesInScope)
  BY <1>1, <1>3, FS_Subset
<1> QED BY <1>1, <1>2, <1>3, <1>4, FS_CardinalityType

\* A page of the SQL: different rows, the best scores first, all of them if
\* there is room.
LEMMA RankedHolds ==
  ASSUME NEW S \in SUBSET Nat, IsFiniteSet(S), NEW score \in [S -> Score],
         NEW limit \in Nat, NEW kind \in {"memory", "chunk"},
         NEW r, r = Ranked(S, score, limit, kind)
  PROVE  /\ r \in Seq(Hit) /\ Cardinality(S) \in Nat
         /\ Len(r) = Least(Cardinality(S), limit)
         /\ \A i \in 1 .. Len(r) : r[i].of = kind /\ r[i].id \in S
         /\ \A i, j \in 1 .. Len(r) : i < j => r[i].score >= r[j].score
         /\ \A i, j \in 1 .. Len(r) : r[i] = r[j] => i = j
         /\ Cardinality(S) <= limit => \A m \in S : \E i \in 1 .. Len(r) : r[i].id = m
<1> DEFINE ahead == [a \in S |-> {b \in S : score[b] > score[a] \/ (score[b] = score[a] /\ b < a)}]
           ids == InOrder(S, ahead)
           n == Cardinality(S)
           top == Least(n, limit)
<1>1. ASSUME NEW a \in S PROVE a \in Int /\ score[a] \in Int
  <2>1. Score \subseteq Nat
    BY RetrievalAssumption
  <2>2. a \in Nat /\ score[a] \in Score
    OBVIOUS
  <2>3. score[a] \in Nat
    BY <2>1, <2>2
  <2> QED BY <2>2, <2>3
<1>2. \A a, b \in S : b \in ahead[a] <=> score[b] > score[a] \/ (score[b] = score[a] /\ b < a)
  OBVIOUS
<1>3. ahead \in [S -> SUBSET S]
  OBVIOUS
<1> HIDE DEF ahead
<1>4. /\ \A a \in S : a \notin ahead[a]
      /\ \A a, b \in S : a = b \/ a \in ahead[b] \/ b \in ahead[a]
  <2>1. ASSUME NEW a \in S, NEW b \in S, a # b PROVE a \in ahead[b] \/ b \in ahead[a]
    <3>1. a \in Int /\ b \in Int /\ score[a] \in Int /\ score[b] \in Int
      BY <1>1
    <3>2. \/ score[b] > score[a] \/ (score[b] = score[a] /\ b < a)
          \/ score[a] > score[b] \/ (score[a] = score[b] /\ a < b)
      BY <2>1, <3>1
    <3> QED BY <1>2, <3>2
  <2>2. ASSUME NEW a \in S PROVE a \notin ahead[a]
    BY <1>1, <1>2
  <2> QED BY <2>1, <2>2
<1>5. ASSUME NEW a \in S, NEW b \in S, b \in ahead[a] PROVE ahead[b] \subseteq ahead[a]
  <2>1. ASSUME NEW c \in ahead[b] PROVE c \in ahead[a]
    <3>1. c \in S
      BY <1>3, <2>1
    <3>2. /\ score[b] > score[a] \/ (score[b] = score[a] /\ b < a)
          /\ score[c] > score[b] \/ (score[c] = score[b] /\ c < b)
      BY <1>2, <1>5, <2>1, <3>1
    <3>3. score[c] > score[a] \/ (score[c] = score[a] /\ c < a)
      BY <1>1, <3>1, <3>2
    <3> QED BY <1>2, <3>1, <3>3
  <2> QED BY <2>1
<1>6. /\ n \in Nat
      /\ ids \in [1 .. n -> S]
      /\ \A x \in S : \E k \in 1 .. n : ids[k] = x
      /\ \A j, k \in 1 .. n : j < k => ids[j] \in ahead[ids[k]]
  <2> HIDE DEF ids
  <2>1. ids = InOrder(S, ahead)
    BY DEF ids
  <2>2. \A a, b \in S : b \in ahead[a] => ahead[b] \subseteq ahead[a]
    BY <1>5
  <2>3. StrictOrder(S, ahead)
    BY <1>3, <1>4, <2>2 DEF StrictOrder
  <2>4. Lists(ids, S, ahead)
    BY <2>1, <2>3, OrderIsOrder
  <2> QED BY <2>4 DEF Lists
<1>7. r = [i \in 1 .. top |-> [of |-> kind, id |-> ids[i], score |-> score[ids[i]]]]
  <2>1. Len(ids) = n
    BY <1>6
  <2> QED BY <2>1 DEF Ranked, ahead
<1> HIDE DEF ids
<1>8. top \in Nat /\ top <= n /\ (n <= limit => top = n)
  BY <1>6 DEF Least
<1> HIDE DEF top, n
<1>9. ASSUME NEW i \in 1 .. top
      PROVE  /\ ids[i] \in S /\ i \in 1 .. n
             /\ r[i].of = kind /\ r[i].id = ids[i] /\ r[i].score = score[ids[i]]
             /\ r[i] \in Hit
  <2>1. i \in 1 .. n
    BY <1>6, <1>8
  <2>2. ids[i] \in S
    BY <1>6, <2>1
  <2>3. r[i] = [of |-> kind, id |-> ids[i], score |-> score[ids[i]]]
    BY <1>7
  <2>4. ids[i] \in Nat /\ score[ids[i]] \in Score
    BY <2>2
  <2> QED BY <2>1, <2>2, <2>3, <2>4 DEF Hit
<1>10. r \in Seq(Hit) /\ Len(r) = top
  <2> DEFINE H == Hit
  <2>1. \A i \in 1 .. top : r[i] \in H
    BY <1>9
  <2>2. r = [i \in 1 .. top |-> r[i]]
    BY <1>7
  <2> HIDE DEF H
  <2>3. r \in Seq(H) /\ Len(r) = top
    BY <1>8, <2>1, <2>2
  <2> QED BY <2>3 DEF H
<1>11. ASSUME NEW i \in 1 .. top, NEW j \in 1 .. top, i < j
       PROVE  r[i].score >= r[j].score /\ r[i].id # r[j].id
  <2>1. ids[i] \in S /\ ids[j] \in S /\ ids[i] \in ahead[ids[j]]
    BY <1>6, <1>9, <1>11
  <2>2. ids[i] # ids[j] /\ score[ids[i]] >= score[ids[j]]
    <3>1. ASSUME NEW a \in S, NEW b \in S, a \in ahead[b] PROVE a # b /\ score[a] >= score[b]
      BY <1>1, <1>2, <1>4, <3>1
    <3> QED BY <2>1, <3>1
  <2>3. r[i].id = ids[i] /\ r[i].score = score[ids[i]] /\ r[j].id = ids[j] /\ r[j].score = score[ids[j]]
    BY <1>9
  <2> QED BY <2>2, <2>3
<1>12. ASSUME NEW i \in 1 .. top, NEW j \in 1 .. top, r[i] = r[j] PROVE i = j
  <2>1. ~(i < j) /\ ~(j < i)
    BY <1>11, <1>12
  <2> QED BY <1>8, <2>1
<1>13. ASSUME n <= limit, NEW m \in S PROVE \E i \in 1 .. top : r[i].id = m
  <2>1. PICK k \in 1 .. n : ids[k] = m
    BY <1>6
  <2>2. k \in 1 .. top
    BY <1>8, <1>13
  <2>3. r[k].id = ids[k]
    BY <1>9, <2>2
  <2> QED BY <2>1, <2>2, <2>3
<1> QED BY <1>6, <1>9, <1>10, <1>11, <1>12, <1>13 DEF top, n

Permutes(r, s) ==
  /\ Len(r) = Len(s)
  /\ \A i \in 1 .. Len(s) : \E j \in 1 .. Len(s) : r[i] = s[j]
  /\ \A j \in 1 .. Len(s) : \E i \in 1 .. Len(s) : r[i] = s[j]
  /\ Distinct(s) => Distinct(r)

\* A reranker's answer, whatever it is, permutes the hits.
LEMMA ReorderHolds ==
  ASSUME NEW T, NEW hits \in Seq(T), NEW scored \in Seq(Nat)
  PROVE  Reorder(hits, scored) \in Seq(T) /\ Permutes(Reorder(hits, scored), hits)
<1> DEFINE r == Reorder(hits, scored)
<1> DEFINE n == Len(hits)
           turn(i) == IF i \in ToSet(scored) THEN SelectInSeq(scored, LAMBDA j : j = i)
                      ELSE Len(scored) + i
           S == 1 .. n
           ahead == [i \in S |-> {j \in S : turn(j) < turn(i)}]
           order == InOrder(S, ahead)
<1>1. n \in Nat /\ IsFiniteSet(S) /\ Cardinality(S) = n
  BY FS_Interval
<1>2. ASSUME NEW i \in S
      PROVE  /\ turn(i) \in Nat
             /\ i \in ToSet(scored) => turn(i) \in 1 .. Len(scored) /\ scored[turn(i)] = i
             /\ i \notin ToSet(scored) => turn(i) = Len(scored) + i
  <2>1. CASE i \in ToSet(scored)
    <3> DEFINE I == {k \in 1 .. Len(scored) : scored[k] = i}
    <3>1. I # {} /\ I \in SUBSET Nat
      <4>1. PICK k \in DOMAIN scored : scored[k] = i
        BY <2>1 DEF ToSet
      <4>2. DOMAIN scored = 1 .. Len(scored)
        OBVIOUS
      <4>3. k \in I
        BY <4>1, <4>2
      <4> QED BY <4>3
    <3>2. Min(I) \in I
      <4>1. \E x \in I : \A y \in I : x =< y
        BY <3>1, LeastNat
      <4> HIDE DEF I
      <4> QED BY <4>1 DEF Min
    <3>3. turn(i) = Min(I)
      BY <2>1, <3>1 DEF SelectInSeq
    <3> QED BY <2>1, <3>2, <3>3
  <2>2. CASE i \notin ToSet(scored)
    BY <1>1, <2>2
  <2> QED BY <2>1, <2>2
<1> HIDE DEF turn
<1>3. \A i, j \in S : turn(i) = turn(j) => i = j
  BY <1>1, <1>2
<1>4. \A i, j \in S : j \in ahead[i] <=> turn(j) < turn(i)
  OBVIOUS
<1>5. ahead \in [S -> SUBSET S]
  OBVIOUS
<1> HIDE DEF ahead, S
<1>6. /\ \A i \in S : i \notin ahead[i]
      /\ \A i, j \in S : i = j \/ i \in ahead[j] \/ j \in ahead[i]
  BY <1>2, <1>3, <1>4
<1>7. ASSUME NEW i \in S, NEW j \in S, j \in ahead[i] PROVE ahead[j] \subseteq ahead[i]
  <2>1. ASSUME NEW k \in ahead[j] PROVE k \in ahead[i]
    <3>1. k \in S
      BY <1>5, <2>1
    <3> QED BY <1>2, <1>4, <1>7, <2>1, <3>1
  <2> QED BY <2>1
<1>8. /\ order \in [1 .. n -> S]
      /\ \A x \in S : \E k \in 1 .. n : order[k] = x
      /\ \A j, k \in 1 .. n : j < k => order[j] \in ahead[order[k]]
  <2> HIDE DEF order
  <2>1. order = InOrder(S, ahead)
    BY DEF order
  <2>2. StrictOrder(S, ahead)
    BY <1>5, <1>6, <1>7 DEF StrictOrder
  <2>3. Lists(order, S, ahead)
    BY <1>1, <2>1, <2>2, OrderIsOrder
  <2> QED BY <1>1, <2>3 DEF Lists
<1>9. RerankedOrder(n, scored) = order
  BY DEF RerankedOrder, turn, ahead, S
<1>10. r = [k \in 1 .. n |-> hits[order[k]]]
  BY <1>9 DEF Reorder
<1> HIDE DEF order, r
<1>11. \A j, k \in 1 .. n : order[j] = order[k] => j = k
  <2>1. ASSUME NEW j \in 1 .. n, NEW k \in 1 .. n, order[j] = order[k] PROVE j = k
    <3>1. order[j] \in S /\ order[k] \in S
      BY <1>8
    <3>2. ~(j < k) /\ ~(k < j)
      BY <1>6, <1>8, <2>1, <3>1
    <3> HIDE DEF n
    <3> QED BY <1>1, <3>2
  <2> QED BY <2>1
<1>12. \A k \in 1 .. n : order[k] \in 1 .. n /\ r[k] = hits[order[k]]
  BY <1>8, <1>10 DEF S
<1>13. r \in Seq(T) /\ Len(r) = n
  <2> DEFINE q == [k \in 1 .. n |-> hits[order[k]]]
  <2>1. \A k \in 1 .. n : hits[order[k]] \in T
    BY <1>12
  <2>2. q \in Seq(T) /\ Len(q) = n
    <3> HIDE DEF n
    <3> QED BY <1>1, <2>1
  <2> QED BY <1>10, <2>2
<1>14. ASSUME NEW j \in 1 .. n PROVE \E i \in 1 .. n : r[i] = hits[j]
  <2>1. j \in S
    BY DEF S
  <2>2. PICK i \in 1 .. n : order[i] = j
    BY <1>8, <2>1
  <2>3. r[i] = hits[j]
    BY <1>12, <2>2
  <2> QED BY <2>3
<1>15. ASSUME \A i, j \in 1 .. n : hits[i] = hits[j] => i = j,
              NEW i \in 1 .. n, NEW j \in 1 .. n, r[i] = r[j]
       PROVE  i = j
  <2>1. order[i] = order[j]
    BY <1>12, <1>15
  <2> QED BY <1>11, <2>1
<1>16. ASSUME NEW i \in 1 .. n PROVE \E j \in 1 .. n : r[i] = hits[j]
  BY <1>12
<1>17. Distinct(hits) => Distinct(r)
  BY <1>13, <1>15 DEF Distinct
<1>18. Permutes(r, hits)
  BY <1>13, <1>14, <1>16, <1>17 DEF Permutes
<1> QED BY <1>13, <1>18 DEF r

-----------------------------------------------------------------------------
(* Every step keeps the invariant. *)

LEMMA NoPool ==
  ASSUME request \in Request, pool = <<>>, stage \in {"asked", "failed"}
  PROVE  PoolInv
<1>1. pool \in Seq(Hit) /\ Len(pool) = 0 /\ 1 .. Len(pool) = {}
  OBVIOUS
<1>2. PoolLimit \in Nat /\ Cardinality(Rows) \in Nat
  BY Limits, RowsFinite
<1>3. Distinct(pool)
  BY <1>1 DEF Distinct
<1> QED BY <1>1, <1>2, <1>3 DEF PoolInv

LEMMA RetrievalInitInv == RetrievalInit => SearchInv
<1> SUFFICES ASSUME RetrievalInit PROVE SearchInv
  OBVIOUS
<1>1. request \in Request /\ stage = "asked" /\ pool = <<>> /\ results = <<>> /\ answer = <<>>
  BY DEF RetrievalInit
<1>2. PoolInv
  BY <1>1, NoPool
<1> QED BY <1>1, <1>2 DEF SearchInv, StageInv, ResultsInv, ChunksInv, AnswerInv

\* The pool stays what it is while the rest of the request is served.
LEMMA PoolKept ==
  ASSUME PoolInv, UNCHANGED <<request, pool>>,
         stage' = "failed" \/ stage \notin {"asked", "failed"} \/ stage' = stage \/ ~Recalling
  PROVE  PoolInv'
<1>1. /\ UNCHANGED <<PoolLimit, Scope, Rows, Recalling>>
  BY SameRequest
<1>2. UNCHANGED <<PoolIds, Unvisited>>
  BY DEF PoolIds, Unvisited, Greatest
<1> QED BY <1>1, <1>2 DEF PoolInv

LEMMA RecallInv == ASSUME SearchInv, RecallMemories PROVE SearchInv'
<1>1. /\ stage = "asked" /\ Recalling /\ stage' = "pooled"
      /\ UNCHANGED <<request, results, answer>> /\ request \in Request
      /\ results = <<>> /\ answer = <<>>
  BY DEF RecallMemories, SearchInv, StageInv, AnswerInv, Recalling
<1>2. UNCHANGED <<PoolLimit, Scope, Rows, Recalling>>
  BY <1>1, SameRequest
<1>3. PoolLimit \in Nat
  BY <1>1, Limits
<1>4. PICK found \in Reached(DOMAIN Memory, Rows, PoolLimit) : \E score \in [found -> Score] :
        pool' = Ranked(found, score, PoolLimit, "memory")
  BY DEF RecallMemories, Rows
<1>5. PICK score \in [found -> Score] : pool' = Ranked(found, score, PoolLimit, "memory")
  BY <1>4
<1>6. /\ found \in SUBSET Rows
      /\ Scope.tags # <<>> =>
           \/ Cardinality(found) >= Least(Greatest(Fanout, PoolLimit), Cardinality(Rows))
           \/ Cardinality(Rows \ found) + MaxScan <= Cardinality(DOMAIN Memory)
  BY <1>4 DEF Reached
<1>7. /\ found \in SUBSET Nat /\ IsFiniteSet(found)
      /\ Cardinality(found) <= Cardinality(Rows)
      /\ Cardinality(Rows) = Cardinality(found) => Rows = found
      /\ Cardinality(Rows) \in Nat /\ Cardinality(found) \in Nat
  <2>1. IsFiniteSet(Rows) /\ Rows \subseteq Nat /\ Cardinality(Rows) \in Nat
    BY RowsFinite
  <2>2. IsFiniteSet(found) /\ Cardinality(found) <= Cardinality(Rows)
        /\ (Cardinality(Rows) = Cardinality(found) => Rows = found)
    BY <1>6, <2>1, FS_Subset
  <2> QED BY <1>6, <2>1, <2>2, FS_CardinalityType
<1> DEFINE r == pool'
<1>8. /\ r \in Seq(Hit) /\ Len(r) = Least(Cardinality(found), PoolLimit)
      /\ \A i \in 1 .. Len(r) : r[i].of = "memory" /\ r[i].id \in found
      /\ Distinct(r)
      /\ Cardinality(found) <= PoolLimit => \A m \in found : \E i \in 1 .. Len(r) : r[i].id = m
  <2> HIDE DEF r
  <2>1. r = Ranked(found, score, PoolLimit, "memory")
    BY <1>5 DEF r
  <2>2. found \in SUBSET Nat /\ IsFiniteSet(found)
    BY <1>7
  <2>3. r \in Seq(Hit) /\ Len(r) = Least(Cardinality(found), PoolLimit)
    BY <1>3, <2>1, <2>2, RankedHolds
  <2>4. \A i \in 1 .. Len(r) : r[i].of = "memory" /\ r[i].id \in found
    BY <1>3, <2>1, <2>2, RankedHolds
  <2>5. \A i, j \in 1 .. Len(r) : r[i] = r[j] => i = j
    BY <1>3, <2>1, <2>2, RankedHolds
  <2>6. Cardinality(found) <= PoolLimit => \A m \in found : \E i \in 1 .. Len(r) : r[i].id = m
    BY <1>3, <2>1, <2>2, RankedHolds
  <2> QED BY <2>3, <2>4, <2>5, <2>6 DEF Distinct
<1>9. Len(r) <= PoolLimit /\ Len(r) <= Cardinality(Rows)
  BY <1>3, <1>7, <1>8 DEF Least
<1>10. ASSUME Scope.tags # <<>>, Cardinality(Rows) <= Least(Fanout, PoolLimit)
       PROVE  Cardinality(Rows \ found) <= Unvisited /\ Cardinality(found) <= PoolLimit
  <2>1. Fanout \in Nat /\ MaxScan \in Nat
    BY RetrievalAssumption
  <2>2. Least(Greatest(Fanout, PoolLimit), Cardinality(Rows)) = Cardinality(Rows)
        /\ Cardinality(Rows) <= PoolLimit
    BY <1>3, <1>7, <1>10, <2>1 DEF Least, Greatest
  <2> DEFINE all == Cardinality(DOMAIN Memory)
             rest == Cardinality(Rows \ found)
  <2>3. all \in Nat
    BY RetrievalAssumption, FS_CardinalityType
  <2> HIDE DEF all
  <2>6. Unvisited \in Nat /\ all - MaxScan <= Unvisited
    BY <2>1, <2>3 DEF Unvisited, Greatest, all
  <2> HIDE DEF rest
  <2>4. CASE Cardinality(found) >= Cardinality(Rows)
    <3>1. Rows \ found = {}
      BY <1>7, <2>4
    <3>2. rest = 0
      BY <3>1, FS_EmptySet DEF rest
    <3>3. rest <= Unvisited
      BY <2>6, <3>2
    <3>4. Cardinality(found) <= PoolLimit
      BY <1>3, <1>7, <2>2
    <3> QED BY <3>3, <3>4 DEF rest
  <2>5. CASE rest + MaxScan <= all
    <3>1. rest \in Nat
      <4>1. IsFiniteSet(Rows) /\ Rows \ found \in SUBSET Rows
        BY RowsFinite
      <4> QED BY <4>1, FS_Subset, FS_CardinalityType DEF rest
    <3>2. rest <= Unvisited
      BY <2>1, <2>3, <2>5, <2>6, <3>1
    <3>3. Cardinality(found) <= PoolLimit
      BY <1>3, <1>7, <2>2
    <3> QED BY <3>2, <3>3 DEF rest
  <2> QED BY <1>6, <1>10, <2>2, <2>4, <2>5 DEF all, rest
<1>11. PoolInv'
  <2>1. Len(pool') <= PoolLimit' /\ Len(pool') <= Cardinality(Rows')
    BY <1>2, <1>9
  <2>2. \A i \in 1 .. Len(pool') : pool'[i].of = "memory" /\ pool'[i].id \in Rows'
    BY <1>2, <1>6, <1>8
  <2>3. Least(Fanout, PoolLimit)' = Least(Fanout, PoolLimit) /\ Unvisited' = Unvisited
    BY <1>2 DEF Least, Unvisited, Greatest
  <2>4. (Scope.tags # <<>> /\ Cardinality(Rows) <= Least(Fanout, PoolLimit))'
        => Cardinality(Rows \ PoolIds)' <= Unvisited'
    <3>1. SUFFICES ASSUME Scope.tags # <<>>, Cardinality(Rows) <= Least(Fanout, PoolLimit)
                   PROVE  Cardinality(Rows \ PoolIds)' <= Unvisited
      BY <1>2, <2>3
    <3>2. PoolIds' = found
      BY <1>8, <1>10, <3>1 DEF PoolIds
    <3>3. (Rows \ PoolIds)' = Rows \ found
      BY <1>2, <3>2
    <3> QED BY <1>10, <3>1, <3>3
  <2> QED BY <1>8, <2>1, <2>2, <2>4 DEF PoolInv
<1> QED BY <1>1, <1>2, <1>11 DEF SearchInv, StageInv, ResultsInv, ChunksInv, AnswerInv, Recalling

\* Recall returns the front of the pool in whatever order it has got.
LEMMA RecalledFrom ==
  ASSUME SearchInv, stage = "pooled", stage' = AfterRecall, UNCHANGED <<request, pool, answer>>,
         NEW r \in Seq(Hit), Permutes(r, pool), results' = Truncate(r, RecallLimit)
  PROVE  SearchInv'
<1>1. request \in Request /\ Recalling /\ answer = <<>> /\ pool \in Seq(Hit)
      /\ RecallLimit \in Nat /\ Len(pool) \in Nat
  BY Limits DEF SearchInv, StageInv, PoolInv, AnswerInv
<1>2. UNCHANGED <<RecallLimit, Recalling>>
  BY SameRequest
<1>0. /\ Len(r) = Len(pool) /\ Distinct(r)
      /\ \A i \in 1 .. Len(pool) : \E j \in 1 .. Len(pool) : r[i] = pool[j]
      /\ \A j \in 1 .. Len(pool) : \E i \in 1 .. Len(pool) : r[i] = pool[j]
  BY DEF Permutes, SearchInv, PoolInv
<1>3. \/ stage' = "recalled" /\ request.mode = "hybrid"
      \/ stage' = "fetched" /\ request.mode = "memories"
  BY <1>1 DEF AfterRecall, Recalling
<1>4. Room \in 0 .. Len(pool) /\ Room' = Room /\ Room = Least(Len(pool), RecallLimit)
      /\ (Len(pool) <= RecallLimit => Room = Len(pool))
  BY <1>1, <1>2 DEF Room, Least
<1>5. /\ results' \in Seq(Hit) /\ Len(results') = Room
      /\ \A i \in 1 .. Room : results'[i] = r[i]
  <2> DEFINE u == Truncate(r, RecallLimit)
  <2>1. /\ u \in Seq(Hit) /\ Len(u) = Least(Len(r), RecallLimit)
        /\ \A i \in 1 .. Least(Len(r), RecallLimit) : u[i] = r[i]
    BY <1>1, TruncateHolds
  <2> HIDE DEF u
  <2>2. Least(Len(r), RecallLimit) = Room
    BY <1>0, <1>4
  <2>3. results' = u
    BY DEF u
  <2> QED BY <2>1, <2>2, <2>3
<1>6. ResultsInv'
  <2>1. \A i \in 1 .. Room : i \in 1 .. Len(pool)
    BY <1>1, <1>4
  <2>2. \A i \in 1 .. Room : \E j \in 1 .. Len(pool) : results'[i] = pool[j]
    <3>1. ASSUME NEW i \in 1 .. Room PROVE \E j \in 1 .. Len(pool) : results'[i] = pool[j]
      <4>1. i \in 1 .. Len(pool) /\ results'[i] = r[i]
        BY <1>5, <2>1
      <4> QED BY <1>0, <4>1
    <3> QED BY <3>1
  <2>3. ASSUME NEW i \in 1 .. Room, NEW j \in 1 .. Room, results'[i] = results'[j] PROVE i = j
    <3>1. i \in 1 .. Len(r) /\ j \in 1 .. Len(r) /\ r[i] = r[j]
      BY <1>0, <1>5, <2>1, <2>3
    <3> QED BY <1>0, <3>1 DEF Distinct
  <2>4. Room + 1 .. Len(results') = {}
    BY <1>4, <1>5
  <2>5. Len(pool) <= RecallLimit => \A j \in 1 .. Len(pool) : \E i \in 1 .. Room : results'[i] = pool[j]
    <3>1. ASSUME Len(pool) <= RecallLimit, NEW j \in 1 .. Len(pool)
          PROVE  \E i \in 1 .. Room : results'[i] = pool[j]
      <4>1. PICK i \in 1 .. Len(pool) : r[i] = pool[j]
        BY <1>0
      <4>2. Room = Len(pool)
        BY <1>4, <3>1
      <4>3. i \in 1 .. Room /\ results'[i] = pool[j]
        BY <1>5, <4>1, <4>2
      <4> QED BY <4>3
    <3> QED BY <3>1
  <2>6. Room <= Len(results')
    BY <1>4, <1>5
  <2> QED BY <1>2, <1>4, <1>5, <2>2, <2>3, <2>4, <2>5, <2>6 DEF ResultsInv
<1>7. PoolInv'
  BY PoolKept DEF SearchInv
<1> QED BY <1>1, <1>2, <1>3, <1>6, <1>7 DEF SearchInv, StageInv, ChunksInv, AnswerInv, Recalling

LEMMA RerankInv == ASSUME SearchInv, Rerank PROVE SearchInv'
<1>1. /\ stage = "pooled" /\ stage' = AfterRecall /\ UNCHANGED <<request, pool, answer>>
  BY DEF Rerank
<1>2. PICK scored \in SeqOf(1 .. Len(pool) + 1, Len(pool)) :
        results' = Truncate(Reorder(pool, scored), RecallLimit)
  BY DEF Rerank
<1>3. pool \in Seq(Hit) /\ Len(pool) \in Nat
  BY DEF SearchInv, PoolInv
<1>4. scored \in Seq(Nat)
  <2>1. PICK m \in 0 .. Len(pool) : scored \in [1 .. m -> 1 .. Len(pool) + 1]
    BY <1>2 DEF SeqOf
  <2>2. m \in Nat /\ \A i \in 1 .. m : scored[i] \in Nat
    BY <1>3, <2>1
  <2> QED BY <2>1, <2>2
<1>5. Reorder(pool, scored) \in Seq(Hit) /\ Permutes(Reorder(pool, scored), pool)
  BY <1>3, <1>4, ReorderHolds
<1> QED BY <1>1, <1>2, <1>5, RecalledFrom

LEMMA KeepOrderInv == ASSUME SearchInv, KeepOrder PROVE SearchInv'
<1>1. /\ stage = "pooled" /\ stage' = AfterRecall /\ UNCHANGED <<request, pool, answer>>
      /\ results' = Truncate(pool, RecallLimit)
  BY DEF KeepOrder
<1>2. pool \in Seq(Hit) /\ Permutes(pool, pool)
  BY DEF SearchInv, PoolInv, Permutes
<1> QED BY <1>1, <1>2, RecalledFrom

\* What the two searches for chunks have in common.
ChunkPage(r) ==
  /\ r \in Seq(Hit)
  /\ \A i \in 1 .. Len(r) : r[i].of = "chunk" /\ r[i].id \in DOMAIN Chunk
  /\ \A i, j \in 1 .. Len(r) : i < j => r[i].score >= r[j].score

LEMMA ChunksFound ==
  ASSUME request \in Request, SearchChunks
  PROVE  \E r : ChunkPage(r) /\ results' = results \o r
<1> DEFINE limit == IF request.mode = "grouped" THEN ChunkBudget ELSE RecallLimit
           rows == {c \in ChunksInScope : Passes(Document[Chunk[c].document])}
<1>1. limit \in Nat
  BY Limits
<1>2. PICK found \in Reached(DOMAIN Chunk, rows, limit) : \E score \in [found -> Score] :
        results' = results \o Ranked(found, score, limit, "chunk")
  BY DEF SearchChunks
<1> HIDE DEF limit
<1>3. PICK score \in [found -> Score] : results' = results \o Ranked(found, score, limit, "chunk")
  BY <1>2
<1>4. found \in SUBSET DOMAIN Chunk
  BY <1>2 DEF Reached, ChunksInScope
<1>5. found \in SUBSET Nat /\ IsFiniteSet(found)
  <2>1. IsFiniteSet(DOMAIN Chunk) /\ DOMAIN Chunk \subseteq Nat
    BY RetrievalAssumption
  <2> QED BY <1>4, <2>1, FS_Subset
<1> DEFINE r == Ranked(found, score, limit, "chunk")
<1>6. results' = results \o r
  BY <1>3
<1>7. /\ r \in Seq(Hit)
      /\ \A i \in 1 .. Len(r) : r[i].of = "chunk" /\ r[i].id \in found
      /\ \A i, j \in 1 .. Len(r) : i < j => r[i].score >= r[j].score
  <2> HIDE DEF r
  <2>1. r = Ranked(found, score, limit, "chunk")
    BY DEF r
  <2> QED BY <1>1, <1>5, <2>1, RankedHolds
<1> HIDE DEF r
<1>8. ChunkPage(r)
  BY <1>4, <1>7 DEF ChunkPage
<1> QED BY <1>6, <1>8

LEMMA SearchChunksInv == ASSUME SearchInv, SearchChunks PROVE SearchInv'
<1>1. /\ request \in Request /\ results \in Seq(Hit) /\ PoolInv /\ stage \in {"asked", "recalled"}
      /\ answer = <<>> /\ stage' \in {"grouping", "fetched"}
      /\ UNCHANGED <<request, pool, answer>>
  BY DEF SearchInv, StageInv, ResultsInv, AnswerInv, SearchChunks
<1>2. PICK r : ChunkPage(r) /\ results' = results \o r
  BY <1>1, ChunksFound
<1>3. /\ r \in Seq(Hit)
      /\ \A i \in 1 .. Len(r) : r[i].of = "chunk" /\ r[i].id \in DOMAIN Chunk
      /\ \A i, j \in 1 .. Len(r) : i < j => r[i].score >= r[j].score
  BY <1>2 DEF ChunkPage
<1>4. UNCHANGED <<RecallLimit, Recalling>>
  BY <1>1, SameRequest
<1>5. /\ results' \in Seq(Hit) /\ Len(results') = Len(results) + Len(r)
      /\ Len(results) \in Nat /\ Len(r) \in Nat
      /\ \A i \in 1 .. Len(results) : results'[i] = results[i]
      /\ \A i \in 1 .. Len(r) : results'[Len(results) + i] = r[i]
  BY <1>1, <1>2, <1>3
<1>6. CASE stage = "asked"
  <2>1. ~Recalling /\ ~Recalling' /\ results = <<>> /\ request.mode \in {"documents", "grouped"}
    BY <1>1, <1>4, <1>6 DEF SearchChunks, SearchInv, StageInv, Recalling
  <2>2. results' = r
    BY <1>2, <1>3, <2>1
  <2>3. PoolInv'
    BY <1>1, <2>1, PoolKept
  <2>4. \/ stage' = "grouping" /\ request'.mode = "grouped"
        \/ stage' = "fetched" /\ request'.mode # "grouped"
    BY <1>1, <2>1 DEF SearchChunks
  <2> QED BY <1>1, <1>3, <2>1, <2>2, <2>3, <2>4
          DEF SearchInv, StageInv, ResultsInv, ChunksInv, AnswerInv
<1>7. CASE stage = "recalled"
  <2>1. /\ request.mode = "hybrid" /\ Recalling /\ stage' = "fetched"
    BY <1>1, <1>7 DEF SearchChunks, SearchInv, StageInv, Recalling
  <2>2. /\ Len(results) = Room
        /\ \A i \in 1 .. Room : \E j \in 1 .. Len(pool) : results[i] = pool[j]
        /\ \A i, j \in 1 .. Room : results[i] = results[j] => i = j
        /\ Len(pool) <= RecallLimit =>
             \A j \in 1 .. Len(pool) : \E i \in 1 .. Room : results[i] = pool[j]
    BY <1>7, <2>1 DEF SearchInv, ResultsInv
  <2>3. Room' = Room /\ Room \in Nat
    BY <1>1, <1>4, <1>5, <2>2 DEF Room, Least
  <2>4. \A i \in 1 .. Room : results'[i] = results[i]
    BY <1>5, <2>2
  <2>5. ASSUME NEW i \in Room + 1 .. Len(results') PROVE results'[i].of = "chunk"
    <3>1. i - Room \in 1 .. Len(r) /\ Room + (i - Room) = i
      BY <1>5, <2>2, <2>3
    <3>2. results'[i] = r[i - Room]
      BY <1>5, <2>2, <3>1
    <3> QED BY <1>3, <3>1, <3>2
  <2>6. Room <= Len(results')
    BY <1>5, <2>2, <2>3
  <2>9. \A i \in 1 .. Room : \E j \in 1 .. Len(pool) : results'[i] = pool[j]
    <3>1. ASSUME NEW i \in 1 .. Room PROVE \E j \in 1 .. Len(pool) : results'[i] = pool[j]
      BY <2>2, <2>4
    <3> QED BY <3>1
  <2>10. \A i, j \in 1 .. Room : results'[i] = results'[j] => i = j
    BY <2>2, <2>4
  <2>11. ASSUME Len(pool) <= RecallLimit, NEW j \in 1 .. Len(pool)
         PROVE  \E i \in 1 .. Room : results'[i] = pool[j]
    <3>1. \E i \in 1 .. Room : results[i] = pool[j]
      BY <2>2, <2>11
    <3>2. PICK i \in 1 .. Room : results[i] = pool[j]
      BY <3>1
    <3>3. results'[i] = pool[j]
      BY <2>4, <3>2
    <3> QED BY <3>3
  <2>7. ResultsInv'
    BY <1>1, <1>4, <1>5, <2>1, <2>3, <2>5, <2>6, <2>9, <2>10, <2>11 DEF ResultsInv
  <2>8. PoolInv'
    BY <1>1, <1>7, PoolKept
  <2> QED BY <1>1, <2>1, <2>7, <2>8 DEF SearchInv, StageInv, ChunksInv, AnswerInv
<1> QED BY <1>1, <1>6, <1>7

\* What the last step of a request leaves as it was.
LEMMA Answered ==
  ASSUME SearchInv, UNCHANGED <<request, pool, results>>,
         \/ stage = "fetched" /\ stage' = "answered"
         \/ stage = "grouping" /\ stage' = "answered"
         \/ stage \in {"asked", "recalled"} /\ stage' = "failed"
  PROVE  /\ StageInv' /\ PoolInv' /\ ResultsInv' /\ ChunksInv'
         /\ UNCHANGED <<Kept, Limit>> /\ (stage = "fetched" <=> stage' = "answered" /\ request.mode # "grouped")
<1>1. UNCHANGED <<RecallLimit, Limit, Recalling>>
  BY SameRequest
<1>2. UNCHANGED Kept
  BY DEF Kept, AboveCutoff, TopScore
<1>3. PoolInv'
  BY PoolKept DEF SearchInv
<1>4. StageInv' /\ (stage = "fetched" <=> stage' = "answered" /\ request.mode # "grouped")
  BY DEF SearchInv, StageInv
<1>5. ResultsInv' /\ ChunksInv'
  BY <1>1 DEF SearchInv, StageInv, ResultsInv, ChunksInv, Room, Recalling
<1> QED BY <1>1, <1>2, <1>3, <1>4, <1>5

LEMMA CutInv == ASSUME SearchInv, Cut PROVE SearchInv'
<1>1. /\ stage = "fetched" /\ stage' = "answered" /\ UNCHANGED <<request, pool, results>>
      /\ answer' = Truncate(Picked(results, Kept), Limit)
  BY DEF Cut, Kept
<1>2. /\ StageInv' /\ PoolInv' /\ ResultsInv' /\ ChunksInv'
      /\ UNCHANGED <<Kept, Limit>> /\ request.mode # "grouped"
  BY <1>1, Answered
<1>3. answer' = Truncate(Picked(results', Kept'), Limit')
  BY <1>1, <1>2
<1> QED BY <1>1, <1>2, <1>3 DEF SearchInv, AnswerInv

LEMMA GroupByDocumentInv == ASSUME SearchInv, GroupByDocument PROVE SearchInv'
<1>1. /\ stage = "grouping" /\ stage' = "answered" /\ UNCHANGED <<request, pool, results>>
      /\ answer' = Truncate(Grouped(results)[Len(results)], Limit)
  BY DEF GroupByDocument
<1>2. /\ StageInv' /\ PoolInv' /\ ResultsInv' /\ ChunksInv' /\ UNCHANGED Limit
      /\ request.mode = "grouped"
  BY <1>1, Answered
<1>3. answer' = Truncate(Grouped(results')[Len(results')], Limit')
  BY <1>1, <1>2
<1> QED BY <1>1, <1>2, <1>3 DEF SearchInv, AnswerInv

LEMMA RefuseInv == ASSUME SearchInv, Refuse PROVE SearchInv'
<1>1. stage \in {"asked", "recalled"} /\ stage' = "failed" /\ UNCHANGED <<request, pool, results, answer>>
  BY DEF Refuse
<1>2. StageInv' /\ PoolInv' /\ ResultsInv' /\ ChunksInv'
  BY <1>1, Answered
<1> QED BY <1>1, <1>2 DEF SearchInv, AnswerInv

LEMMA RetrievalStepInv == ASSUME SearchInv, [RetrievalNext]_retrieval PROVE SearchInv'
<1>1. CASE RecallMemories
  BY <1>1, RecallInv
<1>2. CASE Rerank
  BY <1>2, RerankInv
<1>3. CASE KeepOrder
  BY <1>3, KeepOrderInv
<1>4. CASE SearchChunks
  BY <1>4, SearchChunksInv
<1>5. CASE Cut
  BY <1>5, CutInv
<1>6. CASE GroupByDocument
  BY <1>6, GroupByDocumentInv
<1>7. CASE Refuse
  BY <1>7, RefuseInv
<1>8. CASE UNCHANGED retrieval
  <2>1. UNCHANGED <<request, stage, pool, results, answer>>
    BY <1>8 DEF retrieval
  <2>2. UNCHANGED <<RecallLimit, Limit, Recalling>>
    BY <2>1, SameRequest
  <2>3. UNCHANGED Kept
    BY <2>1 DEF Kept, AboveCutoff, TopScore
  <2>4. PoolInv'
    BY <2>1, PoolKept DEF SearchInv
  <2>5. StageInv' /\ ChunksInv'
    BY <2>1 DEF SearchInv, StageInv, ChunksInv, Recalling
  <2>6. ResultsInv'
    BY <2>1, <2>2 DEF SearchInv, ResultsInv, Room
  <2>7. AnswerInv'
    BY <2>1, <2>2, <2>3 DEF SearchInv, AnswerInv
  <2> QED BY <2>4, <2>5, <2>6, <2>7 DEF SearchInv
<1> QED BY <1>1, <1>2, <1>3, <1>4, <1>5, <1>6, <1>7, <1>8 DEF RetrievalNext

LEMMA SearchInvariant == RetrievalSpec => []SearchInv
<1>1. RetrievalInit => SearchInv
  BY RetrievalInitInv
<1>2. SearchInv /\ [RetrievalNext]_retrieval => SearchInv'
  BY RetrievalStepInv
<1> QED BY <1>1, <1>2, PTL DEF RetrievalSpec

-----------------------------------------------------------------------------
(* Theorems. *)

\* A tag that a request resolves to is a string that is taken apart and put
\* together again without loss.
THEOREM TagsSurvive == RetrievalSpec => []TagsRoundTrip
<1>1. SearchInv => TagsRoundTrip
  <2> SUFFICES ASSUME SearchInv, NEW t \in Tag PROVE Reconstruct(Parse(t)) = t
    BY DEF TagsRoundTrip
  <2>1. request.singular \subseteq String /\ request.plural \subseteq Seq(String)
    BY RequestAssumption DEF SearchInv, StageInv
  <2>2. t \in Named(request.singular, request.plural)
    BY DEF Tag, Resolve
  <2>3. t \in String
    <3>1. CASE t \in request.singular
      BY <2>1, <3>1
    <3>2. CASE t \notin request.singular
      <4>1. PICK u \in request.plural : Len(u) = 1 /\ t = u[1]
        BY <2>2, <3>2 DEF Named
      <4>2. u \in Seq(String) /\ 1 \in 1 .. Len(u)
        BY <2>1, <4>1
      <4>3. u[1] \in String
        <5> DEFINE T == String
        <5>1. u \in Seq(T)
          BY <4>2
        <5> HIDE DEF T
        <5>2. u[1] \in T
          BY <4>2, <5>1
        <5> QED BY <5>2 DEF T
      <4> QED BY <4>1, <4>3
    <3> QED BY <3>1, <3>2
  <2> QED BY <2>3, TagSurvives
<1> QED BY <1>1, SearchInvariant, PTL

\* Whatever a reranker answers, recall returns different memories of the pool,
\* as many as it has room for.
THEOREM RerankingKeepsAll == RetrievalSpec => []RerankKeepsAll
<1>1. SearchInv => RerankKeepsAll
  <2> DEFINE places == {i \in DOMAIN results : results[i].of = "memory"}
             recalled == Picked(results, places)
  <2> SUFFICES ASSUME SearchInv, stage \in {"recalled", "fetched", "answered"}, Recalling
               PROVE  /\ Len(recalled) = Least(RecallLimit, Len(pool))
                      /\ IsInjective(recalled)
                      /\ ToSet(recalled) \subseteq ToSet(pool)
    BY DEF RerankKeepsAll, Recalling
  <2>1. /\ results \in Seq(Hit) /\ pool \in Seq(Hit) /\ Room <= Len(results)
        /\ \A i \in 1 .. Room : \E j \in 1 .. Len(pool) : results[i] = pool[j]
        /\ \A i, j \in 1 .. Room : results[i] = results[j] => i = j
        /\ \A i \in Room + 1 .. Len(results) : results[i].of = "chunk"
        /\ \A j \in 1 .. Len(pool) : pool[j].of = "memory"
    BY DEF SearchInv, PoolInv, ResultsInv
  <2>2. Room \in Nat /\ Len(results) \in Nat /\ Room = Least(RecallLimit, Len(pool))
    BY <2>1, Limits DEF Room, Least, SearchInv, StageInv
  <2>3. places = 1 .. Room
    <3>1. DOMAIN results = 1 .. Len(results)
      BY <2>1
    <3>2. ASSUME NEW i \in 1 .. Room PROVE i \in places
      BY <2>1, <2>2, <3>1
    <3>3. ASSUME NEW i \in places PROVE i \in 1 .. Room
      BY <2>1, <2>2, <3>1
    <3> QED BY <3>2, <3>3
  <2> HIDE DEF places
  <2>4. Cardinality(places) = Room
    <3>1. Cardinality(1 .. Room) = Room
      BY <2>2, FS_Interval
    <3> QED BY <2>3, <3>1
  <2> HIDE DEF recalled
  <2>5. \E p : Picks(p, recalled, results, places)
    <3>1. places \in SUBSET (1 .. Len(results))
      BY <2>1, <2>2, <2>3
    <3> QED BY <2>1, <3>1, PickedInOrder DEF recalled
  <2>8. PICK p : /\ p \in [1 .. Room -> 1 .. Room]
                 /\ \A j, k \in 1 .. Room : j < k => p[j] < p[k]
                 /\ Len(recalled) = Room
                 /\ \A k \in 1 .. Room : recalled[k] = results[p[k]]
    BY <2>3, <2>4, <2>5 DEF Picks
  <2>9. DOMAIN recalled = 1 .. Room
    <3>1. recalled \in Seq(Hit)
      <4>1. places \in SUBSET (1 .. Len(results))
        BY <2>1, <2>2, <2>3
      <4> QED BY <2>1, <4>1, PickedInOrder DEF recalled
    <3> QED BY <2>8, <3>1
  <2>6. IsInjective(recalled)
    <3>1. ASSUME NEW j \in 1 .. Room, NEW k \in 1 .. Room, recalled[j] = recalled[k] PROVE j = k
      <4>2. p[j] \in 1 .. Room /\ p[k] \in 1 .. Room
        BY <2>8
      <4>3. results[p[j]] = results[p[k]]
        BY <2>8, <3>1
      <4>1. p[j] = p[k]
        BY <2>1, <4>2, <4>3
      <4> QED BY <2>2, <2>8, <4>1
    <3> QED BY <2>9, <3>1 DEF IsInjective
  <2>7. ToSet(recalled) \subseteq ToSet(pool)
    <3>1. ASSUME NEW k \in 1 .. Room PROVE recalled[k] \in ToSet(pool)
      <4>1. p[k] \in 1 .. Room /\ recalled[k] = results[p[k]]
        BY <2>8
      <4>2. PICK j \in 1 .. Len(pool) : results[p[k]] = pool[j]
        BY <2>1, <4>1
      <4>3. j \in DOMAIN pool
        BY <2>1
      <4> QED BY <4>1, <4>2, <4>3 DEF ToSet
    <3> QED BY <2>9, <3>1 DEF ToSet
  <2> QED BY <2>2, <2>8, <2>6, <2>7
<1> QED BY <1>1, SearchInvariant, PTL

-----------------------------------------------------------------------------
(* The page of a search that does not group. *)

LEMMA MaxIs ==
  ASSUME NEW S \in SUBSET Nat, NEW x \in S, \A y \in S : x >= y
  PROVE  Max(S) = x
<1>1. \E z \in S : \A y \in S : z >= y
  OBVIOUS
<1>2. Max(S) \in S /\ \A y \in S : Max(S) >= y
  BY <1>1 DEF Max
<1>3. Max(S) \in Nat /\ x \in Nat /\ Max(S) >= x /\ x >= Max(S)
  BY <1>2
<1> QED BY <1>3

\* A list of naturals has a greatest one.
LEMMA Greatests ==
  ASSUME NEW n \in Nat, NEW f \in [1 .. n -> Nat]
  PROVE  \E x \in {0} \cup {f[i] : i \in 1 .. n} : \A i \in 1 .. n : f[i] <= x
<1> DEFINE Has(m) == \E x \in {0} \cup {f[i] : i \in 1 .. n} : \A i \in 1 .. m : f[i] <= x
           P == {m \in Nat : m <= n => Has(m)}
<1>1. 0 \in P
  OBVIOUS
<1>2. ASSUME NEW m \in P PROVE m + 1 \in P
  <2>1. SUFFICES ASSUME m + 1 <= n PROVE Has(m + 1)
    OBVIOUS
  <2>2. PICK x \in {0} \cup {f[i] : i \in 1 .. n} : \A i \in 1 .. m : f[i] <= x
    <3>1. Has(m)
      <4>1. m \in Nat /\ m <= n
        BY <2>1
      <4> QED BY <4>1
    <3> QED BY <3>1
  <2>3. x \in Nat /\ m + 1 \in 1 .. n /\ f[m + 1] \in Nat
    <3>1. x = 0 \/ \E i \in 1 .. n : x = f[i]
      BY <2>2
    <3>2. m \in Nat /\ m + 1 \in 1 .. n
      BY <2>1
    <3> QED BY <3>1, <3>2
  <2>4. CASE f[m + 1] <= x
    <3>1. ASSUME NEW i \in 1 .. m + 1 PROVE f[i] <= x
      <4>1. CASE i = m + 1
        BY <2>4, <4>1
      <4>2. CASE i # m + 1
        <5>1. i \in 1 .. m
          BY <2>1, <4>2
        <5> QED BY <2>2, <5>1
      <4> QED BY <4>1, <4>2
    <3> QED BY <2>2, <3>1
  <2>5. CASE ~(f[m + 1] <= x)
    <3>1. \A i \in 1 .. m + 1 : f[i] <= f[m + 1]
      <4>1. ASSUME NEW i \in 1 .. m + 1 PROVE f[i] <= f[m + 1]
        <5>1. CASE i = m + 1
          BY <2>3, <5>1
        <5>2. CASE i # m + 1
          <6>1. i \in 1 .. m /\ f[i] <= x /\ f[i] \in Nat
            BY <2>1, <2>2, <5>2
          <6> QED BY <2>3, <2>5, <6>1
        <5> QED BY <5>1, <5>2
      <4> QED BY <4>1
    <3> QED BY <2>3, <3>1
  <2> QED BY <2>4, <2>5
<1> HIDE DEF Has
<1>3. P = Nat
  BY <1>1, <1>2, AllNats
<1>4. Has(n)
  BY <1>3
<1> QED BY <1>4 DEF Has

LEMMA Strongest ==
  ASSUME results \in Seq(Hit)
  PROVE  /\ TopScore \in Nat
         /\ \A i \in 1 .. Len(results) : results[i].score \in Nat /\ results[i].score <= TopScore
         /\ TopScore > 0 => \E i \in 1 .. Len(results) : results[i].score = TopScore
<1> DEFINE n == Len(results)
           S == {0} \cup {results[i].score : i \in 1 .. n}
<1>1. n \in Nat /\ DOMAIN results = 1 .. n
  OBVIOUS
<1>2. ASSUME NEW i \in 1 .. n PROVE results[i].score \in Nat
  <2>1. results[i] \in Hit /\ Score \subseteq Nat
    BY RetrievalAssumption
  <2> QED BY <2>1 DEF Hit
<1>3. TopScore = Max(S)
  BY <1>1 DEF TopScore
<1> HIDE DEF n
<1> DEFINE f == [i \in 1 .. n |-> results[i].score]
<1>4. f \in [1 .. n -> Nat] /\ \A i \in 1 .. n : f[i] = results[i].score
  BY <1>2
<1>5. \E x \in {0} \cup {f[i] : i \in 1 .. n} : \A i \in 1 .. n : f[i] <= x
  <2> HIDE DEF f
  <2> QED BY <1>1, <1>4, Greatests
<1> HIDE DEF f
<1>6. PICK x \in S : \A i \in 1 .. n : results[i].score <= x
  BY <1>4, <1>5
<1>7. S \in SUBSET Nat /\ x \in Nat /\ \A y \in S : x >= y
  BY <1>2, <1>6
<1>8. TopScore = x
  <2> HIDE DEF S
  <2> QED BY <1>3, <1>6, <1>7, MaxIs
<1> QED BY <1>2, <1>6, <1>7, <1>8 DEF n

\* The page is the front of the hits that are kept.
LEMMA PageIsFront ==
  ASSUME SearchInv, stage = "answered", request.mode # "grouped"
  PROVE  /\ answer \in Seq(Hit) /\ Len(answer) <= Limit /\ Kept \subseteq 1 .. Len(results)
         /\ \A k \in 1 .. Len(answer) : \E i \in Kept : answer[k] = results[i]
         /\ \A i \in Kept : i <= Limit => \E k \in 1 .. Len(answer) : answer[k] = results[i]
         /\ Kept # {} => answer # <<>>
<1>1. results \in Seq(Hit) /\ answer = Truncate(Picked(results, Kept), Limit)
      /\ Limit \in 1 .. MaxLimit /\ Limit \in Nat
  BY Limits DEF SearchInv, StageInv, ResultsInv, AnswerInv
<1>2. Kept \in SUBSET (1 .. Len(results))
  BY <1>1 DEF Kept
<1> DEFINE q == Picked(results, Kept)
           n == Cardinality(Kept)
<1>3. q \in Seq(Hit) /\ \E p : Picks(p, q, results, Kept)
  <2> HIDE DEF q
  <2> QED BY <1>1, <1>2, PickedInOrder DEF q
<1>4. /\ answer \in Seq(Hit) /\ Len(answer) = Least(Len(q), Limit)
      /\ \A i \in 1 .. Least(Len(q), Limit) : answer[i] = q[i]
  <2> HIDE DEF q
  <2> QED BY <1>1, <1>3, TruncateHolds DEF q
<1> HIDE DEF q
<1>5. PICK p : Picks(p, q, results, Kept)
  BY <1>3
<1>6. /\ n \in Nat /\ Len(q) = n
      /\ p \in [1 .. n -> Kept]
      /\ \A i \in Kept : \E k \in 1 .. n : p[k] = i
      /\ \A k \in 1 .. n : k <= p[k]
      /\ \A k \in 1 .. n : q[k] = results[p[k]]
  BY <1>5 DEF Picks
<1> HIDE DEF n
<1>7. \A k \in 1 .. Len(answer) : k \in 1 .. n /\ answer[k] = results[p[k]]
  BY <1>1, <1>4, <1>6 DEF Least
<1>8. \A k \in 1 .. n : k <= Limit => k \in 1 .. Len(answer) /\ answer[k] = results[p[k]]
  BY <1>1, <1>4, <1>6 DEF Least
<1>9. ASSUME NEW k \in 1 .. Len(answer) PROVE \E i \in Kept : answer[k] = results[i]
  <2>1. k \in 1 .. n /\ answer[k] = results[p[k]] /\ p[k] \in Kept
    BY <1>6, <1>7
  <2> QED BY <2>1
<1>10. ASSUME NEW i \in Kept, i <= Limit PROVE \E k \in 1 .. Len(answer) : answer[k] = results[i]
  <2>1. PICK k \in 1 .. n : p[k] = i
    BY <1>6
  <2>2. k <= i /\ i \in Nat
    BY <1>2, <1>6, <2>1
  <2>3. k <= Limit
    BY <1>1, <1>6, <1>10, <2>2
  <2> QED BY <1>8, <2>1, <2>3
<1>11. ASSUME NEW i \in Kept PROVE answer # <<>>
  <2>1. PICK k \in 1 .. n : p[k] = i
    BY <1>6
  <2>2. 1 \in 1 .. n /\ 1 <= Limit
    BY <1>1, <1>6, <2>1
  <2>3. 1 \in 1 .. Len(answer)
    BY <1>8, <2>2
  <2> QED BY <1>4, <2>3
<1>12. Len(answer) <= Limit
  BY <1>1, <1>4, <1>6 DEF Least
<1> QED BY <1>2, <1>4, <1>9, <1>10, <1>11, <1>12

\* How percentages of two scores compare.
LEMMA Percentages ==
  ASSUME NEW a \in Nat, NEW b \in Nat, a >= b, NEW percent \in Int
  PROVE  /\ percent >= 0 => percent * a >= percent * b
         /\ percent < 0 => percent * b <= 0
         /\ percent <= 100 => a * 100 >= percent * a
<1>1. percent >= 0 => percent * a >= percent * b
  <2>1. SUFFICES ASSUME percent >= 0 PROVE percent * a >= percent * b
    OBVIOUS
  <2>2. percent * (a - b) >= 0
    BY <2>1
  <2>3. percent * (a - b) = percent * a - percent * b
    OBVIOUS
  <2> QED BY <2>2, <2>3
<1>2. percent < 0 => percent * b <= 0
  OBVIOUS
<1>3. percent <= 100 => a * 100 >= percent * a
  <2>1. SUFFICES ASSUME percent <= 100 PROVE a * 100 >= percent * a
    OBVIOUS
  <2>2. (100 - percent) * a >= 0
    BY <2>1
  <2>3. (100 - percent) * a = a * 100 - percent * a
    OBVIOUS
  <2> QED BY <2>2, <2>3
<1> QED BY <1>1, <1>2, <1>3

\* Under a cutoff, the page shows what meets it, relative to the strongest hit
\* of the search, in the order of the results, and is empty only when the
\* results are.
THEOREM CutoffIsRelative == RetrievalSpec => []CutoffRelative
<1>1. SearchInv => CutoffRelative
  <2> SUFFICES ASSUME SearchInv, stage = "answered", request.mode # "grouped",
                      NEW percent \in request.threshold
               PROVE  /\ \A h \in ToSet(answer), g \in ToSet(results) :
                           h.score * 100 >= percent * g.score
                      /\ \A i \in 1 .. Least(Limit, Len(results)) :
                           (\A g \in ToSet(results) : results[i].score * 100 >= percent * g.score)
                           => results[i] \in ToSet(answer)
                      /\ percent <= 100 /\ results # <<>> => answer # <<>>
    BY DEF CutoffRelative
  <2>1. /\ request \in Request /\ results \in Seq(Hit) /\ Len(results) \in Nat
        /\ Limit \in 1 .. MaxLimit /\ Limit \in Nat
    BY Limits DEF SearchInv, StageInv, ResultsInv
  <2>2. percent \in Int /\ \A other \in request.threshold : other = percent
    BY <2>1, RequestAssumption
  <2>3. /\ answer \in Seq(Hit) /\ Kept \subseteq 1 .. Len(results)
        /\ \A k \in 1 .. Len(answer) : \E i \in Kept : answer[k] = results[i]
        /\ \A i \in Kept : i <= Limit => \E k \in 1 .. Len(answer) : answer[k] = results[i]
        /\ Kept # {} => answer # <<>>
    BY PageIsFront
  <2>4. /\ TopScore \in Nat
        /\ \A i \in 1 .. Len(results) : results[i].score \in Nat /\ results[i].score <= TopScore
        /\ TopScore > 0 => \E i \in 1 .. Len(results) : results[i].score = TopScore
    BY <2>1, Strongest
  <2>5. \A i \in 1 .. Len(results) :
          i \in Kept <=> (TopScore > 0 => results[i].score * 100 >= percent * TopScore)
    <3>1. DOMAIN results = 1 .. Len(results)
      BY <2>1
    <3> QED BY <2>2, <3>1 DEF Kept, AboveCutoff
  <2>6. ASSUME NEW i \in Kept, NEW j \in 1 .. Len(results)
        PROVE  results[i].score * 100 >= percent * results[j].score
    <3> DEFINE a == results[i].score
               b == results[j].score
               top == TopScore
    <3>1. i \in 1 .. Len(results) /\ a \in Nat /\ b \in Nat /\ b <= top /\ top \in Nat /\ a <= top
      BY <2>3, <2>4, <2>6
    <3>2. top > 0 => a * 100 >= percent * top
      BY <2>5, <2>6, <3>1
    <3> HIDE DEF a, b, top
    <3>3. /\ percent >= 0 => percent * top >= percent * b
          /\ percent < 0 => percent * b <= 0
      BY <2>2, <3>1, Percentages
    <3>4. percent * b \in Int /\ percent * top \in Int
      BY <2>2, <3>1
    <3>5. CASE top = 0
      <4>1. b = 0 /\ percent * b = 0
        BY <2>2, <3>1, <3>5
      <4>2. a * 100 >= percent * b
        BY <3>1, <4>1
      <4> QED BY <4>2 DEF a, b
    <3>6. CASE top > 0
      <4>1. a * 100 >= percent * b
        BY <2>2, <3>1, <3>2, <3>3, <3>4, <3>6
      <4> QED BY <4>1 DEF a, b
    <3> QED BY <3>1, <3>5, <3>6
  <2>7. /\ \A h \in ToSet(answer) : \E i \in Kept : h = results[i]
        /\ \A g \in ToSet(results) : \E j \in 1 .. Len(results) : g = results[j]
        /\ \A j \in 1 .. Len(results) : results[j] \in ToSet(results)
        /\ \A k \in 1 .. Len(answer) : answer[k] \in ToSet(answer)
    <3>1. DOMAIN results = 1 .. Len(results) /\ DOMAIN answer = 1 .. Len(answer)
      BY <2>1, <2>3
    <3>2. /\ ToSet(results) = {results[j] : j \in 1 .. Len(results)}
          /\ ToSet(answer) = {answer[k] : k \in 1 .. Len(answer)}
      BY <3>1 DEF ToSet
    <3>3. ASSUME NEW h \in ToSet(answer) PROVE \E i \in Kept : h = results[i]
      <4>1. PICK k \in 1 .. Len(answer) : h = answer[k]
        BY <3>2
      <4>2. PICK i \in Kept : answer[k] = results[i]
        BY <2>3
      <4> QED BY <4>1, <4>2
    <3> QED BY <3>2, <3>3
  <2>8. ASSUME NEW h \in ToSet(answer), NEW g \in ToSet(results)
        PROVE  h.score * 100 >= percent * g.score
    BY <2>6, <2>7
  <2>9. ASSUME NEW i \in 1 .. Least(Limit, Len(results)),
               \A g \in ToSet(results) : results[i].score * 100 >= percent * g.score
        PROVE  results[i] \in ToSet(answer)
    <3>1. i \in 1 .. Len(results) /\ i <= Limit
      BY <2>1 DEF Least
    <3>2. TopScore > 0 => results[i].score * 100 >= percent * TopScore
      BY <2>4, <2>7, <2>9
    <3>3. i \in Kept
      BY <2>5, <3>1, <3>2
    <3> QED BY <2>3, <2>7, <3>1, <3>3
  <2>10. ASSUME percent <= 100, results # <<>> PROVE answer # <<>>
    <3>1. CASE TopScore > 0
      <4>1. PICK i \in 1 .. Len(results) : results[i].score = TopScore
        BY <2>4, <3>1
      <4>2. TopScore * 100 >= percent * TopScore
        BY <2>2, <2>4, <2>10, Percentages
      <4>3. i \in Kept
        BY <2>5, <4>1, <4>2
      <4> QED BY <2>3, <4>3
    <3>2. CASE ~(TopScore > 0)
      <4>1. 1 \in 1 .. Len(results)
        BY <2>1, <2>10
      <4>2. 1 \in Kept
        BY <2>5, <3>2, <4>1
      <4> QED BY <2>3, <4>2
    <3> QED BY <3>1, <3>2
  <2> QED BY <2>8, <2>9, <2>10
<1> QED BY <1>1, SearchInvariant, PTL

\* What a search of memories shows is wanted, and of what is wanted it misses, when
\* there is room, no more than the walk of the index leaves unvisited, as the
\* reference evaluation of the filter defines it.
THEOREM SearchIsExact == RetrievalSpec => []SearchExact
<1>1. SearchInv => SearchExact
  <2> DEFINE shown == {answer[i].id : i \in DOMAIN answer}
             roomy == /\ Scope.tags # <<>> /\ request.threshold = {}
                      /\ Cardinality(MemoriesInScope) <= Least(Fanout, Limit)
             missing == {m \in DOMAIN Memory : Wanted(m) /\ Claimed(m)} \ shown
  <2> SUFFICES ASSUME SearchInv, stage = "answered", request.mode = "memories"
               PROVE  /\ \A m \in shown : Claimed(m) => Wanted(m)
                      /\ roomy => Cardinality(missing) <= Unvisited
    BY DEF SearchExact, Shown, Unvisited
  <2>1. /\ request \in Request /\ results \in Seq(Hit) /\ pool \in Seq(Hit) /\ Recalling
        /\ Len(results) = Room /\ Len(pool) <= Cardinality(Rows)
        /\ \A i \in 1 .. Room : \E j \in 1 .. Len(pool) : results[i] = pool[j]
        /\ Len(pool) <= RecallLimit =>
             \A j \in 1 .. Len(pool) : \E i \in 1 .. Room : results[i] = pool[j]
        /\ \A i \in 1 .. Len(pool) : pool[i].id \in Rows
        /\ Scope.tags # <<>> /\ Cardinality(Rows) <= Least(Fanout, PoolLimit)
           => Cardinality(Rows \ PoolIds) <= Unvisited
    <3>1. Recalling
      BY DEF Recalling
    <3> QED BY <3>1 DEF SearchInv, StageInv, PoolInv, ResultsInv
  <2>2. /\ Limit \in Nat /\ RecallLimit \in Nat /\ PoolLimit \in Nat /\ Fanout \in Nat
        /\ Limit <= RecallLimit /\ RecallLimit <= PoolLimit
        /\ request.threshold = {} => RecallLimit = Limit
    BY <2>1, Limits, RetrievalAssumption
  <2>3. /\ answer \in Seq(Hit) /\ Kept \subseteq 1 .. Len(results)
        /\ \A k \in 1 .. Len(answer) : \E i \in Kept : answer[k] = results[i]
        /\ \A i \in Kept : i <= Limit => \E k \in 1 .. Len(answer) : answer[k] = results[i]
    BY PageIsFront
  <2>4. DOMAIN answer = 1 .. Len(answer) /\ DOMAIN results = 1 .. Len(results)
        /\ Len(pool) \in Nat /\ Len(results) \in Nat
    BY <2>1, <2>3
  <2>5. ASSUME NEW m \in DOMAIN Memory, Claimed(m)
        PROVE  Wanted(m) <=> m \in Rows
    <3>1. IsMetadata(Memory[m].meta)
      BY RowAssumption
    <3>2. ASSUME NEW f \in request.filter
          PROVE  Matches(f, Memory[m].meta) <=> Selects(f, Memory[m].meta)
      <4>1. f \in Filter
        BY <2>1, RequestAssumption
      <4>2. Comparable(f, Memory[m].meta)
        BY <2>5 DEF Claimed
      <4> QED BY <3>1, <4>1, <4>2, FilterExact
    <3> QED BY <3>2 DEF Wanted, Rows, Passes
  <2>6. ASSUME NEW m \in shown, Claimed(m) PROVE Wanted(m)
    <3>1. PICK k \in 1 .. Len(answer) : answer[k].id = m
      BY <2>4
    <3>2. PICK i \in Kept : answer[k] = results[i]
      BY <2>3
    <3>3. i \in 1 .. Room
      BY <2>1, <2>3
    <3>4. PICK j \in 1 .. Len(pool) : results[i] = pool[j]
      BY <2>1, <3>3
    <3>5. m \in Rows
      BY <2>1, <3>1, <3>2, <3>4
    <3>6. m \in DOMAIN Memory
      BY <3>5, RowsFinite
    <3> QED BY <2>5, <2>6, <3>5, <3>6
  <2>7. ASSUME roomy, NEW m \in PoolIds PROVE m \in shown
    <3>2. /\ Cardinality(Rows) \in Nat /\ Cardinality(MemoriesInScope) \in Nat
          /\ Cardinality(Rows) <= Cardinality(MemoriesInScope)
      BY RowsFinite
    <3>3. Cardinality(Rows) <= Least(Fanout, PoolLimit) /\ Cardinality(Rows) <= Limit
      BY <2>2, <2>7, <3>2 DEF Least
    <3>4. PICK j \in 1 .. Len(pool) : pool[j].id = m
      BY <2>7 DEF PoolIds
    <3>5. Len(pool) <= Limit /\ Len(pool) <= RecallLimit
      BY <2>1, <2>2, <2>4, <3>2, <3>3
    <3>6. PICK i \in 1 .. Room : results[i] = pool[j]
      BY <2>1, <3>5
    <3>7. i \in Kept
      BY <2>1, <2>4, <2>7 DEF Kept
    <3>8. i <= Limit
      <4>1. Room <= Len(pool)
        BY <2>2, <2>4 DEF Room, Least
      <4> QED BY <2>1, <2>2, <2>4, <3>5, <4>1
    <3>9. PICK k \in 1 .. Len(answer) : answer[k] = results[i]
      BY <2>3, <3>7, <3>8
    <3>10. answer[k].id = m /\ k \in DOMAIN answer
      BY <2>4, <3>4, <3>6, <3>9
    <3> QED BY <3>10
  <2>8. ASSUME roomy PROVE Cardinality(missing) <= Unvisited
    <3>1. missing \in SUBSET (Rows \ PoolIds)
      BY <2>5, <2>7, <2>8
    <3> HIDE DEF missing
    <3>2. /\ Cardinality(Rows) \in Nat /\ Cardinality(MemoriesInScope) \in Nat
          /\ Cardinality(Rows) <= Cardinality(MemoriesInScope) /\ IsFiniteSet(Rows)
      BY RowsFinite
    <3>3. Cardinality(Rows) <= Least(Fanout, PoolLimit)
      BY <2>2, <2>8, <3>2 DEF Least
    <3>4. Cardinality(Rows \ PoolIds) <= Unvisited
      BY <2>1, <2>8, <3>3
    <3>5. IsFiniteSet(Rows \ PoolIds)
      BY <3>2, FS_Subset
    <3>6. Cardinality(missing) <= Cardinality(Rows \ PoolIds) /\ IsFiniteSet(missing)
      BY <3>1, <3>5, FS_Subset
    <3>7. Cardinality(missing) \in Nat /\ Cardinality(Rows \ PoolIds) \in Nat
      BY <3>5, <3>6, FS_CardinalityType
    <3>8. Unvisited \in Int
      <4>1. Cardinality(DOMAIN Memory) \in Nat /\ MaxScan \in Nat
        BY RetrievalAssumption, FS_CardinalityType
      <4> QED BY <4>1 DEF Unvisited, Greatest
    <3> QED BY <3>4, <3>6, <3>7, <3>8
  <2> QED BY <2>6, <2>8
<1> QED BY <1>1, SearchInvariant, PTL

-----------------------------------------------------------------------------
(* Grouping. *)

\* q lists the numbers of S in order.
Ascends(q, m, S) ==
  /\ m \in Nat /\ q \in [1 .. m -> S]
  /\ \A x \in S : \E k \in 1 .. m : q[k] = x
  /\ \A j, k \in 1 .. m : j < k => q[j] < q[k]

\* There is one such list.
LEMMA SameAscent ==
  ASSUME NEW S \in SUBSET Nat, NEW m, NEW q, Ascends(q, m, S), NEW n, NEW p, Ascends(p, n, S)
  PROVE  m = n /\ \A k \in 1 .. m : q[k] = p[k]
<1>1. /\ m \in Nat /\ q \in [1 .. m -> S] /\ n \in Nat /\ p \in [1 .. n -> S]
      /\ \A x \in S : \E k \in 1 .. m : q[k] = x
      /\ \A x \in S : \E k \in 1 .. n : p[k] = x
      /\ \A j, k \in 1 .. m : j < k => q[j] < q[k]
      /\ \A j, k \in 1 .. n : j < k => p[j] < p[k]
  BY DEF Ascends
<1>2. /\ \A k \in 1 .. m : q[k] \in S /\ q[k] \in Nat
      /\ \A k \in 1 .. n : p[k] \in S /\ p[k] \in Nat
  BY <1>1
<1> DEFINE bad == {k \in 1 .. m : k \in 1 .. n /\ q[k] # p[k]}
<1>3. ASSUME bad # {} PROVE FALSE
  <2>1. bad \in SUBSET Nat
    OBVIOUS
  <2>2. PICK k \in bad : \A j \in bad : k <= j
    <3> HIDE DEF bad
    <3> QED BY <1>3, <2>1, LeastNat
  <2>3. k \in 1 .. m /\ k \in 1 .. n /\ q[k] # p[k]
    OBVIOUS
  <2>4. ASSUME NEW j \in 1 .. k - 1 PROVE q[j] = p[j]
    <3>1. j \in 1 .. m /\ j \in 1 .. n /\ ~(k <= j)
      BY <1>1, <2>3
    <3> QED BY <2>2, <3>1
  <2>5. CASE q[k] < p[k]
    <3>1. PICK l \in 1 .. n : p[l] = q[k]
      BY <1>1, <1>2, <2>3
    <3>4. l # k /\ p[l] \in Nat /\ p[k] \in Nat /\ p[l] < p[k]
      BY <1>2, <2>3, <2>5, <3>1
    <3>5. ~(k < l)
      <4>1. k < l => p[k] < p[l]
        BY <1>1, <2>3
      <4> QED BY <3>4, <4>1
    <3>2. l < k
      BY <1>1, <2>3, <3>4, <3>5
    <3>3. l \in 1 .. m /\ q[l] = p[l] /\ q[l] < q[k]
      BY <1>1, <2>3, <2>4, <3>2
    <3> QED BY <1>2, <2>3, <3>1, <3>3
  <2>6. CASE p[k] < q[k]
    <3>1. PICK l \in 1 .. m : q[l] = p[k]
      BY <1>1, <1>2, <2>3
    <3>4. l # k /\ q[l] \in Nat /\ q[k] \in Nat /\ q[l] < q[k]
      BY <1>2, <2>3, <2>6, <3>1
    <3>5. ~(k < l)
      <4>1. k < l => q[k] < q[l]
        BY <1>1, <2>3
      <4> QED BY <3>4, <4>1
    <3>2. l < k
      BY <1>1, <2>3, <3>4, <3>5
    <3>3. l \in 1 .. n /\ q[l] = p[l] /\ p[l] < p[k]
      BY <1>1, <2>3, <2>4, <3>2
    <3> QED BY <1>2, <2>3, <3>1, <3>3
  <2> QED BY <1>2, <2>3, <2>5, <2>6
<1>4. ASSUME NEW k \in 1 .. m, k \in 1 .. n PROVE q[k] = p[k]
  BY <1>3, <1>4
<1> HIDE DEF bad
<1>5. ~(m < n)
  <2>1. SUFFICES ASSUME m < n PROVE FALSE
    OBVIOUS
  <2>2. m + 1 \in 1 .. n
    BY <1>1, <2>1
  <2>3. PICK l \in 1 .. m : q[l] = p[m + 1]
    BY <1>1, <1>2, <2>2
  <2>4. l \in 1 .. n /\ l < m + 1
    BY <1>1, <2>1
  <2>5. p[l] < p[m + 1] /\ q[l] = p[l]
    BY <1>1, <1>4, <2>2, <2>4
  <2> QED BY <1>2, <2>2, <2>3, <2>5
<1>6. ~(n < m)
  <2>1. SUFFICES ASSUME n < m PROVE FALSE
    OBVIOUS
  <2>2. n + 1 \in 1 .. m
    BY <1>1, <2>1
  <2>3. PICK l \in 1 .. n : p[l] = q[n + 1]
    BY <1>1, <1>2, <2>2
  <2>4. l \in 1 .. m /\ l < n + 1
    BY <1>1, <2>1
  <2>5. q[l] < q[n + 1] /\ q[l] = p[l]
    BY <1>1, <1>4, <2>2, <2>4
  <2> QED BY <1>2, <2>2, <2>3, <2>5
<1>7. m = n
  BY <1>1, <1>5, <1>6
<1> QED BY <1>4, <1>7

\* The hits that grouping starts from: chunks, the best first.
Descending ==
  /\ results \in Seq(Hit)
  /\ \A i \in 1 .. Len(results) : results[i].id \in DOMAIN Chunk
  /\ \A i, j \in 1 .. Len(results) : i < j => results[i].score >= results[j].score

\* A document of the page.
Group == [document : DOMAIN Document, score : Nat, chunks : Seq(Nat)]

DocumentOf(i) == Chunk[results[i].id].document

\* Where the first i hits are of document d.
Places(i, d) == {j \in 1 .. i : DocumentOf(j) = d}

LEMMA HitHolds ==
  ASSUME Descending, NEW i \in 1 .. Len(results)
  PROVE  /\ results[i].score \in Nat /\ results[i].id \in Nat /\ results[i].id \in DOMAIN Chunk
         /\ DocumentOf(i) \in DOMAIN Document
<1>1. results[i] \in Hit /\ results[i].id \in DOMAIN Chunk
  BY DEF Descending
<1>2. Score \subseteq Nat
  BY RetrievalAssumption
<1> QED BY <1>1, <1>2, RowAssumption DEF Hit, DocumentOf

\* What e has of its document after the first i hits.
Gathered(e, i) ==
  /\ \E j \in 1 .. i : DocumentOf(j) = e.document /\ e.score = results[j].score
  /\ \A j \in 1 .. i : DocumentOf(j) = e.document => e.score >= results[j].score
  /\ \E q : /\ Ascends(q, Len(e.chunks), Places(i, e.document))
            /\ \A k \in 1 .. Len(e.chunks) : e.chunks[k] = results[q[k]].id

\* Another document's hit changes nothing.
LEMMA Untouched ==
  ASSUME NEW i \in Nat, NEW e, Gathered(e, i), DocumentOf(i + 1) # e.document
  PROVE  Gathered(e, i + 1)
<1>1. \A j \in 1 .. i + 1 : DocumentOf(j) = e.document => j \in 1 .. i
  OBVIOUS
<1>2. \A j \in 1 .. i : j \in 1 .. i + 1
  OBVIOUS
<1>3. Places(i + 1, e.document) = Places(i, e.document)
  BY <1>1, <1>2 DEF Places
<1> QED BY <1>1, <1>2, <1>3 DEF Gathered

\* A document comes with its first hit.
LEMMA First ==
  ASSUME NEW i \in Nat, i + 1 <= Len(results), Descending, NEW e \in Group,
         e.document = DocumentOf(i + 1), e.score = results[i + 1].score,
         Len(e.chunks) = 1, e.chunks[1] = results[i + 1].id,
         \A j \in 1 .. i : DocumentOf(j) # e.document
  PROVE  Gathered(e, i + 1)
<1> DEFINE S == Places(i + 1, e.document)
           q == [k \in 1 .. 1 |-> i + 1]
<1>1. i + 1 \in 1 .. Len(results) /\ results[i + 1].score \in Nat
  <2>1. i + 1 \in 1 .. Len(results)
    BY DEF Descending
  <2> QED BY <2>1, HitHolds
<1>2. \A j \in 1 .. i + 1 : DocumentOf(j) = e.document <=> j = i + 1
  <2>1. ASSUME NEW j \in 1 .. i + 1, j # i + 1 PROVE DocumentOf(j) # e.document
    <3>1. j \in 1 .. i
      BY <2>1
    <3> QED BY <3>1
  <2> QED BY <2>1
<1>3. S = {i + 1}
  BY <1>2 DEF Places
<1>4. q \in [1 .. 1 -> S] /\ q[1] = i + 1 /\ \A k \in 1 .. 1 : k = 1
  BY <1>3
<1> HIDE DEF q, S
<1>5. Ascends(q, 1, S)
  BY <1>3, <1>4 DEF Ascends
<1>6. /\ Ascends(q, Len(e.chunks), Places(i + 1, e.document))
      /\ \A k \in 1 .. Len(e.chunks) : e.chunks[k] = results[q[k]].id
  BY <1>4, <1>5 DEF S
<1>7. \E j \in 1 .. i + 1 : DocumentOf(j) = e.document /\ e.score = results[j].score
  OBVIOUS
<1>8. \A j \in 1 .. i + 1 : DocumentOf(j) = e.document => e.score >= results[j].score
  BY <1>1, <1>2
<1> QED BY <1>6, <1>7, <1>8 DEF Gathered

\* A later hit of the document joins behind those it has, and is no better.
LEMMA Joined ==
  ASSUME NEW i \in Nat, i + 1 <= Len(results), Descending, NEW e \in Group, Gathered(e, i),
         NEW f \in Group, e.document = DocumentOf(i + 1), f.document = e.document,
         f.score = Greatest(e.score, results[i + 1].score),
         f.chunks = Append(e.chunks, results[i + 1].id)
  PROVE  f.score = e.score /\ Gathered(f, i + 1)
<1>1. i + 1 \in 1 .. Len(results) /\ results[i + 1].score \in Nat /\ Len(results) \in Nat
  <2>1. i + 1 \in 1 .. Len(results) /\ Len(results) \in Nat
    BY DEF Descending
  <2> QED BY <2>1, HitHolds
<1>2. PICK j \in 1 .. i : DocumentOf(j) = e.document /\ e.score = results[j].score
  BY DEF Gathered
<1>3. j \in 1 .. Len(results) /\ results[j].score \in Nat /\ results[j].score >= results[i + 1].score
  <2>1. j \in 1 .. Len(results) /\ j < i + 1
    BY <1>1
  <2>2. results[j].score >= results[i + 1].score
    BY <1>1, <2>1 DEF Descending
  <2> QED BY <2>1, <2>2, HitHolds
<1>4. f.score = e.score /\ e.score >= results[i + 1].score
  BY <1>1, <1>2, <1>3 DEF Greatest
<1> DEFINE m == Len(e.chunks)
           S == Places(i, e.document)
           T == Places(i + 1, e.document)
<1>5. m \in Nat /\ Len(f.chunks) = m + 1 /\ f.chunks[m + 1] = results[i + 1].id
      /\ \A k \in 1 .. m : f.chunks[k] = e.chunks[k]
  BY DEF Group
<1>6. PICK q : Ascends(q, m, S) /\ \A k \in 1 .. m : e.chunks[k] = results[q[k]].id
  BY DEF Gathered
<1> HIDE DEF m
<1>7. T = S \cup {i + 1} /\ \A x \in S : x \in Nat /\ x < i + 1
  <2>1. ASSUME NEW x \in T PROVE x \in S \cup {i + 1}
    BY DEF Places
  <2>2. ASSUME NEW x \in S PROVE x \in T /\ x \in Nat /\ x < i + 1
    BY DEF Places
  <2>3. i + 1 \in T
    BY DEF Places
  <2> QED BY <2>1, <2>2, <2>3
<1> HIDE DEF S, T
<1> DEFINE p == [k \in 1 .. m + 1 |-> IF k = m + 1 THEN i + 1 ELSE q[k]]
<1>8. /\ q \in [1 .. m -> S]
      /\ \A x \in S : \E k \in 1 .. m : q[k] = x
      /\ \A h, k \in 1 .. m : h < k => q[h] < q[k]
  BY <1>6 DEF Ascends
<1>9. /\ \A k \in 1 .. m : k \in 1 .. m + 1 /\ k # m + 1 /\ q[k] \in S
      /\ \A k \in 1 .. m + 1 : k = m + 1 \/ k \in 1 .. m
      /\ m + 1 \in 1 .. m + 1
  BY <1>5, <1>8
<1>10. p \in [1 .. m + 1 -> T] /\ p[m + 1] = i + 1 /\ \A k \in 1 .. m : p[k] = q[k]
  <2>1. \A k \in 1 .. m + 1 : (IF k = m + 1 THEN i + 1 ELSE q[k]) \in T
    BY <1>7, <1>9
  <2> QED BY <1>9, <2>1
<1> HIDE DEF p
<1>11. Ascends(p, m + 1, T)
  <2>1. \A x \in T : \E k \in 1 .. m + 1 : p[k] = x
    BY <1>7, <1>8, <1>9, <1>10
  <2>2. ASSUME NEW h \in 1 .. m + 1, NEW k \in 1 .. m + 1, h < k PROVE p[h] < p[k]
    <3>1. h \in 1 .. m
      BY <1>5, <2>2
    <3>2. CASE k = m + 1
      BY <1>7, <1>9, <1>10, <3>1, <3>2
    <3>3. CASE k \in 1 .. m
      BY <1>8, <1>10, <2>2, <3>1, <3>3
    <3> QED BY <1>9, <3>2, <3>3
  <2>3. m + 1 \in Nat
    BY <1>5
  <2> QED BY <1>10, <2>1, <2>2, <2>3 DEF Ascends
<1>12. \A k \in 1 .. m + 1 : f.chunks[k] = results[p[k]].id
  BY <1>5, <1>6, <1>9, <1>10
<1>13. \E l \in 1 .. i + 1 : DocumentOf(l) = f.document /\ f.score = results[l].score
  BY <1>2, <1>4
<1>14. \A l \in 1 .. i + 1 : DocumentOf(l) = f.document => f.score >= results[l].score
  <2>1. ASSUME NEW l \in 1 .. i + 1, DocumentOf(l) = f.document PROVE f.score >= results[l].score
    <3>1. CASE l = i + 1
      BY <1>4, <3>1
    <3>2. CASE l # i + 1
      <4>1. l \in 1 .. i
        BY <3>2
      <4> QED BY <1>4, <2>1, <4>1 DEF Gathered
    <3> QED BY <3>1, <3>2
  <2> QED BY <2>1
<1>15. Ascends(p, Len(f.chunks), Places(i + 1, f.document))
       /\ \A k \in 1 .. Len(f.chunks) : f.chunks[k] = results[p[k]].id
  BY <1>5, <1>11, <1>12 DEF T
<1> QED BY <1>4, <1>13, <1>14, <1>15 DEF Gathered

\* `next` has one hit more than docs: h comes with a document of its own behind
\* the others, or joins its document, and leaves the others alone.
Comes(next, docs, h) ==
  /\ \A k \in 1 .. Len(docs) : docs[k].document # Chunk[h.id].document
  /\ Len(next) = Len(docs) + 1 /\ \A k \in 1 .. Len(docs) : next[k] = docs[k]
  /\ next[Len(docs) + 1].document = Chunk[h.id].document
  /\ next[Len(docs) + 1].score = h.score
  /\ Len(next[Len(docs) + 1].chunks) = 1 /\ next[Len(docs) + 1].chunks[1] = h.id

Joins(next, docs, h, k) ==
  /\ Len(next) = Len(docs) /\ \A l \in 1 .. Len(docs) : l # k => next[l] = docs[l]
  /\ docs[k].document = Chunk[h.id].document /\ next[k].document = docs[k].document
  /\ next[k].score = Greatest(docs[k].score, h.score)
  /\ next[k].chunks = Append(docs[k].chunks, h.id)

LEMMA AddChunkHolds ==
  ASSUME NEW docs \in Seq(Group), NEW h, h.score \in Nat, h.id \in Nat,
         Chunk[h.id].document \in DOMAIN Document
  PROVE  /\ AddChunk(docs, h) \in Seq(Group)
         /\ \/ Comes(AddChunk(docs, h), docs, h)
            \/ \E k \in 1 .. Len(docs) : Joins(AddChunk(docs, h), docs, h, k)
<1> DEFINE d == Chunk[h.id].document
           I == {i \in 1 .. Len(docs) : docs[i].document = d}
           next == AddChunk(docs, h)
           fresh == [document |-> d, score |-> h.score, chunks |-> <<h.id>>]
<1>1. CASE I = {}
  <2>1. SelectInSeq(docs, LAMBDA e : e.document = d) = 0
    BY <1>1 DEF SelectInSeq
  <2>2. next = Append(docs, fresh)
    BY <2>1 DEF AddChunk
  <2>3. fresh \in Group /\ fresh.document = d /\ fresh.score = h.score /\ fresh.chunks = <<h.id>>
    <3>1. <<h.id>> \in Seq(Nat)
      OBVIOUS
    <3> QED BY <3>1 DEF Group
  <2>4. \A k \in 1 .. Len(docs) : docs[k].document # d
    BY <1>1
  <2> HIDE DEF next, fresh
  <2>5. next \in Seq(Group) /\ Len(next) = Len(docs) + 1 /\ next[Len(docs) + 1] = fresh
        /\ \A k \in 1 .. Len(docs) : next[k] = docs[k]
    BY <2>2, <2>3
  <2>6. Len(fresh.chunks) = 1 /\ fresh.chunks[1] = h.id
    BY <2>3
  <2>7. Comes(next, docs, h)
    BY <2>3, <2>4, <2>5, <2>6 DEF Comes
  <2> QED BY <2>5, <2>7 DEF next
<1>2. CASE I # {}
  <2> DEFINE k == Min(I)
  <2>1. k \in I
    <3>1. I \in SUBSET Nat
      OBVIOUS
    <3> HIDE DEF I
    <3>2. \E x \in I : \A y \in I : x =< y
      BY <1>2, <3>1, LeastNat
    <3> QED BY <3>2 DEF Min
  <2>2. SelectInSeq(docs, LAMBDA e : e.document = d) = k
    BY <1>2 DEF SelectInSeq
  <2> HIDE DEF k
  <2>3. k \in 1 .. Len(docs) /\ docs[k].document = d /\ k # 0
    BY <2>1
  <2> DEFINE old == docs[k]
             new == [[old EXCEPT !.score = Greatest(@, h.score)] EXCEPT !.chunks = Append(@, h.id)]
  <2>4. next = [[docs EXCEPT ![k].score = Greatest(@, h.score)] EXCEPT ![k].chunks = Append(@, h.id)]
    BY <2>2, <2>3 DEF AddChunk
  <2>5. next = [docs EXCEPT ![k] = new]
    BY <2>3, <2>4
  <2>6. old \in Group /\ old.score \in Nat /\ old.chunks \in Seq(Nat)
    <3>1. old \in Group
      BY <2>3
    <3> HIDE DEF old
    <3> QED BY <3>1 DEF Group
  <2>7. /\ new \in Group /\ new.document = old.document
        /\ new.score = Greatest(old.score, h.score) /\ new.chunks = Append(old.chunks, h.id)
    <3>1. Greatest(old.score, h.score) \in Nat /\ Append(old.chunks, h.id) \in Seq(Nat)
      BY <2>6 DEF Greatest
    <3> QED BY <2>6, <3>1 DEF Group
  <2> HIDE DEF next, new
  <2>8. next \in Seq(Group) /\ Len(next) = Len(docs) /\ next[k] = new
        /\ \A l \in 1 .. Len(docs) : l # k => next[l] = docs[l]
    BY <2>3, <2>5, <2>7
  <2>9. Joins(next, docs, h, k)
    BY <2>3, <2>7, <2>8 DEF Joins
  <2> QED BY <2>3, <2>8, <2>9 DEF next
<1> QED BY <1>1, <1>2

\* The documents after the first i hits: each once, with what it has of them,
\* all of them, and the better ones first.
GroupsInv(docs, i) ==
  /\ docs \in Seq(Group)
  /\ \A a, b \in 1 .. Len(docs) : docs[a].document = docs[b].document => a = b
  /\ \A a \in 1 .. Len(docs) : Gathered(docs[a], i)
  /\ \A j \in 1 .. i : \E a \in 1 .. Len(docs) : docs[a].document = DocumentOf(j)
  /\ \A a, b \in 1 .. Len(docs) : a < b => docs[a].score >= docs[b].score

LEMMA NoGroups == GroupsInv(<<>>, 0)
<1>1. Len(<<>>) = 0 /\ 1 .. 0 = {}
  OBVIOUS
<1>2. <<>> \in Seq(Group)
  OBVIOUS
<1> QED BY <1>1, <1>2 DEF GroupsInv

LEMMA GroupsGrow ==
  ASSUME Descending, NEW i \in Nat, i + 1 <= Len(results), NEW docs, GroupsInv(docs, i)
  PROVE  GroupsInv(AddChunk(docs, results[i + 1]), i + 1)
<1> DEFINE h == results[i + 1]
           next == AddChunk(docs, h)
           n == Len(docs)
<1>1. /\ docs \in Seq(Group) /\ n \in Nat
      /\ \A a, b \in 1 .. n : docs[a].document = docs[b].document => a = b
      /\ \A a \in 1 .. n : Gathered(docs[a], i)
      /\ \A j \in 1 .. i : \E a \in 1 .. n : docs[a].document = DocumentOf(j)
      /\ \A a, b \in 1 .. n : a < b => docs[a].score >= docs[b].score
  BY DEF GroupsInv
<1>2. i + 1 \in 1 .. Len(results)
  BY DEF Descending
<1>3. h.score \in Nat /\ h.id \in Nat /\ DocumentOf(i + 1) = Chunk[h.id].document
      /\ Chunk[h.id].document \in DOMAIN Document
  BY <1>2, HitHolds DEF DocumentOf
<1> HIDE DEF h
<1>4. /\ next \in Seq(Group)
      /\ Comes(next, docs, h) \/ \E k \in 1 .. n : Joins(next, docs, h, k)
  BY <1>1, <1>3, AddChunkHolds
<1> HIDE DEF next, n
<1>5. \A j \in 1 .. i + 1 : j \in 1 .. i \/ j = i + 1
  OBVIOUS
<1>6. CASE Comes(next, docs, h)
  <2> DEFINE e == next[n + 1]
  <2>1. /\ \A k \in 1 .. n : docs[k].document # DocumentOf(i + 1)
        /\ Len(next) = n + 1 /\ \A k \in 1 .. n : next[k] = docs[k]
        /\ e.document = DocumentOf(i + 1) /\ e.score = h.score
        /\ Len(e.chunks) = 1 /\ e.chunks[1] = h.id
    BY <1>3, <1>6 DEF Comes, n
  <2>2. \A a \in 1 .. n + 1 : a \in 1 .. n \/ a = n + 1
    BY <1>1
  <2>3. e \in Group
    BY <1>1, <1>4, <2>1
  <2> HIDE DEF e
  <2>4. ASSUME NEW j \in 1 .. i PROVE DocumentOf(j) # e.document
    <3>1. PICK a \in 1 .. n : docs[a].document = DocumentOf(j)
      BY <1>1
    <3> QED BY <2>1, <3>1
  <2>5. Gathered(e, i + 1)
    BY <2>1, <2>3, <2>4, First DEF h
  <2>6. ASSUME NEW a \in 1 .. n + 1 PROVE Gathered(next[a], i + 1)
    <3>1. CASE a \in 1 .. n
      <4>1. Gathered(docs[a], i) /\ DocumentOf(i + 1) # docs[a].document
        BY <1>1, <2>1, <3>1
      <4>2. Gathered(docs[a], i + 1)
        BY <4>1, Untouched
      <4> QED BY <2>1, <3>1, <4>2
    <3>2. CASE a = n + 1
      BY <2>5, <3>2 DEF e
    <3> QED BY <2>2, <3>1, <3>2
  <2>7. ASSUME NEW a \in 1 .. n + 1, NEW b \in 1 .. n + 1, next[a].document = next[b].document
        PROVE  a = b
    <3>1. CASE a \in 1 .. n /\ b \in 1 .. n
      BY <1>1, <2>1, <2>7, <3>1
    <3>2. CASE a \in 1 .. n /\ b = n + 1
      BY <2>1, <2>7, <3>2 DEF e
    <3>3. CASE a = n + 1 /\ b \in 1 .. n
      BY <2>1, <2>7, <3>3 DEF e
    <3> QED BY <2>2, <3>1, <3>2, <3>3
  <2>8. ASSUME NEW j \in 1 .. i + 1 PROVE \E a \in 1 .. n + 1 : next[a].document = DocumentOf(j)
    <3>1. CASE j \in 1 .. i
      <4>1. PICK a \in 1 .. n : docs[a].document = DocumentOf(j)
        BY <1>1, <3>1
      <4>2. a \in 1 .. n + 1
        BY <1>1
      <4> QED BY <2>1, <4>1, <4>2
    <3>2. CASE j = i + 1
      <4>1. n + 1 \in 1 .. n + 1
        BY <1>1
      <4> QED BY <2>1, <3>2, <4>1 DEF e
    <3> QED BY <1>5, <3>1, <3>2
  <2>9. ASSUME NEW a \in 1 .. n + 1, NEW b \in 1 .. n + 1, a < b
        PROVE  next[a].score >= next[b].score
    <3>1. a \in 1 .. n
      BY <1>1, <2>9
    <3>2. CASE b \in 1 .. n
      BY <1>1, <2>1, <2>9, <3>1, <3>2
    <3>3. CASE b = n + 1
      <4>1. Gathered(docs[a], i)
        BY <1>1, <3>1
      <4>2. PICK j \in 1 .. i : docs[a].score = results[j].score
        BY <4>1 DEF Gathered
      <4>3. j \in 1 .. Len(results) /\ j < i + 1
        BY <1>2
      <4>4. results[j].score >= h.score
        BY <1>2, <4>3 DEF Descending, h
      <4> QED BY <2>1, <3>1, <3>3, <4>2, <4>4 DEF e
    <3> QED BY <2>2, <3>2, <3>3
  <2> QED BY <1>4, <2>1, <2>6, <2>7, <2>8, <2>9 DEF GroupsInv, next, h
<1>7. ASSUME NEW k \in 1 .. n, Joins(next, docs, h, k)
      PROVE  GroupsInv(AddChunk(docs, results[i + 1]), i + 1)
  <2>1. /\ Len(next) = n /\ \A l \in 1 .. n : l # k => next[l] = docs[l]
        /\ docs[k].document = DocumentOf(i + 1) /\ next[k].document = docs[k].document
        /\ next[k].score = Greatest(docs[k].score, h.score)
        /\ next[k].chunks = Append(docs[k].chunks, h.id)
    BY <1>3, <1>7 DEF Joins, n
  <2>2. docs[k] \in Group /\ next[k] \in Group /\ Gathered(docs[k], i)
    BY <1>1, <1>4, <2>1 DEF n
  <2>3. next[k].score = docs[k].score /\ Gathered(next[k], i + 1)
    <3> DEFINE e == docs[k]
               f == next[k]
    <3>1. /\ e \in Group /\ f \in Group /\ Gathered(e, i) /\ e.document = DocumentOf(i + 1)
          /\ f.document = e.document /\ f.score = Greatest(e.score, results[i + 1].score)
          /\ f.chunks = Append(e.chunks, results[i + 1].id)
      BY <2>1, <2>2 DEF h
    <3> HIDE DEF e, f
    <3>2. f.score = e.score /\ Gathered(f, i + 1)
      BY <3>1, Joined
    <3> QED BY <3>2 DEF e, f
  <2>4. \A l \in 1 .. n : next[l].document = docs[l].document /\ next[l].score = docs[l].score
    BY <2>1, <2>3
  <2>5. ASSUME NEW l \in 1 .. n PROVE Gathered(next[l], i + 1)
    <3>1. CASE l = k
      BY <2>3, <3>1
    <3>2. CASE l # k
      <4>1. DocumentOf(i + 1) # docs[l].document /\ Gathered(docs[l], i)
        BY <1>1, <2>1, <3>2
      <4>2. Gathered(docs[l], i + 1)
        BY <4>1, Untouched
      <4> QED BY <2>1, <3>2, <4>2
    <3> QED BY <3>1, <3>2
  <2>6. \A j \in 1 .. i + 1 : \E a \in 1 .. n : next[a].document = DocumentOf(j)
    <3>1. ASSUME NEW j \in 1 .. i + 1 PROVE \E a \in 1 .. n : next[a].document = DocumentOf(j)
      <4>1. CASE j \in 1 .. i
        BY <1>1, <2>4, <4>1
      <4>2. CASE j = i + 1
        BY <2>1, <4>2
      <4> QED BY <1>5, <4>1, <4>2
    <3> QED BY <3>1
  <2>7. \A a, b \in 1 .. n : next[a].document = next[b].document => a = b
    BY <1>1, <2>4
  <2>8. \A a, b \in 1 .. n : a < b => next[a].score >= next[b].score
    BY <1>1, <2>4
  <2> QED BY <1>4, <2>1, <2>5, <2>6, <2>7, <2>8 DEF GroupsInv, next, h
<1> QED BY <1>4, <1>6, <1>7

LEMMA GroupedSteps ==
  ASSUME Descending
  PROVE  /\ Grouped(results)[0] = <<>>
         /\ \A i \in 1 .. Len(results) :
              Grouped(results)[i] = AddChunk(Grouped(results)[i - 1], results[i])
<1> DEFINE V == Seq(Group)
           none == <<>>
           N == Len(results)
           added(docs, i) == IF i \in 1 .. N THEN AddChunk(docs, results[i]) ELSE docs
           step == [i \in Nat |-> [docs \in V |-> added(docs, i)]]
           Next1(w) == [i \in 0 .. N |->
                          IF i = 0 THEN none ELSE AddChunk(w[i - 1], results[i])]
<1>1. ASSUME NEW docs \in V, NEW i \in Nat PROVE added(docs, i) \in V
  <2>1. CASE i \in 1 .. N
    <3>1. /\ results[i].score \in Nat /\ results[i].id \in Nat
          /\ Chunk[results[i].id].document \in DOMAIN Document
      BY <2>1, HitHolds DEF DocumentOf
    <3>2. AddChunk(docs, results[i]) \in V
      BY <3>1, AddChunkHolds
    <3> HIDE DEF V
    <3> QED BY <2>1, <3>2
  <2>2. CASE i \notin 1 .. N
    BY <2>2
  <2> QED BY <2>1, <2>2
<1>2. none \in V /\ step \in [Nat -> [V -> V]] /\ N \in Nat
  <2>1. none \in V /\ N \in Nat
    BY DEF Descending
  <2> HIDE DEF V, added
  <2>2. step \in [Nat -> [V -> V]]
    BY <1>1
  <2> QED BY <2>1, <2>2
<1> HIDE DEF V, none, N
<1>3. PICK f \in [0 .. N -> V] : Iterates(f, none, step, N)
  <2> HIDE DEF step
  <2> QED BY <1>2, Iteration
<1>4. f = Next1(f)
  <2>1. ASSUME NEW i \in 1 .. N PROVE f[i] = AddChunk(f[i - 1], results[i])
    <3>1. i \in Nat /\ f[i - 1] \in V
      BY <1>2, <1>3
    <3>2. f[i] = step[i][f[i - 1]]
      BY <1>3 DEF Iterates
    <3> QED BY <3>1, <3>2
  <2> QED BY <1>2, <1>3, <2>1 DEF Iterates
<1>5. Grouped(results) = CHOOSE w : w = Next1(w)
  BY DEF Grouped, none, N
<1>6. Grouped(results) = Next1(Grouped(results))
  BY <1>4, <1>5
<1> DEFINE g == Grouped(results)
<1> HIDE DEF g
<1>7. g = Next1(g)
  BY <1>6 DEF g
<1>8. g[0] = none /\ \A i \in 1 .. N : g[i] = AddChunk(g[i - 1], results[i])
  BY <1>2, <1>7
<1> QED BY <1>8 DEF g, none, N

LEMMA AllGrouped ==
  ASSUME Descending
  PROVE  GroupsInv(Grouped(results)[Len(results)], Len(results))
<1> DEFINE N == Len(results)
           P == {i \in Nat : i <= N => GroupsInv(Grouped(results)[i], i)}
<1>1. N \in Nat
  BY DEF Descending
<1>2. /\ Grouped(results)[0] = <<>>
      /\ \A i \in 1 .. N : Grouped(results)[i] = AddChunk(Grouped(results)[i - 1], results[i])
  BY GroupedSteps
<1>3. 0 \in P
  BY <1>2, NoGroups
<1>4. ASSUME NEW i \in P PROVE i + 1 \in P
  <2>1. SUFFICES ASSUME i + 1 <= N PROVE GroupsInv(Grouped(results)[i + 1], i + 1)
    OBVIOUS
  <2>2. i + 1 \in 1 .. N /\ (i + 1) - 1 = i /\ GroupsInv(Grouped(results)[i], i)
    BY <1>1, <2>1
  <2>3. GroupsInv(AddChunk(Grouped(results)[i], results[i + 1]), i + 1)
    BY <2>1, <2>2, GroupsGrow
  <2> QED BY <1>2, <2>2, <2>3
<1>5. P = Nat
  <2> HIDE DEF P
  <2>1. P \in SUBSET Nat
    BY DEF P
  <2> QED BY <1>3, <1>4, <2>1, AllNats
<1> QED BY <1>1, <1>5

\* As many names as there are numbers, if each has another one.
Names(name, n) == {name[a] : a \in 1 .. n}
AllDiffer(name, n) == \A a, b \in 1 .. n : name[a] = name[b] => a = b

LEMMA AsManyNames ==
  ASSUME NEW n \in Nat, NEW name, AllDiffer(name, n)
  PROVE  Cardinality(Names(name, n)) = n
<1> USE DEF AllDiffer
<1> DEFINE S == 1 .. n
           T == Names(name, n)
           f == [a \in S |-> name[a]]
<1>1. IsFiniteSet(S) /\ Cardinality(S) = n
  BY FS_Interval
<1>2. f \in [S -> T] /\ \A a \in S : f[a] = name[a]
  BY DEF Names
<1>3. \A a, b \in S : f[a] = f[b] => a = b
  BY <1>2
<1>4. \A t \in T : \E a \in S : f[a] = t
  BY <1>2 DEF Names
<1> HIDE DEF S, T, f
<1>5. f \in Surjection(S, T) /\ f \in Injection(S, T)
  BY <1>2, <1>3, <1>4 DEF Surjection, Injection, IsInjective
<1>6. IsFiniteSet(T) /\ Cardinality(T) = n
  BY <1>1, <1>5, FS_Surjection
<1> QED BY <1>6 DEF T

\* What is found of a document, and its best score, as GroupedByBest has them.
FoundOf(d) == Picked(results, {i \in DOMAIN results : Chunk[results[i].id].document = d})
BestOf(d) == Max({h.score : h \in ToSet(FoundOf(d))})

LEMMA FoundIsGathered ==
  ASSUME Descending, NEW e \in Group, Gathered(e, Len(results))
  PROVE  /\ e.score = BestOf(e.document)
         /\ e.chunks = [k \in DOMAIN FoundOf(e.document) |-> FoundOf(e.document)[k].id]
<1> DEFINE n == Len(results)
           d == e.document
           S == Places(n, d)
           mine == FoundOf(d)
           m == Cardinality(S)
<1>1. results \in Seq(Hit) /\ n \in Nat /\ DOMAIN results = 1 .. n
  BY DEF Descending
<1>2. mine = Picked(results, S) /\ S \in SUBSET (1 .. n)
  BY <1>1 DEF FoundOf, Places, DocumentOf
<1> HIDE DEF n, S, mine, d
<1>3. mine \in Seq(Hit) /\ \E p : Picks(p, mine, results, S)
  BY <1>1, <1>2, PickedInOrder DEF n
<1>4. PICK p : Picks(p, mine, results, S)
  BY <1>3
<1>5. /\ m \in Nat /\ p \in [1 .. m -> S]
      /\ \A i \in S : \E k \in 1 .. m : p[k] = i
      /\ \A j, k \in 1 .. m : j < k => p[j] < p[k]
      /\ Len(mine) = m
      /\ \A k \in 1 .. m : mine[k] = results[p[k]]
  BY <1>4 DEF Picks
<1> HIDE DEF m
<1>6. Ascends(p, m, S)
  BY <1>5 DEF Ascends
<1>7. DOMAIN mine = 1 .. m
  BY <1>3, <1>5
<1>8. PICK q : Ascends(q, Len(e.chunks), S)
               /\ \A k \in 1 .. Len(e.chunks) : e.chunks[k] = results[q[k]].id
  BY DEF Gathered, n, d, S
<1>9. e.chunks \in Seq(Nat) /\ e.score \in Nat
  BY DEF Group
<1>10. e.chunks = [k \in DOMAIN mine |-> mine[k].id]
  <2>1. S \in SUBSET Nat
    BY <1>1, <1>2
  <2>2. Len(e.chunks) = m /\ \A k \in 1 .. Len(e.chunks) : q[k] = p[k]
    <3> DEFINE l == Len(e.chunks)
    <3>1. Ascends(q, l, S)
      BY <1>8
    <3> HIDE DEF l
    <3>2. l = m /\ \A k \in 1 .. l : q[k] = p[k]
      BY ONLY <1>6, <2>1, <3>1, SameAscent
    <3> QED BY <3>2 DEF l
  <2>3. \A k \in 1 .. m : e.chunks[k] = mine[k].id
    BY <1>5, <1>8, <2>2
  <2>4. e.chunks = [k \in 1 .. m |-> e.chunks[k]]
    BY <1>9, <2>2
  <2> DEFINE c == e.chunks
  <2> HIDE DEF c
  <2>5. c = [k \in 1 .. m |-> c[k]] /\ \A k \in 1 .. m : c[k] = mine[k].id
    BY <2>3, <2>4 DEF c
  <2>6. c = [k \in 1 .. m |-> mine[k].id]
    BY <2>5
  <2> QED BY <1>7, <2>6 DEF c
<1>11. ToSet(mine) = {results[i] : i \in S}
  <2>1. ASSUME NEW i \in S PROVE results[i] \in ToSet(mine)
    <3>1. PICK k \in 1 .. m : p[k] = i
      BY <1>5
    <3>2. mine[k] = results[i]
      BY <1>5, <3>1
    <3> QED BY <1>7, <3>2 DEF ToSet
  <2>2. ASSUME NEW k \in 1 .. m PROVE mine[k] \in {results[i] : i \in S}
    BY <1>5
  <2> QED BY <1>7, <2>1, <2>2 DEF ToSet
<1> DEFINE W == {h.score : h \in ToSet(mine)}
<1>12. W = {results[i].score : i \in S}
  BY <1>11
<1>13. \A i \in S : results[i].score \in Nat /\ e.score >= results[i].score
  <2>1. ASSUME NEW i \in S PROVE results[i].score \in Nat /\ e.score >= results[i].score
    <3>1. i \in 1 .. n /\ DocumentOf(i) = d
      BY DEF S, Places
    <3>2. results[i].score \in Nat
      BY <3>1, HitHolds DEF n
    <3>3. e.score >= results[i].score
      BY <3>1 DEF Gathered, n, d
    <3> QED BY <3>2, <3>3
  <2> QED BY <2>1
<1>14. \E i \in S : e.score = results[i].score
  <2>1. PICK i \in 1 .. n : DocumentOf(i) = d /\ e.score = results[i].score
    BY DEF Gathered, n, d
  <2>2. i \in S
    BY <2>1 DEF S, Places
  <2> QED BY <2>1, <2>2
<1>15. W \in SUBSET Nat /\ e.score \in W /\ \A y \in W : e.score >= y
  BY <1>12, <1>13, <1>14
<1>16. e.score = BestOf(d)
  <2>1. BestOf(d) = Max(W)
    BY DEF BestOf, mine
  <2> HIDE DEF W
  <2> QED BY <1>15, <2>1, MaxIs
<1> QED BY <1>10, <1>16 DEF mine, d

\* What GroupedByBest says of a page for the documents hit.
RightPage(page, limit, hit, shown) ==
  /\ Len(page) = Least(limit, Cardinality(hit))
  /\ Cardinality(shown) = Len(page) /\ shown \subseteq hit
  /\ \A i \in DOMAIN page :
       /\ page[i].score = BestOf(page[i].document)
       /\ page[i].chunks = [k \in DOMAIN FoundOf(page[i].document) |->
                              FoundOf(page[i].document)[k].id]
       /\ \A d \in hit \ {page[j].document : j \in 1 .. i} : BestOf(d) <= page[i].score

LEMMA GroupsShown ==
  ASSUME Descending, NEW docs, GroupsInv(docs, Len(results)), NEW limit \in Nat,
         NEW page, page = Truncate(docs, limit),
         NEW hit, hit = {Chunk[h.id].document : h \in ToSet(results)},
         NEW shown, shown = {page[i].document : i \in DOMAIN page}
  PROVE  RightPage(page, limit, hit, shown)
<1> DEFINE n == Len(docs)
           N == Len(results)
           top == Least(n, limit)
<1>1. /\ docs \in Seq(Group) /\ n \in Nat
      /\ \A a, b \in 1 .. n : docs[a].document = docs[b].document => a = b
      /\ \A a \in 1 .. n : Gathered(docs[a], N)
      /\ \A j \in 1 .. N : \E a \in 1 .. n : docs[a].document = DocumentOf(j)
      /\ \A a, b \in 1 .. n : a < b => docs[a].score >= docs[b].score
  BY DEF GroupsInv
<1>2. /\ page \in Seq(Group) /\ Len(page) = top /\ top \in 0 .. n
      /\ \A i \in 1 .. top : page[i] = docs[i]
  <2> HIDE DEF n, top
  <2> QED BY <1>1, TruncateHolds DEF n, top
<1>3. DOMAIN results = 1 .. N /\ DOMAIN page = 1 .. top
  BY <1>2 DEF Descending
<1>4. hit = {DocumentOf(j) : j \in 1 .. N}
  BY <1>3 DEF ToSet, DocumentOf
<1> HIDE DEF n, N
<1>5. hit = {docs[a].document : a \in 1 .. n}
  <2>1. ASSUME NEW a \in 1 .. n PROVE docs[a].document \in hit
    <3>1. PICK j \in 1 .. N : DocumentOf(j) = docs[a].document
      BY <1>1 DEF Gathered
    <3> QED BY <1>4, <3>1
  <2>2. ASSUME NEW j \in 1 .. N PROVE DocumentOf(j) \in {docs[a].document : a \in 1 .. n}
    <3>1. PICK a \in 1 .. n : docs[a].document = DocumentOf(j)
      BY <1>1
    <3> QED BY <3>1
  <2> QED BY <1>4, <2>1, <2>2
<1>6. Cardinality(hit) = n
  <2> DEFINE name == [a \in 1 .. n |-> docs[a].document]
  <2>1. \A a \in 1 .. n : name[a] = docs[a].document
    OBVIOUS
  <2> HIDE DEF name
  <2>2. \A a, b \in 1 .. n : name[a] = name[b] => a = b
    BY <1>1, <2>1
  <2>5. n \in Nat
    BY <1>1
  <2>3. Cardinality(Names(name, n)) = n
    <3>1. AllDiffer(name, n)
      BY <2>2 DEF AllDiffer
    <3> QED BY <2>5, <3>1, AsManyNames
  <2>4. hit = Names(name, n)
    BY <1>5, <2>1 DEF Names
  <2> QED BY <2>3, <2>4
<1>7. top \in Nat /\ top <= n /\ top = Least(limit, n)
  BY <1>1, <1>2 DEF Least
<1> HIDE DEF top
<1>8. \A i \in 1 .. top : i \in 1 .. n
  BY <1>1, <1>7
<1>9. Cardinality(shown) = top
  <2> DEFINE name == [a \in 1 .. top |-> docs[a].document]
  <2>1. \A a \in 1 .. top : name[a] = docs[a].document
    OBVIOUS
  <2> HIDE DEF name
  <2>2. \A a, b \in 1 .. top : name[a] = name[b] => a = b
    BY <1>1, <1>8, <2>1
  <2>3. Cardinality(Names(name, top)) = top
    <3>1. AllDiffer(name, top)
      BY <2>2 DEF AllDiffer
    <3> QED BY <1>7, <3>1, AsManyNames
  <2>4. shown = Names(name, top)
    BY <1>2, <1>3, <2>1 DEF Names
  <2> QED BY <2>3, <2>4
<1>10. shown \subseteq hit
  BY <1>2, <1>3, <1>5, <1>8
<1>11. ASSUME NEW a \in 1 .. n
       PROVE  /\ docs[a].score = BestOf(docs[a].document) /\ docs[a].score \in Nat
              /\ docs[a].chunks = [k \in DOMAIN FoundOf(docs[a].document) |->
                                     FoundOf(docs[a].document)[k].id]
  <2> DEFINE e == docs[a]
  <2>1. e \in Group /\ Gathered(e, Len(results))
    BY <1>1 DEF n, N
  <2> HIDE DEF e
  <2>2. /\ e.score = BestOf(e.document)
        /\ e.chunks = [k \in DOMAIN FoundOf(e.document) |-> FoundOf(e.document)[k].id]
    BY <2>1, FoundIsGathered
  <2>3. e.score \in Nat
    BY <2>1 DEF Group
  <2> QED BY <2>2, <2>3 DEF e
<1>12. ASSUME NEW i \in 1 .. top
       PROVE  /\ page[i].score = BestOf(page[i].document)
              /\ page[i].chunks = [k \in DOMAIN FoundOf(page[i].document) |->
                                     FoundOf(page[i].document)[k].id]
  BY <1>2, <1>8, <1>11
<1>13. ASSUME NEW i \in 1 .. top, NEW d \in hit \ {page[j].document : j \in 1 .. i}
       PROVE  BestOf(d) <= page[i].score
  <2>1. PICK a \in 1 .. n : docs[a].document = d
    BY <1>5
  <2>2. ~(a <= i)
    <3>1. SUFFICES ASSUME a <= i PROVE FALSE
      OBVIOUS
    <3>2. a \in 1 .. i /\ a \in 1 .. top
      BY <1>1, <1>7, <3>1
    <3>3. page[a].document = d
      BY <1>2, <2>1, <3>2
    <3> QED BY <3>2, <3>3
  <2>3. i < a
    BY <1>1, <1>7, <2>2
  <2>4. docs[i].score >= docs[a].score /\ page[i] = docs[i]
    BY <1>1, <1>2, <1>8, <2>3
  <2>5. BestOf(d) = docs[a].score /\ docs[a].score \in Nat /\ docs[i].score \in Nat
    BY <1>8, <1>11, <2>1
  <2> QED BY <2>4, <2>5
<1> QED BY <1>2, <1>3, <1>6, <1>7, <1>9, <1>10, <1>12, <1>13 DEF RightPage

\* What a grouped page is made from.
LEMMA GroupedPage ==
  ASSUME SearchInv, stage = "answered", request.mode = "grouped"
  PROVE  /\ Descending /\ GroupsInv(Grouped(results)[Len(results)], Len(results))
         /\ Limit \in Nat /\ answer = Truncate(Grouped(results)[Len(results)], Limit)
<1>1. Descending
  BY DEF SearchInv, ResultsInv, ChunksInv, Descending
<1>2. Limit \in Nat
  BY Limits DEF SearchInv, StageInv
<1> QED BY <1>1, <1>2, AllGrouped DEF SearchInv, AnswerInv

\* A grouped page has every document once, with all its chunks that were found
\* in the order of the search, and the documents of the best chunks.
THEOREM GroupingIsByBest == RetrievalSpec => []GroupedByBest
<1>1. SearchInv => GroupedByBest
  <2>1. SUFFICES ASSUME SearchInv, stage = "answered", request.mode = "grouped"
                 PROVE  GroupedByBest
    BY DEF GroupedByBest
  <2> DEFINE docs == Grouped(results)[Len(results)]
             hit == {Chunk[h.id].document : h \in ToSet(results)}
             shown == {answer[i].document : i \in DOMAIN answer}
  <2>2. Descending /\ GroupsInv(docs, Len(results)) /\ Limit \in Nat /\ answer = Truncate(docs, Limit)
    BY <2>1, GroupedPage
  <2>3. /\ hit = {Chunk[h.id].document : h \in ToSet(results)}
        /\ shown = {answer[i].document : i \in DOMAIN answer}
    OBVIOUS
  <2> HIDE DEF docs, hit, shown
  <2>4. RightPage(answer, Limit, hit, shown)
    BY ONLY <2>2, <2>3, GroupsShown
  <2> QED BY <2>4 DEF RightPage, GroupedByBest, FoundOf, BestOf, hit, shown
<1> QED BY <1>1, SearchInvariant, PTL

LEMMA SearchTypes == SearchInv => RetrievalTypeOK
<1> SUFFICES ASSUME SearchInv PROVE RetrievalTypeOK
  OBVIOUS
<1>1. request \in Request /\ pool \in Seq(Hit) /\ results \in Seq(Hit) /\ Len(pool) <= PoolLimit
  BY DEF SearchInv, StageInv, PoolInv, ResultsInv
<1>2. request.mode \in {"memories", "documents", "hybrid", "grouped"}
  BY <1>1, RequestAssumption
<1>3. stage \in {"asked", "pooled", "recalled", "fetched", "grouping", "answered", "failed"}
  BY DEF SearchInv, StageInv
<1>4. ASSUME NEW s \in {pool, results} PROVE ToSet(s) \subseteq Hit
  <2>1. s \in Seq(Hit)
    BY <1>1
  <2> QED BY <2>1 DEF ToSet
<1>5. /\ Limit \in 1 .. MaxLimit /\ MaxLimit \in Nat /\ Limit \in Nat /\ PoolLimit \in Nat
      /\ PoolLimit <= Greatest(MaxPool, RerankPool)
      /\ Greatest(MaxPool, RerankPool) \in Nat
  <2>1. MaxPool \in Nat /\ RerankPool \in Nat
    BY RetrievalAssumption
  <2>2. Greatest(MaxPool, RerankPool) \in Nat
    BY <2>1 DEF Greatest
  <2> QED BY <1>1, <2>2, Limits
<1>6. Len(pool) <= Greatest(MaxPool, RerankPool)
  BY <1>1, <1>5
<1>7. Len(answer) <= MaxLimit
  <2>1. CASE stage # "answered"
    <3>1. answer = <<>>
      BY <2>1 DEF SearchInv, AnswerInv
    <3> QED BY <1>5, <3>1
  <2>2. CASE stage = "answered" /\ request.mode # "grouped"
    <3>1. answer \in Seq(Hit) /\ Len(answer) <= Limit
      BY <2>2, PageIsFront
    <3> QED BY <1>5, <3>1
  <2>3. CASE stage = "answered" /\ request.mode = "grouped"
    <3> DEFINE docs == Grouped(results)[Len(results)]
    <3>1. docs \in Seq(Group) /\ answer = Truncate(docs, Limit)
      BY <2>3, GroupedPage DEF GroupsInv
    <3> HIDE DEF docs
    <3>2. Len(answer) = Least(Len(docs), Limit) /\ Len(docs) \in Nat
      BY <1>5, <3>1, TruncateHolds
    <3>3. Len(answer) <= Limit
      BY <1>5, <3>2 DEF Least
    <3>4. Len(answer) \in Nat
      BY <1>5, <3>2 DEF Least
    <3> QED BY <1>5, <3>3, <3>4
  <2> QED BY <2>1, <2>2, <2>3
<1> QED BY <1>2, <1>3, <1>4, <1>6, <1>7 DEF RetrievalTypeOK

\* A request, its pool, its results and its page have their types, and a page
\* is no longer than MAX_LIMIT.
THEOREM RetrievalTypeCorrect == RetrievalSpec => []RetrievalTypeOK
BY SearchInvariant, SearchTypes, PTL

-----------------------------------------------------------------------------
(* The run's other half. *)

\* A text being chunked and a search being served next to each other keep their
\* types, as the run of the two checks it.
THEOREM SideBySideTypes ==
  ASSUME Letter \subseteq Char, Ask \in Request
  PROVE  MCSpec => []TypeOK
<1>1. MCInit => ChunkInv /\ SearchInv
  <2> SUFFICES ASSUME MCInit PROVE ChunkInv /\ SearchInv
    OBVIOUS
  <2>1. ChunkInv
    <3>1. ASSUME text \in ShortTexts \cup LongTexts PROVE text \in Seq(Char)
      <4>1. CASE text \in ShortTexts
        <5>1. PICK n \in 0 .. 7 : text \in [1 .. n -> Letter]
          BY <4>1 DEF ShortTexts
        <5>2. text \in [1 .. n -> Char]
          BY <5>1
        <5> QED BY <5>1, <5>2
      <4>2. CASE text \in LongTexts
        <5>1. PICK n \in {10, 12}, blanks \in FewBlanks : text = LongText(n, blanks)
          BY <4>2 DEF LongTexts
        <5>2. " " \in Char /\ "x" \in Char
          BY DEF Letter
        <5>3. text \in [1 .. n -> Char]
          BY <5>1, <5>2 DEF LongText
        <5>4. n = 10 \/ n = 12
          BY <5>1
        <5> QED BY <5>3, <5>4
      <4> QED BY <3>1, <4>1, <4>2
    <3>2. ASSUME ChunkerRests
          PROVE  /\ text \in Seq(Char) /\ window \in Nat /\ overlap \in Nat
                 /\ start = 0 /\ chunks = <<>> /\ over = (Len(text) = 0)
      <4>1. text = <<>> /\ window = 0 /\ overlap = 0 /\ start = 0 /\ chunks = <<>> /\ over = TRUE
        BY <3>2 DEF ChunkerRests
      <4>2. text \in Seq(Char) /\ Len(text) = 0
        BY <4>1
      <4>3. over = (Len(text) = 0)
        BY <4>1, <4>2
      <4> QED BY <4>1, <4>2, <4>3
    <3>3. ChunkInit
      BY <3>1, <3>2 DEF MCInit, ChunkInit
    <3> QED BY <3>3, ChunkInvInit
  <2>2. SearchInv
    <3>1. CASE RetrievalInit
      BY <3>1, RetrievalInitInv
    <3>2. CASE RetrievalRests
      <4>1. request \in Request /\ stage = "failed" /\ pool = <<>> /\ results = <<>> /\ answer = <<>>
        BY <3>2 DEF RetrievalRests
      <4>2. PoolInv
        BY <4>1, NoPool
      <4> QED BY <4>1, <4>2 DEF SearchInv, StageInv, ResultsInv, ChunksInv, AnswerInv
    <3> QED BY <3>1, <3>2 DEF MCInit
  <2> QED BY <2>1, <2>2
<1>2. ChunkInv /\ SearchInv /\ [MCNext]_<<chunking, retrieval, benchmark>> => (ChunkInv /\ SearchInv)'
  <2>1. MCNext => [ChunkNext]_chunking /\ [RetrievalNext]_retrieval
    BY DEF MCNext, ChunkNext, RetrievalNext, ServesSearch, RunsBenchmark
  <2>2. UNCHANGED <<chunking, retrieval, benchmark>> => UNCHANGED chunking /\ UNCHANGED retrieval
    OBVIOUS
  <2> QED BY <2>1, <2>2, ChunkInvStep, RetrievalStepInv
<1>3. ChunkInv /\ SearchInv => TypeOK
  BY SearchTypes DEF TypeOK, ChunkInv
<1> QED BY <1>1, <1>2, <1>3, PTL DEF MCSpec
=============================================================================
