--------------------------- MODULE WritePath_proofs ---------------------------
(***************************************************************************)
(* The write path's invariants, for any number of callers, requests,       *)
(* retries and values.                                                     *)
(***************************************************************************)
EXTENDS WritePath, WellFoundedInduction, FiniteSetTheorems, TLAPS

\* Requests whose facts hold from their start on, the only ones a caller makes
\* that gives no upper bound.
OpenEnded ==
  \A cands \in AddRequest : \A k \in 1 .. Len(cands) : cands[k].until = Forever

-----------------------------------------------------------------------------
(* Versions of rows. *)

\* What a statement may make of a row: what names it, dates it and places it in
\* its chain stays, and neither `latest` nor "active" comes back.
Advance(q, r) ==
  /\ r.from = q.from /\ r.value = q.value
  /\ r.single = q.single /\ r.keyed = q.keyed
  /\ r.supersedes = q.supersedes /\ r.version = q.version /\ r.root = q.root
  /\ r.latest => q.latest
  /\ r.status = "active" => q.status = "active"
  /\ r.latest \/ r.status = "active" => r.until = q.until

\* The first version of the chain that version r of row i belongs to.
Chain(i, r) == IF r.root = NoRow THEN i ELSE r.root

RowOK(i, r) ==
  /\ i \in RowId /\ r \in Row
  /\ r.status = "active" => r.from < r.until
  /\ r.keyed /\ r.latest /\ OpenEnded => r.until = Forever
  /\ r.root = NoRow <=> r.version = 1
  /\ ~r.keyed => r.supersedes # NoRow

\* Version r of row i beside version s of another row j.
Apart(i, r, j, s) ==
  /\ ~Excludes(r, s)
  /\ r.supersedes = j =>
       IF r.keyed THEN s.from < r.from
       ELSE Chain(i, r) = Chain(j, s) /\ r.version = s.version + 1
  /\ Chain(i, r) = Chain(j, s) =>
       r.version # s.version /\ (r.version < s.version => ~r.latest)

\* What row i refers to is there.
Backed(rows, i) ==
  /\ rows[i].supersedes # NoRow => rows[i].supersedes \in DOMAIN rows \ {i}
  /\ rows[i].root # NoRow =>
       rows[i].root \in DOMAIN rows /\ rows[rows[i].root].root = NoRow
  /\ \A v \in 1 .. rows[i].version : \E j \in DOMAIN rows :
       Chain(j, rows[j]) = Chain(i, rows[i]) /\ rows[j].version = v

\* The versions a transaction sees go together.
Coherent(rows) ==
  /\ \A i \in DOMAIN rows : RowOK(i, rows[i]) /\ Backed(rows, i)
  /\ \A i, j \in DOMAIN rows : i # j => Apart(i, rows[i], j, rows[j])

-----------------------------------------------------------------------------
(* Transactions. *)

Tx == [ kind : Kinds \union {"none"}, cands : AddRequest \union {<<>>},
        target : SUBSET RowId, op : 0 .. MaxOps, attempt : 0 .. MaxRetries - 1,
        k : Nat, now : Time, seen : SUBSET RowId, matches : SUBSET RowId,
        closing : SUBSET RowId, draft : [from : Time, until : Bound],
        latest : BOOLEAN, supersedes : RowId \union {NoRow} ]

Labels == {"idle", "begin", "match", "resolve", "bump", "close", "starts",
           "insert", "check", "recheck", "tombstone", "edit", "commit"}

Adding == {"resolve", "bump", "recheck", "close", "starts", "insert", "check"}

\* What w's request is fits where it is.
Shape(w) ==
  /\ tx[w].kind = "none" <=> pc[w] = "idle"
  /\ pc[w] # "idle" => tx[w].op \in 1 .. MaxOps
  /\ pc[w] \in Adding => tx[w].kind = "add"
  /\ pc[w] = "match" => tx[w].kind \in {"add", "forgetContent"}
  /\ pc[w] = "tombstone" => tx[w].kind \in {"forget", "forgetContent"}
  /\ pc[w] = "edit" => tx[w].kind = "edit"
  /\ pc[w] # "idle" =>
       IF tx[w].kind \in {"add", "forgetContent"} THEN tx[w].cands \in AddRequest
       ELSE tx[w].cands = <<>>
  /\ pc[w] \notin {"idle", "begin"} =>
       IF tx[w].kind \in {"add", "forgetContent"}
       THEN tx[w].k \in 1 .. Len(tx[w].cands) ELSE tx[w].k = 1
  /\ pc[w] \in {"idle", "begin", "edit"} => writes[w] = <<>>

\* The rows w's transaction remembers are rows it sees.
Known(w) ==
  /\ tx[w].target \subseteq DOMAIN View(w)
  /\ tx[w].kind = "add" => tx[w].target = {}
  /\ pc[w] \in Adding => tx[w].matches \subseteq DOMAIN View(w)
  /\ pc[w] \in {"close", "starts", "insert", "check"} =>
       /\ tx[w].closing \subseteq DOMAIN View(w)
       /\ tx[w].supersedes # NoRow =>
            /\ tx[w].supersedes \in DOMAIN View(w)
            /\ View(w)[tx[w].supersedes].from < tx[w].draft.from

\* The row w is about to insert.
Drafted(w) ==
  pc[w] \in {"close", "starts", "insert", "check"} =>
    /\ tx[w].draft.from < tx[w].draft.until
    /\ tx[w].latest /\ OpenEnded => tx[w].draft.until = Forever
    /\ pc[w] = "starts" => ~tx[w].latest

\* A row w has written is a later version of the committed one, or a new row
\* named after w's request and a candidate it has done with.
Written(w) ==
  \A i \in DOMAIN writes[w] :
    IF i \in DOMAIN db THEN Advance(db[i], writes[w][i])
    ELSE /\ i[1] = w /\ i[2] = tx[w].op /\ i[3] <= tx[w].k
         /\ pc[w] # "commit" => i[3] < tx[w].k

\* No row is committed under the name of a request that has not ended.
Named(w) ==
  \A i \in DOMAIN db : i[1] = w =>
    i[2] <= tx[w].op /\ (pc[w] # "idle" => i[2] < tx[w].op)

\* Open transactions have no row in common, and what they have written goes
\* together.
Beside(u, w) ==
  /\ DOMAIN writes[u] \intersect DOMAIN writes[w] = {}
  /\ \A i \in DOMAIN writes[u], j \in DOMAIN writes[w] :
       Apart(i, writes[u][i], j, writes[w][j])

Typed ==
  /\ clock \in Time
  /\ pc \in [Writer -> Labels]
  /\ tx \in [Writer -> Tx]
  /\ result \in [Writer -> Result]
  /\ DOMAIN writes = Writer

RowsInv ==
  /\ Coherent(db)
  /\ \A w \in Writer : Coherent(View(w)) /\ Written(w) /\ Named(w)
  /\ \A u, w \in Writer : u # w => Beside(u, w)

TxInv == \A w \in Writer : Shape(w) /\ Known(w) /\ Drafted(w)

\* A row is superseded together with what follows it.
HasNext(rows, i) ==
  \E j \in DOMAIN rows :
    \/ rows[j].supersedes = i
    \/ rows[j].keyed /\ rows[j].from = rows[i].until

Followed(w) ==
  \A i \in DOMAIN View(w) : View(w)[i].status = "superseded" =>
    \/ HasNext(View(w), i)
    \/ pc[w] \in {"close", "insert", "check"} /\ View(w)[i].until = tx[w].draft.from

NextInv == ClosedHasSuccessor /\ \A w \in Writer : Followed(w)

IInv == Typed /\ RowsInv /\ TxInv /\ NextInv

-----------------------------------------------------------------------------
(* Rows. *)

\* What a row id is made of.
LEMMA RowIds ==
  ASSUME NEW i \in RowId
  PROVE  i # NoRow /\ i[2] \in Nat /\ i[3] \in Nat
<1>1. NoRow \notin RowId
  BY DEF RowId, NoRow
<1>2. i[2] \in 1 .. MaxOps /\ i[3] \in Nat
  BY DEF RowId
<1>3. 1 .. MaxOps \subseteq Nat
  BY WriteAssumption
<1> QED BY <1>1, <1>2, <1>3

LEMMA RowFields ==
  ASSUME NEW r \in Row
  PROVE  /\ r.from \in Time /\ r.until \in Bound /\ r.since \in Time
         /\ r.upto \in Bound /\ r.version \in Nat \ {0}
         /\ r.single \in BOOLEAN /\ r.keyed \in BOOLEAN /\ r.latest \in BOOLEAN
         /\ r.status \in Status /\ r.value \in Value \union {NoValue}
         /\ r.supersedes \in RowId \union {NoRow}
         /\ r.root \in RowId \union {NoRow}
BY DEF Row

\* The time line lies below Forever.
LEMMA TimeLine ==
  /\ Time \subseteq Nat /\ Bound \subseteq Nat /\ Forever \in Bound
  /\ Time \subseteq Bound
  /\ \A t \in Time : t < Forever
BY TimeAssumption DEF Time, Bound, Forever

LEMMA AdvanceItself ==
  ASSUME NEW r
  PROVE  Advance(r, r)
BY DEF Advance

LEMMA AdvanceTwice ==
  ASSUME NEW q, NEW r, NEW s, Advance(q, r), Advance(r, s)
  PROVE  Advance(q, s)
BY DEF Advance

\* A later version of a row gets on with whatever the earlier one did.
LEMMA AdvanceApart ==
  ASSUME NEW i, NEW j, NEW q, NEW r, NEW s,
         Advance(q, r), Apart(i, q, j, s), Apart(j, s, i, q)
  PROVE  Apart(i, r, j, s) /\ Apart(j, s, i, r)
<1>1. Chain(i, r) = Chain(i, q) /\ r.version = q.version
  BY DEF Advance, Chain
<1>2. ~Excludes(r, s) /\ ~Excludes(s, r)
  BY DEF Advance, Apart, Excludes, Guarded, Overlap
<1>3. Apart(i, r, j, s)
  BY <1>1, <1>2 DEF Advance, Apart
<1>4. Apart(j, s, i, r)
  BY <1>1, <1>2 DEF Advance, Apart
<1> QED BY <1>3, <1>4

\* A row that is backed stays so among more rows, and later versions of them.
LEMMA BackedGrows ==
  ASSUME NEW f, NEW g, NEW i \in DOMAIN f, Backed(f, i),
         DOMAIN f \subseteq DOMAIN g, g[i].supersedes = f[i].supersedes,
         \A j \in DOMAIN f : g[j].root = f[j].root /\ g[j].version = f[j].version
  PROVE  Backed(g, i)
<1>1. \A j \in DOMAIN f : Chain(j, g[j]) = Chain(j, f[j])
  BY DEF Chain
<1>2. f[i].root # NoRow =>
        f[i].root \in DOMAIN f /\ f[f[i].root].root = NoRow
  BY DEF Backed
<1>3. ASSUME NEW v \in 1 .. g[i].version
      PROVE  \E j \in DOMAIN g :
               Chain(j, g[j]) = Chain(i, g[i]) /\ g[j].version = v
  BY <1>1, <1>3 DEF Backed
<1>4. g[i].supersedes # NoRow => g[i].supersedes \in DOMAIN g \ {i}
  BY DEF Backed
<1>5. g[i].root # NoRow =>
        g[i].root \in DOMAIN g /\ g[g[i].root].root = NoRow
  BY <1>2
<1> QED BY <1>3, <1>4, <1>5 DEF Backed

LEMMA CoherentRow ==
  ASSUME NEW rows, Coherent(rows), NEW i \in DOMAIN rows
  PROVE  /\ i \in RowId /\ rows[i] \in Row
         /\ RowOK(i, rows[i]) /\ Backed(rows, i)
         /\ \A j \in DOMAIN rows \ {i} :
              Apart(i, rows[i], j, rows[j]) /\ Apart(j, rows[j], i, rows[i])
BY DEF Coherent, RowOK

\* Rows whose versions advance keep going together.
LEMMA CoherentAdvance ==
  ASSUME NEW f, NEW g, Coherent(f), DOMAIN g = DOMAIN f,
         \A i \in DOMAIN f : RowOK(i, g[i]) /\ Advance(f[i], g[i])
  PROVE  Coherent(g)
<1>1. ASSUME NEW i \in DOMAIN f, NEW j \in DOMAIN f, i # j
      PROVE  Apart(i, g[i], j, g[j])
  <2>1. Apart(i, f[i], j, f[j]) /\ Apart(j, f[j], i, f[i])
    BY <1>1, CoherentRow
  <2>2. Apart(i, g[i], j, f[j]) /\ Apart(j, f[j], i, g[i])
    BY <2>1, AdvanceApart
  <2> QED BY <2>2, AdvanceApart
<1>2. ASSUME NEW i \in DOMAIN f
      PROVE  Backed(g, i)
  <2>1. Backed(f, i)
    BY CoherentRow
  <2>2. \A j \in DOMAIN f : /\ g[j].root = f[j].root
                            /\ g[j].version = f[j].version
                            /\ g[j].supersedes = f[j].supersedes
    BY DEF Advance
  <2> QED BY <2>1, <2>2, BackedGrows
<1> QED BY <1>1, <1>2 DEF Coherent

LEMMA CoherentSame ==
  ASSUME NEW f, NEW g, Coherent(f), DOMAIN g = DOMAIN f,
         \A i \in DOMAIN f : g[i] = f[i]
  PROVE  Coherent(g)
<1>1. \A i \in DOMAIN f : RowOK(i, g[i]) /\ Advance(f[i], g[i])
  BY CoherentRow, AdvanceItself
<1> QED BY <1>1, CoherentAdvance

\* No row names an id that is not there.
LEMMA Unnamed ==
  ASSUME NEW rows, Coherent(rows), NEW n \in RowId, n \notin DOMAIN rows,
         NEW j \in DOMAIN rows
  PROVE  rows[j].supersedes # n /\ Chain(j, rows[j]) # n
<1>1. Backed(rows, j)
  BY CoherentRow
<1> QED BY <1>1, RowIds DEF Backed, Chain

\* A new row for the key beside a row that does not exclude it.
LEMMA InsertApart ==
  ASSUME NEW rows, Coherent(rows), NEW n \in RowId, n \notin DOMAIN rows,
         NEW r, r.keyed, r.root = NoRow,
         NEW j \in DOMAIN rows, ~Excludes(r, rows[j]),
         r.supersedes = j => rows[j].from < r.from
  PROVE  Apart(n, r, j, rows[j]) /\ Apart(j, rows[j], n, r)
<1>1. Chain(n, r) = n
  BY DEF Chain
<1>2. rows[j].supersedes # n /\ Chain(j, rows[j]) # n
  BY Unnamed
<1>3. ~Excludes(rows[j], r)
  BY DEF Excludes, Guarded, Overlap
<1> QED BY <1>1, <1>2, <1>3 DEF Apart

LEMMA CoherentInsert ==
  ASSUME NEW f, NEW g, Coherent(f), NEW n \in RowId, n \notin DOMAIN f,
         DOMAIN g = DOMAIN f \union {n}, \A j \in DOMAIN f : g[j] = f[j],
         RowOK(n, g[n]), g[n].keyed, g[n].root = NoRow,
         \A j \in DOMAIN f : ~Excludes(g[n], f[j]),
         g[n].supersedes # NoRow =>
           g[n].supersedes \in DOMAIN f /\ f[g[n].supersedes].from < g[n].from
  PROVE  Coherent(g)
<1>1. ASSUME NEW j \in DOMAIN f
      PROVE  Apart(n, g[n], j, g[j]) /\ Apart(j, g[j], n, g[n])
  <2>1. g[n].supersedes = j => f[j].from < g[n].from
    <3>1. j # NoRow
      BY CoherentRow, RowIds
    <3> QED BY <3>1
  <2> QED BY <2>1, InsertApart
<1>2. \A j \in DOMAIN f : Backed(g, j)
  BY CoherentRow, BackedGrows
<1>3. Backed(g, n)
  <2>1. g[n].version = 1
    BY DEF RowOK
  <2>2. \A v \in 1 .. 1 : v = 1
    OBVIOUS
  <2> QED BY <2>1, <2>2 DEF Backed
<1>4. \A j \in DOMAIN f : RowOK(j, g[j])
  BY CoherentRow
<1>5. \A i, j \in DOMAIN f : i # j => Apart(i, g[i], j, g[j])
  BY CoherentRow
<1> QED BY <1>1, <1>2, <1>3, <1>4, <1>5 DEF Coherent

\* The latest version of a chain is the last one.
LEMMA LatestIsLast ==
  ASSUME NEW rows, Coherent(rows), NEW i \in DOMAIN rows, rows[i].latest,
         NEW j \in DOMAIN rows, i # j, Chain(j, rows[j]) = Chain(i, rows[i])
  PROVE  rows[j].version < rows[i].version /\ ~rows[j].latest
<1>1. rows[i].version \in Nat /\ rows[j].version \in Nat
  BY CoherentRow, RowFields
<1>2. Apart(i, rows[i], j, rows[j]) /\ Apart(j, rows[j], i, rows[i])
  BY CoherentRow
<1> QED BY <1>1, <1>2 DEF Apart

\* The row r an edit of row i makes under the id n.
NextVersion(r, i, q) ==
  /\ ~r.keyed /\ r.supersedes = i
  /\ r.version = q.version + 1 /\ r.root = Chain(i, q)

LEMMA EditApart ==
  ASSUME NEW rows, Coherent(rows), NEW n \in RowId, n \notin DOMAIN rows,
         NEW i \in DOMAIN rows, rows[i].latest,
         NEW r, NextVersion(r, i, rows[i]),
         NEW j \in DOMAIN rows, i # j
  PROVE  Apart(n, r, j, rows[j]) /\ Apart(j, rows[j], n, r)
<1>1. ~Excludes(r, rows[j]) /\ ~Excludes(rows[j], r)
  BY DEF NextVersion, Excludes, Guarded
<1>2. Chain(i, rows[i]) # NoRow
  BY CoherentRow, RowIds DEF Chain
<1>3. Chain(n, r) = Chain(i, rows[i])
  BY <1>2 DEF Chain, NextVersion
<1>4. rows[j].supersedes # n
  BY Unnamed
<1>5. rows[i].version \in Nat /\ rows[j].version \in Nat
  BY CoherentRow, RowFields
<1>6. Chain(j, rows[j]) = Chain(i, rows[i]) =>
        rows[j].version < rows[i].version /\ ~rows[j].latest
  BY LatestIsLast
<1>7. Apart(n, r, j, rows[j])
  BY <1>1, <1>3, <1>5, <1>6 DEF Apart, NextVersion
<1>8. Apart(j, rows[j], n, r)
  BY <1>1, <1>3, <1>4, <1>5, <1>6 DEF Apart, NextVersion
<1> QED BY <1>7, <1>8

\* The new version beside the one it closes.
LEMMA EditApartClosed ==
  ASSUME NEW rows, Coherent(rows), NEW n \in RowId, n \notin DOMAIN rows,
         NEW i \in DOMAIN rows, NEW r, NextVersion(r, i, rows[i]),
         NEW c, Advance(rows[i], c), ~c.latest
  PROVE  Apart(n, r, i, c) /\ Apart(i, c, n, r)
<1>1. ~Excludes(r, c) /\ ~Excludes(c, r)
  BY DEF NextVersion, Excludes, Guarded
<1>2. Chain(i, rows[i]) # NoRow
  BY CoherentRow, RowIds DEF Chain
<1>3. Chain(n, r) = Chain(i, rows[i]) /\ Chain(i, c) = Chain(i, rows[i])
  BY <1>2 DEF Chain, NextVersion, Advance
<1>4. c.supersedes # n
  BY Unnamed DEF Advance
<1>5. rows[i].version \in Nat /\ c.version = rows[i].version
  BY CoherentRow, RowFields DEF Advance
<1> QED BY <1>1, <1>3, <1>4, <1>5 DEF Apart, NextVersion

LEMMA CoherentEdit ==
  ASSUME NEW f, NEW g, Coherent(f), NEW n \in RowId, n \notin DOMAIN f,
         NEW i \in DOMAIN f, f[i].latest,
         DOMAIN g = DOMAIN f \union {n}, \A j \in DOMAIN f \ {i} : g[j] = f[j],
         RowOK(i, g[i]), Advance(f[i], g[i]), ~g[i].latest,
         RowOK(n, g[n]), NextVersion(g[n], i, f[i])
  PROVE  Coherent(g)
<1>1. ASSUME NEW j \in DOMAIN f
      PROVE  Apart(n, g[n], j, g[j]) /\ Apart(j, g[j], n, g[n])
  BY EditApart, EditApartClosed
<1>2. ASSUME NEW j \in DOMAIN f
      PROVE  RowOK(j, g[j]) /\ Advance(f[j], g[j])
  BY CoherentRow, AdvanceItself
<1>3. \A j \in DOMAIN f : /\ g[j].root = f[j].root
                          /\ g[j].version = f[j].version
                          /\ g[j].supersedes = f[j].supersedes
  BY <1>2 DEF Advance
<1>4. \A j \in DOMAIN f : Backed(g, j)
  BY <1>3, CoherentRow, BackedGrows
<1>5. Backed(g, n)
  <2>1. Chain(i, f[i]) # NoRow /\ f[i].version \in Nat
    BY CoherentRow, RowIds, RowFields DEF Chain
  <2>2. Chain(i, f[i]) \in DOMAIN f /\ f[Chain(i, f[i])].root = NoRow
    BY CoherentRow DEF Backed, Chain
  <2>3. \A j \in DOMAIN f : Chain(j, g[j]) = Chain(j, f[j])
    BY <1>3 DEF Chain
  <2>4. Chain(n, g[n]) = Chain(i, f[i])
    BY <2>1 DEF Chain, NextVersion
  <2>5. ASSUME NEW v \in 1 .. g[n].version
        PROVE  \E j \in DOMAIN g :
                 Chain(j, g[j]) = Chain(n, g[n]) /\ g[j].version = v
    <3>1. CASE v = g[n].version
      BY <3>1
    <3>2. CASE v # g[n].version
      <4>1. v \in 1 .. f[i].version
        BY <2>1, <2>5, <3>2 DEF NextVersion
      <4>2. \E j \in DOMAIN f :
              Chain(j, f[j]) = Chain(i, f[i]) /\ f[j].version = v
        BY <4>1, CoherentRow DEF Backed
      <4> QED BY <4>2, <2>3, <2>4, <1>3
    <3> QED BY <3>1, <3>2
  <2> QED BY <2>1, <2>2, <2>5, <1>3 DEF Backed, NextVersion
<1>6. ASSUME NEW j \in DOMAIN f, NEW k \in DOMAIN f, j # k
      PROVE  Apart(j, g[j], k, g[k])
  <2>1. Apart(j, f[j], k, f[k]) /\ Apart(k, f[k], j, f[j])
    BY <1>6, CoherentRow
  <2>2. Apart(j, g[j], k, f[k]) /\ Apart(k, f[k], j, g[j])
    BY <1>2, <2>1, AdvanceApart
  <2> QED BY <1>2, <2>2, AdvanceApart
<1> QED BY <1>1, <1>2, <1>4, <1>5, <1>6 DEF Coherent

\* The rows h of a transaction that saw f, once another one's, g, are
\* committed: F and G are what either has written.
Merges(f, g, h, F, G) ==
  /\ Coherent(f) /\ Coherent(g)
  /\ F \subseteq DOMAIN f /\ G \subseteq DOMAIN g /\ F \intersect G = {}
  /\ DOMAIN f \ F \subseteq DOMAIN g /\ DOMAIN g \ G \subseteq DOMAIN f
  /\ DOMAIN h = DOMAIN f \union DOMAIN g
  /\ \A i \in F : h[i] = f[i]
  /\ \A i \in DOMAIN g \ F : h[i] = g[i]
  /\ \A i \in DOMAIN f \ (F \union G) : f[i] = g[i]
  /\ \A i \in DOMAIN f \intersect G : Advance(f[i], g[i])
  /\ \A i \in DOMAIN g \intersect F : Advance(g[i], f[i])
  /\ \A i \in F, j \in G : Apart(i, f[i], j, g[j]) /\ Apart(j, g[j], i, f[i])

LEMMA CoherentMerge ==
  ASSUME NEW f, NEW g, NEW h, NEW F, NEW G, Merges(f, g, h, F, G)
  PROVE  /\ Coherent(h)
         /\ \A i \in DOMAIN f : Advance(f[i], h[i])
<1> USE DEF Merges
<1>1. \A i \in DOMAIN f : Advance(f[i], h[i])
  BY AdvanceItself
<1>2. \A i \in DOMAIN g : Advance(g[i], h[i])
  BY AdvanceItself
<1>3. ASSUME NEW i \in DOMAIN f
      PROVE  /\ h[i].root = f[i].root /\ h[i].version = f[i].version
             /\ h[i].supersedes = f[i].supersedes
  BY <1>1 DEF Advance
<1>4. ASSUME NEW i \in DOMAIN g
      PROVE  /\ h[i].root = g[i].root /\ h[i].version = g[i].version
             /\ h[i].supersedes = g[i].supersedes
  BY <1>2 DEF Advance
<1>5. ASSUME NEW i \in DOMAIN h
      PROVE  RowOK(i, h[i]) /\ Backed(h, i)
  <2>1. CASE i \in F
    <3>1. RowOK(i, f[i]) /\ Backed(f, i)
      BY <2>1, CoherentRow
    <3> QED BY <2>1, <3>1, <1>3, BackedGrows
  <2>2. CASE i \notin F
    <3>1. i \in DOMAIN g /\ RowOK(i, g[i]) /\ Backed(g, i)
      BY <2>2, CoherentRow
    <3> QED BY <2>2, <3>1, <1>4, BackedGrows
  <2> QED BY <2>1, <2>2
<1>6. ASSUME NEW i \in F, NEW j \in DOMAIN h, i # j
      PROVE  Apart(i, h[i], j, h[j]) /\ Apart(j, h[j], i, h[i])
  <2>1. CASE j \in G
    BY <2>1
  <2>2. CASE j \notin G
    <3>1. j \in DOMAIN f /\ h[j] = f[j]
      BY <2>2
    <3>2. Apart(i, f[i], j, f[j]) /\ Apart(j, f[j], i, f[i])
      BY <3>1, <1>6, CoherentRow
    <3> QED BY <3>1, <3>2
  <2> QED BY <2>1, <2>2
<1>7. ASSUME NEW i \in DOMAIN h \ F, NEW j \in DOMAIN h \ F, i # j
      PROVE  Apart(i, h[i], j, h[j])
  BY <1>7, CoherentRow
<1> QED BY <1>1, <1>5, <1>6, <1>7 DEF Coherent

-----------------------------------------------------------------------------
(* Views. *)

LEMMA Views ==
  ASSUME NEW w \in Writer
  PROVE  /\ DOMAIN View(w) = DOMAIN writes[w] \union DOMAIN db
         /\ \A i \in DOMAIN writes[w] : View(w)[i] = writes[w][i]
         /\ \A i \in DOMAIN db \ DOMAIN writes[w] : View(w)[i] = db[i]
BY DEF View

LEMMA ViewsNext ==
  ASSUME NEW w \in Writer
  PROVE  /\ DOMAIN View(w)' = DOMAIN writes'[w] \union DOMAIN db'
         /\ \A i \in DOMAIN writes'[w] : View(w)'[i] = writes'[w][i]
         /\ \A i \in DOMAIN db' \ DOMAIN writes'[w] : View(w)'[i] = db'[i]
BY DEF View

LEMMA EmptyDomain == DOMAIN <<>> = {}
OBVIOUS

\* A transaction sees each committed row, or a later version of it.
LEMMA ViewAdvances ==
  ASSUME RowsInv, NEW w \in Writer, NEW i \in DOMAIN db
  PROVE  i \in DOMAIN View(w) /\ Advance(db[i], View(w)[i])
<1>0. /\ DOMAIN View(w) = DOMAIN writes[w] \union DOMAIN db
      /\ \A j \in DOMAIN writes[w] : View(w)[j] = writes[w][j]
      /\ \A j \in DOMAIN db \ DOMAIN writes[w] : View(w)[j] = db[j]
  BY Views
<1>1. CASE i \in DOMAIN writes[w]
  <2>1. Written(w)
    BY DEF RowsInv
  <2>2. Advance(db[i], writes[w][i])
    BY <1>1, <2>1 DEF Written
  <2> QED BY <1>0, <1>1, <2>2
<1>2. CASE i \notin DOMAIN writes[w]
  BY <1>0, <1>2, AdvanceItself
<1> QED BY <1>1, <1>2

\* What a statement of w leaves alone.
Alone(w) ==
  /\ db' = db
  /\ \A u \in Writer \ {w} :
       writes'[u] = writes[u] /\ pc'[u] = pc[u] /\ tx'[u] = tx[u]

LEMMA OthersKeep ==
  ASSUME RowsInv, TxInv, NEW w \in Writer, Alone(w), NEW u \in Writer \ {w}
  PROVE  /\ View(u)' = View(u) /\ Coherent(View(u))'
         /\ Written(u)' /\ Named(u)' /\ Shape(u)' /\ Known(u)' /\ Drafted(u)'
         /\ \A v \in Writer \ {w} : u # v => Beside(u, v)'
<1>1. db' = db /\ writes'[u] = writes[u] /\ pc'[u] = pc[u] /\ tx'[u] = tx[u]
  BY DEF Alone
<1>2. View(u)' = View(u)
  BY <1>1 DEF View
<1>3. Coherent(View(u))'
  <2>1. Coherent(View(u)) /\ Coherent(View(u))' = Coherent(View(u)')
    BY DEF RowsInv, Coherent, RowOK, Backed, OpenEnded
  <2> QED BY <2>1, <1>2
<1>4. Written(u)'
  BY <1>1 DEF RowsInv, Written
<1>5. Named(u)'
  BY <1>1 DEF RowsInv, Named
<1>6. Shape(u)'
  BY <1>1 DEF TxInv, Shape
<1>7. Known(u)'
  BY <1>1, <1>2 DEF TxInv, Known
<1>8. Drafted(u)'
  BY <1>1 DEF TxInv, Drafted
<1>9. ASSUME NEW v \in Writer \ {w}, u # v
      PROVE  Beside(u, v)'
  <2>1. writes'[v] = writes[v]
    BY DEF Alone
  <2> QED BY <1>1, <1>9, <2>1 DEF RowsInv, Beside
<1> QED BY <1>2, <1>3, <1>4, <1>5, <1>6, <1>7, <1>8, <1>9

LEMMA RowsStep ==
  ASSUME RowsInv, TxInv, NEW w \in Writer, Alone(w),
         Coherent(View(w))', Written(w)', Named(w)',
         \A u \in Writer \ {w} : Beside(u, w)' /\ Beside(w, u)'
  PROVE  RowsInv'
<1>1. Coherent(db)'
  BY DEF RowsInv, Alone
<1>2. \A u \in Writer : Coherent(View(u))' /\ Written(u)' /\ Named(u)'
  BY OthersKeep
<1>3. \A u, v \in Writer : u # v => Beside(u, v)'
  BY OthersKeep
<1> QED BY <1>1, <1>2, <1>3 DEF RowsInv

\* w's names stay behind its request.
LEMMA StillNamed ==
  ASSUME RowsInv, NEW w \in Writer, Alone(w), pc[w] # "idle",
         tx'[w].op = tx[w].op
  PROVE  Named(w)'
BY DEF RowsInv, Named, Alone

\* A rollback takes back what w has written, and only that.
LEMMA RowsUndone ==
  ASSUME Typed, RowsInv, TxInv, NEW w \in Writer, Alone(w), pc[w] # "idle",
         tx'[w].op = tx[w].op, writes'[w] = <<>>
  PROVE  RowsInv'
<1>1. Coherent(View(w))'
  <2>1. DOMAIN View(w)' = DOMAIN db /\ \A i \in DOMAIN db : View(w)'[i] = db[i]
    BY ViewsNext, EmptyDomain DEF Alone
  <2> QED BY <2>1, CoherentSame DEF RowsInv
<1>2. Written(w)'
  BY EmptyDomain DEF Written
<1>3. Named(w)'
  BY StillNamed
<1>4. \A u \in Writer \ {w} : Beside(u, w)' /\ Beside(w, u)'
  BY EmptyDomain DEF Beside
<1> QED BY <1>1, <1>2, <1>3, <1>4, RowsStep

\* A statement that writes nothing.
LEMMA RowsKept ==
  ASSUME Typed, RowsInv, TxInv, NEW w \in Writer, Alone(w), pc[w] # "idle",
         tx'[w].op = tx[w].op, writes'[w] = writes[w],
         \/ writes[w] = <<>>
         \/ pc[w] # "commit" /\ tx'[w].k \in Nat /\ tx[w].k <= tx'[w].k
  PROVE  RowsInv' /\ View(w)' = View(w)
<1>1. View(w)' = View(w)
  BY DEF View, Alone
<1>2. Coherent(View(w))'
  BY <1>1 DEF RowsInv
<1>3. Written(w)'
  <2>1. CASE writes[w] = <<>>
    BY <2>1, EmptyDomain DEF Written
  <2>2. CASE writes[w] # <<>>
    <3> SUFFICES ASSUME NEW i \in DOMAIN writes[w], i \notin DOMAIN db
                 PROVE  /\ i[1] = w /\ i[2] = tx'[w].op /\ i[3] <= tx'[w].k
                        /\ pc'[w] # "commit" => i[3] < tx'[w].k
      BY DEF Written, RowsInv, Alone
    <3>1. i[1] = w /\ i[2] = tx[w].op /\ i[3] < tx[w].k
      BY <2>2 DEF Written, RowsInv
    <3>2. i[3] \in Nat /\ tx[w].k \in Nat
      BY Views, CoherentRow, RowIds DEF RowsInv, Typed, Tx
    <3> QED BY <2>2, <3>1, <3>2
  <2> QED BY <2>1, <2>2
<1>4. Named(w)'
  BY StillNamed
<1>5. \A u \in Writer \ {w} : Beside(u, w)' /\ Beside(w, u)'
  BY DEF RowsInv, Beside, Alone
<1> QED BY <1>1, <1>2, <1>3, <1>4, <1>5, RowsStep

LEMMA PutRow ==
  ASSUME Typed, NEW w \in Writer, NEW i, NEW r, Put(w, i, r)
  PROVE  /\ DOMAIN writes'[w] = DOMAIN writes[w] \union {i}
         /\ writes'[w][i] = r
         /\ \A j \in DOMAIN writes[w] \ {i} : writes'[w][j] = writes[w][j]
BY DEF Typed, Put

LEMMA ViewPut ==
  ASSUME Typed, NEW w \in Writer, Alone(w), NEW i, NEW r, Put(w, i, r)
  PROVE  /\ DOMAIN View(w)' = DOMAIN View(w) \union {i}
         /\ View(w)'[i] = r
         /\ \A j \in DOMAIN View(w) \ {i} : View(w)'[j] = View(w)[j]
<1>p. /\ DOMAIN writes'[w] = DOMAIN writes[w] \union {i}
      /\ writes'[w][i] = r
      /\ \A j \in DOMAIN writes[w] \ {i} : writes'[w][j] = writes[w][j]
  BY PutRow
<1>v. db' = db /\ DOMAIN View(w) = DOMAIN writes[w] \union DOMAIN db
  BY Views DEF Alone
<1>1. DOMAIN View(w)' = DOMAIN View(w) \union {i}
  BY <1>p, <1>v, ViewsNext
<1>2. View(w)'[i] = r
  BY <1>p, ViewsNext
<1>3. ASSUME NEW j \in DOMAIN View(w) \ {i}
      PROVE  View(w)'[j] = View(w)[j]
  <2>1. CASE j \in DOMAIN writes[w]
    <3>1. View(w)'[j] = writes'[w][j]
      BY <1>p, <2>1, ViewsNext
    <3> QED BY <1>p, <2>1, <3>1, Views
  <2>2. CASE j \notin DOMAIN writes[w]
    <3>1. View(w)'[j] = db[j]
      BY <1>p, <1>v, <2>2, ViewsNext
    <3> QED BY <1>v, <2>2, <3>1, Views
  <2> QED BY <2>1, <2>2
<1> QED BY <1>1, <1>2, <1>3

\* A statement that writes a later version of a row it sees.
LEMMA RowsAdvanced ==
  ASSUME Typed, RowsInv, TxInv, NEW w \in Writer, Alone(w),
         pc[w] \notin {"idle", "commit"},
         tx'[w].op = tx[w].op, tx'[w].k \in Nat, tx[w].k <= tx'[w].k,
         NEW i \in DOMAIN View(w), Free(w, i), NEW r, Put(w, i, r),
         RowOK(i, r), Advance(View(w)[i], r)
  PROVE  /\ RowsInv'
         /\ DOMAIN View(w)' = DOMAIN View(w)
         /\ View(w)'[i] = r
         /\ \A j \in DOMAIN View(w) \ {i} : View(w)'[j] = View(w)[j]
<1>p. /\ DOMAIN writes'[w] = DOMAIN writes[w] \union {i}
      /\ writes'[w][i] = r
      /\ \A j \in DOMAIN writes[w] \ {i} : writes'[w][j] = writes[w][j]
  BY PutRow
<1>v. db' = db /\ DOMAIN View(w) = DOMAIN writes[w] \union DOMAIN db
  BY Views DEF Alone
<1>1. /\ DOMAIN View(w)' = DOMAIN View(w)
      /\ View(w)'[i] = r
      /\ \A j \in DOMAIN View(w) \ {i} : View(w)'[j] = View(w)[j]
  <2>1. DOMAIN View(w)' = DOMAIN View(w) \union {i}
    BY ViewPut
  <2>2. DOMAIN View(w)' = DOMAIN View(w)
    BY <2>1
  <2>3. View(w)'[i] = r
    BY ViewPut
  <2>4. \A j \in DOMAIN View(w) \ {i} : View(w)'[j] = View(w)[j]
    BY ViewPut
  <2> QED BY <2>2, <2>3, <2>4
<1>2. Coherent(View(w)) /\ Written(w)
  BY DEF RowsInv
<1>3. Coherent(View(w))'
  <2>1. \A j \in DOMAIN View(w) :
          RowOK(j, View(w)'[j]) /\ Advance(View(w)[j], View(w)'[j])
    BY <1>1, <1>2, CoherentRow, AdvanceItself
  <2> QED BY <1>1, <1>2, <2>1, CoherentAdvance
<1>4. Written(w)'
  <2> SUFFICES ASSUME NEW j \in DOMAIN writes'[w]
               PROVE  IF j \in DOMAIN db THEN Advance(db[j], writes'[w][j])
                      ELSE /\ j[1] = w /\ j[2] = tx'[w].op /\ j[3] <= tx'[w].k
                           /\ pc'[w] # "commit" => j[3] < tx'[w].k
    BY DEF Written, Alone
  <2>1. CASE j \in DOMAIN db
    <3>1. CASE j = i
      BY <2>1, <3>1, <1>p, ViewAdvances, AdvanceTwice
    <3>2. CASE j # i
      BY <2>1, <3>2, <1>2, <1>p DEF Written
    <3> QED BY <3>1, <3>2
  <2>2. CASE j \notin DOMAIN db
    <3>1. j \in DOMAIN writes[w]
      BY <2>2, <1>p, <1>v
    <3>2. j[1] = w /\ j[2] = tx[w].op /\ j[3] < tx[w].k
      BY <2>2, <3>1, <1>2 DEF Written
    <3>3. j[3] \in Nat /\ tx[w].k \in Nat
      BY <3>1, <1>2, Views, CoherentRow, RowIds DEF Typed, Tx
    <3> QED BY <2>2, <3>2, <3>3
  <2> QED BY <2>1, <2>2
<1>5. Named(w)'
  BY StillNamed
<1>6. ASSUME NEW u \in Writer \ {w}
      PROVE  Beside(u, w)' /\ Beside(w, u)'
  <2>1. Beside(u, w) /\ Beside(w, u) /\ Coherent(View(u)) /\ Written(u)
    BY DEF RowsInv
  <2>2. writes'[u] = writes[u] /\ i \notin DOMAIN writes[u]
    BY DEF Alone, Free
  <2>3. ASSUME NEW j \in DOMAIN writes[u]
        PROVE  Apart(j, writes[u][j], i, r) /\ Apart(i, r, j, writes[u][j])
    <3>1. CASE i \in DOMAIN writes[w]
      <4>1. View(w)[i] = writes[w][i]
        BY <3>1, Views
      <4>2. /\ Apart(j, writes[u][j], i, View(w)[i])
            /\ Apart(i, View(w)[i], j, writes[u][j])
        BY <2>1, <3>1, <4>1 DEF Beside
      <4> QED BY <4>2, AdvanceApart
    <3>2. CASE i \notin DOMAIN writes[w]
      <4>1. i \in DOMAIN db /\ View(w)[i] = db[i]
        BY <3>2, Views
      <4>2. /\ i \in DOMAIN View(u) /\ View(u)[i] = db[i]
            /\ j \in DOMAIN View(u) /\ View(u)[j] = writes[u][j]
        BY <4>1, <2>2, Views
      <4>3. /\ Apart(j, writes[u][j], i, View(w)[i])
            /\ Apart(i, View(w)[i], j, writes[u][j])
        BY <2>1, <2>2, <4>1, <4>2, CoherentRow
      <4> QED BY <4>3, AdvanceApart
    <3> QED BY <3>1, <3>2
  <2> QED BY <2>1, <2>2, <2>3, <1>p DEF Beside
<1> QED BY <1>1, <1>3, <1>4, <1>5, <1>6, RowsStep

\* The id a statement gives a new row is no other row's.
LEMMA FreshId ==
  ASSUME Typed, RowsInv, TxInv, NEW w \in Writer,
         pc[w] \notin {"idle", "begin", "commit"}
  PROVE  /\ NewId(w) \in RowId /\ NewId(w)[1] = w
         /\ NewId(w)[2] = tx[w].op /\ NewId(w)[3] = tx[w].k
         /\ \A u \in Writer : NewId(w) \notin DOMAIN View(u)
<1>1. tx[w].op \in 1 .. MaxOps /\ tx[w].k \in Nat
  BY DEF TxInv, Shape, Typed, Tx
<1>2. NewId(w) \in RowId
  BY <1>1 DEF NewId, RowId
<1>3. NewId(w)[1] = w /\ NewId(w)[2] = tx[w].op /\ NewId(w)[3] = tx[w].k
  BY DEF NewId
<1>4. NewId(w) \notin DOMAIN db
  BY <1>1, <1>3 DEF RowsInv, Named
<1>5. ASSUME NEW u \in Writer
      PROVE  NewId(w) \notin DOMAIN writes[u]
  BY <1>1, <1>3, <1>4 DEF RowsInv, Written
<1> QED BY <1>2, <1>3, <1>4, <1>5, Views

\* A statement that writes a new row of the key.
LEMMA RowsInserted ==
  ASSUME Typed, RowsInv, TxInv, NEW w \in Writer, Alone(w), pc[w] = "check",
         tx'[w].op = tx[w].op, tx'[w].k \in Nat, tx[w].k <= tx'[w].k,
         pc'[w] # "commit" => tx[w].k < tx'[w].k,
         NEW r, Put(w, NewId(w), r), RowOK(NewId(w), r), r.keyed, r.root = NoRow,
         \A j \in DOMAIN View(w) : ~Excludes(r, View(w)[j]),
         \A u \in Writer \ {w} : \A j \in DOMAIN writes[u] :
           ~Excludes(r, writes[u][j]),
         r.supersedes # NoRow =>
           /\ r.supersedes \in DOMAIN View(w)
           /\ View(w)[r.supersedes].from < r.from
  PROVE  RowsInv'
<1> DEFINE n == NewId(w)
<1>n. /\ n \in RowId /\ n[1] = w /\ n[2] = tx[w].op /\ n[3] = tx[w].k
      /\ \A u \in Writer : n \notin DOMAIN View(u)
  BY FreshId
<1>p. /\ DOMAIN writes'[w] = DOMAIN writes[w] \union {n}
      /\ writes'[w][n] = r
      /\ \A j \in DOMAIN writes[w] \ {n} : writes'[w][j] = writes[w][j]
  BY PutRow
<1>v. db' = db /\ DOMAIN View(w) = DOMAIN writes[w] \union DOMAIN db
  BY Views DEF Alone
<1>1. /\ DOMAIN View(w)' = DOMAIN View(w) \union {n}
      /\ View(w)'[n] = r
      /\ \A j \in DOMAIN View(w) \ {n} : View(w)'[j] = View(w)[j]
  BY ViewPut
<1>o. RowOK(n, r)
  OBVIOUS
<1> HIDE DEF n
<1>2. Coherent(View(w)) /\ Written(w)
  BY DEF RowsInv
<1>3. Coherent(View(w))'
  BY <1>1, <1>2, <1>n, <1>o, CoherentInsert
<1>4. Written(w)'
  <2> SUFFICES ASSUME NEW j \in DOMAIN writes'[w]
               PROVE  IF j \in DOMAIN db THEN Advance(db[j], writes'[w][j])
                      ELSE /\ j[1] = w /\ j[2] = tx'[w].op /\ j[3] <= tx'[w].k
                           /\ pc'[w] # "commit" => j[3] < tx'[w].k
    BY DEF Written, Alone
  <2>1. CASE j = n
    BY <2>1, <1>n, <1>v
  <2>2. CASE j # n
    <3>1. j \in DOMAIN writes[w] /\ writes'[w][j] = writes[w][j]
      BY <2>2, <1>p
    <3>2. IF j \in DOMAIN db THEN Advance(db[j], writes[w][j])
          ELSE j[1] = w /\ j[2] = tx[w].op /\ j[3] < tx[w].k
      BY <3>1, <1>2 DEF Written
    <3>3. j[3] \in Nat /\ tx[w].k \in Nat
      BY <3>1, <1>2, Views, CoherentRow, RowIds DEF Typed, Tx
    <3> QED BY <3>1, <3>2, <3>3
  <2> QED BY <2>1, <2>2
<1>5. Named(w)'
  BY StillNamed
<1>6. ASSUME NEW u \in Writer \ {w}
      PROVE  Beside(u, w)' /\ Beside(w, u)'
  <2>1. Beside(u, w) /\ Beside(w, u) /\ Coherent(View(u)) /\ Written(u)
    BY DEF RowsInv
  <2>2. writes'[u] = writes[u] /\ n \notin DOMAIN writes[u]
    BY <1>n, Views DEF Alone
  <2>3. ASSUME NEW j \in DOMAIN writes[u]
        PROVE  Apart(j, writes[u][j], n, r) /\ Apart(n, r, j, writes[u][j])
    <3>1. j \in DOMAIN View(u) /\ View(u)[j] = writes[u][j]
      BY Views
    <3>2. r.supersedes = j => View(u)[j].from < r.from
      <4> SUFFICES ASSUME r.supersedes = j
                   PROVE  View(u)[j].from < r.from
        OBVIOUS
      <4>1. j # NoRow
        BY <2>1, <3>1, CoherentRow, RowIds
      <4>2. j \in DOMAIN View(w) /\ View(w)[j].from < r.from
        BY <4>1
      <4>3. j \in DOMAIN db /\ View(w)[j] = db[j]
        BY <4>2, <2>1, Views DEF Beside
      <4>4. Advance(db[j], View(u)[j])
        BY <4>3, ViewAdvances
      <4> QED BY <4>2, <4>3, <4>4 DEF Advance
    <3> QED BY <1>n, <2>1, <3>1, <3>2, InsertApart
  <2> QED BY <2>1, <2>2, <2>3, <1>p DEF Beside
<1> QED BY <1>1, <1>3, <1>4, <1>5, <1>6, RowsStep

\* The statements of an edit: a new version of row i, and i closed.
LEMMA RowsEdited ==
  ASSUME Typed, RowsInv, TxInv, NEW w \in Writer, Alone(w), pc[w] = "edit",
         pc'[w] = "commit", tx'[w] = tx[w],
         NEW i \in DOMAIN View(w), Free(w, i), View(w)[i].latest,
         DOMAIN writes'[w] = {i, NewId(w)},
         RowOK(i, writes'[w][i]), Advance(View(w)[i], writes'[w][i]),
         ~writes'[w][i].latest,
         RowOK(NewId(w), writes'[w][NewId(w)]),
         NextVersion(writes'[w][NewId(w)], i, View(w)[i])
  PROVE  /\ RowsInv'
         /\ DOMAIN View(w)' = DOMAIN View(w) \union {NewId(w)}
         /\ View(w)'[i] = writes'[w][i] /\ View(w)'[NewId(w)] = writes'[w][NewId(w)]
         /\ \A j \in DOMAIN View(w) \ {i} : View(w)'[j] = View(w)[j]
<1> DEFINE n == NewId(w)
<1> DEFINE c == writes'[w][i]
<1> DEFINE r == writes'[w][n]
<1>n. /\ n \in RowId /\ n[1] = w /\ n[2] = tx[w].op /\ n[3] = tx[w].k
      /\ \A u \in Writer : n \notin DOMAIN View(u)
  BY FreshId
<1>p. /\ DOMAIN writes'[w] = {i, n}
      /\ RowOK(i, c) /\ Advance(View(w)[i], c) /\ ~c.latest
      /\ RowOK(n, r) /\ NextVersion(r, i, View(w)[i])
  OBVIOUS
<1>e. writes[w] = <<>>
  BY DEF TxInv, Shape
<1>v. db' = db /\ DOMAIN View(w) = DOMAIN db /\ \A j \in DOMAIN db : View(w)[j] = db[j]
  BY <1>e, EmptyDomain, Views DEF Alone
<1> HIDE DEF n
<1>1. /\ DOMAIN View(w)' = DOMAIN View(w) \union {n}
      /\ View(w)'[i] = c /\ View(w)'[n] = r
      /\ \A j \in DOMAIN View(w) \ {i} : View(w)'[j] = View(w)[j]
  <2>1. DOMAIN View(w)' = DOMAIN View(w) \union {n}
    BY <1>p, <1>v, ViewsNext
  <2>2. View(w)'[i] = c /\ View(w)'[n] = r
    BY <1>p, ViewsNext
  <2>3. ASSUME NEW j \in DOMAIN View(w) \ {i}
        PROVE  View(w)'[j] = View(w)[j]
    <3>1. j \in DOMAIN db /\ j \notin DOMAIN writes'[w]
      BY <1>n, <1>p, <1>v
    <3> QED BY <3>1, <1>v, ViewsNext
  <2> QED BY <2>1, <2>2, <2>3
<1> HIDE DEF c, r
<1>2. Coherent(View(w)) /\ Written(w)
  BY DEF RowsInv
<1>3. Coherent(View(w))'
  BY <1>1, <1>2, <1>n, <1>p, CoherentEdit
<1>4. Written(w)'
  <2>1. n \notin DOMAIN db /\ n[3] <= tx'[w].k
    BY <1>n, <1>v DEF Typed, Tx
  <2>2. i \in DOMAIN db /\ Advance(db[i], c)
    BY <1>p, <1>v
  <2> QED BY <2>1, <2>2, <1>n, <1>p, <1>v DEF Written, c
<1>5. Named(w)'
  BY StillNamed
<1>6. ASSUME NEW u \in Writer \ {w}
      PROVE  Beside(u, w)' /\ Beside(w, u)'
  <2>1. Coherent(View(u)) /\ writes'[u] = writes[u]
    BY DEF RowsInv, Alone
  <2>2. i \notin DOMAIN writes[u] /\ n \notin DOMAIN View(u)
    BY <1>n DEF Free
  <2>3. i \in DOMAIN View(u) /\ View(u)[i] = View(w)[i]
    BY <2>2, <1>v, Views
  <2>4. ASSUME NEW j \in DOMAIN writes[u]
        PROVE  /\ Apart(j, writes[u][j], n, r) /\ Apart(n, r, j, writes[u][j])
               /\ Apart(j, writes[u][j], i, c) /\ Apart(i, c, j, writes[u][j])
    <3>0. /\ DOMAIN View(u) = DOMAIN writes[u] \union DOMAIN db
          /\ \A k \in DOMAIN writes[u] : View(u)[k] = writes[u][k]
      BY Views
    <3>1. j \in DOMAIN View(u) /\ View(u)[j] = writes[u][j] /\ i # j
      BY <2>2, <3>0
    <3>2. Apart(j, View(u)[j], i, c) /\ Apart(i, c, j, View(u)[j])
      BY <3>1, <2>1, <2>3, <1>p, CoherentRow, AdvanceApart
    <3>3. Apart(j, View(u)[j], n, r) /\ Apart(n, r, j, View(u)[j])
      BY <3>1, <2>1, <2>2, <2>3, <1>n, <1>p, EditApart
    <3> QED BY <3>1, <3>2, <3>3
  <2>5. DOMAIN writes[u] \intersect {i, n} = {}
    <3>1. DOMAIN View(u) = DOMAIN writes[u] \union DOMAIN db
      BY Views
    <3> QED BY <2>2, <3>1
  <2> QED BY <2>1, <2>4, <2>5, <1>p DEF Beside, c, r
<1> QED BY <1>1, <1>3, <1>4, <1>5, <1>6, RowsStep DEF n, c, r

\* w's rows become the committed ones.
LEMMA RowsCommitted ==
  ASSUME Typed, RowsInv, TxInv, NEW w \in Writer, pc[w] = "commit",
         db' = View(w), writes'[w] = <<>>,
         \A u \in Writer \ {w} :
           writes'[u] = writes[u] /\ pc'[u] = pc[u] /\ tx'[u] = tx[u],
         pc'[w] = "idle", tx'[w].op = tx[w].op
  PROVE  /\ RowsInv'
         /\ \A u \in Writer : /\ DOMAIN View(u) \subseteq DOMAIN View(u)'
                              /\ \A i \in DOMAIN View(u) :
                                   Advance(View(u)[i], View(u)'[i])
<1>1. DOMAIN View(w)' = DOMAIN View(w) /\ \A i \in DOMAIN View(w) : View(w)'[i] = View(w)[i]
  BY ViewsNext, EmptyDomain
<1>2. Coherent(db)' /\ Coherent(View(w))'
  <2>1. Coherent(View(w))
    BY DEF RowsInv
  <2>2. Coherent(View(w)')
    BY <2>1, <1>1, CoherentSame
  <2> QED BY <2>1, <2>2
<1>3. ASSUME NEW u \in Writer \ {w}
      PROVE  /\ Coherent(View(u))' /\ DOMAIN View(u) \subseteq DOMAIN View(u)'
             /\ \A i \in DOMAIN View(u) : Advance(View(u)[i], View(u)'[i])
  <2> DEFINE F == DOMAIN writes[u]
  <2> DEFINE G == DOMAIN writes[w]
  <2>1. F \intersect G = {}
    BY DEF RowsInv, Beside
  <2>2. DOMAIN View(u) = F \union DOMAIN db /\ DOMAIN View(w) = G \union DOMAIN db
    BY Views
  <2>3. DOMAIN View(u)' = DOMAIN View(u) \union DOMAIN View(w)
    BY <2>2, ViewsNext
  <2>4. ASSUME NEW i \in F
        PROVE  View(u)'[i] = View(u)[i]
    <3>1. writes'[u] = writes[u] /\ i \in DOMAIN writes[u]
      OBVIOUS
    <3>2. View(u)'[i] = writes'[u][i]
      BY <3>1, ViewsNext
    <3>3. View(u)[i] = writes[u][i]
      BY <3>1, Views
    <3> QED BY <3>1, <3>2, <3>3
  <2>a. ASSUME NEW i \in DOMAIN View(w) \ F
        PROVE  View(u)'[i] = View(w)[i]
    <3>1. View(u)'[i] = db'[i]
      BY ViewsNext
    <3> QED BY <3>1
  <2>5. ASSUME NEW i \in DOMAIN View(u) \ (F \union G)
        PROVE  View(u)[i] = View(w)[i]
    <3>1. i \in DOMAIN db \ F /\ i \in DOMAIN db \ G
      BY <2>2
    <3>2. View(u)[i] = db[i]
      BY <3>1, Views
    <3>3. View(w)[i] = db[i]
      BY <3>1, Views
    <3> QED BY <3>2, <3>3
  <2>6. \A i \in DOMAIN View(u) \intersect G : Advance(View(u)[i], View(w)[i])
    BY <2>1, <2>2, Views, ViewAdvances
  <2>7. \A i \in DOMAIN View(w) \intersect F : Advance(View(w)[i], View(u)[i])
    BY <2>1, <2>2, Views, ViewAdvances
  <2>8. \A i \in F, j \in G :
          /\ Apart(i, View(u)[i], j, View(w)[j])
          /\ Apart(j, View(w)[j], i, View(u)[i])
    BY Views DEF RowsInv, Beside
  <2>9. Coherent(View(u)) /\ Coherent(View(w))
    BY DEF RowsInv
  <2> HIDE DEF F, G
  <2>b. /\ F \subseteq DOMAIN View(u) /\ G \subseteq DOMAIN View(w)
        /\ DOMAIN View(u) \ F \subseteq DOMAIN View(w)
        /\ DOMAIN View(w) \ G \subseteq DOMAIN View(u)
    BY <2>2
  <2>m. Merges(View(u), View(w), View(u)', F, G)
    BY <2>1, <2>3, <2>4, <2>a, <2>5, <2>6, <2>7, <2>8, <2>9, <2>b DEF Merges
  <2>c. /\ Coherent(View(u)')
        /\ \A i \in DOMAIN View(u) : Advance(View(u)[i], View(u)'[i])
    BY <2>m, CoherentMerge
  <2>d. DOMAIN View(u) \subseteq DOMAIN View(u)'
    BY <2>3
  <2> QED BY <2>c, <2>d
<1>4. \A i \in DOMAIN View(w) : Advance(View(w)[i], View(w)'[i])
  BY <1>1, AdvanceItself
<1>5. ASSUME NEW u \in Writer
      PROVE  Written(u)'
  <2>1. CASE u = w
    BY <2>1, EmptyDomain DEF Written
  <2>2. CASE u # w
    <3> SUFFICES ASSUME NEW i \in DOMAIN writes[u]
                 PROVE  IF i \in DOMAIN View(w) THEN Advance(View(w)[i], writes[u][i])
                        ELSE /\ i[1] = u /\ i[2] = tx[u].op /\ i[3] <= tx[u].k
                             /\ pc[u] # "commit" => i[3] < tx[u].k
      BY <2>2 DEF Written
    <3>1. i \notin DOMAIN writes[w]
      BY <2>2 DEF RowsInv, Beside
    <3>2. i \in DOMAIN View(w) => i \in DOMAIN db /\ View(w)[i] = db[i]
      BY <3>1, Views
    <3>3. i \in DOMAIN db => i \in DOMAIN View(w)
      BY Views
    <3> QED BY <3>2, <3>3 DEF RowsInv, Written
  <2> QED BY <2>1, <2>2
<1>6. ASSUME NEW u \in Writer
      PROVE  Named(u)'
  <2> SUFFICES ASSUME NEW i \in DOMAIN View(w), i[1] = u
               PROVE  i[2] <= tx'[u].op /\ (pc'[u] # "idle" => i[2] < tx'[u].op)
    BY DEF Named
  <2>1. CASE i \in DOMAIN db
    BY <2>1 DEF RowsInv, Named
  <2>2. CASE i \notin DOMAIN db
    <3>1. i \in DOMAIN writes[w]
      BY <2>2, Views
    <3>2. i[1] = w /\ i[2] = tx[w].op
      BY <2>2, <3>1 DEF RowsInv, Written
    <3>3. tx[w].op \in Nat
      BY WriteAssumption DEF Typed, Tx
    <3> QED BY <3>2, <3>3
  <2> QED BY <2>1, <2>2
<1>7. \A u, v \in Writer : u # v => Beside(u, v)'
  BY EmptyDomain DEF RowsInv, Beside
<1> QED BY <1>1, <1>2, <1>3, <1>4, <1>5, <1>6, <1>7 DEF RowsInv

-----------------------------------------------------------------------------
(* Candidates, intervals and the row an add writes. *)

LEMMA LeastElement ==
  ASSUME NEW S \in SUBSET Nat, S # {}
  PROVE  Min(S) \in S /\ \A x \in S : Min(S) <= x
<1> DEFINE R == OpToRel(<, Nat)
<1>1. IsWellFoundedOn(R, Nat)
  BY NatLessThanWellFounded
<1>2. \E x \in S : \A y \in S : ~(<<y, x>> \in R)
  <2> HIDE DEF R
  <2> QED BY <1>1, WFMin
<1>3. \A x, y \in S : ~(<<y, x>> \in R) => x <= y
  BY DEF OpToRel
<1> HIDE DEF R
<1>4. \E x \in S : \A y \in S : x <= y
  BY <1>2, <1>3
<1> QED BY <1>4 DEF Min

LEMMA IntervalHolds ==
  ASSUME NEW c \in Candidate, NEW now \in Time
  PROVE  /\ Interval(c, now) \in [from : Time, until : Bound]
         /\ Interval(c, now).from < Interval(c, now).until
         /\ c.until = Forever => Interval(c, now).until = Forever
<1>1. c.from \in Time \union {Unset} /\ c.until \in Bound
  BY DEF Candidate
<1> QED BY <1>1, TimeLine, TimeAssumption DEF Interval, Bound, Time, Forever, Unset

LEMMA HistoryHolds ==
  ASSUME NEW iv \in [from : Time, until : Bound], iv.from < iv.until,
         NEW starts \in SUBSET Time
  PROVE  HistoryUntil(iv, starts) \in Bound /\ iv.from < HistoryUntil(iv, starts)
<1> DEFINE S == {iv.until} \union { s \in starts : s > iv.from }
<1>1. S \in SUBSET Bound /\ S # {} /\ \A x \in S : iv.from < x
  BY TimeLine
<1>2. S \in SUBSET Nat
  BY <1>1, TimeLine
<1> HIDE DEF S
<1>3. Min(S) \in S
  BY <1>1, <1>2, LeastElement
<1>4. Min(S) \in Bound /\ iv.from < Min(S)
  BY <1>1, <1>3
<1> QED BY <1>4 DEF S, HistoryUntil

LEMMA CandidateAt ==
  ASSUME Typed, TxInv, NEW w \in Writer, pc[w] \notin {"idle", "begin"},
         tx[w].kind \in {"add", "forgetContent"}
  PROVE  /\ Cand(w) \in Candidate
         /\ OpenEnded => Cand(w).until = Forever
<1>1. tx[w].cands \in AddRequest /\ tx[w].k \in 1 .. Len(tx[w].cands)
  BY DEF TxInv, Shape
<1>2. tx[w].cands \in Seq(Candidate)
  BY <1>1, WriteAssumption
<1>3. Cand(w) = tx[w].cands[tx[w].k]
  BY DEF Cand
<1>4. Cand(w) \in Candidate
  BY <1>1, <1>2, <1>3
<1>5. OpenEnded => Cand(w).until = Forever
  BY <1>1, <1>3 DEF OpenEnded
<1> QED BY <1>4, <1>5

LEMMA NewRowHolds ==
  ASSUME Typed, RowsInv, TxInv, NEW w \in Writer, pc[w] = "check"
  PROVE  /\ RowOK(NewId(w), NewRow(w))
         /\ NewRow(w).keyed /\ NewRow(w).root = NoRow
         /\ NewRow(w).from = tx[w].draft.from
         /\ NewRow(w).supersedes = tx[w].supersedes
<1>1. NewId(w) \in RowId
  BY FreshId
<1>2. tx[w].kind = "add"
  BY DEF TxInv, Shape, Adding
<1>3. Cand(w).value \in Value \union {NoValue} /\ Cand(w).single \in BOOLEAN
  BY <1>2, CandidateAt DEF Candidate
<1>4. /\ tx[w].draft.from \in Time /\ tx[w].draft.until \in Bound
      /\ tx[w].latest \in BOOLEAN /\ tx[w].now \in Time
      /\ tx[w].supersedes \in RowId \union {NoRow}
  BY DEF Typed, Tx
<1>5. NewRow(w) \in Row
  BY <1>3, <1>4, TimeLine DEF NewRow, Row, Status
<1>6. /\ tx[w].draft.from < tx[w].draft.until
      /\ tx[w].latest /\ OpenEnded => tx[w].draft.until = Forever
  BY DEF TxInv, Drafted
<1> QED BY <1>1, <1>5, <1>6 DEF RowOK, NewRow

-----------------------------------------------------------------------------
(* Leaving a transaction, and going on to the next candidate. *)

LEMMA NextStays ==
  ASSUME NEW f, NEW g, DOMAIN f \subseteq DOMAIN g,
         \A j \in DOMAIN f : Advance(f[j], g[j]),
         NEW i \in DOMAIN f, HasNext(f, i), g[i].until = f[i].until
  PROVE  HasNext(g, i)
<1>1. PICK j \in DOMAIN f : \/ f[j].supersedes = i
                            \/ f[j].keyed /\ f[j].from = f[i].until
  BY DEF HasNext
<1>2. Advance(f[j], g[j]) /\ j \in DOMAIN g
  OBVIOUS
<1> QED BY <1>1, <1>2 DEF HasNext, Advance

\* w is still about to store what follows the rows it has closed.
StillOwes(w) ==
  pc[w] \in {"close", "insert", "check"} =>
    pc'[w] \in {"close", "insert", "check"} /\ tx'[w].draft.from = tx[w].draft.from

LEMMA FollowedKept ==
  ASSUME NextInv, NEW w \in Writer, View(w)' = View(w), StillOwes(w)
  PROVE  Followed(w)'
BY DEF NextInv, Followed, StillOwes, HasNext

LEMMA FollowedUndone ==
  ASSUME NextInv, NEW w \in Writer, db' = db, writes'[w] = <<>>
  PROVE  Followed(w)'
<1>1. DOMAIN View(w)' = DOMAIN db /\ \A i \in DOMAIN db : View(w)'[i] = db[i]
  BY ViewsNext, EmptyDomain
<1>2. ASSUME NEW i \in DOMAIN db, db[i].status = "superseded"
      PROVE  HasNext(View(w)', i)
  <2>1. PICK j \in DOMAIN db : \/ db[j].supersedes = i
                               \/ db[j].keyed /\ db[j].from = db[i].until
    BY <1>2 DEF NextInv, ClosedHasSuccessor
  <2>2. View(w)'[i] = db[i] /\ View(w)'[j] = db[j] /\ j \in DOMAIN View(w)'
    BY <1>1
  <2> QED BY <2>1, <2>2 DEF HasNext
<1> QED BY <1>1, <1>2 DEF Followed, HasNext

LEMMA FollowedAdvanced ==
  ASSUME NextInv, NEW w \in Writer, StillOwes(w), NEW i \in DOMAIN View(w), NEW r,
         DOMAIN View(w)' = DOMAIN View(w), View(w)'[i] = r,
         \A j \in DOMAIN View(w) \ {i} : View(w)'[j] = View(w)[j],
         Advance(View(w)[i], r),
         r.status = "superseded" =>
           \/ View(w)[i].status = "superseded" /\ r.until = View(w)[i].until
           \/ pc'[w] \in {"close", "insert", "check"} /\ r.until = tx'[w].draft.from
  PROVE  Followed(w)'
<1>1. \A j \in DOMAIN View(w) : Advance(View(w)[j], View(w)'[j])
  BY AdvanceItself
<1>2. ASSUME NEW j \in DOMAIN View(w), View(w)'[j].status = "superseded"
      PROVE  \/ HasNext(View(w)', j)
             \/ /\ pc'[w] \in {"close", "insert", "check"}
                /\ View(w)'[j].until = tx'[w].draft.from
  <2>1. CASE j = i /\ pc'[w] \in {"close", "insert", "check"} /\ r.until = tx'[w].draft.from
    BY <2>1
  <2>2. CASE View(w)[j].status = "superseded" /\ View(w)'[j].until = View(w)[j].until
    <3>1. \/ HasNext(View(w), j)
          \/ pc[w] \in {"close", "insert", "check"} /\ View(w)[j].until = tx[w].draft.from
      BY <2>2 DEF NextInv, Followed
    <3>2. CASE HasNext(View(w), j)
      BY <1>1, <2>2, <3>2, NextStays
    <3>3. CASE pc[w] \in {"close", "insert", "check"} /\ View(w)[j].until = tx[w].draft.from
      BY <2>2, <3>3 DEF StillOwes
    <3> QED BY <3>1, <3>2, <3>3
  <2> QED BY <1>2, <2>1, <2>2
<1> QED BY <1>2 DEF Followed, HasNext

LEMMA FollowedInserted ==
  ASSUME NextInv, NEW w \in Writer, NEW n, n \notin DOMAIN View(w),
         DOMAIN View(w)' = DOMAIN View(w) \union {n},
         \A j \in DOMAIN View(w) \ {n} : View(w)'[j] = View(w)[j],
         View(w)'[n].status = "active", View(w)'[n].keyed,
         View(w)'[n].from = tx[w].draft.from
  PROVE  Followed(w)'
<1>1. \A j \in DOMAIN View(w) : View(w)'[j] = View(w)[j]
  OBVIOUS
<1>2. \A j \in DOMAIN View(w) : Advance(View(w)[j], View(w)'[j])
  BY <1>1, AdvanceItself
<1>3. ASSUME NEW j \in DOMAIN View(w)', View(w)'[j].status = "superseded"
      PROVE  HasNext(View(w)', j)
  <2>1. j \in DOMAIN View(w) /\ View(w)'[j] = View(w)[j]
    BY <1>1, <1>3
  <2>2. \/ HasNext(View(w), j)
        \/ View(w)[j].until = tx[w].draft.from
    BY <1>3, <2>1 DEF NextInv, Followed
  <2>3. CASE HasNext(View(w), j)
    BY <1>2, <2>1, <2>3, NextStays
  <2>4. CASE View(w)[j].until = tx[w].draft.from
    BY <2>1, <2>4 DEF HasNext
  <2> QED BY <2>2, <2>3, <2>4
<1> QED BY <1>3 DEF Followed, HasNext

LEMMA TxStep ==
  ASSUME RowsInv, TxInv, NextInv, NEW w \in Writer, Alone(w),
         Shape(w)', Known(w)', Drafted(w)', Followed(w)'
  PROVE  TxInv' /\ NextInv'
<1>1. TxInv'
  BY OthersKeep DEF TxInv
<1>2. ClosedHasSuccessor'
  BY DEF NextInv, ClosedHasSuccessor, Alone
<1>3. ASSUME NEW u \in Writer \ {w}
      PROVE  Followed(u)'
  <2>1. View(u)' = View(u) /\ pc'[u] = pc[u] /\ tx'[u] = tx[u]
    BY OthersKeep DEF Alone
  <2>2. StillOwes(u)
    BY <2>1 DEF StillOwes
  <2> QED BY <2>1, <2>2, FollowedKept
<1> QED BY <1>1, <1>2, <1>3 DEF NextInv

LEMMA Returned ==
  ASSUME Typed, NEW w \in Writer, NEW out \in Result, Return(w, out)
  PROVE  /\ pc' \in [Writer -> Labels] /\ tx' \in [Writer -> Tx]
         /\ result' \in [Writer -> Result]
         /\ pc'[w] = "idle" /\ tx'[w].op = tx[w].op
         /\ tx'[w].target = {} /\ tx'[w].kind = "none"
         /\ \A u \in Writer \ {w} : pc'[u] = pc[u] /\ tx'[u] = tx[u]
<1>2. tx[w].op \in 0 .. MaxOps
  BY DEF Typed, Tx
<1>3. [Idle EXCEPT !.op = tx[w].op] \in Tx
  <2>1. 0 \in Time /\ 0 \in 0 .. MaxRetries - 1 /\ 0 \in Nat
    BY TimeAssumption, WriteAssumption DEF Time
  <2>2. [from |-> 0, until |-> Forever] \in [from : Time, until : Bound]
    BY <2>1, TimeLine
  <2> QED BY <1>2, <2>1, <2>2 DEF Idle, Tx
<1>4. pc' \in [Writer -> Labels] /\ result' \in [Writer -> Result]
  BY DEF Return, Typed, Labels
<1>5. tx' = [tx EXCEPT ![w] = [Idle EXCEPT !.op = tx[w].op]]
  BY DEF Return
<1>6. tx' \in [Writer -> Tx] /\ tx'[w] = [Idle EXCEPT !.op = tx[w].op]
  BY <1>3, <1>5 DEF Typed
<1>7. tx'[w].op = tx[w].op /\ tx'[w].target = {} /\ tx'[w].kind = "none"
  BY <1>6 DEF Idle
<1>8. pc'[w] = "idle"
  BY DEF Return, Typed
<1>9. \A u \in Writer \ {w} : pc'[u] = pc[u] /\ tx'[u] = tx[u]
  BY <1>5 DEF Return, Typed
<1> QED BY <1>4, <1>6, <1>7, <1>8, <1>9

LEMMA RolledBack ==
  ASSUME Typed, NEW w \in Writer, Rollback(w)
  PROVE  /\ DOMAIN writes' = Writer /\ writes'[w] = <<>>
         /\ \A u \in Writer \ {w} : writes'[u] = writes[u]
BY DEF Typed, Rollback

\* A call that ends without committing.
LEMMA Leaves ==
  ASSUME IInv, NEW w \in Writer, pc[w] # "idle", NEW out \in Result,
         Rollback(w), Return(w, out), UNCHANGED <<db, clock>>
  PROVE  IInv' /\ Alone(w)
<1> USE DEF IInv
<1>1. Alone(w)
  BY Returned, RolledBack DEF Alone
<1>2. Typed'
  BY Returned, RolledBack DEF Typed
<1>3. RowsInv'
  BY <1>1, Returned, RolledBack, RowsUndone
<1>4. Shape(w)'
  BY Returned, RolledBack DEF Shape, Adding
<1>5. Known(w)' /\ Drafted(w)'
  BY Returned DEF Known, Drafted, Adding
<1>6. Followed(w)'
  BY RolledBack, FollowedUndone
<1> QED BY <1>1, <1>2, <1>3, <1>4, <1>5, <1>6, TxStep

\* A transient conflict: another attempt, or the last one's failure.
LEMMA Retries ==
  ASSUME IInv, NEW w \in Writer, pc[w] # "idle", tx[w].kind = "add",
         NEW out \in Result, Retry(w, out), UNCHANGED <<db, clock>>
  PROVE  IInv' /\ Alone(w)
<1> USE DEF IInv
<1>1. CASE tx[w].attempt + 1 < MaxRetries
  <2>1. /\ pc' = [pc EXCEPT ![w] = "begin"]
        /\ tx' = [tx EXCEPT ![w].attempt = @ + 1]
        /\ result' = result /\ Rollback(w)
    BY <1>1 DEF Retry
  <2>2. /\ tx' \in [Writer -> Tx]
        /\ tx'[w] = [tx[w] EXCEPT !.attempt = @ + 1]
        /\ \A u \in Writer \ {w} : tx'[u] = tx[u]
    <3>1. tx[w] \in Tx /\ tx[w].attempt + 1 \in 0 .. MaxRetries - 1
      BY <1>1, WriteAssumption DEF Typed, Tx
    <3>2. [tx[w] EXCEPT !.attempt = @ + 1] \in Tx
      BY <3>1 DEF Tx
    <3> QED BY <2>1, <3>2 DEF Typed
  <2>3. /\ pc' \in [Writer -> Labels] /\ pc'[w] = "begin"
        /\ \A u \in Writer \ {w} : pc'[u] = pc[u]
    BY <2>1 DEF Typed, Labels
  <2>4. Alone(w)
    BY <2>1, <2>2, <2>3, RolledBack DEF Alone
  <2>5. Typed'
    BY <2>1, <2>2, <2>3, RolledBack DEF Typed
  <2>6. RowsInv'
    BY <2>1, <2>2, <2>4, RolledBack, RowsUndone DEF Typed, Tx
  <2>7. Shape(w)'
    BY <2>1, <2>2, <2>3, RolledBack DEF TxInv, Shape, Adding, Typed, Tx
  <2>8. Known(w)' /\ Drafted(w)'
    <3>1. tx'[w].target = {} /\ tx'[w].kind = "add"
      BY <2>2 DEF Typed, Tx, TxInv, Known
    <3> QED BY <2>3, <3>1 DEF Known, Drafted, Adding
  <2>9. Followed(w)'
    BY <2>1, RolledBack, FollowedUndone
  <2> QED BY <2>4, <2>5, <2>6, <2>7, <2>8, <2>9, TxStep
<1>2. CASE ~(tx[w].attempt + 1 < MaxRetries)
  BY <1>2, Leaves DEF Retry
<1> QED BY <1>1, <1>2

LEMMA GoesOn ==
  ASSUME Typed, TxInv, NEW w \in Writer, pc[w] \in {"bump", "recheck", "check", "tombstone"},
         NextCandidate(w)
  PROVE  /\ pc' \in [Writer -> Labels] /\ tx' \in [Writer -> Tx]
         /\ pc'[w] \in {"match", "commit"}
         /\ tx'[w].op = tx[w].op /\ tx'[w].target = tx[w].target
         /\ tx'[w].kind = tx[w].kind
         /\ tx'[w].k \in Nat /\ tx[w].k <= tx'[w].k
         /\ pc'[w] # "commit" => tx[w].k < tx'[w].k
         /\ \A u \in Writer \ {w} : pc'[u] = pc[u] /\ tx'[u] = tx[u]
         /\ Shape(w)'
<1>t. /\ tx[w] \in Tx /\ tx[w].k \in Nat
      /\ tx[w].kind \in Kinds \union {"none"}
      /\ tx[w].cands \in Seq(Candidate)
  <2>1. tx[w] \in Tx
    BY DEF Typed
  <2>2. /\ tx[w].k \in Nat /\ tx[w].kind \in Kinds \union {"none"}
        /\ tx[w].cands \in AddRequest \union {<<>>}
    BY <2>1 DEF Tx
  <2>3. <<>> \in Seq(Candidate)
    OBVIOUS
  <2> QED BY <2>1, <2>2, <2>3, WriteAssumption
<1>s. /\ Shape(w) /\ tx[w].kind \in {"add", "forget", "forgetContent"}
      /\ pc[w] # "idle" /\ pc[w] # "begin"
  BY DEF TxInv, Shape, Adding
<1>l. Len(tx[w].cands) \in Nat
  BY <1>t
<1>1. CASE tx[w].k < Len(tx[w].cands)
  <2>1. [tx[w] EXCEPT !.k = @ + 1] \in Tx
    BY <1>t DEF Tx
  <2>2. /\ tx' \in [Writer -> Tx] /\ tx'[w] = [tx[w] EXCEPT !.k = @ + 1]
        /\ \A u \in Writer \ {w} : tx'[u] = tx[u]
    BY <1>1, <2>1 DEF NextCandidate, Typed
  <2>3. /\ pc' \in [Writer -> Labels] /\ pc'[w] = "match"
        /\ \A u \in Writer \ {w} : pc'[u] = pc[u]
    BY <1>1 DEF NextCandidate, Typed, Labels
  <2>4. /\ tx'[w].op = tx[w].op /\ tx'[w].target = tx[w].target
        /\ tx'[w].kind = tx[w].kind /\ tx'[w].cands = tx[w].cands
        /\ tx'[w].k = tx[w].k + 1
    BY <2>2, <1>t DEF Tx
  <2>5. tx[w].kind # "forget"
    BY <1>1, <1>s, <1>t DEF Shape
  <2>6. Shape(w)'
    BY <1>1, <1>s, <1>t, <1>l, <2>3, <2>4, <2>5 DEF Shape, Adding
  <2> QED BY <1>t, <2>2, <2>3, <2>4, <2>6
<1>2. CASE ~(tx[w].k < Len(tx[w].cands))
  <2>1. tx' = tx
    BY <1>2 DEF NextCandidate
  <2>2. /\ pc' \in [Writer -> Labels] /\ pc'[w] = "commit"
        /\ \A u \in Writer \ {w} : pc'[u] = pc[u]
    BY <1>2 DEF NextCandidate, Typed, Labels
  <2>3. Shape(w)'
    BY <1>s, <2>1, <2>2 DEF Shape, Adding
  <2> QED BY <1>t, <2>1, <2>2, <2>3 DEF Typed
<1> QED BY <1>1, <1>2

\* What stays of w's transaction where it no longer adds.
LEMMA NotAdding ==
  ASSUME NEW w \in Writer, pc'[w] \notin Adding,
         tx'[w].target \subseteq DOMAIN View(w)',
         tx'[w].kind = "add" => tx'[w].target = {}
  PROVE  Known(w)' /\ Drafted(w)'
BY DEF Known, Drafted, Adding

-----------------------------------------------------------------------------
(* Every action keeps the invariant. *)

LEMMA TheSubmit ==
  ASSUME IInv, NEW w \in Writer, Submit(w)
  PROVE  IInv' /\ Alone(w)
<1> USE DEF IInv
<1>1. PICK kind \in Kinds :
        \E cands  \in IF ById(kind) THEN {<<>>} ELSE AddRequest,
           target \in IF ById(kind) THEN { {i} : i \in DOMAIN db } ELSE {{}} :
          tx' = [tx EXCEPT ![w] =
                  [Idle EXCEPT !.kind = kind, !.cands = cands,
                               !.target = target, !.op = tx[w].op + 1]]
  BY DEF Submit
<1>2. PICK cands  \in IF ById(kind) THEN {<<>>} ELSE AddRequest,
           target \in IF ById(kind) THEN { {i} : i \in DOMAIN db } ELSE {{}} :
          tx' = [tx EXCEPT ![w] =
                  [Idle EXCEPT !.kind = kind, !.cands = cands,
                               !.target = target, !.op = tx[w].op + 1]]
  BY <1>1
<1>3. /\ pc[w] = "idle" /\ tx[w].op + 1 \in 1 .. MaxOps
      /\ tx[w].op \in Nat /\ tx[w].op + 1 \in 0 .. MaxOps
  BY WriteAssumption DEF Submit, Typed, Tx
<1>4. target \subseteq DOMAIN db /\ target \in SUBSET RowId
  BY CoherentRow DEF RowsInv
<1> DEFINE T == [Idle EXCEPT !.kind = kind, !.cands = cands,
                             !.target = target, !.op = tx[w].op + 1]
<1>5. T \in Tx
  <2>1. 0 \in Time /\ 0 \in 0 .. MaxRetries - 1 /\ 0 \in Nat
    BY TimeAssumption, WriteAssumption DEF Time
  <2>2. [from |-> 0, until |-> Forever] \in [from : Time, until : Bound]
    BY <2>1, TimeLine
  <2>3. cands \in AddRequest \union {<<>>}
    OBVIOUS
  <2> QED BY <1>3, <1>4, <2>1, <2>2, <2>3 DEF Idle, Tx
<1>6. /\ T.kind = kind /\ T.cands = cands /\ T.target = target
      /\ T.op = tx[w].op + 1
  BY DEF Idle
<1> HIDE DEF T
<1>7. /\ tx' \in [Writer -> Tx] /\ tx'[w] = T
      /\ \A u \in Writer \ {w} : tx'[u] = tx[u]
  BY <1>2, <1>5 DEF Typed, T
<1>8. /\ pc' \in [Writer -> Labels] /\ pc'[w] = "begin"
      /\ \A u \in Writer \ {w} : pc'[u] = pc[u]
  BY DEF Submit, Typed, Labels
<1>9. /\ db' = db /\ clock' = clock /\ writes' = writes
      /\ result' \in [Writer -> Result]
  BY DEF Submit, Typed, Result
<1>10. Alone(w)
  BY <1>7, <1>8, <1>9 DEF Alone
<1>11. Typed'
  BY <1>7, <1>8, <1>9 DEF Typed
<1>12. RowsInv'
  <2>1. writes[w] = <<>>
    BY <1>3 DEF TxInv, Shape
  <2>2. View(w)' = View(w)
    BY <1>9 DEF View
  <2>3. Coherent(View(w))'
    BY <2>2 DEF RowsInv
  <2>4. Written(w)'
    BY <1>9, <2>1, EmptyDomain DEF Written
  <2>5. Named(w)'
    <3> SUFFICES ASSUME NEW i \in DOMAIN db, i[1] = w
                 PROVE  i[2] <= tx'[w].op /\ i[2] < tx'[w].op
      BY <1>9 DEF Named
    <3>1. i[2] <= tx[w].op /\ i[2] \in Nat
      BY CoherentRow, RowIds DEF RowsInv, Named
    <3> QED BY <3>1, <1>3, <1>6, <1>7
  <2>6. \A u \in Writer \ {w} : Beside(u, w)' /\ Beside(w, u)'
    BY <1>9 DEF RowsInv, Beside
  <2> QED BY <1>10, <2>3, <2>4, <2>5, <2>6, RowsStep
<1>13. Shape(w)'
  <2>1. writes[w] = <<>>
    BY <1>3 DEF TxInv, Shape
  <2>2. kind \in {"add", "forget", "forgetContent", "edit"}
    BY WriteAssumption
  <2>3. IF kind \in {"add", "forgetContent"} THEN cands \in AddRequest
        ELSE cands = <<>>
    BY <2>2, <1>2 DEF ById
  <2> QED BY <1>3, <1>6, <1>7, <1>8, <1>9, <2>1, <2>2, <2>3 DEF Shape, Adding
<1>14. Known(w)' /\ Drafted(w)'
  <2>1. kind = "add" => target = {}
    BY <1>2 DEF ById
  <2>2. target \subseteq DOMAIN View(w)'
    BY <1>4, <1>9, ViewsNext
  <2> QED BY <1>6, <1>7, <1>8, <2>1, <2>2, NotAdding DEF Adding
<1>15. Followed(w)'
  <2>1. View(w)' = View(w) /\ StillOwes(w)
    BY <1>3, <1>9 DEF View, StillOwes
  <2> QED BY <2>1, FollowedKept
<1> QED BY <1>10, <1>11, <1>12, <1>13, <1>14, <1>15, TxStep

LEMMA TheBegin ==
  ASSUME IInv, NEW w \in Writer, Begin(w)
  PROVE  IInv' /\ Alone(w)
<1> USE DEF IInv
<1>1. /\ pc[w] = "begin" /\ clock + 1 \in Time
      /\ tx[w] \in Tx /\ tx[w].op \in 1 .. MaxOps /\ writes[w] = <<>>
      /\ tx[w].kind \in {"add", "forget", "forgetContent", "edit"}
  <2>1. pc[w] = "begin" /\ clock + 1 \in Time
    BY TimeAssumption DEF Begin, Typed, Time
  <2> QED BY <2>1, WriteAssumption DEF Typed, Tx, TxInv, Shape
<1>2. [tx[w] EXCEPT !.now = clock + 1, !.k = 1] \in Tx
  BY <1>1 DEF Tx
<1>3. tx' = [tx EXCEPT ![w] = [tx[w] EXCEPT !.now = clock + 1, !.k = 1]]
  BY DEF Begin, Typed
<1>4. /\ tx' \in [Writer -> Tx]
      /\ tx'[w] = [tx[w] EXCEPT !.now = clock + 1, !.k = 1]
      /\ \A u \in Writer \ {w} : tx'[u] = tx[u]
  BY <1>2, <1>3 DEF Typed
<1>5. /\ tx'[w].op = tx[w].op /\ tx'[w].kind = tx[w].kind
      /\ tx'[w].cands = tx[w].cands /\ tx'[w].target = tx[w].target
      /\ tx'[w].k = 1
  BY <1>1, <1>4 DEF Tx
<1>6. /\ pc' \in [Writer -> Labels]
      /\ tx[w].kind \in {"add", "forgetContent"} => pc'[w] = "match"
      /\ tx[w].kind = "forget" => pc'[w] = "tombstone"
      /\ tx[w].kind = "edit" => pc'[w] = "edit"
      /\ \A u \in Writer \ {w} : pc'[u] = pc[u]
  BY <1>1 DEF Begin, Typed, Labels
<1>7. db' = db /\ clock' \in Time /\ writes' = writes /\ result' = result
  BY <1>1 DEF Begin
<1>8. Alone(w)
  BY <1>4, <1>6, <1>7 DEF Alone
<1>9. Typed'
  BY <1>4, <1>6, <1>7 DEF Typed
<1>10. RowsInv' /\ View(w)' = View(w)
  BY <1>1, <1>5, <1>7, <1>8, RowsKept
<1>11. Shape(w)'
  <2>1. tx[w].kind \in {"add", "forgetContent"} =>
          tx[w].cands \in AddRequest /\ 1 \in 1 .. Len(tx[w].cands)
    <3>1. \A s \in Seq(Candidate) \ {<<>>} : 1 \in 1 .. Len(s)
      OBVIOUS
    <3> QED BY <1>1, <3>1, WriteAssumption DEF TxInv, Shape
  <2>2. tx[w].kind \in {"forget", "edit"} => tx[w].cands = <<>>
    BY <1>1 DEF TxInv, Shape
  <2> QED BY <1>1, <1>5, <1>6, <1>7, <2>1, <2>2 DEF Shape, Adding
<1>12. Known(w)' /\ Drafted(w)'
  <2>1. pc'[w] \notin Adding
    BY <1>1, <1>6 DEF Adding
  <2> QED BY <1>5, <1>10, <2>1, NotAdding DEF TxInv, Known
<1>13. Followed(w)'
  BY <1>1, <1>10, FollowedKept DEF StillOwes
<1> QED BY <1>8, <1>9, <1>10, <1>11, <1>12, <1>13, TxStep

LEMMA MatchesSeen ==
  ASSUME NEW w \in Writer
  PROVE  LatestMatches(w) \subseteq DOMAIN View(w)
BY DEF LatestMatches

LEMMA TheReadMatches ==
  ASSUME IInv, NEW w \in Writer, ReadMatches(w)
  PROVE  IInv' /\ Alone(w)
<1> USE DEF IInv
<1>1. pc[w] = "match" /\ tx[w].kind = "add" /\ tx[w] \in Tx
  BY DEF ReadMatches, Typed
<1>2. DOMAIN View(w) \subseteq RowId
  BY CoherentRow DEF RowsInv
<1>3. [tx[w] EXCEPT !.matches = LatestMatches(w), !.seen = DOMAIN View(w)] \in Tx
  BY <1>1, <1>2, MatchesSeen DEF Tx
<1>4. tx' = [tx EXCEPT ![w] = [tx[w] EXCEPT !.matches = LatestMatches(w),
                                            !.seen = DOMAIN View(w)]]
  BY DEF ReadMatches, Typed
<1>5. /\ tx' \in [Writer -> Tx]
      /\ tx'[w] = [tx[w] EXCEPT !.matches = LatestMatches(w),
                                !.seen = DOMAIN View(w)]
      /\ \A u \in Writer \ {w} : tx'[u] = tx[u]
  BY <1>3, <1>4 DEF Typed
<1>6. /\ tx'[w].op = tx[w].op /\ tx'[w].kind = tx[w].kind
      /\ tx'[w].cands = tx[w].cands /\ tx'[w].target = tx[w].target
      /\ tx'[w].k = tx[w].k /\ tx'[w].matches = LatestMatches(w)
  BY <1>1, <1>5 DEF Tx
<1>7. /\ pc' \in [Writer -> Labels] /\ pc'[w] = "resolve"
      /\ \A u \in Writer \ {w} : pc'[u] = pc[u]
  BY DEF ReadMatches, Typed, Labels
<1>8. db' = db /\ clock' = clock /\ writes' = writes /\ result' = result
  BY DEF ReadMatches
<1>9. Alone(w)
  BY <1>5, <1>7, <1>8 DEF Alone
<1>10. Typed'
  BY <1>5, <1>7, <1>8 DEF Typed
<1>11. RowsInv' /\ View(w)' = View(w)
  <2>1. tx[w].k \in Nat
    BY <1>1 DEF Tx
  <2> QED BY <1>1, <1>6, <1>8, <1>9, <2>1, RowsKept
<1>12. Shape(w)'
  BY <1>1, <1>6, <1>7, <1>8 DEF TxInv, Shape, Adding
<1>13. Known(w)' /\ Drafted(w)'
  BY <1>1, <1>6, <1>7, <1>11, MatchesSeen DEF TxInv, Known, Drafted, Adding
<1>14. Followed(w)'
  BY <1>1, <1>11, FollowedKept DEF StillOwes
<1> QED BY <1>9, <1>10, <1>11, <1>12, <1>13, <1>14, TxStep

LEMMA TheResolve ==
  ASSUME IInv, NEW w \in Writer, Resolve(w)
  PROVE  IInv' /\ Alone(w)
<1> USE DEF IInv
<1> DEFINE matches == Rows(w, tx[w].matches)
<1> DEFINE priors  == Rows(w, Contradicted(Cand(w), matches))
<1> DEFINE iv      == Interval(Cand(w), clock + 1)
<1> DEFINE newer   == IsNewer(iv.from, priors)
<1> DEFINE T == [tx[w] EXCEPT !.draft = iv, !.latest = newer,
                              !.supersedes = NoRow, !.closing = DOMAIN priors]
<1>1. /\ pc[w] = "resolve" /\ tx[w] \in Tx /\ tx[w].k \in Nat
      /\ tx[w].kind = "add" /\ tx[w].matches \subseteq DOMAIN View(w)
  BY DEF Resolve, Typed, Tx, TxInv, Shape, Known, Adding
<1>2. db' = db /\ writes' = writes /\ result' = result
  BY DEF Resolve
<1>3. CASE Decide(Cand(w), matches) = "dedup"
  <2>1. /\ pc' = [pc EXCEPT ![w] = "bump"] /\ clock' = clock /\ tx' = tx
    BY <1>3 DEF Resolve
  <2>2. /\ pc' \in [Writer -> Labels] /\ pc'[w] = "bump"
        /\ \A u \in Writer \ {w} : pc'[u] = pc[u]
    BY <2>1 DEF Typed, Labels
  <2>3. Alone(w)
    BY <1>2, <2>1, <2>2 DEF Alone
  <2>4. Typed'
    BY <1>2, <2>1, <2>2 DEF Typed
  <2>5. RowsInv' /\ View(w)' = View(w)
    BY <1>1, <1>2, <2>1, <2>3, RowsKept
  <2>6. Shape(w)' /\ Known(w)' /\ Drafted(w)'
    BY <1>1, <1>2, <2>1, <2>2, <2>5 DEF TxInv, Shape, Known, Drafted, Adding
  <2>7. Followed(w)'
    BY <1>1, <2>5, FollowedKept DEF StillOwes
  <2> QED BY <2>3, <2>4, <2>5, <2>6, <2>7, TxStep
<1>4. CASE Decide(Cand(w), matches) # "dedup"
  <2>1. /\ clock < MaxTime
        /\ clock' = IF Cand(w).from = Unset THEN clock + 1 ELSE clock
        /\ pc' = [pc EXCEPT ![w] =
                    CASE Decide(Cand(w), matches) = "insert" -> "insert"
                      [] newer -> "close"
                      [] OTHER -> "starts"]
        /\ tx' = [tx EXCEPT ![w].draft = iv, ![w].latest = newer,
                            ![w].supersedes = NoRow, ![w].closing = DOMAIN priors]
    BY <1>4 DEF Resolve
  <2>2. clock + 1 \in Time /\ clock' \in Time
    BY <2>1, TimeAssumption DEF Typed, Time
  <2>3. Cand(w) \in Candidate /\ (OpenEnded => Cand(w).until = Forever)
    BY <1>1, CandidateAt
  <2>4. /\ iv \in [from : Time, until : Bound] /\ iv.from < iv.until
        /\ OpenEnded => iv.until = Forever
    BY <2>2, <2>3, IntervalHolds
  <2>5. newer \in BOOLEAN
    BY DEF IsNewer
  <2>6. DOMAIN priors \subseteq DOMAIN View(w) /\ DOMAIN View(w) \subseteq RowId
    BY <1>1, CoherentRow DEF RowsInv, Rows, Contradicted
  <2>7. /\ "starts" \in Labels /\ "close" \in Labels /\ "insert" \in Labels
    BY DEF Labels
  <2>8. /\ pc' \in [Writer -> Labels] /\ pc'[w] \in {"insert", "close", "starts"}
        /\ \A u \in Writer \ {w} : pc'[u] = pc[u]
        /\ pc'[w] = "starts" => ~newer
    <3> HIDE DEF newer, matches
    <3> QED BY <2>1, <2>7 DEF Typed
  <2> HIDE DEF iv, newer, priors, matches
  <2>9. T \in Tx
    BY <1>1, <2>4, <2>5, <2>6 DEF Tx
  <2>10. tx' = [tx EXCEPT ![w] = T]
    BY <2>1 DEF Typed
  <2>11. /\ tx' \in [Writer -> Tx] /\ tx'[w] = T
         /\ \A u \in Writer \ {w} : tx'[u] = tx[u]
    BY <2>9, <2>10 DEF Typed
  <2>12. /\ T.op = tx[w].op /\ T.kind = tx[w].kind /\ T.cands = tx[w].cands
         /\ T.target = tx[w].target /\ T.k = tx[w].k
         /\ T.matches = tx[w].matches /\ T.closing = DOMAIN priors
         /\ T.supersedes = NoRow /\ T.draft = iv
    BY <1>1 DEF Tx
  <2>13. T.latest = newer
    BY <1>1 DEF Tx
  <2> HIDE DEF T
  <2>14. Alone(w)
    BY <1>2, <2>8, <2>11 DEF Alone
  <2>15. Typed'
    BY <1>2, <2>2, <2>8, <2>11 DEF Typed
  <2>16. RowsInv' /\ View(w)' = View(w)
    BY <1>1, <1>2, <2>11, <2>12, <2>14, RowsKept
  <2>17. Shape(w)'
    BY <1>1, <1>2, <2>8, <2>11, <2>12 DEF TxInv, Shape, Adding
  <2>18. Known(w)'
    BY <1>1, <2>6, <2>8, <2>11, <2>12, <2>16 DEF TxInv, Known, Adding
  <2>19. Drafted(w)'
    BY <2>4, <2>8, <2>11, <2>12, <2>13 DEF Drafted
  <2>20. Followed(w)'
    BY <1>1, <2>16, FollowedKept DEF StillOwes
  <2> QED BY <2>14, <2>15, <2>16, <2>17, <2>18, <2>19, <2>20, TxStep
<1> QED BY <1>3, <1>4

\* A statement that advances a row and goes on.
LEMMA TheBump ==
  ASSUME IInv, NEW w \in Writer, Bump(w)
  PROVE  IInv' /\ Alone(w)
<1> USE DEF IInv
<1>1. PICK i \in Duplicates(Cand(w), Rows(w, tx[w].matches)) :
        Free(w, i) /\ Put(w, i, View(w)[i])
  BY DEF Bump
<1>2. /\ pc[w] = "bump"
      /\ NextCandidate(w) \/ (pc' = [pc EXCEPT ![w] = "recheck"] /\ tx' = tx)
  BY DEF Bump
<1>3. i \in DOMAIN View(w)
  BY <1>2 DEF Duplicates, Rows, TxInv, Known, Adding
<1>4. db' = db /\ clock' = clock /\ result' = result
  BY DEF Bump
<1>5. /\ DOMAIN writes' = Writer
      /\ \A u \in Writer \ {w} : writes'[u] = writes[u]
  BY <1>1 DEF Put, Typed
<1>9. /\ pc' \in [Writer -> Labels] /\ tx' \in [Writer -> Tx]
      /\ \A u \in Writer \ {w} : pc'[u] = pc[u] /\ tx'[u] = tx[u]
      /\ tx'[w].op = tx[w].op /\ tx'[w].k \in Nat /\ tx[w].k <= tx'[w].k
      /\ tx'[w].target = tx[w].target /\ tx'[w].kind = tx[w].kind
      /\ pc'[w] \in {"match", "commit", "recheck"} /\ Shape(w)'
      /\ pc'[w] = "recheck" => tx' = tx
  <2>1. CASE NextCandidate(w)
    BY <1>2, <2>1, GoesOn
  <2>2. CASE pc' = [pc EXCEPT ![w] = "recheck"] /\ tx' = tx
    <3>1. /\ pc' \in [Writer -> Labels] /\ pc'[w] = "recheck"
          /\ \A u \in Writer \ {w} : pc'[u] = pc[u]
      BY <2>2 DEF Typed, Labels
    <3>2. tx[w] \in Tx /\ tx[w].k \in Nat
      BY DEF Typed, Tx
    <3>3. Shape(w)'
      BY <1>2, <2>2, <3>1 DEF TxInv, Shape, Adding
    <3> QED BY <2>2, <3>1, <3>2, <3>3 DEF Typed
  <2> QED BY <1>2, <2>1, <2>2
<1>6. Alone(w)
  BY <1>4, <1>5, <1>9 DEF Alone
<1>7. Typed'
  BY <1>4, <1>5, <1>9 DEF Typed
<1>8. RowOK(i, View(w)[i]) /\ Advance(View(w)[i], View(w)[i])
  BY <1>3, CoherentRow, AdvanceItself DEF RowsInv
<1>10. /\ RowsInv' /\ DOMAIN View(w)' = DOMAIN View(w)
       /\ View(w)'[i] = View(w)[i]
       /\ \A j \in DOMAIN View(w) \ {i} : View(w)'[j] = View(w)[j]
  BY <1>1, <1>2, <1>3, <1>6, <1>8, <1>9, RowsAdvanced
<1>11. Known(w)' /\ Drafted(w)'
  <2>1. CASE pc'[w] = "recheck"
    BY <1>2, <1>9, <1>10, <2>1 DEF TxInv, Known, Drafted, Adding
  <2>2. CASE pc'[w] # "recheck"
    BY <1>9, <1>10, <2>2, NotAdding DEF TxInv, Known, Adding
  <2> QED BY <2>1, <2>2
<1>12. Followed(w)'
  <2>1. StillOwes(w)
    BY <1>2 DEF StillOwes
  <2> QED BY <1>3, <1>8, <1>10, <2>1, FollowedAdvanced
<1> QED BY <1>6, <1>7, <1>9, <1>10, <1>11, <1>12, TxStep

\* The rest of the transaction where a bump leaves it.
LEMMA BumpGoesOn ==
  ASSUME IInv, NEW w \in Writer, Bump(w)
  PROVE  /\ pc[w] = "bump" /\ pc'[w] \in {"match", "commit", "recheck"}
         /\ tx'[w].kind = tx[w].kind /\ tx'[w].target = tx[w].target
         /\ tx'[w].now = tx[w].now
         /\ pc'[w] = "recheck" => tx' = tx
         /\ DOMAIN writes[w] \subseteq DOMAIN writes'[w]
         /\ DOMAIN writes'[w] \subseteq DOMAIN writes[w] \union tx[w].matches
<1> USE DEF IInv
<1>1. PICK i \in Duplicates(Cand(w), Rows(w, tx[w].matches)) :
        Put(w, i, View(w)[i])
  BY DEF Bump
<1>2. i \in tx[w].matches
  BY DEF Duplicates, Rows
<1>3. DOMAIN writes'[w] = DOMAIN writes[w] \union {i}
  BY <1>1, PutRow
<1>4. CASE NextCandidate(w)
  <2>1. pc[w] = "bump"
    BY DEF Bump
  <2>2. /\ pc'[w] \in {"match", "commit"} /\ tx'[w].kind = tx[w].kind
        /\ tx'[w].target = tx[w].target
    BY <1>4, <2>1, GoesOn
  <2>3. tx'[w].now = tx[w].now
    BY <1>4 DEF NextCandidate, Typed, Tx
  <2> QED BY <1>2, <1>3, <2>1, <2>2, <2>3
<1>5. CASE pc' = [pc EXCEPT ![w] = "recheck"] /\ tx' = tx
  BY <1>2, <1>3, <1>5 DEF Bump, Typed
<1> QED BY <1>4, <1>5 DEF Bump

\* A check of a version that finds nothing to wait for.
LEMMA TheRecheck ==
  ASSUME IInv, NEW w \in Writer, Recheck(w)
  PROVE  IInv' /\ Alone(w)
<1> USE DEF IInv
<1>1. /\ pc[w] = "recheck" /\ NextCandidate(w)
      /\ UNCHANGED <<db, clock, writes, result>>
  BY DEF Recheck
<1>2. Alone(w)
  BY <1>1, GoesOn DEF Alone
<1>3. Typed'
  BY <1>1, GoesOn DEF Typed
<1>4. RowsInv' /\ View(w)' = View(w)
  BY <1>1, <1>2, GoesOn, RowsKept
<1>5. Known(w)' /\ Drafted(w)'
  BY <1>1, <1>4, GoesOn, NotAdding DEF TxInv, Known, Adding
<1>6. Followed(w)'
  BY <1>1, <1>4, FollowedKept DEF StillOwes
<1> QED BY <1>1, <1>2, <1>3, <1>4, <1>5, <1>6, GoesOn, TxStep

LEMMA CloseRowHolds ==
  ASSUME NEW i, NEW r, RowOK(i, r), NEW at \in Time, NEW now \in Time
  PROVE  /\ RowOK(i, CloseRow(r, at, now)) /\ Advance(r, CloseRow(r, at, now))
         /\ CloseRow(r, at, now).from = r.from
         /\ CloseRow(r, at, now).until = at
         /\ CloseRow(r, at, now).status = "superseded"
<1> DEFINE c == CloseRow(r, at, now)
<1>1. r \in Row /\ at \in Bound /\ now \in Bound
  BY TimeLine DEF RowOK
<1>2. c \in Row
  BY <1>1 DEF CloseRow, Row, Status
<1>3. /\ c.from = r.from /\ c.until = at /\ c.value = r.value
      /\ c.single = r.single /\ c.keyed = r.keyed
      /\ c.supersedes = r.supersedes /\ c.version = r.version
      /\ c.root = r.root /\ c.latest = FALSE /\ c.status = "superseded"
  BY <1>1 DEF CloseRow, Row
<1> HIDE DEF c
<1>4. RowOK(i, c)
  BY <1>2, <1>3 DEF RowOK
<1>5. Advance(r, c)
  BY <1>3 DEF Advance
<1> QED BY <1>3, <1>4, <1>5 DEF c

LEMMA TheClosePrior ==
  ASSUME IInv, NEW w \in Writer, ClosePrior(w)
  PROVE  IInv' /\ Alone(w)
<1> USE DEF IInv
<1>1. PICK i \in tx[w].closing :
        /\ Free(w, i)
        /\ IF \/ View(w)[i].from >= tx[w].draft.from
              \/ View(w)[i].since > tx[w].now
           THEN Rollback(w) /\ Return(w, "error")
           ELSE /\ Put(w, i, CloseRow(View(w)[i], tx[w].draft.from, tx[w].now))
                /\ tx' = [tx EXCEPT ![w].closing = @ \ {i},
                            ![w].supersedes =
                              IF @ = NoRow \/ View(w)[i].from > View(w)[@].from
                              THEN i ELSE @]
                /\ pc' = [pc EXCEPT ![w] =
                            IF tx[w].closing = {i} THEN "insert" ELSE "close"]
                /\ UNCHANGED result
  BY DEF ClosePrior
<1>2. /\ pc[w] = "close" /\ db' = db /\ clock' = clock
      /\ tx[w] \in Tx /\ tx[w].k \in Nat /\ tx[w].draft.from \in Time
      /\ tx[w].now \in Time /\ tx[w].kind = "add"
  BY DEF ClosePrior, Typed, Tx, TxInv, Shape, Adding
<1>3. CASE \/ View(w)[i].from >= tx[w].draft.from
           \/ View(w)[i].since > tx[w].now
  BY <1>1, <1>2, <1>3, Leaves DEF Result
<1>4. CASE ~(\/ View(w)[i].from >= tx[w].draft.from
             \/ View(w)[i].since > tx[w].now)
  <2> DEFINE c == CloseRow(View(w)[i], tx[w].draft.from, tx[w].now)
  <2> DEFINE s == IF \/ tx[w].supersedes = NoRow
                     \/ View(w)[i].from > View(w)[tx[w].supersedes].from
                  THEN i ELSE tx[w].supersedes
  <2> DEFINE T == [tx[w] EXCEPT !.closing = tx[w].closing \ {i}, !.supersedes = s]
  <2>1. /\ Put(w, i, c) /\ result' = result
        /\ tx' = [tx EXCEPT ![w] = T]
        /\ pc' = [pc EXCEPT ![w] =
                    IF tx[w].closing = {i} THEN "insert" ELSE "close"]
    BY <1>1, <1>4 DEF Typed
  <2>2. /\ tx[w].closing \subseteq DOMAIN View(w) /\ i \in DOMAIN View(w)
        /\ i \in RowId /\ RowOK(i, View(w)[i]) /\ View(w)[i] \in Row
        /\ tx[w].closing \in SUBSET RowId
    BY <1>2, CoherentRow DEF TxInv, Known, RowsInv
  <2>3. View(w)[i].from < tx[w].draft.from
    BY <1>2, <1>4, <2>2, RowFields, TimeLine
  <2>4. /\ RowOK(i, c) /\ Advance(View(w)[i], c) /\ c.from = View(w)[i].from
        /\ c.until = tx[w].draft.from
    BY <1>2, <2>2, CloseRowHolds
  <2> HIDE DEF c
  <2>5. tx[w].supersedes # NoRow =>
          /\ tx[w].supersedes \in DOMAIN View(w)
          /\ View(w)[tx[w].supersedes].from < tx[w].draft.from
    BY <1>2 DEF TxInv, Known
  <2>6. s \in DOMAIN View(w) /\ s \in RowId /\ View(w)[s].from < tx[w].draft.from
    BY <2>2, <2>3, <2>5, CoherentRow DEF RowsInv
  <2> HIDE DEF s
  <2>7. T \in Tx
    BY <1>2, <2>2, <2>6 DEF Tx
  <2>8. /\ T.op = tx[w].op /\ T.kind = tx[w].kind /\ T.cands = tx[w].cands
        /\ T.target = tx[w].target /\ T.k = tx[w].k
        /\ T.matches = tx[w].matches /\ T.closing = tx[w].closing \ {i}
        /\ T.supersedes = s /\ T.draft = tx[w].draft /\ T.latest = tx[w].latest
    BY <1>2 DEF Tx
  <2> HIDE DEF T
  <2>9. /\ tx' \in [Writer -> Tx] /\ tx'[w] = T
        /\ \A u \in Writer \ {w} : tx'[u] = tx[u]
    BY <2>1, <2>7 DEF Typed
  <2>10. /\ pc' \in [Writer -> Labels] /\ pc'[w] \in {"insert", "close"}
         /\ \A u \in Writer \ {w} : pc'[u] = pc[u]
    BY <2>1 DEF Typed, Labels
  <2>11. /\ DOMAIN writes' = Writer
         /\ \A u \in Writer \ {w} : writes'[u] = writes[u]
    BY <2>1 DEF Put, Typed
  <2>12. Alone(w)
    BY <1>2, <2>9, <2>10, <2>11 DEF Alone
  <2>13. Typed'
    BY <1>2, <2>1, <2>9, <2>10, <2>11 DEF Typed
  <2>14. tx'[w].op = tx[w].op /\ tx'[w].k \in Nat /\ tx[w].k <= tx'[w].k
    BY <1>2, <2>8, <2>9
  <2>15. /\ RowsInv' /\ DOMAIN View(w)' = DOMAIN View(w) /\ View(w)'[i] = c
         /\ \A j \in DOMAIN View(w) \ {i} : View(w)'[j] = View(w)[j]
    BY <1>1, <1>2, <2>1, <2>2, <2>4, <2>12, <2>14, RowsAdvanced
  <2>16. Shape(w)'
    BY <1>2, <2>8, <2>9, <2>10 DEF TxInv, Shape, Adding
  <2>17. Known(w)'
    <3>1. View(w)'[s].from = View(w)[s].from
      BY <2>4, <2>6, <2>15
    <3> QED BY <1>2, <2>2, <2>6, <2>8, <2>9, <2>10, <2>15, <3>1
            DEF TxInv, Known, Adding
  <2>18. Drafted(w)'
    BY <1>2, <2>8, <2>9, <2>10 DEF TxInv, Drafted
  <2>19. Followed(w)'
    <3>1. StillOwes(w)
      BY <2>8, <2>9, <2>10 DEF StillOwes
    <3>2. pc'[w] \in {"close", "insert", "check"} /\ c.until = tx'[w].draft.from
      BY <2>4, <2>8, <2>9, <2>10
    <3> QED BY <2>2, <2>4, <2>15, <3>1, <3>2, FollowedAdvanced
  <2> QED BY <2>12, <2>13, <2>15, <2>16, <2>17, <2>18, <2>19, TxStep
<1> QED BY <1>3, <1>4

LEMMA TheReadStarts ==
  ASSUME IInv, NEW w \in Writer, ReadStarts(w)
  PROVE  IInv' /\ Alone(w)
<1> USE DEF IInv
<1> DEFINE h == HistoryUntil(tx[w].draft, SegmentStarts(w))
<1> DEFINE T == [tx[w] EXCEPT !.draft = [tx[w].draft EXCEPT !.until = h]]
<1>1. /\ pc[w] = "starts" /\ db' = db /\ clock' = clock /\ writes' = writes
      /\ result' = result /\ tx[w] \in Tx /\ tx[w].k \in Nat
      /\ tx[w].draft \in [from : Time, until : Bound]
      /\ tx[w].draft.from < tx[w].draft.until /\ ~tx[w].latest
  BY DEF ReadStarts, Typed, Tx, TxInv, Drafted
<1>2. SegmentStarts(w) \in SUBSET Time
  BY CoherentRow, RowFields DEF RowsInv, SegmentStarts
<1>3. h \in Bound /\ tx[w].draft.from < h
  BY <1>1, <1>2, HistoryHolds
<1>4. tx' = [tx EXCEPT ![w] = T] /\ pc' = [pc EXCEPT ![w] = "insert"]
  BY DEF ReadStarts, Typed
<1> HIDE DEF h
<1>5. T \in Tx
  BY <1>1, <1>3 DEF Tx
<1>6. /\ T.op = tx[w].op /\ T.kind = tx[w].kind /\ T.cands = tx[w].cands
      /\ T.target = tx[w].target /\ T.k = tx[w].k
      /\ T.matches = tx[w].matches /\ T.closing = tx[w].closing
      /\ T.supersedes = tx[w].supersedes /\ T.latest = tx[w].latest
      /\ T.draft.from = tx[w].draft.from /\ T.draft.until = h
  BY <1>1 DEF Tx
<1> HIDE DEF T
<1>7. /\ tx' \in [Writer -> Tx] /\ tx'[w] = T
      /\ \A u \in Writer \ {w} : tx'[u] = tx[u]
  BY <1>4, <1>5 DEF Typed
<1>8. /\ pc' \in [Writer -> Labels] /\ pc'[w] = "insert"
      /\ \A u \in Writer \ {w} : pc'[u] = pc[u]
  BY <1>4 DEF Typed, Labels
<1>9. Alone(w)
  BY <1>1, <1>7, <1>8 DEF Alone
<1>10. Typed'
  BY <1>1, <1>7, <1>8 DEF Typed
<1>11. RowsInv' /\ View(w)' = View(w)
  BY <1>1, <1>6, <1>7, <1>9, RowsKept
<1>12. Shape(w)'
  BY <1>1, <1>6, <1>7, <1>8 DEF TxInv, Shape, Adding
<1>13. Known(w)'
  BY <1>1, <1>6, <1>7, <1>8, <1>11 DEF TxInv, Known, Adding
<1>14. Drafted(w)'
  BY <1>1, <1>3, <1>6, <1>7, <1>8 DEF Drafted
<1>15. Followed(w)'
  BY <1>1, <1>11, FollowedKept DEF StillOwes
<1> QED BY <1>9, <1>10, <1>11, <1>12, <1>13, <1>14, <1>15, TxStep

\* An insert that is neither denied nor waits meets no row it excludes.
LEMMA NoneExcluded ==
  ASSUME RowsInv, NEW w \in Writer, Rivals(w) = {}, ~Undecided(w)
  PROVE  /\ \A j \in DOMAIN View(w) : ~Excludes(NewRow(w), View(w)[j])
         /\ \A u \in Writer \ {w} : \A j \in DOMAIN writes[u] :
              ~Excludes(NewRow(w), writes[u][j])
<1>1. \A u \in Writer \ {w} : \A j \in DOMAIN writes[u] :
        ~Excludes(NewRow(w), writes[u][j])
  BY DEF Undecided, InTheWay
<1>2. ASSUME NEW j \in DOMAIN View(w)
      PROVE  ~Excludes(NewRow(w), View(w)[j])
  <2>1. CASE Free(w, j)
    BY <2>1 DEF Rivals
  <2>2. CASE ~Free(w, j)
    <3>1. PICK u \in Writer \ {w} : j \in DOMAIN writes[u]
      BY <2>2 DEF Free
    <3>2. j \in DOMAIN db /\ View(w)[j] = db[j]
      BY <3>1, Views DEF RowsInv, Beside
    <3> QED BY <3>1, <3>2 DEF Undecided, InTheWay
  <2> QED BY <2>1, <2>2
<1> QED BY <1>1, <1>2

\* A row written, and not yet checked.
LEMMA TheInsertRow ==
  ASSUME IInv, NEW w \in Writer, InsertRow(w)
  PROVE  IInv' /\ Alone(w)
<1> USE DEF IInv
<1>1. /\ pc[w] = "insert" /\ pc' = [pc EXCEPT ![w] = "check"]
      /\ UNCHANGED <<db, clock, tx, writes, result>>
  BY DEF InsertRow
<1>2. /\ pc' \in [Writer -> Labels] /\ pc'[w] = "check"
      /\ \A u \in Writer \ {w} : pc'[u] = pc[u]
  BY <1>1 DEF Typed, Labels
<1>3. Alone(w)
  BY <1>1, <1>2 DEF Alone
<1>4. Typed'
  BY <1>1, <1>2 DEF Typed
<1>5. RowsInv' /\ View(w)' = View(w)
  <2>1. tx[w] \in Tx /\ tx[w].k \in Nat
    BY DEF Typed, Tx
  <2> QED BY <1>1, <1>3, <2>1, RowsKept
<1>6. Shape(w)'
  BY <1>1, <1>2 DEF TxInv, Shape, Adding
<1>7. Known(w)' /\ Drafted(w)'
  BY <1>1, <1>2, <1>5 DEF TxInv, Known, Drafted, Adding
<1>8. Followed(w)'
  BY <1>1, <1>2, <1>5, FollowedKept DEF StillOwes
<1> QED BY <1>3, <1>4, <1>5, <1>6, <1>7, <1>8, TxStep

LEMMA TheCheckRow ==
  ASSUME IInv, NEW w \in Writer, CheckRow(w)
  PROVE  IInv' /\ Alone(w)
<1> USE DEF IInv
<1>1. /\ pc[w] = "check" /\ db' = db /\ clock' = clock /\ tx[w].kind = "add"
  BY DEF CheckRow, TxInv, Shape, Adding
<1>2. CASE Rivals(w) # {}
  BY <1>1, <1>2, Retries DEF CheckRow, Result
<1>3. CASE Rivals(w) = {}
  <2>1. /\ ~Undecided(w) /\ Put(w, NewId(w), NewRow(w)) /\ NextCandidate(w)
        /\ result' = result
    BY <1>3 DEF CheckRow
  <2>2. /\ DOMAIN writes' = Writer
        /\ \A u \in Writer \ {w} : writes'[u] = writes[u]
    BY <2>1 DEF Put, Typed
  <2>3. /\ tx'[w].op = tx[w].op /\ tx'[w].k \in Nat /\ tx[w].k <= tx'[w].k
        /\ pc'[w] # "commit" => tx[w].k < tx'[w].k
        /\ tx'[w].target = tx[w].target /\ tx'[w].kind = tx[w].kind
        /\ pc'[w] \in {"match", "commit"} /\ Shape(w)'
    BY <1>1, <2>1, GoesOn
  <2>4. Alone(w)
    BY <1>1, <2>1, <2>2, GoesOn DEF Alone
  <2>5. Typed'
    BY <1>1, <2>1, <2>2, GoesOn DEF Typed
  <2>6. /\ \A j \in DOMAIN View(w) : ~Excludes(NewRow(w), View(w)[j])
        /\ \A u \in Writer \ {w} : \A j \in DOMAIN writes[u] :
             ~Excludes(NewRow(w), writes[u][j])
    BY <1>3, <2>1, NoneExcluded
  <2> DEFINE r == NewRow(w)
  <2>7. /\ RowOK(NewId(w), r) /\ r.keyed /\ r.root = NoRow
        /\ r.from = tx[w].draft.from /\ r.supersedes = tx[w].supersedes
    BY <1>1, NewRowHolds
  <2>8. r.supersedes # NoRow =>
          /\ r.supersedes \in DOMAIN View(w)
          /\ View(w)[r.supersedes].from < r.from
    BY <1>1, <2>7 DEF TxInv, Known
  <2>9. Put(w, NewId(w), r)
    BY <2>1
  <2>10. /\ \A j \in DOMAIN View(w) : ~Excludes(r, View(w)[j])
         /\ \A u \in Writer \ {w} : \A j \in DOMAIN writes[u] :
              ~Excludes(r, writes[u][j])
    BY <2>6
  <2> HIDE DEF r
  <2>11. RowsInv'
    BY <1>1, <2>3, <2>4, <2>7, <2>8, <2>9, <2>10, RowsInserted
  <2>12. /\ DOMAIN View(w)' = DOMAIN View(w) \union {NewId(w)}
         /\ View(w)'[NewId(w)] = r
         /\ \A j \in DOMAIN View(w) \ {NewId(w)} : View(w)'[j] = View(w)[j]
    BY <2>4, <2>9, ViewPut
  <2>13. Known(w)' /\ Drafted(w)'
    BY <2>3, <2>12, NotAdding DEF TxInv, Known, Adding
  <2>14. Followed(w)'
    <3>1. r.status = "active" /\ r.keyed /\ r.from = tx[w].draft.from
      BY <2>7 DEF r, NewRow
    <3>2. NewId(w) \notin DOMAIN View(w)
      BY <1>1, FreshId
    <3> QED BY <2>12, <3>1, <3>2, FollowedInserted
  <2> QED BY <2>3, <2>4, <2>5, <2>11, <2>13, <2>14, TxStep
<1> QED BY <1>2, <1>3

LEMMA TheReadForgetTargets ==
  ASSUME IInv, NEW w \in Writer, ReadForgetTargets(w)
  PROVE  IInv' /\ Alone(w)
<1> USE DEF IInv
<1> DEFINE G == { i \in LatestMatches(w) :
                    Cand(w).value \in {NoValue, View(w)[i].value} }
<1> DEFINE T == [tx[w] EXCEPT !.target = G]
<1>1. /\ pc[w] = "match" /\ tx[w].kind = "forgetContent" /\ tx[w] \in Tx
      /\ tx[w].k \in Nat
      /\ db' = db /\ clock' = clock /\ writes' = writes /\ result' = result
  BY DEF ReadForgetTargets, Typed, Tx
<1>2. G \subseteq DOMAIN View(w) /\ G \in SUBSET RowId
  BY MatchesSeen, CoherentRow DEF RowsInv
<1>3. tx' = [tx EXCEPT ![w] = T] /\ pc' = [pc EXCEPT ![w] = "tombstone"]
  BY DEF ReadForgetTargets, Typed
<1> HIDE DEF G
<1>4. T \in Tx
  BY <1>1, <1>2 DEF Tx
<1>5. /\ T.op = tx[w].op /\ T.kind = tx[w].kind /\ T.cands = tx[w].cands
      /\ T.target = G /\ T.k = tx[w].k
  BY <1>1 DEF Tx
<1> HIDE DEF T
<1>6. /\ tx' \in [Writer -> Tx] /\ tx'[w] = T
      /\ \A u \in Writer \ {w} : tx'[u] = tx[u]
  BY <1>3, <1>4 DEF Typed
<1>7. /\ pc' \in [Writer -> Labels] /\ pc'[w] = "tombstone"
      /\ \A u \in Writer \ {w} : pc'[u] = pc[u]
  BY <1>3 DEF Typed, Labels
<1>8. Alone(w)
  BY <1>1, <1>6, <1>7 DEF Alone
<1>9. Typed'
  BY <1>1, <1>6, <1>7 DEF Typed
<1>10. RowsInv' /\ View(w)' = View(w)
  BY <1>1, <1>5, <1>6, <1>8, RowsKept
<1>11. Shape(w)'
  BY <1>1, <1>5, <1>6, <1>7 DEF TxInv, Shape, Adding
<1>12. Known(w)' /\ Drafted(w)'
  BY <1>1, <1>2, <1>5, <1>6, <1>7, <1>10, NotAdding DEF Adding
<1>13. Followed(w)'
  BY <1>1, <1>10, FollowedKept DEF StillOwes
<1> QED BY <1>8, <1>9, <1>10, <1>11, <1>12, <1>13, TxStep

LEMMA ForgetRowHolds ==
  ASSUME NEW i, NEW r, RowOK(i, r), NEW now \in Time
  PROVE  /\ RowOK(i, ForgetRow(r, now)) /\ Advance(r, ForgetRow(r, now))
         /\ ForgetRow(r, now).status = "forgotten"
<1> DEFINE c == ForgetRow(r, now)
<1> DEFINE e == IF now > r.since THEN now ELSE r.upto
<1>1. r \in Row /\ e \in Bound
  BY TimeLine DEF RowOK, Row
<1>2. c = [r EXCEPT !.status = "forgotten", !.latest = FALSE, !.upto = e]
  BY DEF ForgetRow
<1> HIDE DEF e, c
<1>3. c \in Row
  BY <1>1, <1>2 DEF Row, Status
<1>4. /\ c.from = r.from /\ c.until = r.until /\ c.value = r.value
      /\ c.single = r.single /\ c.keyed = r.keyed
      /\ c.supersedes = r.supersedes /\ c.version = r.version
      /\ c.root = r.root /\ c.latest = FALSE /\ c.status = "forgotten"
  BY <1>1, <1>2 DEF Row
<1>5. RowOK(i, c)
  BY <1>3, <1>4 DEF RowOK
<1>6. Advance(r, c)
  BY <1>4 DEF Advance
<1> QED BY <1>4, <1>5, <1>6 DEF c

LEMMA TheTombstone ==
  ASSUME IInv, NEW w \in Writer, Tombstone(w)
  PROVE  IInv' /\ Alone(w)
<1> USE DEF IInv
<1>1. PICK i \in tx[w].target :
        /\ Free(w, i)
        /\ tx' = [tx EXCEPT ![w].target = @ \ {i}]
        /\ IF View(w)[i].status = "active"
           THEN Put(w, i, ForgetRow(View(w)[i], tx[w].now))
           ELSE UNCHANGED writes
  BY DEF Tombstone
<1> DEFINE T == [tx[w] EXCEPT !.target = tx[w].target \ {i}]
<1>2. /\ pc[w] = "tombstone" /\ tx[w] \in Tx /\ tx[w].k \in Nat
      /\ db' = db /\ clock' = clock /\ pc' = pc /\ result' = result
      /\ tx[w].target \subseteq DOMAIN View(w) /\ tx[w].target \in SUBSET RowId
      /\ tx[w].now \in Time /\ tx[w].kind \in {"forget", "forgetContent"}
  BY DEF Tombstone, Typed, Tx, TxInv, Known, Shape
<1>3. T \in Tx
  BY <1>2 DEF Tx
<1>4. /\ T.op = tx[w].op /\ T.kind = tx[w].kind /\ T.cands = tx[w].cands
      /\ T.target = tx[w].target \ {i} /\ T.k = tx[w].k
  BY <1>2 DEF Tx
<1>5. tx' = [tx EXCEPT ![w] = T]
  BY <1>1 DEF Typed
<1> HIDE DEF T
<1>6. /\ tx' \in [Writer -> Tx] /\ tx'[w] = T
      /\ \A u \in Writer \ {w} : tx'[u] = tx[u]
  BY <1>3, <1>5 DEF Typed
<1>7. /\ DOMAIN writes' = Writer
      /\ \A u \in Writer \ {w} : writes'[u] = writes[u]
  BY <1>1 DEF Put, Typed
<1>8. Alone(w)
  BY <1>2, <1>6, <1>7 DEF Alone
<1>9. Typed'
  BY <1>2, <1>6, <1>7 DEF Typed
<1>10. i \in DOMAIN View(w) /\ RowOK(i, View(w)[i])
  BY <1>2, CoherentRow DEF RowsInv
<1>s. StillOwes(w)
  BY <1>2 DEF StillOwes
<1>11. RowsInv' /\ DOMAIN View(w)' = DOMAIN View(w) /\ Followed(w)'
  <2>1. CASE View(w)[i].status = "active"
    <3> DEFINE r == ForgetRow(View(w)[i], tx[w].now)
    <3>1. RowOK(i, r) /\ Advance(View(w)[i], r) /\ r.status = "forgotten"
      BY <1>2, <1>10, ForgetRowHolds
    <3>2. Put(w, i, r)
      BY <1>1, <2>1
    <3> HIDE DEF r
    <3>3. Free(w, i) /\ tx'[w].op = tx[w].op /\ tx'[w].k = tx[w].k
      BY <1>1, <1>4, <1>6
    <3>4. /\ RowsInv' /\ DOMAIN View(w)' = DOMAIN View(w) /\ View(w)'[i] = r
          /\ \A j \in DOMAIN View(w) \ {i} : View(w)'[j] = View(w)[j]
      BY <1>2, <1>8, <1>10, <3>1, <3>2, <3>3, RowsAdvanced
    <3> QED BY <1>s, <1>10, <3>1, <3>4, FollowedAdvanced
  <2>2. CASE View(w)[i].status # "active"
    <3>1. RowsInv' /\ View(w)' = View(w)
      BY <1>1, <1>2, <1>4, <1>6, <1>8, <2>2, RowsKept
    <3> QED BY <1>s, <3>1, FollowedKept
  <2> QED BY <2>1, <2>2
<1>12. Shape(w)'
  BY <1>2, <1>4, <1>6 DEF TxInv, Shape, Adding
<1>13. Known(w)' /\ Drafted(w)'
  BY <1>2, <1>4, <1>6, <1>11, NotAdding DEF Adding
<1> QED BY <1>8, <1>9, <1>11, <1>12, <1>13, TxStep

LEMMA TheTombstonesDone ==
  ASSUME IInv, NEW w \in Writer, TombstonesDone(w)
  PROVE  IInv' /\ Alone(w)
<1> USE DEF IInv
<1>1. /\ pc[w] = "tombstone" /\ NextCandidate(w) /\ db' = db /\ clock' = clock
      /\ writes' = writes /\ result' = result
  BY DEF TombstonesDone
<1>2. /\ tx'[w].op = tx[w].op /\ tx'[w].k \in Nat /\ tx[w].k <= tx'[w].k
      /\ tx'[w].target = tx[w].target /\ tx'[w].kind = tx[w].kind
      /\ pc'[w] \in {"match", "commit"} /\ Shape(w)'
  BY <1>1, GoesOn
<1>3. Alone(w)
  BY <1>1, GoesOn DEF Alone
<1>4. Typed'
  BY <1>1, GoesOn DEF Typed
<1>5. RowsInv' /\ View(w)' = View(w)
  BY <1>1, <1>2, <1>3, RowsKept
<1>6. Known(w)' /\ Drafted(w)'
  BY <1>2, <1>5, NotAdding DEF TxInv, Known, Adding
<1>7. Followed(w)'
  BY <1>1, <1>5, FollowedKept DEF StillOwes
<1> QED BY <1>2, <1>3, <1>4, <1>5, <1>6, <1>7, TxStep

LEMMA EditHolds ==
  ASSUME Typed, RowsInv, TxInv, NEW w \in Writer, pc[w] = "edit",
         NEW i \in DOMAIN View(w)
  PROVE  /\ RowOK(i, EditClosed(w, i)) /\ Advance(View(w)[i], EditClosed(w, i))
         /\ ~EditClosed(w, i).latest
         /\ RowOK(NewId(w), EditedRow(w, i))
         /\ NextVersion(EditedRow(w, i), i, View(w)[i])
<1> DEFINE q == View(w)[i]
<1> DEFINE c == EditClosed(w, i)
<1> DEFINE r == EditedRow(w, i)
<1> DEFINE e == IF tx[w].now > q.since THEN tx[w].now ELSE q.upto
<1>1. /\ q \in Row /\ RowOK(i, q) /\ i \in RowId /\ NewId(w) \in RowId
      /\ tx[w].now \in Time /\ i # NoRow
  BY CoherentRow, RowIds, FreshId DEF RowsInv, Typed, Tx
<1>2. e \in Bound
  BY <1>1, TimeLine DEF Row
<1>3. c = [q EXCEPT !.latest = FALSE, !.status = "superseded", !.upto = e]
  BY DEF EditClosed
<1> HIDE DEF e, c
<1>4. c \in Row
  BY <1>1, <1>2, <1>3 DEF Row, Status
<1>5. /\ c.from = q.from /\ c.until = q.until /\ c.value = q.value
      /\ c.single = q.single /\ c.keyed = q.keyed
      /\ c.supersedes = q.supersedes /\ c.version = q.version
      /\ c.root = q.root /\ c.latest = FALSE /\ c.status = "superseded"
  BY <1>1, <1>3 DEF Row
<1>6. RowOK(i, c) /\ Advance(q, c) /\ ~c.latest
  BY <1>1, <1>4, <1>5 DEF RowOK, Advance
<1>7. RootOf(View(w), i) = Chain(i, q)
  BY DEF RootOf, Chain
<1>8. Chain(i, q) \in RowId /\ Chain(i, q) # NoRow
  BY <1>1, RowFields, RowIds DEF Chain
<1>9. /\ r.from = tx[w].now /\ r.until = Forever /\ ~r.keyed
      /\ r.supersedes = i /\ r.version = q.version + 1 /\ r.root = Chain(i, q)
      /\ r.status = "active"
  BY <1>7 DEF EditedRow
<1>10. q.version \in Nat \ {0}
  BY <1>1, RowFields
<1>11. r \in Row
  BY <1>1, <1>7, <1>8, <1>10, TimeLine DEF EditedRow, Row, Status
<1> HIDE DEF r
<1>12. RowOK(NewId(w), r)
  <2>1. r.from < r.until
    BY <1>1, <1>9, TimeLine
  <2>2. r.version # 1 /\ r.root # NoRow /\ r.supersedes # NoRow
    BY <1>1, <1>8, <1>9, <1>10
  <2> QED BY <1>1, <1>9, <1>11, <2>1, <2>2 DEF RowOK
<1>13. NextVersion(r, i, q)
  BY <1>9 DEF NextVersion
<1> QED BY <1>6, <1>12, <1>13 DEF c, r

LEMMA TheEdit ==
  ASSUME IInv, NEW w \in Writer, Edit(w)
  PROVE  IInv' /\ Alone(w)
<1> USE DEF IInv
<1>1. PICK i \in tx[w].target :
        /\ Free(w, i)
        /\ writes' = IF Editable(w, i)
                     THEN [writes EXCEPT ![w] =
                             [ j \in {i, NewId(w)} |->
                                 IF j = i THEN EditClosed(w, i) ELSE EditedRow(w, i) ]]
                     ELSE writes
  BY DEF Edit
<1>2. /\ pc[w] = "edit" /\ db' = db /\ clock' = clock /\ tx' = tx
      /\ result' = result /\ writes[w] = <<>> /\ tx[w].kind = "edit"
      /\ i \in DOMAIN View(w) /\ tx[w].k \in Nat
  BY DEF Edit, TxInv, Shape, Known, Typed, Tx
<1>3. /\ pc' \in [Writer -> Labels] /\ pc'[w] = "commit"
      /\ \A u \in Writer \ {w} : pc'[u] = pc[u]
  BY DEF Edit, Typed, Labels
<1>4. /\ DOMAIN writes' = Writer
      /\ \A u \in Writer \ {w} : writes'[u] = writes[u]
  BY <1>1 DEF Typed
<1>5. Alone(w)
  BY <1>2, <1>3, <1>4 DEF Alone
<1>6. Typed'
  BY <1>2, <1>3, <1>4 DEF Typed
<1>7. RowsInv' /\ DOMAIN View(w) \subseteq DOMAIN View(w)' /\ Followed(w)'
  <2>1. CASE Editable(w, i)
    <3> DEFINE n == NewId(w)
    <3>1. n # i
      BY <1>2, FreshId
    <3>2. /\ DOMAIN writes'[w] = {i, n}
          /\ writes'[w][i] = EditClosed(w, i)
          /\ writes'[w][n] = EditedRow(w, i)
      BY <1>1, <2>1, <3>1 DEF Typed
    <3>3. /\ RowOK(i, writes'[w][i]) /\ Advance(View(w)[i], writes'[w][i])
          /\ ~writes'[w][i].latest /\ RowOK(n, writes'[w][n])
          /\ NextVersion(writes'[w][n], i, View(w)[i])
      BY <1>2, <3>2, EditHolds
    <3>4. View(w)[i].latest
      BY <2>1 DEF Editable
    <3>5. /\ RowsInv' /\ DOMAIN View(w)' = DOMAIN View(w) \union {n}
          /\ View(w)'[i] = EditClosed(w, i) /\ View(w)'[n] = EditedRow(w, i)
          /\ \A j \in DOMAIN View(w) \ {i} : View(w)'[j] = View(w)[j]
      BY <1>1, <1>2, <1>3, <1>5, <3>2, <3>3, <3>4, RowsEdited
    <3>6. EditedRow(w, i).supersedes = i /\ EditedRow(w, i).status = "active"
      BY DEF EditedRow
    <3>7. \A j \in DOMAIN View(w) : Advance(View(w)[j], View(w)'[j])
      BY <3>2, <3>3, <3>5, AdvanceItself
    <3>8. Followed(w)'
      <4> SUFFICES ASSUME NEW j \in DOMAIN View(w)', View(w)'[j].status = "superseded"
                   PROVE  HasNext(View(w)', j)
        BY DEF Followed, HasNext
      <4>1. CASE j = i
        BY <3>5, <3>6, <4>1 DEF HasNext
      <4>2. CASE j # i
        <5>1. j \in DOMAIN View(w) /\ View(w)'[j] = View(w)[j]
          BY <3>5, <3>6, <4>2
        <5>2. HasNext(View(w), j)
          BY <1>2, <5>1 DEF NextInv, Followed
        <5> QED BY <3>5, <3>7, <5>1, <5>2, NextStays
      <4> QED BY <4>1, <4>2
    <3> QED BY <3>5, <3>8
  <2>2. CASE ~Editable(w, i)
    <3>1. RowsInv' /\ View(w)' = View(w)
      BY <1>1, <1>2, <1>5, <2>2, RowsKept
    <3>2. StillOwes(w)
      BY <1>2 DEF StillOwes
    <3> QED BY <3>1, <3>2, FollowedKept
  <2> QED BY <2>1, <2>2
<1>8. Shape(w)'
  BY <1>2, <1>3 DEF TxInv, Shape, Adding
<1>9. Known(w)' /\ Drafted(w)'
  BY <1>2, <1>3, <1>7, NotAdding DEF TxInv, Known, Adding
<1> QED BY <1>5, <1>6, <1>7, <1>8, <1>9, TxStep

LEMMA TheCommit ==
  ASSUME IInv, NEW w \in Writer, Commit(w)
  PROVE  IInv'
<1> USE DEF IInv
<1>1. /\ pc[w] = "commit" /\ db' = View(w) /\ Rollback(w) /\ clock' = clock
      /\ Return(w, IF writes[w] = <<>> THEN "nothing" ELSE "ok")
  BY DEF Commit
<1>2. PICK out \in Result : Return(w, out)
  BY <1>1 DEF Result
<1>3. Typed'
  BY <1>1, <1>2, Returned, RolledBack DEF Typed
<1>4. /\ writes'[w] = <<>> /\ pc'[w] = "idle" /\ tx'[w].op = tx[w].op
      /\ tx'[w].target = {} /\ tx'[w].kind = "none"
      /\ \A u \in Writer \ {w} :
           writes'[u] = writes[u] /\ pc'[u] = pc[u] /\ tx'[u] = tx[u]
  BY <1>1, <1>2, Returned, RolledBack
<1>5. /\ RowsInv'
      /\ \A u \in Writer : /\ DOMAIN View(u) \subseteq DOMAIN View(u)'
                           /\ \A i \in DOMAIN View(u) :
                                Advance(View(u)[i], View(u)'[i])
  BY <1>1, <1>4, RowsCommitted
<1>6. Shape(w)' /\ Known(w)' /\ Drafted(w)'
  BY <1>4 DEF Shape, Known, Drafted, Adding
<1>7. ASSUME NEW u \in Writer \ {w}
      PROVE  Shape(u)' /\ Known(u)' /\ Drafted(u)'
  <2>1. writes'[u] = writes[u] /\ pc'[u] = pc[u] /\ tx'[u] = tx[u]
    BY <1>4
  <2>2. Shape(u)' /\ Drafted(u)'
    BY <2>1 DEF TxInv, Shape, Drafted
  <2>3. \A i \in DOMAIN View(u) : i \in DOMAIN View(u)' /\ View(u)'[i].from = View(u)[i].from
    BY <1>5 DEF Advance
  <2>4. Known(u)'
    BY <2>1, <2>3 DEF TxInv, Known
  <2> QED BY <2>2, <2>4
<1>8. ClosedHasSuccessor' /\ Followed(w)'
  <2>1. ASSUME NEW i \in DOMAIN View(w), View(w)[i].status = "superseded"
        PROVE  HasNext(View(w), i)
    BY <1>1, <2>1 DEF NextInv, Followed
  <2>2. ClosedHasSuccessor'
    BY <1>1, <2>1 DEF ClosedHasSuccessor, HasNext
  <2>3. /\ DOMAIN View(w)' = DOMAIN View(w)
        /\ \A i \in DOMAIN View(w) : View(w)'[i] = View(w)[i]
    BY <1>1, <1>4, ViewsNext, EmptyDomain
  <2>4. \A i \in DOMAIN View(w) :
          View(w)[i].status = "superseded" => HasNext(View(w)', i)
    BY <1>5, <2>1, <2>3, NextStays
  <2> QED BY <2>2, <2>3, <2>4 DEF Followed, HasNext
<1>9. ASSUME NEW u \in Writer \ {w}
      PROVE  Followed(u)'
  <2>1. writes'[u] = writes[u] /\ pc'[u] = pc[u] /\ tx'[u] = tx[u]
    BY <1>4
  <2> SUFFICES ASSUME NEW i \in DOMAIN View(u)', View(u)'[i].status = "superseded"
               PROVE  \/ HasNext(View(u)', i)
                      \/ /\ pc[u] \in {"close", "insert", "check"}
                         /\ View(u)'[i].until = tx[u].draft.from
    BY <2>1 DEF Followed, HasNext
  <2>2. CASE i \in DOMAIN writes[u]
    <3>a. i \in DOMAIN View(u) /\ View(u)[i] = writes[u][i]
      BY <2>2, Views
    <3>b. View(u)'[i] = writes[u][i]
      <4>1. i \in DOMAIN writes'[u]
        BY <2>1, <2>2
      <4>2. View(u)'[i] = writes'[u][i]
        BY <4>1, ViewsNext
      <4> QED BY <2>1, <4>2
    <3>1. /\ i \in DOMAIN View(u) /\ View(u)[i] = writes[u][i]
          /\ View(u)'[i] = writes[u][i]
      BY <3>a, <3>b
    <3>2. \/ HasNext(View(u), i)
          \/ pc[u] \in {"close", "insert", "check"} /\ View(u)[i].until = tx[u].draft.from
      BY <3>1 DEF NextInv, Followed
    <3> QED BY <1>5, <3>1, <3>2, NextStays
  <2>3. CASE i \notin DOMAIN writes[u]
    <3>1. i \in DOMAIN View(w) /\ View(u)'[i] = View(w)[i]
      BY <1>1, <2>1, <2>3, ViewsNext
    <3>2. HasNext(View(w), i)
      BY <1>1, <3>1 DEF NextInv, Followed
    <3>3. PICK j \in DOMAIN View(w) :
            \/ View(w)[j].supersedes = i
            \/ View(w)[j].keyed /\ View(w)[j].from = View(w)[i].until
      BY <3>2 DEF HasNext
    <3>4. j \in DOMAIN View(u)' /\ Advance(View(w)[j], View(u)'[j])
      <4>1. CASE j \in DOMAIN writes[u]
        <5>1. j \notin DOMAIN writes[w]
          BY <4>1 DEF RowsInv, Beside
        <5>2. j \in DOMAIN db /\ View(w)[j] = db[j]
          BY <5>1, Views
        <5>3. Advance(db[j], writes[u][j])
          BY <4>1, <5>2 DEF RowsInv, Written
        <5>4. j \in DOMAIN View(u)' /\ View(u)'[j] = writes[u][j]
          BY <2>1, <4>1, ViewsNext
        <5> QED BY <5>2, <5>3, <5>4
      <4>2. CASE j \notin DOMAIN writes[u]
        <5>1. j \in DOMAIN View(u)' /\ View(u)'[j] = View(w)[j]
          BY <1>1, <2>1, <4>2, ViewsNext
        <5> QED BY <5>1, AdvanceItself
      <4> QED BY <4>1, <4>2
    <3> QED BY <3>1, <3>3, <3>4 DEF HasNext, Advance
  <2> QED BY <2>2, <2>3
<1> QED BY <1>3, <1>5, <1>6, <1>7, <1>8, <1>9 DEF TxInv, NextInv

LEMMA TheDrop ==
  ASSUME IInv, NEW w \in Writer, Drop(w)
  PROVE  IInv' /\ Alone(w)
BY Leaves DEF Drop, Result

LEMMA TheDeadlockVictim ==
  ASSUME IInv, NEW w \in Writer, DeadlockVictim(w)
  PROVE  IInv' /\ Alone(w)
<1>1. \E v \in Writer : WaitsFor(w, v)
  BY DEF DeadlockVictim, Ring
<1>2. pc[w] # "idle"
  BY <1>1 DEF WaitsFor
<1>3. UNCHANGED <<db, clock>>
  BY DEF DeadlockVictim
<1>4. CASE tx[w].kind = "add"
  <2>1. Retry(w, "deadlock")
    BY <1>4 DEF DeadlockVictim
  <2> QED BY <1>2, <1>3, <1>4, <2>1, Retries DEF Result
<1>5. CASE tx[w].kind # "add"
  <2>1. Rollback(w) /\ Return(w, "error")
    BY <1>5 DEF DeadlockVictim
  <2> QED BY <1>2, <1>3, <2>1, Leaves DEF Result
<1> QED BY <1>4, <1>5

LEMMA Starts == Init => IInv
<1> SUFFICES ASSUME Init PROVE IInv
  OBVIOUS
<1>1. db = <<>> /\ DOMAIN db = {} /\ \A w \in Writer : writes[w] = <<>>
  BY EmptyDomain DEF Init
<1>2. Idle \in Tx
  <2>1. 0 \in Time /\ 0 \in 0 .. MaxRetries - 1 /\ 0 \in Nat /\ 0 \in 0 .. MaxOps
    BY TimeAssumption, WriteAssumption DEF Time
  <2>2. [from |-> 0, until |-> Forever] \in [from : Time, until : Bound]
    BY <2>1, TimeLine
  <2> QED BY <2>1, <2>2 DEF Idle, Tx
<1>3. Typed
  BY <1>2, TimeAssumption DEF Init, Typed, Labels, Result, Time
<1>4. Coherent(db)
  BY <1>1 DEF Coherent
<1>5. ASSUME NEW w \in Writer
      PROVE  Coherent(View(w)) /\ Written(w) /\ Named(w)
  <2>1. DOMAIN View(w) = {}
    BY <1>1, EmptyDomain, Views
  <2>2. Coherent(View(w))
    BY <2>1 DEF Coherent
  <2> QED BY <1>1, <2>2, EmptyDomain DEF Written, Named
<1>6. \A u, w \in Writer : u # w => Beside(u, w)
  BY <1>1, EmptyDomain DEF Beside
<1>7. ASSUME NEW w \in Writer
      PROVE  Shape(w) /\ Known(w) /\ Drafted(w)
  <2>1. tx[w].kind = "none" /\ tx[w].target = {} /\ pc[w] = "idle"
    BY DEF Init, Idle
  <2> QED BY <1>1, <2>1 DEF Shape, Known, Drafted, Adding
<1>8. NextInv
  <2>1. \A w \in Writer : DOMAIN View(w) = {}
    BY <1>1, EmptyDomain, Views
  <2> QED BY <1>1, <2>1 DEF NextInv, ClosedHasSuccessor, Followed
<1> QED BY <1>3, <1>4, <1>5, <1>6, <1>7, <1>8 DEF IInv, RowsInv, TxInv

LEMMA Stutters ==
  ASSUME IInv, UNCHANGED vars
  PROVE  IInv'
<1> USE DEF IInv
<1>1. /\ db' = db /\ clock' = clock /\ pc' = pc /\ tx' = tx
      /\ writes' = writes /\ result' = result
  BY DEF vars
<1>2. \A w \in Writer : View(w)' = View(w)
  BY <1>1 DEF View
<1>3. Typed'
  BY <1>1 DEF Typed
<1>4. RowsInv'
  BY <1>1, <1>2 DEF RowsInv, Written, Named, Beside
<1>5. TxInv'
  BY <1>1, <1>2 DEF TxInv, Shape, Known, Drafted
<1>6. NextInv'
  BY <1>1, <1>2 DEF NextInv, ClosedHasSuccessor, Followed, HasNext
<1> QED BY <1>3, <1>4, <1>5, <1>6

\* What adds, edits, forgets and commits keep between them: committed rows, the
\* rows each open transaction sees and what different ones have written go
\* together.
THEOREM Invariant == Spec => []IInv
<1>1. Init => IInv
  BY Starts
<1>2. IInv /\ [Next]_vars => IInv'
  <2> SUFFICES ASSUME IInv, [Next]_vars PROVE IInv'
    OBVIOUS
  <2>1. ASSUME NEW w \in Writer, Submit(w) \/ Step(w) \/ Drop(w)
        PROVE  IInv'
    BY <2>1, TheSubmit, TheBegin, TheReadMatches, TheResolve, TheBump,
       TheClosePrior, TheReadStarts, TheInsertRow, TheCheckRow, TheRecheck,
       TheReadForgetTargets,
       TheTombstone, TheTombstonesDone, TheEdit, TheCommit,
       TheDeadlockVictim, TheDrop DEF Step
  <2>2. CASE UNCHANGED vars
    BY <2>2, Stutters
  <2> QED BY <2>1, <2>2 DEF Next
<1> QED BY <1>1, <1>2, PTL DEF Spec

-----------------------------------------------------------------------------
(* What the runs check, for every instance. *)

\* The write path stores well-formed rows under well-formed ids, and an idle
\* writer holds no row version.
THEOREM TypeCorrect == Spec => []TypeOK
<1>1. IInv => TypeOK
  <2> SUFFICES ASSUME IInv PROVE TypeOK
    OBVIOUS
  <2> USE DEF IInv
  <2>1. DOMAIN db \subseteq RowId /\ \A i \in DOMAIN db : db[i] \in Row
    BY CoherentRow DEF RowsInv
  <2>2. ASSUME NEW w \in Writer
        PROVE  /\ DOMAIN writes[w] \subseteq RowId
               /\ \A i \in DOMAIN writes[w] : writes[w][i] \in Row
               /\ pc[w] = "idle" => writes[w] = <<>>
               /\ tx[w].op \in 0 .. MaxOps /\ tx[w].attempt \in 0 .. MaxRetries - 1
    <3>1. DOMAIN writes[w] \subseteq DOMAIN View(w)
      BY Views
    <3>2. \A i \in DOMAIN View(w) : i \in RowId /\ View(w)[i] \in Row
      BY CoherentRow DEF RowsInv
    <3>3. \A i \in DOMAIN writes[w] : View(w)[i] = writes[w][i]
      BY Views
    <3>4. pc[w] = "idle" => writes[w] = <<>>
      BY DEF TxInv, Shape
    <3>5. tx[w] \in Tx
      BY DEF Typed
    <3>6. tx[w].op \in 0 .. MaxOps /\ tx[w].attempt \in 0 .. MaxRetries - 1
      BY <3>5 DEF Tx
    <3> QED BY <3>1, <3>2, <3>3, <3>4, <3>6
  <2> QED BY <2>1, <2>2 DEF TypeOK, Typed, Labels
<1> QED BY <1>1, Invariant, PTL

\* persist_candidates commits a superseded row only together with a row that
\* names it, or one of the key that starts where it ends: no conflict, retry or
\* lost connection leaves the half of an apply_supersede behind.
THEOREM SupersededHaveSuccessors == Spec => []ClosedHasSuccessor
<1>1. IInv => ClosedHasSuccessor
  BY DEF IInv, NextInv
<1> QED BY <1>1, Invariant, PTL

\* The `supersedes` links apply_supersede writes lead to earlier and earlier
\* starts, however many adds race and whatever dates they carry.
THEOREM LineageRunsForward == Spec => []LineageForward
<1>1. IInv => LineageForward
  <2> SUFFICES ASSUME IInv, NEW i \in DOMAIN db, db[i].keyed,
                      db[i].supersedes # NoRow
               PROVE  /\ db[i].supersedes \in DOMAIN db
                      /\ db[db[i].supersedes].from < db[i].from
    BY DEF LineageForward
  <2>1. Coherent(db)
    BY DEF IInv, RowsInv
  <2>2. db[i].supersedes \in DOMAIN db \ {i}
    BY <2>1, CoherentRow DEF Backed
  <2>3. Apart(i, db[i], db[i].supersedes, db[db[i].supersedes])
    BY <2>1, <2>2, CoherentRow
  <2> QED BY <2>2, <2>3 DEF Apart
<1> QED BY <1>1, Invariant, PTL

\* Two rows whose facts both hold now exclude one another.
LEMMA CurrentRow ==
  ASSUME IInv, OpenEnded, NEW i \in DOMAIN db, Current(db[i])
  PROVE  db[i].until = Forever /\ Guarded(db[i]) /\ db[i].from < Forever
<1>1. RowOK(i, db[i])
  BY CoherentRow DEF IInv, RowsInv
<1>2. db[i].from < Forever
  BY <1>1, RowFields, TimeLine DEF RowOK
<1> QED BY <1>1, <1>2 DEF Current, ActiveFact, Guarded, RowOK

\* At most one single-valued fact about the key is the latest active one
\* (no_overlap_single_valued and the decision in resolve.rs together), when no
\* caller adds a fact with an end.
THEOREM OneIsCurrent == ASSUME OpenEnded PROVE Spec => []OneCurrentFact
<1>1. IInv => OneCurrentFact
  <2> SUFFICES ASSUME IInv, NEW i \in DOMAIN db, NEW j \in DOMAIN db,
                      Current(db[i]), Current(db[j]), i # j
               PROVE  FALSE
    BY DEF OneCurrentFact
  <2>1. Apart(i, db[i], j, db[j])
    BY CoherentRow DEF IInv, RowsInv
  <2>2. Excludes(db[i], db[j])
    BY CurrentRow DEF Excludes, Overlap
  <2> QED BY <2>1, <2>2 DEF Apart
<1> QED BY <1>1, Invariant, PTL

\* No active single-valued fact about the key starts after the latest one: a late
\* arrival goes to the history of what is newer (apply_supersede), whoever races.
THEOREM LatestStartsLast == ASSUME OpenEnded PROVE Spec => []LatestIsNewest
<1>1. IInv => LatestIsNewest
  <2> SUFFICES ASSUME IInv, NEW i \in DOMAIN db, NEW j \in DOMAIN db,
                      Current(db[i]), ActiveFact(db[j]),
                      ~(db[j].from <= db[i].from)
               PROVE  FALSE
    BY DEF LatestIsNewest
  <2>1. db[i].from \in Nat /\ db[j].from \in Nat /\ db[j].until \in Nat
    BY CoherentRow, RowFields, TimeLine DEF IInv, RowsInv
  <2>2. RowOK(j, db[j]) /\ db[j].from < Forever
    BY CoherentRow, RowFields, TimeLine DEF IInv, RowsInv
  <2>3. db[j].from < db[j].until /\ db[i].from < db[j].from
    BY <2>1, <2>2 DEF RowOK, ActiveFact
  <2>4. Excludes(db[i], db[j])
    BY <2>1, <2>2, <2>3, CurrentRow DEF Excludes, Overlap, Guarded, ActiveFact
  <2>5. i # j
    BY <2>1
  <2>6. Apart(i, db[i], j, db[j])
    BY <2>5, CoherentRow DEF IInv, RowsInv
  <2> QED BY <2>4, <2>6 DEF Apart
<1> QED BY <1>1, Invariant, PTL

\* update_memory gives a version at most one next version: of two PATCHes of one
\* memory, the row lock and the re-check of `is_latest` let one succeed.
THEOREM HistoryIsLinear == Spec => []EditsDoNotBranch
<1>1. IInv => EditsDoNotBranch
  <2> SUFFICES ASSUME IInv, NEW i \in DOMAIN db, NEW j \in DOMAIN db,
                      ~db[i].keyed, ~db[j].keyed,
                      db[i].supersedes = db[j].supersedes, i # j
               PROVE  FALSE
    BY DEF EditsDoNotBranch
  <2> DEFINE m == db[i].supersedes
  <2>1. Coherent(db)
    BY DEF IInv, RowsInv
  <2>2. m \in DOMAIN db \ {i} /\ m \in DOMAIN db \ {j}
    BY <2>1, CoherentRow DEF RowOK, Backed
  <2>3. Apart(i, db[i], m, db[m]) /\ Apart(j, db[j], m, db[m])
    BY <2>1, <2>2, CoherentRow
  <2>4. Chain(i, db[i]) = Chain(j, db[j]) /\ db[i].version = db[j].version
    BY <2>3 DEF Apart
  <2>5. Apart(i, db[i], j, db[j])
    BY <2>1, CoherentRow
  <2> QED BY <2>4, <2>5 DEF Apart
<1> QED BY <1>1, Invariant, PTL

\* version_chain finds the rows of the memory's own chain.
LEMMA ChainFound ==
  ASSUME IInv, NEW i \in DOMAIN db
  PROVE  VersionChain(i) =
           { j \in DOMAIN db \ {i} : Chain(j, db[j]) = Chain(i, db[i]) }
<1>1. Coherent(db)
  BY DEF IInv, RowsInv
<1>2. RootOf(db, i) = Chain(i, db[i])
  BY DEF RootOf, Chain
<1>3. Chain(i, db[i]) \in DOMAIN db /\ db[Chain(i, db[i])].root = NoRow
  BY <1>1, CoherentRow DEF Backed, Chain
<1>4. Chain(i, db[i]) # NoRow
  BY <1>1, <1>3, CoherentRow, RowIds
<1>5. ASSUME NEW j \in DOMAIN db
      PROVE  db[j].root = Chain(i, db[i]) \/ j = Chain(i, db[i])
               <=> Chain(j, db[j]) = Chain(i, db[i])
  BY <1>3, <1>4 DEF Chain
<1> QED BY <1>2, <1>5 DEF VersionChain

\* What version_chain finds for a hit is the memory's whole edit history: one
\* parent for each earlier version, and children that agree with it.
THEOREM ContextIsHistory == Spec => []ChainIsHistory
<1>1. IInv => ChainIsHistory
  <2> SUFFICES ASSUME IInv, NEW i \in DOMAIN db
               PROVE  /\ Cardinality(Parents(i)) = db[i].version - 1
                      /\ ~db[i].keyed => db[i].supersedes \in Parents(i)
                      /\ Children(i) = { j \in DOMAIN db : i \in Parents(j) }
    BY DEF ChainIsHistory
  <2>1. Coherent(db)
    BY DEF IInv, RowsInv
  <2>2. \A j \in DOMAIN db : db[j].version \in Nat \ {0}
    BY <2>1, CoherentRow, RowFields
  <2>3. ASSUME NEW j \in DOMAIN db, NEW k \in DOMAIN db,
               Chain(j, db[j]) = Chain(k, db[k]), db[j].version = db[k].version
        PROVE  j = k
    BY <2>1, <2>3, CoherentRow DEF Apart
  <2>4. ASSUME NEW j \in DOMAIN db
        PROVE  Parents(j) =
                 { k \in DOMAIN db : /\ Chain(k, db[k]) = Chain(j, db[j])
                                     /\ db[k].version < db[j].version }
    BY <2>2, ChainFound DEF Parents
  <2>5. Cardinality(Parents(i)) = db[i].version - 1
    <3> DEFINE V == 1 .. db[i].version - 1
    <3> DEFINE at == [ v \in V |-> CHOOSE j \in DOMAIN db :
                         Chain(j, db[j]) = Chain(i, db[i]) /\ db[j].version = v ]
    <3>1. ASSUME NEW v \in V
          PROVE  /\ at[v] \in DOMAIN db /\ Chain(at[v], db[at[v]]) = Chain(i, db[i])
                 /\ db[at[v]].version = v
      <4>1. v \in 1 .. db[i].version
        BY <2>2
      <4>2. \E j \in DOMAIN db :
              Chain(j, db[j]) = Chain(i, db[i]) /\ db[j].version = v
        BY <2>1, <4>1, CoherentRow DEF Backed
      <4> QED BY <4>2
    <3> HIDE DEF at
    <3>2. \A v \in V : at[v] \in Parents(i)
      BY <2>2, <2>4, <3>1
    <3>3. \A u, v \in V : at[u] = at[v] => u = v
      BY <3>1
    <3>4. ASSUME NEW k \in Parents(i)
          PROVE  \E v \in V : at[v] = k
      <4>1. /\ k \in DOMAIN db /\ Chain(k, db[k]) = Chain(i, db[i])
            /\ db[k].version \in V
        BY <2>2, <2>4
      <4> QED BY <2>3, <3>1, <4>1
    <3>5. at \in [V -> Parents(i)]
      BY <3>2 DEF at
    <3>6. ExistsBijection(V, Parents(i))
      BY <3>3, <3>4, <3>5
         DEF ExistsBijection, Bijection, Injection, Surjection, IsInjective
    <3>7. db[i].version - 1 \in Nat
      BY <2>2
    <3> QED BY <3>6, <3>7, FS_CountingElements
  <2>6. ~db[i].keyed => db[i].supersedes \in Parents(i)
    <3> SUFFICES ASSUME ~db[i].keyed PROVE db[i].supersedes \in Parents(i)
      OBVIOUS
    <3> DEFINE m == db[i].supersedes
    <3>1. m \in DOMAIN db \ {i}
      BY <2>1, CoherentRow DEF RowOK, Backed
    <3>2. Apart(i, db[i], m, db[m])
      BY <2>1, <3>1, CoherentRow
    <3>3. Chain(m, db[m]) = Chain(i, db[i]) /\ db[m].version < db[i].version
      BY <2>2, <3>1, <3>2 DEF Apart
    <3> QED BY <2>4, <3>1, <3>3
  <2>7. Children(i) = { j \in DOMAIN db : i \in Parents(j) }
    BY <2>2, <2>3, <2>4, ChainFound DEF Children
  <2> QED BY <2>5, <2>6, <2>7
<1> QED BY <1>1, Invariant, PTL

-----------------------------------------------------------------------------
(* What denies an insert. *)

\* Requests of single-valued facts, each with a value and none with an end.
Plain ==
  \A cands \in AddRequest : \A k \in 1 .. Len(cands) :
    /\ cands[k].single /\ cands[k].value # NoValue
    /\ cands[k].until = Forever

\* A current row as w sees it.
Standing(w, i) == Guarded(View(w)[i]) /\ View(w)[i].latest

SingleRows(rows) == \A i \in DOMAIN rows : rows[i].keyed => rows[i].single

\* What became of the current rows w's attempt read its matches among.
Settled(w) ==
  /\ pc[w] \in Adding => tx[w].seen \subseteq DOMAIN View(w)
  /\ pc[w] = "resolve" =>
       /\ \A i, j \in tx[w].matches : i = j
       /\ \A i \in tx[w].seen : Standing(w, i) => i \in tx[w].matches
  /\ pc[w] = "close" =>
       \A i \in tx[w].seen : Standing(w, i) => i \in tx[w].closing
  /\ pc[w] = "starts" =>
       \A i \in tx[w].seen :
         Standing(w, i) => tx[w].draft.from <= View(w)[i].from
  /\ pc[w] \in {"insert", "check"} =>
       \A i \in tx[w].seen : Standing(w, i) =>
         \/ View(w)[i].from = tx[w].draft.from
         \/ tx[w].draft.until <= View(w)[i].from

PlainInv ==
  /\ SingleRows(db)
  /\ \A w \in Writer : SingleRows(View(w)) /\ Settled(w)

\* Requests whose facts hold from when they are written on.
Live ==
  Plain /\ \A cands \in AddRequest : \A k \in 1 .. Len(cands) :
             cands[k].from = Unset

\* A row of a time that has come, and current as long as it is active.
Arrived(r) == r.from <= clock /\ (r.keyed /\ r.status = "active" => r.latest)

Punctual(w) ==
  /\ pc[w] \notin {"idle", "begin"} => tx[w].now <= clock
  /\ pc[w] # "starts"
  /\ pc[w] \in {"close", "insert", "check"} =>
       /\ tx[w].latest /\ tx[w].draft.from <= clock
       /\ \A i \in tx[w].seen : View(w)[i].from < tx[w].draft.from

LiveInv ==
  /\ \A i \in DOMAIN db : Arrived(db[i])
  /\ \A w \in Writer : /\ \A i \in DOMAIN View(w) : Arrived(View(w)[i])
                       /\ Punctual(w)

\* A transaction's steps short of its commit change no committed row, and of the
\* rows it sees they advance some, take its own back, or add one.
LEMMA ViewStep ==
  ASSUME IInv, NEW w \in Writer, Submit(w) \/ Step(w) \/ Drop(w), ~Commit(w)
  PROVE  /\ Alone(w)
         /\ \A i \in DOMAIN View(w)' :
              \/ /\ i \in DOMAIN View(w) /\ Advance(View(w)[i], View(w)'[i])
                 /\ View(w)'[i].status = "active" =>
                      View(w)'[i].latest = View(w)[i].latest
              \/ i \in DOMAIN db /\ View(w)'[i] = db[i]
              \/ /\ pc[w] = "edit" /\ ~View(w)'[i].keyed
                 /\ View(w)'[i].from = tx[w].now
              \/ pc[w] = "check" /\ View(w)'[i] = NewRow(w)
<1> USE DEF IInv
<1>1. Alone(w)
  BY TheSubmit, TheBegin, TheReadMatches, TheResolve, TheBump,
     TheClosePrior, TheReadStarts, TheInsertRow, TheCheckRow, TheRecheck,
     TheReadForgetTargets, TheTombstone, TheTombstonesDone, TheEdit,
     TheDeadlockVictim, TheDrop
     DEF Step
<1> SUFFICES ASSUME NEW i \in DOMAIN View(w)'
             PROVE  \/ /\ i \in DOMAIN View(w) /\ Advance(View(w)[i], View(w)'[i])
                       /\ View(w)'[i].status = "active" =>
                            View(w)'[i].latest = View(w)[i].latest
                    \/ i \in DOMAIN db /\ View(w)'[i] = db[i]
                    \/ /\ pc[w] = "edit" /\ ~View(w)'[i].keyed
                       /\ View(w)'[i].from = tx[w].now
                    \/ pc[w] = "check" /\ View(w)'[i] = NewRow(w)
  BY <1>1
<1>2. CASE writes' = writes
  <2>1. View(w)' = View(w)
    BY <1>1, <1>2 DEF View, Alone
  <2> QED BY <2>1, AdvanceItself
<1>3. CASE Rollback(w)
  <2>1. writes'[w] = <<>> /\ db' = db
    BY <1>1, <1>3, RolledBack DEF Alone
  <2> QED BY <2>1, ViewsNext, EmptyDomain
<1>4. ASSUME NEW j \in DOMAIN View(w), NEW r, Put(w, j, r), Advance(View(w)[j], r),
             r.status = "active" => r.latest = View(w)[j].latest
      PROVE  /\ i \in DOMAIN View(w) /\ Advance(View(w)[i], View(w)'[i])
             /\ View(w)'[i].status = "active" =>
                  View(w)'[i].latest = View(w)[i].latest
  <2>1. /\ DOMAIN View(w)' = DOMAIN View(w) \union {j}
        /\ View(w)'[j] = r
        /\ \A k \in DOMAIN View(w) \ {j} : View(w)'[k] = View(w)[k]
    BY <1>1, <1>4, ViewPut
  <2>2. CASE i = j
    BY <1>4, <2>1, <2>2
  <2>3. CASE i # j
    BY <2>1, <2>3, AdvanceItself
  <2> QED BY <2>2, <2>3
<1>5. CASE Bump(w)
  <2>1. PICK j \in Duplicates(Cand(w), Rows(w, tx[w].matches)) :
          Put(w, j, View(w)[j])
    BY <1>5 DEF Bump
  <2>2. j \in DOMAIN View(w)
    BY <1>5 DEF Bump, Duplicates, Rows, TxInv, Known, Adding
  <2> QED BY <1>4, <2>1, <2>2, AdvanceItself
<1>6. CASE ClosePrior(w)
  <2>1. PICK j \in tx[w].closing :
          \/ Rollback(w)
          \/ Put(w, j, CloseRow(View(w)[j], tx[w].draft.from, tx[w].now))
    BY <1>6 DEF ClosePrior
  <2>2. j \in DOMAIN View(w) /\ RowOK(j, View(w)[j])
    BY <1>6, CoherentRow DEF ClosePrior, TxInv, Known, RowsInv
  <2>3. tx[w].draft.from \in Time /\ tx[w].now \in Time
    BY DEF Typed, Tx
  <2> DEFINE r == CloseRow(View(w)[j], tx[w].draft.from, tx[w].now)
  <2>4. Advance(View(w)[j], r) /\ r.status = "superseded"
    BY <2>2, <2>3, CloseRowHolds
  <2> HIDE DEF r
  <2>5. CASE Put(w, j, r)
    BY <1>4, <2>2, <2>4, <2>5
  <2> QED BY <1>3, <2>1, <2>5 DEF r
<1>7. CASE CheckRow(w)
  <2>1. CASE Rivals(w) # {}
    BY <1>2, <1>3, <1>7, <2>1 DEF CheckRow, Retry
  <2>2. CASE Rivals(w) = {}
    <3>1. pc[w] = "check" /\ Put(w, NewId(w), NewRow(w))
      BY <1>7, <2>2 DEF CheckRow
    <3>2. /\ DOMAIN View(w)' = DOMAIN View(w) \union {NewId(w)}
          /\ View(w)'[NewId(w)] = NewRow(w)
          /\ \A k \in DOMAIN View(w) \ {NewId(w)} : View(w)'[k] = View(w)[k]
      BY <1>1, <3>1, ViewPut
    <3>3. CASE i = NewId(w)
      BY <3>1, <3>2, <3>3
    <3>4. CASE i # NewId(w)
      BY <3>2, <3>4, AdvanceItself
    <3> QED BY <3>3, <3>4
  <2> QED BY <2>1, <2>2
<1>8. CASE Tombstone(w)
  <2>1. PICK j \in tx[w].target :
          \/ writes' = writes
          \/ Put(w, j, ForgetRow(View(w)[j], tx[w].now))
    BY <1>8 DEF Tombstone
  <2>2. j \in DOMAIN View(w) /\ RowOK(j, View(w)[j]) /\ tx[w].now \in Time
    BY CoherentRow DEF TxInv, Known, RowsInv, Typed, Tx
  <2> DEFINE r == ForgetRow(View(w)[j], tx[w].now)
  <2>3. Advance(View(w)[j], r) /\ r.status = "forgotten"
    BY <2>2, ForgetRowHolds
  <2> HIDE DEF r
  <2>4. CASE Put(w, j, r)
    BY <1>4, <2>2, <2>3, <2>4
  <2> QED BY <1>2, <2>1, <2>4 DEF r
<1>9. CASE Edit(w)
  <2>1. PICK j \in tx[w].target :
          \/ writes' = writes
          \/ writes' = [writes EXCEPT ![w] =
                          [ k \in {j, NewId(w)} |->
                              IF k = j THEN EditClosed(w, j) ELSE EditedRow(w, j) ]]
    BY <1>9 DEF Edit
  <2>2. CASE writes' = writes
    BY <1>2, <2>2
  <2>3. CASE writes' = [writes EXCEPT ![w] =
                          [ k \in {j, NewId(w)} |->
                              IF k = j THEN EditClosed(w, j) ELSE EditedRow(w, j) ]]
    <3>1. /\ pc[w] = "edit" /\ writes[w] = <<>> /\ j \in DOMAIN View(w)
      BY <1>9 DEF Edit, TxInv, Shape, Known
    <3>2. NewId(w) # j
      BY <3>1, FreshId
    <3>3. /\ DOMAIN writes'[w] = {j, NewId(w)}
          /\ writes'[w][j] = EditClosed(w, j)
          /\ writes'[w][NewId(w)] = EditedRow(w, j)
      BY <2>3, <3>2 DEF Typed
    <3>4. db' = db
      BY <1>1 DEF Alone
    <3>5. CASE i = j
      <4>1. View(w)'[i] = EditClosed(w, j)
        BY <3>3, <3>5, ViewsNext
      <4>2. Advance(View(w)[j], EditClosed(w, j))
        BY <3>1, EditHolds
      <4>3. EditClosed(w, j).status = "superseded"
        <5>1. View(w)[j] \in Row
          BY <3>1, CoherentRow DEF RowsInv
        <5> QED BY <5>1 DEF EditClosed, Row
      <4> QED BY <3>1, <3>5, <4>1, <4>2, <4>3
    <3>6. CASE i = NewId(w)
      <4>1. View(w)'[i] = EditedRow(w, j)
        BY <3>3, <3>6, ViewsNext
      <4>2. ~EditedRow(w, j).keyed /\ EditedRow(w, j).from = tx[w].now
        BY DEF EditedRow
      <4> QED BY <3>1, <4>1, <4>2
    <3>7. CASE i \notin {j, NewId(w)}
      BY <3>3, <3>4, <3>7, ViewsNext
    <3> QED BY <3>5, <3>6, <3>7
  <2> QED BY <2>1, <2>2, <2>3
<1>10. CASE DeadlockVictim(w)
  BY <1>3, <1>10 DEF DeadlockVictim, Retry
<1>11. CASE \/ Submit(w) \/ Begin(w) \/ ReadMatches(w) \/ Resolve(w)
            \/ ReadStarts(w) \/ InsertRow(w) \/ Recheck(w)
            \/ ReadForgetTargets(w) \/ TombstonesDone(w)
  BY <1>2, <1>11
     DEF Submit, Begin, ReadMatches, Resolve, ReadStarts, InsertRow, Recheck,
         ReadForgetTargets, TombstonesDone
<1>12. CASE Drop(w)
  BY <1>3, <1>12 DEF Drop
<1> QED BY <1>5, <1>6, <1>7, <1>8, <1>9, <1>10, <1>11, <1>12 DEF Step

\* Rows that advance leave what an attempt knows of them as it was.
LEMMA SettledLater ==
  ASSUME NEW w \in Writer, Settled(w), pc'[w] = pc[w], tx'[w] = tx[w],
         DOMAIN View(w) \subseteq DOMAIN View(w)',
         \A i \in DOMAIN View(w) : Advance(View(w)[i], View(w)'[i])
  PROVE  Settled(w)'
<1> SUFFICES ASSUME pc[w] \in Adding
             PROVE  Settled(w)'
  BY DEF Settled, Adding
<1>1. tx[w].seen \subseteq DOMAIN View(w)
  BY DEF Settled
<1>2. ASSUME NEW i \in tx[w].seen
      PROVE  /\ View(w)'[i].from = View(w)[i].from
             /\ Standing(w, i)' => Standing(w, i)
  <2>1. Advance(View(w)[i], View(w)'[i])
    BY <1>1
  <2> QED BY <2>1 DEF Advance, Standing, Guarded
<1> QED BY <1>1, <1>2 DEF Settled

\* Single-valued requests leave single-valued rows.
LEMMA NewRowSingle ==
  ASSUME Plain, Typed, TxInv, NEW w \in Writer, pc[w] = "check"
  PROVE  NewRow(w).single
<1>1. /\ tx[w].cands \in AddRequest /\ tx[w].k \in 1 .. Len(tx[w].cands)
  BY DEF TxInv, Shape, Adding
<1>2. Cand(w).single
  BY <1>1 DEF Plain, Cand
<1> QED BY <1>2 DEF NewRow

LEMMA PlainRows ==
  ASSUME Plain, IInv, PlainInv, NEW w \in Writer, Submit(w) \/ Step(w) \/ Drop(w)
  PROVE  SingleRows(db)' /\ \A u \in Writer : SingleRows(View(u))'
<1> USE DEF IInv
<1>1. CASE Commit(w)
  <2>1. /\ db' = View(w) /\ writes'[w] = <<>>
        /\ \A u \in Writer \ {w} : writes'[u] = writes[u]
    BY <1>1, RolledBack DEF Commit
  <2>2. ASSUME NEW u \in Writer
        PROVE  SingleRows(View(u))'
    <3>1. CASE u = w
      BY <2>1, <3>1, ViewsNext, EmptyDomain DEF PlainInv, SingleRows
    <3>2. CASE u # w
      <4> SUFFICES ASSUME NEW i \in DOMAIN View(u)', View(u)'[i].keyed
                   PROVE  View(u)'[i].single
        BY DEF SingleRows
      <4>1. CASE i \in DOMAIN writes[u]
        <5>1. View(u)'[i] = writes'[u][i]
          BY <2>1, <3>2, <4>1, ViewsNext
        <5>2. i \in DOMAIN View(u) /\ View(u)[i] = writes[u][i]
          BY <4>1, Views
        <5> QED BY <2>1, <3>2, <5>1, <5>2 DEF PlainInv, SingleRows
      <4>2. CASE i \notin DOMAIN writes[u]
        <5>1. i \in DOMAIN View(w) /\ View(u)'[i] = View(w)[i]
          BY <2>1, <3>2, <4>2, ViewsNext
        <5> QED BY <5>1 DEF PlainInv, SingleRows
      <4> QED BY <4>1, <4>2
    <3> QED BY <3>1, <3>2
  <2> QED BY <2>1, <2>2 DEF PlainInv, SingleRows
<1>2. CASE ~Commit(w)
  <2>1. Alone(w)
    BY <1>2, ViewStep
  <2>2. SingleRows(View(w))'
    <3> SUFFICES ASSUME NEW i \in DOMAIN View(w)', View(w)'[i].keyed
                 PROVE  View(w)'[i].single
      BY DEF SingleRows
    <3>1. \/ i \in DOMAIN View(w) /\ Advance(View(w)[i], View(w)'[i])
          \/ i \in DOMAIN db /\ View(w)'[i] = db[i]
          \/ ~View(w)'[i].keyed
          \/ pc[w] = "check" /\ View(w)'[i] = NewRow(w)
      BY <1>2, ViewStep
    <3> QED BY <3>1, NewRowSingle DEF PlainInv, SingleRows, Advance
  <2>3. \A u \in Writer \ {w} : SingleRows(View(u))'
    BY <2>1, OthersKeep DEF PlainInv, SingleRows
  <2> QED BY <2>1, <2>2, <2>3 DEF PlainInv, SingleRows, Alone
<1> QED BY <1>1, <1>2

\* At most one current row of the key, in whatever a transaction sees.
LEMMA OneMatch ==
  ASSUME Plain, IInv, PlainInv, NEW w \in Writer,
         NEW i \in LatestMatches(w), NEW j \in LatestMatches(w)
  PROVE  i = j
<1> SUFFICES ASSUME i # j PROVE FALSE
  OBVIOUS
<1>1. OpenEnded
  BY DEF Plain, OpenEnded
<1>2. /\ i \in DOMAIN View(w) /\ j \in DOMAIN View(w)
      /\ View(w)[i].latest /\ View(w)[j].latest
      /\ Guarded(View(w)[i]) /\ Guarded(View(w)[j])
  BY DEF LatestMatches, PlainInv, SingleRows, Guarded
<1>3. /\ RowOK(i, View(w)[i]) /\ RowOK(j, View(w)[j])
      /\ Apart(i, View(w)[i], j, View(w)[j])
  BY <1>2, CoherentRow DEF IInv, RowsInv
<1>4. View(w)[i].until = Forever /\ View(w)[j].until = Forever
  BY <1>1, <1>2, <1>3 DEF RowOK, Guarded
<1>5. View(w)[i].from < Forever /\ View(w)[j].from < Forever
  BY <1>3, RowFields, TimeLine DEF RowOK
<1> QED BY <1>2, <1>3, <1>4, <1>5 DEF Apart, Excludes, Overlap

LEMMA SettledReadMatches ==
  ASSUME Plain, IInv, PlainInv, NEW w \in Writer, ReadMatches(w)
  PROVE  Settled(w)'
<1> USE DEF IInv
<1>1. /\ pc'[w] = "resolve" /\ tx'[w].matches = LatestMatches(w)
      /\ tx'[w].seen = DOMAIN View(w)
  BY DEF ReadMatches, Typed, Tx
<1>2. View(w)' = View(w)
  BY DEF ReadMatches, View
<1>3. \A i \in DOMAIN View(w) : Standing(w, i)' => i \in LatestMatches(w)
  BY <1>2 DEF Standing, Guarded, LatestMatches
<1> QED BY <1>1, <1>2, <1>3, OneMatch DEF Settled, Adding

LEMMA SettledResolve ==
  ASSUME Plain, IInv, PlainInv, NEW w \in Writer, Resolve(w)
  PROVE  Settled(w)'
<1> USE DEF IInv
<1> DEFINE matches == Rows(w, tx[w].matches)
<1> DEFINE priors  == Rows(w, Contradicted(Cand(w), matches))
<1> DEFINE iv      == Interval(Cand(w), clock + 1)
<1> DEFINE newer   == IsNewer(iv.from, priors)
<1>1. /\ pc[w] = "resolve" /\ tx[w] \in Tx /\ tx[w].seen \subseteq DOMAIN View(w)
      /\ \A i, j \in tx[w].matches : i = j
      /\ \A i \in tx[w].seen : Standing(w, i) => i \in tx[w].matches
      /\ tx[w].matches \subseteq DOMAIN View(w)
  BY DEF Resolve, Typed, PlainInv, Settled, Adding, TxInv, Known
<1>2. View(w)' = View(w)
  BY DEF Resolve, View
<1>3. \A i \in DOMAIN View(w) : Standing(w, i)' <=> Standing(w, i)
  BY <1>2 DEF Standing
<1>4. CASE Decide(Cand(w), matches) = "dedup"
  <2>1. pc'[w] = "bump" /\ tx' = tx
    BY <1>4 DEF Resolve, Typed
  <2> QED BY <1>1, <1>2, <2>1 DEF Settled, Adding
<1>5. CASE Decide(Cand(w), matches) # "dedup"
  <2>1. /\ clock < MaxTime
        /\ pc' = [pc EXCEPT ![w] =
                    CASE Decide(Cand(w), matches) = "insert" -> "insert"
                      [] newer -> "close"
                      [] OTHER -> "starts"]
        /\ tx' = [tx EXCEPT ![w].draft = iv, ![w].latest = newer,
                            ![w].supersedes = NoRow, ![w].closing = DOMAIN priors]
    BY <1>5 DEF Resolve
  <2>2. Cand(w).single /\ Cand(w).value # NoValue
    <3>1. /\ tx[w].cands \in AddRequest /\ tx[w].k \in 1 .. Len(tx[w].cands)
      BY <1>1 DEF TxInv, Shape, Adding
    <3> QED BY <3>1 DEF Plain, Cand
  <2>3. \A i \in tx[w].matches : View(w)[i].value # Cand(w).value
    BY <1>5, <2>2 DEF Decide, Duplicates, Rows
  <2>4. DOMAIN priors = tx[w].matches
    BY <2>2, <2>3 DEF Rows, Contradicted
  <2>5. \A i \in tx[w].matches : priors[i].from = View(w)[i].from
    BY <2>4 DEF Rows
  <2>6. /\ Decide(Cand(w), matches) = "insert" => tx[w].matches = {}
    BY <2>2, <2>3, <2>4 DEF Decide, Rows
  <2>7. ~newer => \E i \in tx[w].matches : ~(iv.from > View(w)[i].from)
    BY <2>4, <2>5 DEF IsNewer
  <2>a. newer \in BOOLEAN
    BY DEF IsNewer
  <2> HIDE DEF newer, priors, iv, matches
  <2>8. /\ tx'[w].draft = iv /\ tx'[w].closing = tx[w].matches
        /\ tx'[w].seen = tx[w].seen
    BY <1>1, <2>1, <2>4 DEF Typed, Tx
  <2>9. \/ pc'[w] = "insert" /\ tx[w].matches = {}
        \/ pc'[w] = "close"
        \/ pc'[w] = "starts" /\ ~newer
    BY <2>1, <2>6 DEF Typed
  <2>10. CASE pc'[w] = "insert" /\ tx[w].matches = {}
    BY <1>1, <1>2, <1>3, <2>8, <2>10 DEF Settled, Adding
  <2>11. CASE pc'[w] = "close"
    BY <1>1, <1>2, <1>3, <2>8, <2>11 DEF Settled, Adding
  <2>12. CASE pc'[w] = "starts" /\ ~newer
    <3>1. \A i \in tx[w].seen : Standing(w, i) => ~(iv.from > View(w)[i].from)
      BY <1>1, <2>7, <2>12
    <3>2. \A i \in DOMAIN View(w) : View(w)[i].from \in Nat
      BY CoherentRow, RowFields, TimeLine DEF RowsInv
    <3>3. iv.from \in Nat
      <4>1. clock + 1 \in Time
        BY <2>1, TimeAssumption DEF Typed, Time
      <4>2. Cand(w) \in Candidate
        BY <1>1, CandidateAt DEF TxInv, Shape, Adding
      <4> QED BY <4>1, <4>2, IntervalHolds, TimeLine DEF iv
    <3>4. \A i \in tx[w].seen : Standing(w, i) => iv.from <= View(w)[i].from
      BY <1>1, <3>1, <3>2, <3>3
    <3> QED BY <1>1, <1>2, <1>3, <2>8, <2>12, <3>4 DEF Settled, Adding
  <2> QED BY <2>9, <2>10, <2>11, <2>12
<1> QED BY <1>4, <1>5

LEMMA SettledClosePrior ==
  ASSUME Plain, IInv, PlainInv, NEW w \in Writer, ClosePrior(w)
  PROVE  Settled(w)'
<1> USE DEF IInv
<1>1. PICK i \in tx[w].closing :
        \/ Rollback(w) /\ Return(w, "error")
        \/ /\ Put(w, i, CloseRow(View(w)[i], tx[w].draft.from, tx[w].now))
           /\ tx' = [tx EXCEPT ![w].closing = @ \ {i},
                       ![w].supersedes =
                         IF @ = NoRow \/ View(w)[i].from > View(w)[@].from
                         THEN i ELSE @]
           /\ pc' = [pc EXCEPT ![w] =
                       IF tx[w].closing = {i} THEN "insert" ELSE "close"]
  BY DEF ClosePrior
<1>2. CASE Return(w, "error")
  BY <1>2, Returned DEF Settled, Adding, Result
<1>3. CASE /\ Put(w, i, CloseRow(View(w)[i], tx[w].draft.from, tx[w].now))
           /\ tx' = [tx EXCEPT ![w].closing = @ \ {i},
                       ![w].supersedes =
                         IF @ = NoRow \/ View(w)[i].from > View(w)[@].from
                         THEN i ELSE @]
           /\ pc' = [pc EXCEPT ![w] =
                       IF tx[w].closing = {i} THEN "insert" ELSE "close"]
  <2>1. /\ tx'[w].closing = tx[w].closing \ {i} /\ tx'[w].seen = tx[w].seen
    BY <1>3 DEF Typed, Tx
  <2>2. /\ pc'[w] \in {"insert", "close"}
        /\ pc'[w] = "insert" => tx[w].closing = {i}
    BY <1>3 DEF Typed
  <2>3. /\ pc[w] = "close" /\ tx[w].seen \subseteq DOMAIN View(w)
        /\ \A j \in tx[w].seen : Standing(w, j) => j \in tx[w].closing
    BY DEF ClosePrior, PlainInv, Settled, Adding
  <2>4. i \in DOMAIN View(w) /\ View(w)[i] \in Row
    BY <2>3, CoherentRow DEF TxInv, Known, RowsInv
  <2> DEFINE c == CloseRow(View(w)[i], tx[w].draft.from, tx[w].now)
  <2>5. Alone(w)
    BY TheClosePrior
  <2>7. c.status = "superseded" /\ Put(w, i, c)
    BY <1>3, <2>4 DEF CloseRow, Row
  <2> HIDE DEF c
  <2>6. /\ DOMAIN View(w)' = DOMAIN View(w) \union {i} /\ View(w)'[i] = c
        /\ \A j \in DOMAIN View(w) \ {i} : View(w)'[j] = View(w)[j]
    BY <2>5, <2>7, ViewPut
  <2>8. ASSUME NEW j \in tx[w].seen, Standing(w, j)'
        PROVE  j \in tx[w].closing \ {i}
    <3>1. j # i
      BY <2>6, <2>7, <2>8 DEF Standing, Guarded
    <3>2. Standing(w, j)
      BY <2>3, <2>6, <2>8, <3>1 DEF Standing
    <3> QED BY <2>3, <3>1, <3>2
  <2>9. tx[w].seen \subseteq DOMAIN View(w)'
    BY <2>3, <2>6
  <2> QED BY <2>1, <2>2, <2>8, <2>9 DEF Settled, Adding
<1> QED BY <1>1, <1>2, <1>3

LEMMA SettledReadStarts ==
  ASSUME Plain, IInv, PlainInv, NEW w \in Writer, ReadStarts(w)
  PROVE  Settled(w)'
<1> USE DEF IInv
<1> DEFINE h == HistoryUntil(tx[w].draft, SegmentStarts(w))
<1>1. /\ pc[w] = "starts" /\ pc'[w] = "insert" /\ tx[w] \in Tx
      /\ tx[w].seen \subseteq DOMAIN View(w)
      /\ \A i \in tx[w].seen :
           Standing(w, i) => tx[w].draft.from <= View(w)[i].from
      /\ tx[w].draft \in [from : Time, until : Bound]
  BY DEF ReadStarts, Typed, Tx, PlainInv, Settled, Adding
<1>2. /\ tx'[w].draft.until = h /\ tx'[w].draft.from = tx[w].draft.from
      /\ tx'[w].seen = tx[w].seen
  BY <1>1 DEF ReadStarts, Typed, Tx
<1>3. View(w)' = View(w)
  BY DEF ReadStarts, View
<1>4. ASSUME NEW i \in tx[w].seen, Standing(w, i)
      PROVE  View(w)[i].from = tx[w].draft.from \/ h <= View(w)[i].from
  <2> SUFFICES ASSUME View(w)[i].from # tx[w].draft.from
               PROVE  h <= View(w)[i].from
    OBVIOUS
  <2>1. i \in DOMAIN View(w) /\ View(w)[i].from \in Time
    BY <1>1, CoherentRow, RowFields DEF RowsInv
  <2>a. View(w)[i].from \in Nat /\ tx[w].draft.from \in Nat
    BY <1>1, <2>1, TimeLine
  <2>b. tx[w].draft.from <= View(w)[i].from
    BY <1>1, <1>4
  <2>2. View(w)[i].from > tx[w].draft.from
    BY <2>a, <2>b
  <2>3. View(w)[i].from \in SegmentStarts(w)
    BY <1>4, <2>1 DEF SegmentStarts, Standing, Guarded
  <2> DEFINE S == {tx[w].draft.until}
                    \union { s \in SegmentStarts(w) : s > tx[w].draft.from }
  <2>4. SegmentStarts(w) \subseteq Time
    BY CoherentRow, RowFields DEF RowsInv, SegmentStarts
  <2>5. S \in SUBSET Nat /\ View(w)[i].from \in S
    BY <1>1, <2>2, <2>3, <2>4, TimeLine
  <2> HIDE DEF S
  <2>6. Min(S) <= View(w)[i].from
    BY <2>5, LeastElement
  <2> QED BY <2>6 DEF S, HistoryUntil
<1> HIDE DEF h
<1> QED BY <1>1, <1>2, <1>3, <1>4 DEF Settled, Standing, Adding

\* The row is written as it was drafted.
LEMMA SettledInsertRow ==
  ASSUME IInv, PlainInv, NEW w \in Writer, InsertRow(w)
  PROVE  Settled(w)'
<1>1. pc[w] = "insert" /\ pc'[w] = "check" /\ tx' = tx
  BY DEF InsertRow, IInv, Typed
<1>2. View(w)' = View(w)
  BY DEF InsertRow, View
<1>3. Settled(w)
  BY DEF PlainInv
<1> QED BY <1>1, <1>2, <1>3 DEF Settled, Standing, Adding

LEMMA SettledBump ==
  ASSUME IInv, PlainInv, NEW w \in Writer, Bump(w)
  PROVE  Settled(w)'
<1>1. /\ pc[w] = "bump" /\ pc'[w] \in {"match", "commit", "recheck"}
      /\ pc'[w] = "recheck" => tx' = tx
      /\ DOMAIN writes[w] \subseteq DOMAIN writes'[w]
  BY BumpGoesOn
<1>2. db' = db
  BY DEF Bump
<1>3. DOMAIN View(w) \subseteq DOMAIN View(w)'
  BY <1>1, <1>2 DEF View
<1>4. tx[w].seen \subseteq DOMAIN View(w)
  BY <1>1 DEF PlainInv, Settled, Adding
<1> QED BY <1>1, <1>3, <1>4 DEF Settled, Adding

\* Only these statements lead to where an add is at work.
LEMMA StepsOutside ==
  ASSUME IInv, NEW w \in Writer, Submit(w) \/ Step(w) \/ Drop(w),
         ~ReadMatches(w), ~Resolve(w), ~ClosePrior(w), ~ReadStarts(w),
         ~InsertRow(w), ~Bump(w)
  PROVE  pc'[w] \notin Adding
<1> USE DEF IInv
<1>2. CASE Submit(w)
  BY <1>2 DEF Submit, Typed, Adding
<1>3. CASE Begin(w)
  <2>1. tx[w].kind \in {"add", "forget", "forgetContent", "edit"}
    BY <1>3, WriteAssumption DEF Begin, Typed, Tx, TxInv, Shape
  <2> QED BY <1>3, <2>1 DEF Begin, Typed, Adding
<1>4. CASE Recheck(w) \/ TombstonesDone(w)
  BY <1>4, GoesOn DEF Recheck, TombstonesDone, Adding
<1>5. ASSUME NEW failure \in Result, Retry(w, failure)
      PROVE  pc'[w] \notin Adding
  BY <1>5, Returned DEF Retry, Typed, Adding
<1>6. CASE CheckRow(w)
  BY <1>5, <1>6, GoesOn DEF CheckRow, Adding, Result
<1>7. CASE Edit(w) \/ ReadForgetTargets(w) \/ Tombstone(w)
  BY <1>7 DEF Edit, ReadForgetTargets, Tombstone, Typed, Adding
<1>8. CASE Commit(w)
  <2>1. PICK out \in Result : Return(w, out)
    BY <1>8 DEF Commit, Result
  <2> QED BY <2>1, Returned DEF Adding
<1>9. CASE Drop(w)
  <2>1. Return(w, "dropped")
    BY <1>9 DEF Drop
  <2> QED BY <2>1, Returned DEF Adding, Result
<1>10. CASE DeadlockVictim(w)
  <2>1. Retry(w, "deadlock") \/ Return(w, "error")
    BY <1>10 DEF DeadlockVictim
  <2> QED BY <1>5, <2>1, Returned DEF Adding, Result
<1> QED BY <1>2, <1>3, <1>4, <1>6, <1>7, <1>8, <1>9, <1>10 DEF Step

LEMMA SettledStep ==
  ASSUME Plain, IInv, PlainInv, NEW w \in Writer, Submit(w) \/ Step(w) \/ Drop(w)
  PROVE  \A u \in Writer : Settled(u)'
<1> USE DEF IInv
<1>1. ASSUME NEW u \in Writer \ {w}
      PROVE  Settled(u)'
  <2>1. CASE Commit(w)
    <3>1. /\ pc[w] = "commit" /\ db' = View(w) /\ writes'[w] = <<>>
          /\ \A v \in Writer \ {w} : writes'[v] = writes[v]
      BY <2>1, RolledBack DEF Commit
    <3>2. PICK out \in Result : Return(w, out)
      BY <2>1 DEF Commit, Result
    <3>3. /\ pc'[w] = "idle" /\ tx'[w].op = tx[w].op
          /\ \A v \in Writer \ {w} : pc'[v] = pc[v] /\ tx'[v] = tx[v]
      BY <3>2, Returned
    <3>4. /\ DOMAIN View(u) \subseteq DOMAIN View(u)'
          /\ \A i \in DOMAIN View(u) : Advance(View(u)[i], View(u)'[i])
      BY <3>1, <3>3, RowsCommitted
    <3> QED BY <3>3, <3>4, SettledLater DEF PlainInv
  <2>2. CASE ~Commit(w)
    <3>1. Alone(w)
      BY <2>2, ViewStep
    <3>2. View(u)' = View(u) /\ pc'[u] = pc[u] /\ tx'[u] = tx[u]
      BY <3>1, OthersKeep DEF Alone
    <3> QED BY <3>2, SettledLater, AdvanceItself DEF PlainInv
  <2> QED BY <2>1, <2>2
<1>2. Settled(w)'
  <2>1. CASE /\ ~ReadMatches(w) /\ ~Resolve(w) /\ ~ClosePrior(w) /\ ~ReadStarts(w)
             /\ ~InsertRow(w) /\ ~Bump(w)
    BY <2>1, StepsOutside DEF Settled, Adding
  <2> QED BY <2>1, SettledReadMatches, SettledResolve, SettledClosePrior,
             SettledReadStarts, SettledInsertRow, SettledBump
<1> QED BY <1>1, <1>2

LEMMA PlainInvariant == ASSUME Plain PROVE Spec => []PlainInv
<1>1. Init => PlainInv
  <2> SUFFICES ASSUME Init PROVE PlainInv
    OBVIOUS
  <2>1. DOMAIN db = {} /\ \A w \in Writer : DOMAIN View(w) = {} /\ pc[w] = "idle"
    BY EmptyDomain, Views DEF Init
  <2> QED BY <2>1 DEF PlainInv, SingleRows, Settled, Adding
<1>2. IInv /\ PlainInv /\ [Next]_vars => PlainInv'
  <2> SUFFICES ASSUME IInv, PlainInv, [Next]_vars PROVE PlainInv'
    OBVIOUS
  <2>1. CASE Next
    BY <2>1, PlainRows, SettledStep DEF Next, PlainInv
  <2>2. CASE UNCHANGED vars
    <3>1. db' = db /\ pc' = pc /\ tx' = tx /\ writes' = writes
      BY <2>2 DEF vars
    <3>2. \A w \in Writer : View(w)' = View(w)
      BY <3>1 DEF View
    <3>3. \A w \in Writer : Settled(w)'
      BY <3>1, <3>2, SettledLater, AdvanceItself DEF PlainInv
    <3> QED BY <3>1, <3>2, <3>3 DEF PlainInv, SingleRows
  <2> QED BY <2>1, <2>2
<1> QED BY <1>1, <1>2, Invariant, PTL DEF Spec

\* Where requests carry single-valued facts, no row that was current when an
\* attempt of persist_candidates read its matches denies its insert, unless both
\* start at the same instant.
THEOREM OnlyHistoryDenies == ASSUME Plain PROVE Spec => DeniedByHistoryOnly
<1>1. IInv /\ PlainInv => \A w \in Writer : Conflicted(w) =>
        \E i \in Rivals(w) : \/ i \notin tx[w].seen
                             \/ ~View(w)[i].latest
                             \/ View(w)[i].from = tx[w].draft.from
  <2> SUFFICES ASSUME IInv, PlainInv, NEW w \in Writer, Conflicted(w)
               PROVE  \E i \in Rivals(w) : \/ i \notin tx[w].seen
                                           \/ ~View(w)[i].latest
                                           \/ View(w)[i].from = tx[w].draft.from
    OBVIOUS
  <2>1. PICK i \in Rivals(w) : pc[w] = "check"
    BY DEF Conflicted
  <2>2. i \in DOMAIN View(w) /\ Excludes(NewRow(w), View(w)[i])
    BY DEF Rivals
  <2>3. NewRow(w).until = tx[w].draft.until
    BY DEF NewRow
  <2>4. /\ Guarded(View(w)[i]) /\ View(w)[i].from < tx[w].draft.until
    BY <2>2, <2>3 DEF Excludes, Overlap
  <2>5. i \in tx[w].seen /\ View(w)[i].latest =>
          \/ View(w)[i].from = tx[w].draft.from
          \/ tx[w].draft.until <= View(w)[i].from
    BY <2>1, <2>4 DEF PlainInv, Settled, Standing
  <2>6. View(w)[i].from \in Nat /\ tx[w].draft.until \in Nat
    <3>1. View(w)[i].from \in Time
      BY <2>2, CoherentRow, RowFields DEF IInv, RowsInv
    <3>2. tx[w].draft.until \in Bound
      BY DEF IInv, Typed, Tx
    <3> QED BY <3>1, <3>2, TimeLine
  <2>7. i \in tx[w].seen /\ View(w)[i].latest =>
          View(w)[i].from = tx[w].draft.from
    BY <2>4, <2>5, <2>6
  <2> QED BY <2>7
<1>2. IInv /\ PlainInv /\ [Next]_vars =>
        [\A w \in Writer : Conflicted(w) =>
           \E i \in Rivals(w) : \/ i \notin tx[w].seen
                                \/ ~View(w)[i].latest
                                \/ View(w)[i].from = tx[w].draft.from]_vars
  BY <1>1
<1> QED BY <1>2, Invariant, PlainInvariant, PTL DEF Spec, DeniedByHistoryOnly

\* Time goes on, and never back.
LEMMA ClockGrows ==
  ASSUME Typed, NEW w \in Writer, Submit(w) \/ Step(w) \/ Drop(w)
  PROVE  clock \in Nat /\ clock' \in Nat /\ clock <= clock'
<1>1. clock \in Nat
  BY TimeLine DEF Typed
<1>2. clock' \in {clock, clock + 1}
  BY DEF Submit, Step, Drop, Begin, ReadMatches, Resolve, Bump, ClosePrior,
         ReadStarts, InsertRow, CheckRow, Recheck, ReadForgetTargets, Tombstone,
         TombstonesDone, Edit, Commit, DeadlockVictim
<1> QED BY <1>1, <1>2

LEMMA RowTimes ==
  ASSUME IInv, NEW w \in Writer, NEW i \in DOMAIN View(w)
  PROVE  View(w)[i].from \in Nat
BY CoherentRow, RowFields, TimeLine DEF IInv, RowsInv

LEMMA LiveRows ==
  ASSUME IInv, LiveInv, NEW w \in Writer, Submit(w) \/ Step(w) \/ Drop(w)
  PROVE  /\ \A i \in DOMAIN db' : Arrived(db[i])'
         /\ \A u \in Writer : \A i \in DOMAIN View(u)' : Arrived(View(u)[i])'
<1> USE DEF IInv
<1>c. clock \in Nat /\ clock' \in Nat /\ clock <= clock'
  BY ClockGrows
<1>d. ASSUME NEW i \in DOMAIN db
      PROVE  db[i].from \in Nat /\ db[i].from <= clock'
  <2>1. db[i].from \in Nat
    BY CoherentRow, RowFields, TimeLine DEF RowsInv
  <2>2. db[i].from <= clock
    BY DEF LiveInv, Arrived
  <2> QED BY <1>c, <2>1, <2>2
<1>v. ASSUME NEW u \in Writer, NEW i \in DOMAIN View(u)
      PROVE  View(u)[i].from <= clock'
  <2>1. View(u)[i].from \in Nat /\ View(u)[i].from <= clock
    BY RowTimes DEF LiveInv, Arrived
  <2> QED BY <1>c, <2>1
<1>1. CASE Commit(w)
  <2>1. /\ db' = View(w) /\ writes'[w] = <<>>
        /\ \A u \in Writer \ {w} : writes'[u] = writes[u]
    BY <1>1, RolledBack DEF Commit
  <2>2. \A i \in DOMAIN View(w) : Arrived(db[i])'
    BY <1>v, <2>1 DEF LiveInv, Arrived
  <2>3. ASSUME NEW u \in Writer, NEW i \in DOMAIN View(u)'
        PROVE  Arrived(View(u)[i])'
    <3>1. CASE u # w /\ i \in DOMAIN writes[u]
      <4>1. View(u)'[i] = writes'[u][i]
        BY <2>1, <3>1, ViewsNext
      <4>2. i \in DOMAIN View(u) /\ View(u)[i] = writes[u][i]
        BY <3>1, Views
      <4> QED BY <1>v, <2>1, <3>1, <4>1, <4>2 DEF LiveInv, Arrived
    <3>2. CASE ~(u # w /\ i \in DOMAIN writes[u])
      <4>1. i \in DOMAIN View(w) /\ View(u)'[i] = db'[i]
        BY <2>1, <3>2, ViewsNext, EmptyDomain
      <4> QED BY <2>1, <2>2, <4>1 DEF Arrived
    <3> QED BY <3>1, <3>2
  <2> QED BY <2>1, <2>2, <2>3
<1>2. CASE ~Commit(w)
  <2>1. Alone(w)
    BY <1>2, ViewStep
  <2>2. \A i \in DOMAIN db' : Arrived(db[i])'
    BY <1>d, <2>1 DEF LiveInv, Arrived, Alone
  <2>3. ASSUME NEW u \in Writer \ {w}, NEW i \in DOMAIN View(u)'
        PROVE  Arrived(View(u)[i])'
    <3>1. View(u)' = View(u)
      BY <2>1, OthersKeep
    <3> QED BY <1>v, <3>1 DEF LiveInv, Arrived
  <2>4. ASSUME NEW i \in DOMAIN View(w)'
        PROVE  Arrived(View(w)[i])'
    <3> DEFINE r == View(w)'[i]
    <3>1. \/ /\ i \in DOMAIN View(w) /\ Advance(View(w)[i], r)
             /\ r.status = "active" => r.latest = View(w)[i].latest
          \/ i \in DOMAIN db /\ r = db[i]
          \/ pc[w] = "edit" /\ ~r.keyed /\ r.from = tx[w].now
          \/ pc[w] = "check" /\ r = NewRow(w)
      BY <1>2, ViewStep
    <3> SUFFICES r.from <= clock' /\ (r.keyed /\ r.status = "active" => r.latest)
      BY DEF Arrived
    <3> HIDE DEF r
    <3>2. CASE /\ i \in DOMAIN View(w) /\ Advance(View(w)[i], r)
               /\ r.status = "active" => r.latest = View(w)[i].latest
      BY <1>v, <3>2 DEF Advance, LiveInv, Arrived
    <3>3. CASE i \in DOMAIN db /\ r = db[i]
      BY <1>d, <3>3 DEF LiveInv, Arrived
    <3>4. CASE pc[w] = "edit" /\ ~r.keyed /\ r.from = tx[w].now
      <4>1. tx[w].now <= clock /\ tx[w].now \in Nat
        BY <3>4, TimeLine DEF LiveInv, Punctual, Typed, Tx
      <4> QED BY <1>c, <3>4, <4>1
    <3>5. CASE pc[w] = "check" /\ r = NewRow(w)
      <4>1. /\ tx[w].draft.from <= clock /\ tx[w].draft.from \in Nat
            /\ tx[w].latest
        BY <3>5, TimeLine DEF LiveInv, Punctual, Typed, Tx
      <4>2. r.from = tx[w].draft.from /\ r.latest = tx[w].latest
        BY <3>5 DEF NewRow
      <4> QED BY <1>c, <4>1, <4>2
    <3> QED BY <3>1, <3>2, <3>3, <3>4, <3>5
  <2> QED BY <2>2, <2>3, <2>4
<1> QED BY <1>1, <1>2

\* What holds of w's clock readings lasts while others run.
LEMMA PunctualLater ==
  ASSUME IInv, NEW u \in Writer, Punctual(u), Settled(u),
         pc'[u] = pc[u], tx'[u] = tx[u],
         clock \in Nat, clock' \in Nat, clock <= clock',
         DOMAIN View(u) \subseteq DOMAIN View(u)',
         \A i \in DOMAIN View(u) : Advance(View(u)[i], View(u)'[i])
  PROVE  Punctual(u)'
<1>1. tx[u].now \in Nat /\ tx[u].draft.from \in Nat
  BY TimeLine DEF IInv, Typed, Tx
<1>2. pc[u] \in {"close", "insert", "check"} =>
        \A i \in tx[u].seen : View(u)'[i].from = View(u)[i].from
  BY DEF Settled, Adding, Advance
<1> QED BY <1>1, <1>2 DEF Punctual

LEMMA PunctualResolve ==
  ASSUME Live, IInv, PlainInv, LiveInv, NEW w \in Writer, Resolve(w)
  PROVE  Punctual(w)'
<1> USE DEF IInv
<1> DEFINE matches == Rows(w, tx[w].matches)
<1> DEFINE priors  == Rows(w, Contradicted(Cand(w), matches))
<1> DEFINE iv      == Interval(Cand(w), clock + 1)
<1> DEFINE newer   == IsNewer(iv.from, priors)
<1>1. /\ pc[w] = "resolve" /\ tx[w] \in Tx /\ tx[w].seen \subseteq DOMAIN View(w)
      /\ tx[w].matches \subseteq DOMAIN View(w) /\ tx[w].now <= clock
      /\ tx[w].now \in Nat /\ clock \in Nat
  BY TimeLine DEF Resolve, Typed, Tx, PlainInv, Settled, Adding, TxInv, Known,
                  LiveInv, Punctual
<1>2. View(w)' = View(w)
  BY DEF Resolve, View
<1>3. CASE Decide(Cand(w), matches) = "dedup"
  <2>1. pc'[w] = "bump" /\ tx' = tx /\ clock' = clock
    BY <1>3 DEF Resolve, Typed
  <2> QED BY <1>1, <2>1 DEF Punctual
<1>4. CASE Decide(Cand(w), matches) # "dedup"
  <2>1. /\ clock' = IF Cand(w).from = Unset THEN clock + 1 ELSE clock
        /\ pc' = [pc EXCEPT ![w] =
                    CASE Decide(Cand(w), matches) = "insert" -> "insert"
                      [] newer -> "close"
                      [] OTHER -> "starts"]
        /\ tx' = [tx EXCEPT ![w].draft = iv, ![w].latest = newer,
                            ![w].supersedes = NoRow, ![w].closing = DOMAIN priors]
    BY <1>4 DEF Resolve
  <2>2. Cand(w).from = Unset
    <3>1. /\ tx[w].cands \in AddRequest /\ tx[w].k \in 1 .. Len(tx[w].cands)
      BY <1>1 DEF TxInv, Shape, Adding
    <3> QED BY <3>1 DEF Live, Cand
  <2>3. iv.from = clock + 1
    BY <2>2 DEF Interval
  <2>4. ASSUME NEW i \in DOMAIN View(w)
        PROVE  View(w)[i].from < clock + 1
    <3>1. View(w)[i].from \in Nat /\ View(w)[i].from <= clock
      BY RowTimes DEF LiveInv, Arrived
    <3> QED BY <1>1, <3>1
  <2>5. newer = TRUE
    <3>1. \A i \in DOMAIN priors : i \in DOMAIN View(w) /\ priors[i] = View(w)[i]
      BY <1>1 DEF Rows, Contradicted
    <3>2. \A i \in DOMAIN priors : iv.from > priors[i].from
      BY <1>1, <2>3, <2>4, <3>1, RowTimes
    <3> QED BY <3>2 DEF IsNewer
  <2> HIDE DEF newer, priors, iv, matches
  <2>6. /\ tx'[w].draft = iv /\ tx'[w].latest = newer
        /\ tx'[w].seen = tx[w].seen /\ tx'[w].now = tx[w].now
    BY <1>1, <2>1 DEF Typed, Tx
  <2>7. pc'[w] \in {"insert", "close"}
    BY <2>1, <2>5 DEF Typed
  <2>8. clock' = clock + 1
    BY <2>1, <2>2
  <2>9. \A i \in tx'[w].seen : View(w)'[i].from < tx'[w].draft.from
    BY <1>1, <1>2, <2>3, <2>4, <2>6
  <2>10. tx'[w].now <= clock' /\ tx'[w].draft.from <= clock' /\ tx'[w].latest
    BY <1>1, <2>3, <2>5, <2>6, <2>8
  <2> QED BY <2>7, <2>9, <2>10 DEF Punctual
<1> QED BY <1>3, <1>4

LEMMA PunctualClosePrior ==
  ASSUME IInv, PlainInv, LiveInv, NEW w \in Writer, ClosePrior(w)
  PROVE  Punctual(w)'
<1> USE DEF IInv
<1>1. PICK i \in tx[w].closing :
        \/ Return(w, "error")
        \/ /\ Put(w, i, CloseRow(View(w)[i], tx[w].draft.from, tx[w].now))
           /\ tx' = [tx EXCEPT ![w].closing = @ \ {i},
                       ![w].supersedes =
                         IF @ = NoRow \/ View(w)[i].from > View(w)[@].from
                         THEN i ELSE @]
           /\ pc' = [pc EXCEPT ![w] =
                       IF tx[w].closing = {i} THEN "insert" ELSE "close"]
  BY DEF ClosePrior
<1>2. CASE Return(w, "error")
  BY <1>2, Returned DEF Punctual, Result
<1>3. CASE /\ Put(w, i, CloseRow(View(w)[i], tx[w].draft.from, tx[w].now))
           /\ tx' = [tx EXCEPT ![w].closing = @ \ {i},
                       ![w].supersedes =
                         IF @ = NoRow \/ View(w)[i].from > View(w)[@].from
                         THEN i ELSE @]
           /\ pc' = [pc EXCEPT ![w] =
                       IF tx[w].closing = {i} THEN "insert" ELSE "close"]
  <2>1. /\ tx'[w].draft = tx[w].draft /\ tx'[w].latest = tx[w].latest
        /\ tx'[w].seen = tx[w].seen /\ tx'[w].now = tx[w].now
        /\ pc'[w] \in {"insert", "close"}
    BY <1>3 DEF Typed, Tx
  <2>2. /\ pc[w] = "close" /\ clock' = clock
        /\ tx[w].seen \subseteq DOMAIN View(w) /\ Punctual(w)
    BY DEF ClosePrior, PlainInv, LiveInv, Settled, Adding
  <2>3. i \in DOMAIN View(w) /\ View(w)[i] \in Row
    BY <2>2, CoherentRow DEF TxInv, Known, RowsInv
  <2> DEFINE c == CloseRow(View(w)[i], tx[w].draft.from, tx[w].now)
  <2>4. c.from = View(w)[i].from /\ Put(w, i, c)
    BY <1>3, <2>3 DEF CloseRow, Row
  <2>5. Alone(w)
    BY TheClosePrior
  <2> HIDE DEF c
  <2>6. /\ View(w)'[i] = c
        /\ \A j \in DOMAIN View(w) \ {i} : View(w)'[j] = View(w)[j]
    BY <2>4, <2>5, ViewPut
  <2>7. ASSUME NEW j \in tx[w].seen
        PROVE  View(w)'[j].from = View(w)[j].from
    BY <2>2, <2>4, <2>6
  <2> QED BY <2>1, <2>2, <2>7 DEF Punctual
<1> QED BY <1>1, <1>2, <1>3

LEMMA PunctualStep ==
  ASSUME Live, IInv, PlainInv, LiveInv, NEW w \in Writer,
         Submit(w) \/ Step(w) \/ Drop(w)
  PROVE  \A u \in Writer : Punctual(u)'
<1> USE DEF IInv
<1>c. clock \in Nat /\ clock' \in Nat /\ clock <= clock'
  BY ClockGrows
<1>1. ASSUME NEW u \in Writer \ {w}
      PROVE  Punctual(u)'
  <2>1. CASE Commit(w)
    <3>1. /\ pc[w] = "commit" /\ db' = View(w) /\ writes'[w] = <<>>
          /\ \A v \in Writer \ {w} : writes'[v] = writes[v]
      BY <2>1, RolledBack DEF Commit
    <3>2. PICK out \in Result : Return(w, out)
      BY <2>1 DEF Commit, Result
    <3>3. /\ pc'[w] = "idle" /\ tx'[w].op = tx[w].op
          /\ \A v \in Writer \ {w} : pc'[v] = pc[v] /\ tx'[v] = tx[v]
      BY <3>2, Returned
    <3>4. /\ DOMAIN View(u) \subseteq DOMAIN View(u)'
          /\ \A i \in DOMAIN View(u) : Advance(View(u)[i], View(u)'[i])
      BY <3>1, <3>3, RowsCommitted
    <3> QED BY <1>c, <3>3, <3>4, PunctualLater DEF PlainInv, LiveInv
  <2>2. CASE ~Commit(w)
    <3>1. Alone(w)
      BY <2>2, ViewStep
    <3>2. View(u)' = View(u) /\ pc'[u] = pc[u] /\ tx'[u] = tx[u]
      BY <3>1, OthersKeep DEF Alone
    <3> QED BY <1>c, <3>2, PunctualLater, AdvanceItself DEF PlainInv, LiveInv
  <2> QED BY <2>1, <2>2
<1>2. Punctual(w)'
  <2>0. Punctual(w) /\ tx[w].now \in Nat
    BY TimeLine DEF LiveInv, Typed, Tx
  <2>a. pc'[w] \in {"idle", "begin"} => Punctual(w)'
    BY DEF Punctual
  <2>b. /\ pc[w] \notin {"idle", "begin"} /\ tx'[w].now = tx[w].now
        /\ pc'[w] \notin {"starts", "close", "insert", "check"}
        => Punctual(w)'
    BY <1>c, <2>0 DEF Punctual
  <2>2. CASE Submit(w)
    BY <2>a, <2>2 DEF Submit, Typed
  <2>3. CASE Begin(w)
    <3>1. tx[w].kind \in {"add", "forget", "forgetContent", "edit"}
      BY <2>3, WriteAssumption DEF Begin, Typed, Tx, TxInv, Shape
    <3>2. pc'[w] \in {"match", "tombstone", "edit"}
      BY <2>3, <3>1 DEF Begin, Typed
    <3>3. tx'[w].now = clock'
      BY <2>3 DEF Begin, Typed, Tx
    <3> QED BY <1>c, <3>2, <3>3 DEF Punctual
  <2>4. CASE Recheck(w) \/ TombstonesDone(w)
    <3>1. pc[w] \in {"recheck", "tombstone"} /\ NextCandidate(w)
      BY <2>4 DEF Recheck, TombstonesDone
    <3>2. pc'[w] \in {"match", "commit"}
      BY <3>1, GoesOn
    <3>3. tx'[w].now = tx[w].now
      BY <3>1 DEF NextCandidate, Typed, Tx
    <3> QED BY <2>b, <3>1, <3>2, <3>3
  <2>5. ASSUME NEW failure \in Result, Retry(w, failure)
        PROVE  pc'[w] \in {"idle", "begin"}
    BY <2>5, Returned DEF Retry, Typed
  <2>6. CASE CheckRow(w)
    <3>1. CASE Rivals(w) # {}
      BY <2>a, <2>5, <2>6, <3>1 DEF CheckRow, Result
    <3>2. CASE Rivals(w) = {}
      <4>1. pc[w] = "check" /\ NextCandidate(w)
        BY <2>6, <3>2 DEF CheckRow
      <4>2. pc'[w] \in {"match", "commit"}
        BY <4>1, GoesOn
      <4>3. tx'[w].now = tx[w].now
        BY <4>1 DEF NextCandidate, Typed, Tx
      <4> QED BY <2>b, <4>1, <4>2, <4>3
    <3> QED BY <3>1, <3>2
  <2>7. CASE Edit(w) \/ ReadForgetTargets(w) \/ Tombstone(w) \/ ReadMatches(w)
    <3>1. /\ pc[w] \notin {"idle", "begin"}
          /\ pc'[w] \in {"commit", "tombstone", "resolve"}
      BY <2>7 DEF Edit, ReadForgetTargets, Tombstone, ReadMatches, Typed
    <3>2. tx'[w].now = tx[w].now
      BY <2>7 DEF Edit, ReadForgetTargets, Tombstone, ReadMatches, Typed, Tx
    <3> QED BY <2>b, <3>1, <3>2
  <2>8. CASE Commit(w)
    <3>1. PICK out \in Result : Return(w, out)
      BY <2>8 DEF Commit, Result
    <3> QED BY <2>a, <3>1, Returned
  <2>9. CASE Drop(w)
    <3>1. Return(w, "dropped")
      BY <2>9 DEF Drop
    <3> QED BY <2>a, <3>1, Returned DEF Result
  <2>10. CASE DeadlockVictim(w)
    <3>1. Retry(w, "deadlock") \/ Return(w, "error")
      BY <2>10 DEF DeadlockVictim
    <3> QED BY <2>a, <2>5, <3>1, Returned DEF Result
  <2>11. ~ReadStarts(w)
    BY <2>0 DEF ReadStarts, Punctual
  <2>12. CASE Bump(w)
    <3>1. /\ pc[w] = "bump" /\ pc'[w] \in {"match", "commit", "recheck"}
          /\ tx'[w].now = tx[w].now
      BY <2>12, BumpGoesOn
    <3> QED BY <2>b, <3>1
  <2>13. CASE InsertRow(w)
    <3>1. /\ pc[w] = "insert" /\ pc'[w] = "check" /\ tx' = tx /\ clock' = clock
      BY <2>13 DEF InsertRow, Typed
    <3>2. View(w)' = View(w)
      BY <2>13 DEF InsertRow, View
    <3> QED BY <2>0, <3>1, <3>2 DEF Punctual
  <2> QED BY <2>2, <2>3, <2>4, <2>6, <2>7, <2>8, <2>9, <2>10, <2>11, <2>12,
             <2>13, PunctualResolve, PunctualClosePrior DEF Step
<1> QED BY <1>1, <1>2

LEMMA LiveInvariant == ASSUME Live PROVE Spec => []LiveInv
<1>0. Plain
  BY DEF Live
<1>1. Init => LiveInv
  <2> SUFFICES ASSUME Init PROVE LiveInv
    OBVIOUS
  <2>1. DOMAIN db = {} /\ \A w \in Writer : DOMAIN View(w) = {} /\ pc[w] = "idle"
    BY EmptyDomain, Views DEF Init
  <2> QED BY <2>1 DEF LiveInv, Punctual
<1>2. IInv /\ PlainInv /\ LiveInv /\ [Next]_vars => LiveInv'
  <2> SUFFICES ASSUME IInv, PlainInv, LiveInv, [Next]_vars PROVE LiveInv'
    OBVIOUS
  <2>1. CASE Next
    <3>1. PICK w \in Writer : Submit(w) \/ Step(w) \/ Drop(w)
      BY <2>1 DEF Next
    <3> QED BY <3>1, LiveRows, PunctualStep DEF LiveInv
  <2>2. CASE UNCHANGED vars
    <3>1. db' = db /\ pc' = pc /\ tx' = tx /\ writes' = writes /\ clock' = clock
      BY <2>2 DEF vars
    <3>2. \A w \in Writer : View(w)' = View(w)
      BY <3>1 DEF View
    <3> QED BY <3>1, <3>2 DEF LiveInv, Arrived, Punctual
  <2> QED BY <2>1, <2>2
<1> QED BY <1>0, <1>1, <1>2, Invariant, PlainInvariant, PTL DEF Spec

\* A row that denies an insert was not among those its attempt read.
LEMMA RivalUnread ==
  ASSUME IInv, PlainInv, LiveInv, NEW w \in Writer, pc[w] = "check",
         Rivals(w) # {}
  PROVE  \E i \in Rivals(w) : i \notin tx[w].seen
<1>1. PICK i \in Rivals(w) : TRUE
  OBVIOUS
<1>2. i \in DOMAIN View(w) /\ Excludes(NewRow(w), View(w)[i])
  BY DEF Rivals
<1>3. NewRow(w).until = tx[w].draft.until
  BY DEF NewRow
<1>4. Guarded(View(w)[i]) /\ View(w)[i].from < tx[w].draft.until
  BY <1>2, <1>3 DEF Excludes, Overlap
<1>5. View(w)[i].latest
  <2>1. Arrived(View(w)[i])
    BY <1>2 DEF LiveInv
  <2> QED BY <1>4, <2>1 DEF Arrived, Guarded
<1>6. /\ View(w)[i].from \in Nat /\ tx[w].draft.until \in Nat
      /\ tx[w].draft.from \in Nat
  <2>1. tx[w].draft.until \in Bound /\ tx[w].draft.from \in Time
    BY DEF IInv, Typed, Tx
  <2> QED BY <1>2, <2>1, RowTimes, TimeLine
<1> SUFFICES ASSUME i \in tx[w].seen PROVE FALSE
  OBVIOUS
<1>7. \/ View(w)[i].from = tx[w].draft.from
      \/ tx[w].draft.until <= View(w)[i].from
  BY <1>4, <1>5 DEF PlainInv, Settled, Standing
<1>8. View(w)[i].from < tx[w].draft.from
  BY DEF LiveInv, Punctual
<1> QED BY <1>4, <1>6, <1>7, <1>8

\* Where facts hold from when they are written, an attempt that the constraint
\* denies is denied by a row it did not see when it read its matches, so that the
\* next attempt reads something new (Engine::add_at's retry loop).
THEOREM EveryRetryReadsMore == ASSUME Live PROVE Spec => ConflictMeansProgress
<1>0. Plain
  BY DEF Live
<1>1. IInv /\ PlainInv /\ LiveInv => \A w \in Writer : Conflicted(w) =>
        \E i \in Rivals(w) : i \notin tx[w].seen
  BY RivalUnread DEF Conflicted
<1>2. IInv /\ PlainInv /\ LiveInv /\ [Next]_vars =>
        [\A w \in Writer : Conflicted(w) =>
           \E i \in Rivals(w) : i \notin tx[w].seen]_vars
  BY <1>1
<1> QED BY <1>0, <1>2, Invariant, PlainInvariant, LiveInvariant, PTL
        DEF Spec, ConflictMeansProgress

-----------------------------------------------------------------------------
(* Who waits for whom. *)

\* What holds where every fact is single-valued and dated when it is written.
LiveState == IInv /\ PlainInv /\ LiveInv

\* w has locked the current row, or written one.
Fresh(w) ==
  \E i \in DOMAIN writes[w] :
    Guarded(writes[w][i]) \/ (i \in DOMAIN db /\ Guarded(db[i]))

Reading == {"resolve", "bump", "close"}

\* The committed rows w's attempt read its matches among.
Old(w) == tx[w].seen \intersect DOMAIN db

\* The matches w has yet to lock.
Wanted(w) == tx[w].matches \ DOMAIN writes[w]

\* An attempt read at most one match, the only current row it saw, and where it
\* holds the current row it wants no other.
Caught(w) ==
  /\ pc[w] \in Adding => DOMAIN writes[w] \subseteq tx[w].seen
  /\ pc[w] \in Reading =>
       /\ tx[w].matches \subseteq tx[w].seen
       /\ \A i, j \in tx[w].matches : i = j
       /\ Fresh(w) => Wanted(w) = {}
       /\ \A i \in Old(w) :
            Guarded(db[i]) => i \in tx[w].matches \union DOMAIN writes[w]
  /\ pc[w] = "bump" => Duplicates(Cand(w), Rows(w, tx[w].matches)) # {}
  /\ pc[w] = "close" => tx[w].closing \subseteq tx[w].matches

\* A forget has one target at a time, and waits for it with nothing written.
Aimed(w) ==
  /\ \A i, j \in tx[w].target : i = j
  /\ pc[w] = "tombstone" /\ writes[w] # <<>> =>
       tx[w].target \subseteq DOMAIN writes[w]
  /\ tx[w].kind = "forgetContent" =>
       /\ \A i \in tx[w].target : View(w)[i].keyed
       /\ writes[w] # <<>> =>
            \E i \in DOMAIN writes[w] \intersect DOMAIN db : Guarded(db[i])

\* Of two attempts one read after the other, and what the first matched the
\* second cannot have passed over for a row the first saw.
InTurn(u, w) ==
  pc[u] \in Reading /\ pc[w] \in Reading =>
    /\ Old(u) \subseteq Old(w) \/ Old(w) \subseteq Old(u)
    /\ \A m \in Wanted(u), n \in Wanted(w) :
         m # n => m \notin tx[w].seen \/ n \notin tx[u].seen

WaitInv ==
  /\ \A w \in Writer : Caught(w) /\ Aimed(w)
  /\ \A u, w \in Writer : u # w => InTurn(u, w)

LEMMA LiveIsOpen ==
  ASSUME Live
  PROVE  Plain /\ OpenEnded
BY DEF Live, Plain, OpenEnded

\* Two versions that are current exclude one another.
LEMMA CurrentVersions ==
  ASSUME OpenEnded, NEW i, NEW r, RowOK(i, r), NEW j, NEW s, RowOK(j, s),
         Guarded(r), Guarded(s), r.latest, s.latest
  PROVE  Excludes(r, s)
<1>1. r.until = Forever /\ s.until = Forever
  BY DEF RowOK, Guarded
<1>2. r.from < Forever /\ s.from < Forever
  BY RowFields, TimeLine DEF RowOK
<1> QED BY <1>1, <1>2 DEF Excludes, Overlap

\* A row that w sees as active is current.
LEMMA CurrentSeen ==
  ASSUME LiveState, NEW w \in Writer, NEW i \in DOMAIN View(w),
         Guarded(View(w)[i])
  PROVE  View(w)[i].latest /\ RowOK(i, View(w)[i])
<1>1. View(w)[i].latest
  BY DEF LiveState, LiveInv, Arrived, Guarded
<1> QED BY <1>1, CoherentRow DEF LiveState, IInv, RowsInv

LEMMA OneSeen ==
  ASSUME OpenEnded, LiveState, NEW w \in Writer,
         NEW i \in DOMAIN View(w), NEW j \in DOMAIN View(w),
         Guarded(View(w)[i]), Guarded(View(w)[j])
  PROVE  i = j
<1> SUFFICES ASSUME i # j PROVE FALSE
  OBVIOUS
<1>1. Excludes(View(w)[i], View(w)[j])
  BY CurrentSeen, CurrentVersions
<1>2. Apart(i, View(w)[i], j, View(w)[j])
  BY CoherentRow DEF LiveState, IInv, RowsInv
<1> QED BY <1>1, <1>2 DEF Apart

LEMMA OneCommitted ==
  ASSUME OpenEnded, LiveState, NEW i \in DOMAIN db, NEW j \in DOMAIN db,
         Guarded(db[i]), Guarded(db[j])
  PROVE  i = j
<1> SUFFICES ASSUME i # j PROVE FALSE
  OBVIOUS
<1>1. db[i].latest /\ db[j].latest
  BY DEF LiveState, LiveInv, Arrived, Guarded
<1>2. Apart(i, db[i], j, db[j]) /\ RowOK(i, db[i]) /\ RowOK(j, db[j])
  BY CoherentRow DEF LiveState, IInv, RowsInv
<1>3. Excludes(db[i], db[j])
  BY <1>1, <1>2, CurrentVersions
<1> QED BY <1>2, <1>3 DEF Apart

\* What is current among the committed rows and the uncommitted ones is in the
\* hands of one transaction.
LEMMA OneFresh ==
  ASSUME OpenEnded, LiveState, NEW u \in Writer, NEW w \in Writer, u # w,
         Fresh(u)
  PROVE  ~Fresh(w)
<1> SUFFICES ASSUME Fresh(w) PROVE FALSE
  OBVIOUS
<1>1. PICK i \in DOMAIN writes[u] :
        Guarded(writes[u][i]) \/ (i \in DOMAIN db /\ Guarded(db[i]))
  BY DEF Fresh
<1>2. PICK j \in DOMAIN writes[w] :
        Guarded(writes[w][j]) \/ (j \in DOMAIN db /\ Guarded(db[j]))
  BY DEF Fresh
<1>3. /\ i # j /\ i \notin DOMAIN writes[w] /\ j \notin DOMAIN writes[u]
      /\ Apart(i, writes[u][i], j, writes[w][j])
  BY DEF LiveState, IInv, RowsInv, Beside
<1>4. /\ i \in DOMAIN View(u) /\ View(u)[i] = writes[u][i]
      /\ j \in DOMAIN View(w) /\ View(w)[j] = writes[w][j]
  BY Views
<1>5. j \in DOMAIN db => j \in DOMAIN View(u) /\ View(u)[j] = db[j]
  BY <1>3, Views
<1>6. i \in DOMAIN db => i \in DOMAIN View(w) /\ View(w)[i] = db[i]
  BY <1>3, Views
<1>7. CASE Guarded(writes[u][i]) /\ Guarded(writes[w][j])
  <2>1. Excludes(writes[u][i], writes[w][j])
    BY <1>4, <1>7, CurrentSeen, CurrentVersions
  <2> QED BY <1>3, <2>1 DEF Apart
<1>8. CASE Guarded(writes[u][i]) /\ j \in DOMAIN db /\ Guarded(db[j])
  BY <1>3, <1>4, <1>5, <1>8, OneSeen
<1>9. CASE i \in DOMAIN db /\ Guarded(db[i]) /\ Guarded(writes[w][j])
  BY <1>3, <1>4, <1>6, <1>9, OneSeen
<1>10. CASE /\ i \in DOMAIN db /\ Guarded(db[i])
            /\ j \in DOMAIN db /\ Guarded(db[j])
  BY <1>3, <1>10, OneCommitted
<1> QED BY <1>1, <1>2, <1>7, <1>8, <1>9, <1>10

\* A latest match is an active row, single-valued like them all.
LEMMA MatchGuarded ==
  ASSUME LiveState, NEW w \in Writer, NEW i \in LatestMatches(w)
  PROVE  i \in DOMAIN View(w) /\ Guarded(View(w)[i]) /\ View(w)[i].keyed
BY DEF LatestMatches, LiveState, PlainInv, SingleRows, Guarded

LEMMA FreshMatches ==
  ASSUME OpenEnded, LiveState, NEW w \in Writer, Fresh(w)
  PROVE  LatestMatches(w) \subseteq DOMAIN writes[w]
<1> SUFFICES ASSUME NEW m \in LatestMatches(w), m \notin DOMAIN writes[w]
             PROVE  FALSE
  OBVIOUS
<1>1. /\ m \in DOMAIN View(w) /\ Guarded(View(w)[m])
  BY MatchGuarded
<1>2. m \in DOMAIN db /\ View(w)[m] = db[m]
  BY <1>1, Views
<1>3. PICK i \in DOMAIN writes[w] :
        Guarded(writes[w][i]) \/ (i \in DOMAIN db /\ Guarded(db[i]))
  BY DEF Fresh
<1>4. i \in DOMAIN View(w) /\ View(w)[i] = writes[w][i]
  BY Views
<1>5. CASE Guarded(writes[w][i])
  BY <1>1, <1>3, <1>4, <1>5, OneSeen
<1>6. CASE i \in DOMAIN db /\ Guarded(db[i])
  BY <1>1, <1>2, <1>3, <1>6, OneCommitted
<1> QED BY <1>3, <1>5, <1>6

-----------------------------------------------------------------------------
(* No transactions wait in a ring. *)

\* A transaction that is waited for has written something.
LEMMA WaitedFor ==
  ASSUME LiveState, WaitInv, NEW u \in Writer, NEW w \in Writer, WaitsFor(u, w)
  PROVE  u # w /\ (pc[w] = "check" \/ writes[w] # <<>>)
<1>1. pc[u] = "bump" =>
        \E i \in Duplicates(Cand(u), Rows(u, tx[u].matches)) : TRUE
  BY DEF WaitInv, Caught
<1> QED BY <1>1, EmptyDomain DEF WaitsFor, InTheWay

\* Of those that have written something only an add waits.
LEMMA OnlyAddsWait ==
  ASSUME LiveState, WaitInv, NEW u \in Writer, NEW w \in Writer, WaitsFor(u, w),
         pc[u] = "check" \/ writes[u] # <<>>
  PROVE  pc[u] \in {"bump", "close", "check", "recheck"}
<1>1. pc[u] # "edit"
  BY DEF LiveState, IInv, TxInv, Shape
<1>2. pc[u] # "tombstone"
  <2> SUFFICES ASSUME pc[u] = "tombstone" PROVE FALSE
    OBVIOUS
  <2>1. PICK i \in tx[u].target : i \in DOMAIN writes[w] /\ u # w
    BY DEF WaitsFor
  <2>2. i \in DOMAIN writes[u]
    BY DEF WaitInv, Aimed
  <2> QED BY <2>1, <2>2 DEF LiveState, IInv, RowsInv, Beside
<1> QED BY <1>1, <1>2 DEF WaitsFor

\* An add that waits for a row's lock wants that row, and holds no current one.
LEMMA WaitsForMatch ==
  ASSUME LiveState, WaitInv, NEW u \in Writer, NEW w \in Writer, WaitsFor(u, w),
         pc[u] \in {"bump", "close"}
  PROVE  /\ ~Fresh(u) /\ u # w
         /\ \E m \in Wanted(u) : /\ m \in DOMAIN writes[w]
                                 /\ m \in Old(u) /\ Wanted(u) = {m}
<1>1. Caught(u) /\ pc[u] \in Reading
  BY DEF WaitInv, Reading
<1>2. PICK m \in tx[u].matches : m \in DOMAIN writes[w]
  <2>1. CASE pc[u] = "close"
    BY <1>1, <2>1 DEF WaitsFor, Caught
  <2>2. CASE pc[u] = "bump"
    <3>1. PICK i \in Duplicates(Cand(u), Rows(u, tx[u].matches)) :
            i \in DOMAIN writes[w]
      BY <1>1, <2>2 DEF WaitsFor, Caught
    <3> QED BY <3>1 DEF Duplicates, Rows
  <2> QED BY <2>1, <2>2
<1>3. u # w /\ m \notin DOMAIN writes[u]
  BY <1>2 DEF WaitsFor, LiveState, IInv, RowsInv, Beside
<1>4. m \in Wanted(u) /\ Wanted(u) = {m} /\ m \in tx[u].seen
  BY <1>1, <1>3 DEF Caught, Wanted
<1>5. m \in DOMAIN db
  <2>1. m \in DOMAIN View(u)
    BY <1>1, <1>2 DEF LiveState, IInv, TxInv, Known, Reading, Adding
  <2> QED BY <1>3, <2>1, Views
<1>6. ~Fresh(u)
  BY <1>1, <1>4 DEF Caught
<1> QED BY <1>2, <1>3, <1>4, <1>5, <1>6 DEF Old

\* In a ring, who waits for a row's lock holds no current row, so that only
\* others that wait for a lock can be waiting for it.
LEMMA RingOfLocks ==
  ASSUME OpenEnded, LiveState, WaitInv, NEW S \in SUBSET Writer, Ring(S),
         NEW v \in S, pc[v] \in {"bump", "close"}, NEW u \in S, WaitsFor(u, v)
  PROVE  pc[u] \in {"bump", "close"}
<1>1. PICK b \in S : WaitsFor(v, b)
  BY DEF Ring
<1>2. ~Fresh(v)
  BY <1>1, WaitsForMatch
<1>3. PICK a \in S : WaitsFor(a, u)
  BY DEF Ring
<1>4. pc[u] \in {"bump", "close", "check", "recheck"}
  BY <1>3, WaitedFor, OnlyAddsWait
<1>5. ASSUME NEW row, InTheWay(v, row)
      PROVE  FALSE
  BY <1>2, <1>5 DEF InTheWay, Fresh, Excludes
<1>6. pc[u] \notin {"check", "recheck"}
  BY <1>5 DEF WaitsFor
<1> QED BY <1>4, <1>6

\* And who is waited for by one of them read its matches later.
LEMMA LaterReads ==
  ASSUME OpenEnded, LiveState, WaitInv, NEW S \in SUBSET Writer, Ring(S),
         NEW u \in S, NEW v \in S, WaitsFor(u, v),
         pc[u] \in {"bump", "close"}, pc[v] \in {"bump", "close"}
  PROVE  Old(u) \subseteq Old(v) /\ Old(u) # Old(v)
<1>2. PICK m \in Wanted(u) : m \in DOMAIN writes[v] /\ m \in Old(u) /\ u # v
  BY WaitsForMatch
<1>3. PICK b \in S : WaitsFor(v, b)
  BY DEF Ring
<1>4. PICK n \in Wanted(v) : n \in Old(v)
  BY <1>3, WaitsForMatch
<1>5. m # n
  BY <1>2, <1>4 DEF Wanted
<1>6. m \in tx[v].seen
  BY <1>2 DEF WaitInv, Caught, Adding
<1>7. InTurn(u, v) /\ pc[u] \in Reading /\ pc[v] \in Reading
  BY <1>2 DEF WaitInv, Reading
<1>8. n \notin tx[u].seen
  BY <1>2, <1>4, <1>5, <1>6, <1>7 DEF InTurn
<1>9. n \notin Old(u)
  BY <1>8 DEF Old
<1> QED BY <1>4, <1>7, <1>9 DEF InTurn

\* So following back who waits for the lock a transaction holds never ends.
LEMMA RingOfChecks ==
  ASSUME OpenEnded, LiveState, WaitInv, IsFiniteSet(Writer),
         NEW S \in SUBSET Writer, Ring(S), NEW w \in S
  PROVE  pc[w] \in {"check", "recheck"}
<1> DEFINE Locking == { u \in S : pc[u] \in {"bump", "close"} }
<1>1. pc[w] \in {"bump", "close", "check", "recheck"}
  <2>1. PICK a \in S, b \in S : WaitsFor(a, w) /\ WaitsFor(w, b)
    BY DEF Ring
  <2> QED BY <2>1, WaitedFor, OnlyAddsWait
<1> SUFFICES ASSUME w \in Locking PROVE FALSE
  BY <1>1
<1> DEFINE Before(u) == { v \in Locking : Old(v) \subseteq Old(u) /\ Old(v) # Old(u) }
<1> DEFINE N == { Cardinality(Before(u)) : u \in Locking }
<1>2. IsFiniteSet(Locking)
  <2>1. Locking \in SUBSET Writer
    OBVIOUS
  <2> HIDE DEF Locking
  <2> QED BY <2>1, FS_Subset
<1>3. ASSUME NEW u \in Locking
      PROVE  IsFiniteSet(Before(u)) /\ Cardinality(Before(u)) \in Nat
  <2>1. Before(u) \in SUBSET Locking
    OBVIOUS
  <2> HIDE DEF Before, Locking
  <2>2. IsFiniteSet(Before(u))
    BY <1>2, <2>1, FS_Subset
  <2> QED BY <2>2, FS_CardinalityType
<1>4. ASSUME NEW u \in Locking
      PROVE  \E v \in Locking : Cardinality(Before(v)) < Cardinality(Before(u))
  <2>1. PICK v \in S : WaitsFor(v, u)
    BY DEF Ring
  <2>2. v \in Locking
    BY <2>1, RingOfLocks
  <2>3. Old(v) \subseteq Old(u) /\ Old(v) # Old(u)
    BY <2>1, <2>2, LaterReads
  <2> HIDE DEF Locking
  <2>4. Before(v) \subseteq Before(u) /\ v \in Before(u) /\ v \notin Before(v)
    BY <2>2, <2>3
  <2>5. IsFiniteSet(Before(u)) /\ Cardinality(Before(u)) \in Nat /\ Cardinality(Before(v)) \in Nat
    BY <1>3, <2>2
  <2>6. Before(v) \in SUBSET Before(u) /\ Before(v) # Before(u)
    BY <2>4
  <2> HIDE DEF Before
  <2>7. /\ Cardinality(Before(v)) <= Cardinality(Before(u))
        /\ Cardinality(Before(v)) # Cardinality(Before(u))
    BY <2>5, <2>6, FS_Subset
  <2> QED BY <2>2, <2>5, <2>7
<1> HIDE DEF Locking
<1>5. N \in SUBSET Nat /\ N # {}
  BY <1>3
<1> HIDE DEF Before
<1>6. PICK u \in Locking : \A v \in Locking : Cardinality(Before(u)) <= Cardinality(Before(v))
  <2>1. Min(N) \in N /\ \A x \in N : Min(N) <= x
    <3> HIDE DEF N
    <3> QED BY <1>5, LeastElement
  <2> QED BY <2>1
<1> QED BY <1>3, <1>4, <1>6

-----------------------------------------------------------------------------
(* Who waits for whom, kept by every step. *)

\* What a step of w leaves u: its own state, and committed rows that advance, none
\* of them one it has written; those that are new bear the name of a request that
\* has committed nothing before.
Passed(u, w) ==
  /\ pc'[u] = pc[u] /\ tx'[u] = tx[u] /\ writes'[u] = writes[u]
  /\ DOMAIN View(u) \subseteq DOMAIN View(u)'
  /\ \A i \in DOMAIN View(u) : Advance(View(u)[i], View(u)'[i])
  /\ DOMAIN db \subseteq DOMAIN db'
  /\ \A i \in DOMAIN db : Advance(db[i], db'[i])
  /\ \A i \in DOMAIN writes[u] :
       i \in DOMAIN db' => i \in DOMAIN db /\ db'[i] = db[i]
  /\ \A i \in DOMAIN db' \ DOMAIN db :
       /\ i[1] = w
       /\ \A j \in DOMAIN db : j[1] = w => j[2] # i[2]

LEMMA StepPasses ==
  ASSUME IInv, NEW w \in Writer, Submit(w) \/ Step(w) \/ Drop(w),
         NEW u \in Writer \ {w}
  PROVE  Passed(u, w)
<1> USE DEF IInv
<1>1. CASE Commit(w)
  <2>1. /\ pc[w] = "commit" /\ db' = View(w) /\ writes'[w] = <<>>
        /\ \A v \in Writer \ {w} : writes'[v] = writes[v]
    BY <1>1, RolledBack DEF Commit
  <2>2. PICK out \in Result : Return(w, out)
    BY <1>1 DEF Commit, Result
  <2>3. /\ pc'[w] = "idle" /\ tx'[w].op = tx[w].op
        /\ \A v \in Writer \ {w} : pc'[v] = pc[v] /\ tx'[v] = tx[v]
    BY <2>2, Returned
  <2>4. /\ DOMAIN View(u) \subseteq DOMAIN View(u)'
        /\ \A i \in DOMAIN View(u) : Advance(View(u)[i], View(u)'[i])
    BY <2>1, <2>3, RowsCommitted
  <2>5. /\ DOMAIN db \subseteq DOMAIN db'
        /\ \A i \in DOMAIN db : Advance(db[i], db'[i])
    BY <2>1, ViewAdvances
  <2>6. ASSUME NEW i \in DOMAIN writes[u], i \in DOMAIN db'
        PROVE  i \in DOMAIN db /\ db'[i] = db[i]
    <3>1. i \notin DOMAIN writes[w]
      BY DEF RowsInv, Beside
    <3> QED BY <2>1, <2>6, <3>1, Views
  <2>7. ASSUME NEW i \in DOMAIN db' \ DOMAIN db
        PROVE  i[1] = w /\ \A j \in DOMAIN db : j[1] = w => j[2] # i[2]
    <3>1. i \in DOMAIN writes[w]
      BY <2>1, Views
    <3>2. i[1] = w /\ i[2] = tx[w].op
      BY <3>1 DEF RowsInv, Written
    <3>3. tx[w].op \in Nat
      BY DEF Typed, Tx
    <3>4. ASSUME NEW j \in DOMAIN db, j[1] = w
          PROVE  j[2] # tx[w].op
      <4>1. j[2] < tx[w].op
        BY <2>1, <3>4 DEF RowsInv, Named
      <4> QED BY <3>3, <4>1
    <3> QED BY <3>2, <3>4
  <2> QED BY <2>1, <2>3, <2>4, <2>5, <2>6, <2>7 DEF Passed
<1>2. CASE ~Commit(w)
  <2>1. Alone(w)
    BY <1>2, ViewStep
  <2>2. View(u)' = View(u)
    BY <2>1, OthersKeep
  <2>3. db' = db /\ writes'[u] = writes[u] /\ pc'[u] = pc[u] /\ tx'[u] = tx[u]
    BY <2>1 DEF Alone
  <2> QED BY <2>2, <2>3, AdvanceItself DEF Passed
<1> QED BY <1>1, <1>2

\* What u's attempt read, and what it holds, others do not change.
LEMMA ReadsKept ==
  ASSUME LiveState, NEW u \in Writer, NEW w, Passed(u, w)
  PROVE  /\ Fresh(u)' = Fresh(u) /\ Wanted(u)' = Wanted(u)
         /\ pc[u] \in Adding => Old(u)' = Old(u)
<1>1. \A i \in DOMAIN writes[u] :
        i \in DOMAIN db' <=> i \in DOMAIN db
  BY DEF Passed
<1>2. Fresh(u)' = Fresh(u)
  BY <1>1 DEF Passed, Fresh, Guarded
<1>3. Wanted(u)' = Wanted(u)
  BY DEF Passed, Wanted
<1>4. ASSUME pc[u] \in Adding
      PROVE  Old(u)' = Old(u)
  <2>1. tx[u].seen \subseteq DOMAIN writes[u] \union DOMAIN db
    BY <1>4, Views DEF LiveState, PlainInv, Settled
  <2> QED BY <1>1, <2>1 DEF Passed, Old
<1> QED BY <1>2, <1>3, <1>4

LEMMA WaitLater ==
  ASSUME LiveState, NEW u \in Writer, Caught(u), Aimed(u), NEW w, Passed(u, w)
  PROVE  Caught(u)' /\ Aimed(u)'
<1>p. pc'[u] = pc[u] /\ tx'[u] = tx[u] /\ writes'[u] = writes[u]
  BY DEF Passed
<1>k. Known(u)
  BY DEF LiveState, IInv, TxInv
<1>1. Caught(u)'
  <2>1. pc[u] \in Reading =>
          \A i \in Old(u)' :
            Guarded(db[i])' => i \in tx[u].matches \union DOMAIN writes[u]
    <3> SUFFICES ASSUME pc[u] \in Reading, NEW i \in Old(u)', Guarded(db[i])'
                 PROVE  i \in tx[u].matches \union DOMAIN writes[u]
      OBVIOUS
    <3>1. i \in Old(u) /\ i \in DOMAIN db
      BY ReadsKept DEF Reading, Adding, Old
    <3>2. Advance(db[i], db'[i])
      BY <3>1 DEF Passed
    <3>3. Guarded(db[i])
      BY <3>2 DEF Advance, Guarded
    <3> QED BY <3>1, <3>3 DEF Caught
  <2>2. pc[u] = "bump" => Duplicates(Cand(u), Rows(u, tx[u].matches))' # {}
    <3> SUFFICES ASSUME pc[u] = "bump"
                 PROVE  Duplicates(Cand(u), Rows(u, tx[u].matches))' # {}
      OBVIOUS
    <3>1. PICK i \in tx[u].matches :
            Cand(u).value # NoValue /\ View(u)[i].value = Cand(u).value
      BY DEF Caught, Duplicates, Rows
    <3>2. i \in DOMAIN View(u)
      BY <1>k DEF Known, Adding
    <3>3. Advance(View(u)[i], View(u)'[i])
      BY <3>2 DEF Passed
    <3>4. Cand(u)' = Cand(u)
      BY <1>p DEF Cand
    <3>5. View(u)'[i].value = View(u)[i].value
      BY <3>3 DEF Advance
    <3> QED BY <1>p, <3>1, <3>4, <3>5 DEF Duplicates, Rows
  <2> QED BY <1>p, <2>1, <2>2, ReadsKept DEF Caught
<1>2. Aimed(u)'
  <2>1. \A i \in tx[u].target : View(u)'[i].keyed = View(u)[i].keyed
    BY <1>k DEF Known, Passed, Advance
  <2>2. \A i \in DOMAIN writes[u] \intersect DOMAIN db :
          i \in DOMAIN db' /\ db'[i] = db[i]
    BY DEF Passed
  <2> QED BY <1>p, <2>1, <2>2 DEF Aimed
<1> QED BY <1>1, <1>2

LEMMA TurnsKept ==
  ASSUME LiveState, NEW u \in Writer, NEW v \in Writer, NEW w,
         Passed(u, w), Passed(v, w), InTurn(u, v)
  PROVE  InTurn(u, v)'
<1>1. pc'[u] = pc[u] /\ tx'[u] = tx[u] /\ pc'[v] = pc[v] /\ tx'[v] = tx[v]
  BY DEF Passed
<1>2. pc[u] \in Reading => Old(u)' = Old(u) /\ Wanted(u)' = Wanted(u)
  BY ReadsKept DEF Reading, Adding
<1>3. pc[v] \in Reading => Old(v)' = Old(v) /\ Wanted(v)' = Wanted(v)
  BY ReadsKept DEF Reading, Adding
<1> QED BY <1>1, <1>2, <1>3 DEF InTurn


\* Elsewhere an attempt knows nothing.
LEMMA NotCaught ==
  ASSUME NEW w, pc'[w] \notin Adding
  PROVE  Caught(w)' /\ \A u \in Writer : InTurn(u, w)'
BY DEF Caught, InTurn, Adding, Reading

\* Reading the matches anew: this attempt now comes after every other one.
LEMMA CaughtReadMatches ==
  ASSUME Plain, OpenEnded, LiveState, WaitInv, NEW w \in Writer, ReadMatches(w)
  PROVE  Caught(w)' /\ \A u \in Writer \ {w} : InTurn(u, w)'
<1> USE DEF LiveState
<1>1. /\ pc'[w] = "resolve" /\ tx'[w].matches = LatestMatches(w)
      /\ tx'[w].seen = DOMAIN View(w)
      /\ db' = db /\ writes' = writes
  BY DEF ReadMatches, IInv, Typed, Tx
<1>2. /\ LatestMatches(w) \subseteq DOMAIN View(w)
      /\ \A i, j \in LatestMatches(w) : i = j
  BY OneMatch DEF LatestMatches
<1>3. DOMAIN writes[w] \union DOMAIN db = DOMAIN View(w)
  BY Views
<1>4. Fresh(w)' = Fresh(w) /\ Wanted(w)' = LatestMatches(w) \ DOMAIN writes[w]
  BY <1>1 DEF Fresh, Guarded, Wanted
<1>5. Old(w)' = DOMAIN db
  BY <1>1, <1>3 DEF Old
<1>6. ASSUME NEW i \in DOMAIN db, Guarded(db[i]), i \notin DOMAIN writes[w]
      PROVE  i \in LatestMatches(w)
  <2>1. i \in DOMAIN View(w) /\ Guarded(View(w)[i])
    BY <1>6, Views
  <2>2. View(w)[i].latest
    BY <2>1, CurrentSeen
  <2> QED BY <2>1, <2>2 DEF LatestMatches, Guarded
<1>7. Caught(w)'
  <2>1. Fresh(w)' => Wanted(w)' = {}
    BY <1>4, FreshMatches
  <2>2. \A i \in Old(w)' :
          Guarded(db[i])' => i \in tx'[w].matches \union DOMAIN writes'[w]
    BY <1>1, <1>5, <1>6 DEF Guarded
  <2> QED BY <1>1, <1>2, <1>3, <2>1, <2>2 DEF Caught, Reading
<1>8. ASSUME NEW u \in Writer \ {w}
      PROVE  InTurn(u, w)'
  <2> SUFFICES ASSUME pc'[u] \in Reading
               PROVE  /\ Old(u)' \subseteq Old(w)'
                      /\ \A m \in Wanted(u)', n \in Wanted(w)' :
                           m # n => n \notin tx'[u].seen
    BY DEF InTurn
  <2>1. Passed(u, w) /\ pc[u] \in Reading /\ tx'[u] = tx[u]
    <3>1. Passed(u, w)
      BY StepPasses DEF Step
    <3> QED BY <3>1 DEF Passed
  <2>2. Old(u)' = Old(u) /\ Wanted(u)' = Wanted(u)
    BY <2>1, ReadsKept DEF Reading, Adding
  <2>3. ASSUME NEW m \in Wanted(u), NEW n \in Wanted(w)', m # n
        PROVE  n \notin tx[u].seen
    <3> SUFFICES ASSUME n \in tx[u].seen PROVE FALSE
      OBVIOUS
    <3>1. n \in LatestMatches(w) /\ n \notin DOMAIN writes[w]
      BY <1>4
    <3>2. n \in DOMAIN View(w) /\ Guarded(View(w)[n])
      BY <3>1, MatchGuarded
    <3>3. n \in DOMAIN db /\ Guarded(db[n])
      BY <3>1, <3>2, Views
    <3>4. Caught(u)
      BY DEF WaitInv
    <3>5. n \in tx[u].matches \union DOMAIN writes[u]
      BY <2>1, <3>3, <3>4 DEF Caught, Old
    <3>6. n \notin tx[u].matches
      BY <2>1, <2>3, <3>4 DEF Caught, Wanted
    <3>7. Fresh(u)
      BY <3>3, <3>5, <3>6 DEF Fresh
    <3> QED BY <2>1, <3>4, <3>7 DEF Caught
  <2> QED BY <1>5, <2>1, <2>2, <2>3 DEF Old
<1> QED BY <1>7, <1>8

LEMMA CaughtResolve ==
  ASSUME LiveState, WaitInv, NEW w \in Writer, Resolve(w)
  PROVE  Caught(w)' /\ \A u \in Writer \ {w} : InTurn(u, w)'
<1> DEFINE matches == Rows(w, tx[w].matches)
<1> DEFINE priors  == Rows(w, Contradicted(Cand(w), matches))
<1>1. pc[w] = "resolve" /\ db' = db /\ writes' = writes
  BY DEF Resolve
<1>2. View(w)' = View(w)
  BY <1>1 DEF View
<1>3. Fresh(w)' = Fresh(w)
  BY <1>1 DEF Fresh, Guarded
<1>4. /\ pc'[w] \in {"bump", "close", "starts", "insert"}
      /\ tx'[w].matches = tx[w].matches /\ tx'[w].seen = tx[w].seen
      /\ pc'[w] = "bump" => tx' = tx /\ Duplicates(Cand(w), matches) # {}
      /\ pc'[w] = "close" => tx'[w].closing = DOMAIN priors
  <2>1. CASE Decide(Cand(w), matches) = "dedup"
    <3>1. Duplicates(Cand(w), matches) # {}
      BY <2>1 DEF Decide
    <3>2. pc'[w] = "bump" /\ tx' = tx
      BY <2>1 DEF Resolve, LiveState, IInv, Typed
    <3> QED BY <3>1, <3>2
  <2>2. CASE Decide(Cand(w), matches) # "dedup"
    <3> DEFINE iv == Interval(Cand(w), clock + 1)
    <3> DEFINE newer == IsNewer(iv.from, priors)
    <3>1. /\ pc' = [pc EXCEPT ![w] =
                      CASE Decide(Cand(w), matches) = "insert" -> "insert"
                        [] newer -> "close"
                        [] OTHER -> "starts"]
          /\ tx' = [tx EXCEPT ![w].draft = iv,
                              ![w].latest = newer,
                              ![w].supersedes = NoRow,
                              ![w].closing = DOMAIN priors]
      BY <2>2 DEF Resolve
    <3> HIDE DEF iv, newer, priors, matches
    <3>2. pc'[w] \in {"close", "starts", "insert"}
      BY <3>1 DEF LiveState, IInv, Typed
    <3>3. /\ tx'[w].matches = tx[w].matches /\ tx'[w].seen = tx[w].seen
          /\ tx'[w].closing = DOMAIN priors
      BY <3>1 DEF LiveState, IInv, Typed, Tx
    <3> QED BY <3>2, <3>3
  <2> QED BY <2>1, <2>2
<1>5. DOMAIN priors \subseteq tx[w].matches
  BY DEF Rows, Contradicted
<1>6. Old(w)' = Old(w) /\ Wanted(w)' = Wanted(w)
  BY <1>1, <1>4 DEF Old, Wanted
<1>7. Caught(w) /\ pc[w] \in Reading /\ pc[w] \in Adding
  BY <1>1 DEF WaitInv, Reading, Adding
<1>8. Caught(w)'
  <2>1. pc'[w] = "bump" => Duplicates(Cand(w), Rows(w, tx[w].matches))' # {}
    <3> SUFFICES ASSUME pc'[w] = "bump"
                 PROVE  Duplicates(Cand(w), Rows(w, tx[w].matches))' # {}
      OBVIOUS
    <3>1. Cand(w)' = Cand(w) /\ Rows(w, tx[w].matches)' = matches
      BY <1>2, <1>4 DEF Cand, Rows
    <3>2. Duplicates(Cand(w), Rows(w, tx[w].matches))' = Duplicates(Cand(w), matches)
      BY <3>1 DEF Duplicates
    <3> QED BY <1>4, <3>2
  <2> HIDE DEF matches, priors
  <2>2. DOMAIN writes'[w] \subseteq tx'[w].seen
    BY <1>1, <1>4, <1>7 DEF Caught
  <2>3. /\ tx'[w].matches \subseteq tx'[w].seen
        /\ \A i, j \in tx'[w].matches : i = j
        /\ Fresh(w)' => Wanted(w)' = {}
    BY <1>3, <1>4, <1>6, <1>7 DEF Caught
  <2>4. \A i \in Old(w)' :
          Guarded(db[i])' => i \in tx'[w].matches \union DOMAIN writes'[w]
    BY <1>1, <1>4, <1>6, <1>7 DEF Caught, Guarded
  <2> QED BY <1>4, <1>5, <2>1, <2>2, <2>3, <2>4 DEF Caught
<1>9. ASSUME NEW u \in Writer \ {w}
      PROVE  InTurn(u, w)'
  <2>1. Passed(u, w)
    BY StepPasses DEF Step, LiveState
  <2>2. /\ pc'[u] = pc[u] /\ tx'[u] = tx[u]
        /\ pc[u] \in Reading => Old(u)' = Old(u) /\ Wanted(u)' = Wanted(u)
    BY <2>1, ReadsKept DEF Passed, Reading, Adding
  <2>3. InTurn(u, w)
    BY DEF WaitInv
  <2> QED BY <1>4, <1>6, <1>7, <2>2, <2>3 DEF InTurn
<1> QED BY <1>8, <1>9

LEMMA CaughtClosePrior ==
  ASSUME LiveState, WaitInv, NEW w \in Writer, ClosePrior(w)
  PROVE  Caught(w)' /\ \A u \in Writer \ {w} : InTurn(u, w)'
<1>1. PICK i \in tx[w].closing :
        \/ Return(w, "error")
        \/ /\ Put(w, i, CloseRow(View(w)[i], tx[w].draft.from, tx[w].now))
           /\ tx' = [tx EXCEPT ![w].closing = @ \ {i},
                       ![w].supersedes =
                         IF @ = NoRow \/ View(w)[i].from > View(w)[@].from
                         THEN i ELSE @]
           /\ pc' = [pc EXCEPT ![w] =
                       IF tx[w].closing = {i} THEN "insert" ELSE "close"]
  BY DEF ClosePrior
<1>2. CASE Return(w, "error")
  <2>1. pc'[w] = "idle"
    BY <1>2, Returned DEF LiveState, IInv, Result
  <2> QED BY <2>1, NotCaught DEF Adding
<1>3. CASE /\ Put(w, i, CloseRow(View(w)[i], tx[w].draft.from, tx[w].now))
           /\ tx' = [tx EXCEPT ![w].closing = @ \ {i},
                       ![w].supersedes =
                         IF @ = NoRow \/ View(w)[i].from > View(w)[@].from
                         THEN i ELSE @]
           /\ pc' = [pc EXCEPT ![w] =
                       IF tx[w].closing = {i} THEN "insert" ELSE "close"]
  <2>1. pc[w] = "close" /\ Caught(w)
    BY DEF ClosePrior, WaitInv
  <2>2. /\ tx[w].closing = {i} /\ i \in tx[w].seen
        /\ DOMAIN writes[w] \subseteq tx[w].seen
    BY <2>1 DEF Caught, Reading, Adding
  <2>3. pc'[w] = "insert" /\ tx'[w].seen = tx[w].seen
    BY <1>3, <2>2 DEF LiveState, IInv, Typed, Tx
  <2>4. DOMAIN writes'[w] = DOMAIN writes[w] \union {i}
    BY <1>3, PutRow DEF LiveState, IInv
  <2> QED BY <2>2, <2>3, <2>4 DEF Caught, InTurn, Reading
<1> QED BY <1>1, <1>2, <1>3

\* The row that is bumped was read by the attempt.
LEMMA CaughtBump ==
  ASSUME LiveState, WaitInv, NEW w \in Writer, Bump(w)
  PROVE  Caught(w)' /\ \A u \in Writer : InTurn(u, w)'
<1>1. /\ pc[w] = "bump" /\ pc'[w] \in {"match", "commit", "recheck"}
      /\ pc'[w] = "recheck" => tx' = tx
      /\ DOMAIN writes'[w] \subseteq DOMAIN writes[w] \union tx[w].matches
  BY BumpGoesOn DEF LiveState
<1>2. /\ DOMAIN writes[w] \subseteq tx[w].seen /\ tx[w].matches \subseteq tx[w].seen
  BY <1>1 DEF WaitInv, Caught, Adding, Reading
<1> QED BY <1>1, <1>2 DEF Caught, InTurn, Reading, Adding

LEMMA CaughtInsertRow ==
  ASSUME LiveState, WaitInv, NEW w \in Writer, InsertRow(w)
  PROVE  Caught(w)' /\ \A u \in Writer : InTurn(u, w)'
<1>1. /\ pc[w] = "insert" /\ pc'[w] = "check" /\ tx' = tx /\ writes' = writes
  BY DEF InsertRow, LiveState, IInv, Typed
<1>2. DOMAIN writes[w] \subseteq tx[w].seen
  BY <1>1 DEF WaitInv, Caught, Adding
<1> QED BY <1>1, <1>2 DEF Caught, InTurn, Reading

LEMMA CaughtStep ==
  ASSUME Plain, OpenEnded, LiveState, WaitInv, NEW w \in Writer,
         Submit(w) \/ Step(w) \/ Drop(w)
  PROVE  Caught(w)' /\ \A u \in Writer \ {w} : InTurn(u, w)'
<1>1. ~ReadStarts(w)
  BY DEF ReadStarts, LiveState, LiveInv, Punctual
<1>2. CASE /\ ~ReadMatches(w) /\ ~Resolve(w) /\ ~ClosePrior(w)
           /\ ~InsertRow(w) /\ ~Bump(w)
  BY <1>1, <1>2, StepsOutside, NotCaught DEF LiveState
<1> QED BY <1>2, CaughtReadMatches, CaughtResolve, CaughtClosePrior, CaughtBump,
           CaughtInsertRow

LEMMA NoTarget ==
  ASSUME NEW w, tx'[w].target = {}, tx'[w].kind # "forgetContent"
  PROVE  Aimed(w)'
BY DEF Aimed

\* A forget's statements.
LEMMA AimedForget ==
  ASSUME Plain, OpenEnded, LiveState, WaitInv, NEW w \in Writer,
         ReadForgetTargets(w) \/ Tombstone(w) \/ TombstonesDone(w)
  PROVE  Aimed(w)'
<1> USE DEF LiveState
<1>0. /\ Aimed(w) /\ tx[w].target \subseteq DOMAIN View(w)
  BY DEF WaitInv, IInv, TxInv, Known
<1>1. CASE ReadForgetTargets(w)
  <2>1. /\ tx'[w].kind = "forgetContent" /\ tx[w].kind = "forgetContent"
        /\ tx'[w].target \subseteq LatestMatches(w)
        /\ db' = db /\ writes' = writes
    BY <1>1 DEF ReadForgetTargets, IInv, Typed, Tx
  <2>2. View(w)' = View(w)
    BY <2>1 DEF View
  <2>3. writes[w] # <<>> => LatestMatches(w) \subseteq DOMAIN writes[w]
    BY <1>0, <2>1, FreshMatches DEF Aimed, Fresh
  <2>4. writes[w] # <<>> =>
          \E i \in DOMAIN writes'[w] \intersect DOMAIN db' : Guarded(db[i])'
    BY <1>0, <2>1 DEF Aimed, Guarded
  <2>5. \A i \in LatestMatches(w) : View(w)[i].keyed
    BY MatchGuarded
  <2> QED BY <2>1, <2>2, <2>3, <2>4, <2>5, OneMatch DEF Aimed
<1>2. CASE Tombstone(w)
  <2>1. PICK i \in tx[w].target :
          /\ tx' = [tx EXCEPT ![w].target = @ \ {i}]
          /\ IF View(w)[i].status = "active"
             THEN Put(w, i, ForgetRow(View(w)[i], tx[w].now))
             ELSE UNCHANGED writes
    BY <1>2 DEF Tombstone
  <2>2. tx'[w].target = {} /\ tx'[w].kind = tx[w].kind /\ db' = db
    BY <1>0, <1>2, <2>1 DEF Aimed, Tombstone, IInv, Typed, Tx
  <2> SUFFICES ASSUME tx[w].kind = "forgetContent", writes'[w] # <<>>
               PROVE  \E j \in DOMAIN writes'[w] \intersect DOMAIN db : Guarded(db[j])
    BY <2>2 DEF Aimed, Guarded
  <2>3. CASE writes[w] # <<>>
    <3>1. PICK j \in DOMAIN writes[w] \intersect DOMAIN db : Guarded(db[j])
      BY <1>0, <2>3 DEF Aimed
    <3>2. DOMAIN writes[w] \subseteq DOMAIN writes'[w]
      BY <2>1, PutRow DEF IInv
    <3> QED BY <3>1, <3>2
  <2>4. CASE writes[w] = <<>>
    <3>1. View(w)[i].status = "active" /\ i \in DOMAIN writes'[w]
      BY <2>1, <2>4, PutRow DEF IInv
    <3>2. i \in DOMAIN db /\ View(w)[i] = db[i]
      BY <1>0, <2>4, Views, EmptyDomain
    <3>3. View(w)[i].keyed /\ View(w)[i].single
      BY <1>0 DEF Aimed, PlainInv, SingleRows
    <3> QED BY <3>1, <3>2, <3>3 DEF Guarded
  <2> QED BY <2>3, <2>4
<1>3. CASE TombstonesDone(w)
  <2>1. /\ NextCandidate(w) /\ tx[w].target = {} /\ pc[w] = "tombstone"
        /\ db' = db /\ writes' = writes
    BY <1>3 DEF TombstonesDone
  <2>2. tx'[w].target = {} /\ tx'[w].kind = tx[w].kind
    BY <2>1, GoesOn DEF IInv
  <2>3. tx[w].kind = "forgetContent" /\ writes[w] # <<>> =>
          \E i \in DOMAIN writes'[w] \intersect DOMAIN db' : Guarded(db[i])'
    BY <1>0, <2>1 DEF Aimed, Guarded
  <2> QED BY <2>1, <2>2, <2>3 DEF Aimed
<1> QED BY <1>1, <1>2, <1>3

LEMMA AimedStep ==
  ASSUME Plain, OpenEnded, LiveState, WaitInv, NEW w \in Writer,
         Submit(w) \/ Step(w) \/ Drop(w)
  PROVE  Aimed(w)'
<1> USE DEF LiveState
<1>0. Aimed(w) /\ Shape(w) /\ Known(w) /\ tx[w] \in Tx
  BY DEF WaitInv, IInv, TxInv, Typed
<1>1. CASE Submit(w)
  <2>0. PICK kind \in Kinds :
          \E cands  \in IF ById(kind) THEN {<<>>} ELSE AddRequest,
             target \in IF ById(kind) THEN { {i} : i \in DOMAIN db } ELSE {{}} :
            tx' = [tx EXCEPT ![w] =
                     [Idle EXCEPT !.kind = kind, !.cands = cands,
                                  !.target = target, !.op = tx[w].op + 1]]
    BY <1>1 DEF Submit
  <2>1. PICK cands  \in IF ById(kind) THEN {<<>>} ELSE AddRequest,
             target \in IF ById(kind) THEN { {i} : i \in DOMAIN db } ELSE {{}} :
          tx' = [tx EXCEPT ![w] =
                   [Idle EXCEPT !.kind = kind, !.cands = cands,
                                !.target = target, !.op = tx[w].op + 1]]
    BY <2>0
  <2>2. tx'[w].kind = kind /\ tx'[w].target = target
    BY <2>1 DEF IInv, Typed, Idle
  <2>3. pc'[w] = "begin" /\ writes'[w] = <<>>
    BY <1>0, <1>1 DEF Submit, Shape, IInv, Typed
  <2>4. kind = "forgetContent" => target = {}
    BY <2>1 DEF ById
  <2>5. \A i, j \in target : i = j
    BY <2>1
  <2> QED BY <2>2, <2>3, <2>4, <2>5 DEF Aimed
<1>2. CASE Begin(w)
  <2>1. /\ tx'[w].kind = tx[w].kind /\ tx'[w].target = tx[w].target
        /\ writes'[w] = <<>> /\ db' = db /\ writes' = writes
    BY <1>0, <1>2 DEF Begin, Shape, IInv, Typed, Tx
  <2>2. View(w)' = View(w)
    BY <2>1 DEF View
  <2> QED BY <1>0, <2>1, <2>2 DEF Aimed
<1>3. CASE Edit(w)
  <2>1. tx' = tx /\ pc'[w] = "commit" /\ tx[w].kind = "edit"
    BY <1>0, <1>3 DEF Edit, Shape, IInv, Typed
  <2> QED BY <1>0, <2>1 DEF Aimed
<1>4. CASE Commit(w)
  <2>1. PICK out \in Result : Return(w, out)
    BY <1>4 DEF Commit, Result
  <2> QED BY <2>1, Returned, NoTarget DEF IInv
<1>5. CASE Drop(w)
  <2>1. Return(w, "dropped")
    BY <1>5 DEF Drop
  <2> QED BY <2>1, Returned, NoTarget DEF IInv, Result
<1>6. ASSUME NEW failure \in Result, Retry(w, failure), tx[w].kind = "add"
      PROVE  Aimed(w)'
  <2>1. CASE Return(w, failure)
    BY <2>1, Returned, NoTarget DEF IInv
  <2>2. CASE tx' = [tx EXCEPT ![w].attempt = @ + 1]
    <3>1. tx'[w].kind = "add" /\ tx'[w].target = tx[w].target
      BY <1>6, <2>2 DEF IInv, Typed, Tx
    <3> QED BY <1>0, <1>6, <3>1, NoTarget DEF Known
  <2> QED BY <1>6, <2>1, <2>2 DEF Retry
<1>7. CASE DeadlockVictim(w)
  <2>1. CASE tx[w].kind = "add"
    BY <1>6, <1>7, <2>1 DEF DeadlockVictim, Result
  <2>2. CASE tx[w].kind # "add"
    <3>1. Return(w, "error")
      BY <1>7, <2>2 DEF DeadlockVictim
    <3> QED BY <3>1, Returned, NoTarget DEF IInv, Result
  <2> QED BY <2>1, <2>2
<1>8. CASE Bump(w)
  <2>1. /\ pc[w] = "bump" /\ tx'[w].target = tx[w].target
        /\ tx'[w].kind = tx[w].kind
    BY <1>8, BumpGoesOn
  <2> QED BY <1>0, <2>1, NoTarget DEF Shape, Adding, Known
<1>12. CASE Recheck(w)
  <2>1. pc[w] = "recheck" /\ NextCandidate(w)
    BY <1>12 DEF Recheck
  <2>2. tx'[w].target = tx[w].target /\ tx'[w].kind = tx[w].kind
    BY <2>1, GoesOn DEF IInv
  <2> QED BY <1>0, <2>1, <2>2, NoTarget DEF Shape, Adding, Known
<1>9. CASE CheckRow(w)
  <2>1. pc[w] = "check" /\ tx[w].kind = "add"
    BY <1>0, <1>9 DEF CheckRow, Shape, Adding
  <2>2. CASE Rivals(w) # {}
    BY <1>6, <1>9, <2>1, <2>2 DEF CheckRow, Result
  <2>3. CASE Rivals(w) = {}
    <3>1. NextCandidate(w)
      BY <1>9, <2>3 DEF CheckRow
    <3>2. tx'[w].target = tx[w].target /\ tx'[w].kind = tx[w].kind
      BY <2>1, <3>1, GoesOn DEF IInv
    <3> QED BY <1>0, <2>1, <3>2, NoTarget DEF Known
  <2> QED BY <2>2, <2>3
<1>10. CASE ReadMatches(w) \/ Resolve(w) \/ ReadStarts(w) \/ InsertRow(w)
  <2>1. tx[w].kind = "add"
    BY <1>0, <1>10 DEF ReadMatches, Resolve, ReadStarts, InsertRow, Shape, Adding
  <2>2. tx'[w].target = tx[w].target /\ tx'[w].kind = tx[w].kind
    BY <1>10 DEF ReadMatches, Resolve, ReadStarts, InsertRow, IInv, Typed, Tx
  <2> QED BY <1>0, <2>1, <2>2, NoTarget DEF Known
<1>11. CASE ClosePrior(w)
  <2>1. tx[w].kind = "add"
    BY <1>0, <1>11 DEF ClosePrior, Shape, Adding
  <2>2. CASE Return(w, "error")
    BY <2>2, Returned, NoTarget DEF IInv, Result
  <2>3. CASE ~Return(w, "error")
    <3>1. tx'[w].target = tx[w].target /\ tx'[w].kind = tx[w].kind
      BY <1>11, <2>3 DEF ClosePrior, IInv, Typed, Tx
    <3> QED BY <1>0, <2>1, <3>1, NoTarget DEF Known
  <2> QED BY <2>2, <2>3
<1> QED BY <1>1, <1>2, <1>3, <1>4, <1>5, <1>7, <1>8, <1>9, <1>10, <1>11,
           <1>12, AimedForget DEF Step

LEMMA LiveStateHolds == ASSUME Live PROVE Spec => []LiveState
<1>1. Plain
  BY LiveIsOpen
<1> QED BY <1>1, Invariant, PlainInvariant, LiveInvariant, PTL DEF LiveState

LEMMA WaitInvariant == ASSUME Live PROVE Spec => []WaitInv
<1>0. Plain /\ OpenEnded
  BY LiveIsOpen
<1>1. Init => WaitInv
  BY DEF Init, WaitInv, Caught, Aimed, InTurn, Adding, Reading, Idle
<1>2. LiveState /\ WaitInv /\ [Next]_vars => WaitInv'
  <2> SUFFICES ASSUME LiveState, WaitInv, [Next]_vars PROVE WaitInv'
    OBVIOUS
  <2>1. CASE Next
    <3>1. PICK w \in Writer : Submit(w) \/ Step(w) \/ Drop(w)
      BY <2>1 DEF Next
    <3>2. /\ Caught(w)' /\ Aimed(w)'
          /\ \A u \in Writer \ {w} : InTurn(u, w)' /\ InTurn(w, u)'
      <4>1. Caught(w)' /\ \A u \in Writer \ {w} : InTurn(u, w)'
        BY <1>0, <3>1, CaughtStep
      <4>2. Aimed(w)'
        BY <1>0, <3>1, AimedStep
      <4>3. \A u \in Writer \ {w} : InTurn(w, u)'
        BY <4>1 DEF InTurn
      <4> QED BY <4>1, <4>2, <4>3
    <3>3. \A u \in Writer \ {w} : Passed(u, w)
      BY <3>1, StepPasses DEF LiveState
    <3>4. \A u \in Writer \ {w} : Caught(u)' /\ Aimed(u)'
      BY <3>3, WaitLater DEF WaitInv
    <3>5. \A u, v \in Writer \ {w} : u # v => InTurn(u, v)'
      BY <3>3, TurnsKept DEF WaitInv
    <3> QED BY <3>2, <3>4, <3>5 DEF WaitInv
  <2>2. CASE UNCHANGED vars
    <3>1. db' = db /\ pc' = pc /\ tx' = tx /\ writes' = writes
      BY <2>2 DEF vars
    <3>2. ASSUME NEW u \in Writer
          PROVE  Passed(u, u)
      <4>1. View(u)' = View(u)
        BY <3>1 DEF View
      <4> QED BY <3>1, <4>1, AdvanceItself DEF Passed
    <3>3. \A u \in Writer : Caught(u)' /\ Aimed(u)'
      BY <3>2, WaitLater DEF WaitInv
    <3>4. ASSUME NEW u \in Writer, NEW v \in Writer, u # v
          PROVE  InTurn(u, v)'
      <4>1. View(v)' = View(v)
        BY <3>1 DEF View
      <4>2. Passed(v, u)
        BY <3>1, <4>1, AdvanceItself DEF Passed
      <4> QED BY <3>2, <3>4, <4>2, TurnsKept DEF WaitInv
    <3> QED BY <3>3, <3>4 DEF WaitInv
  <2> QED BY <2>1, <2>2
<1> QED BY <1>1, <1>2, LiveStateHolds, PTL DEF Spec

\* Where facts are single-valued and hold from when they are written, no order of
\* row locks deadlocks, however many calls race on a key: the transactions of a
\* ring all wait in an EXCLUDE check, for rows written side by side
\* (persist_candidates, forget_by_id, forget_by_content, update_memory).
THEOREM OnlyChecksRing ==
  ASSUME Live, IsFiniteSet(Writer)
  PROVE  Spec => []OnlyChecksDeadlock
<1>1. LiveState /\ WaitInv => OnlyChecksDeadlock
  BY LiveIsOpen, RingOfChecks DEF OnlyChecksDeadlock
<1> QED BY <1>1, LiveStateHolds, WaitInvariant, PTL

-----------------------------------------------------------------------------
(* Who wins a race. *)

\* Nobody has issued a second request.
OneEach == \A u \in Writer : tx[u].op <= 1

\* A call under way has no result, and in a race of one request each who has
\* committed a row was answered so.
RaceInv ==
  /\ \A w \in Writer : pc[w] # "idle" => result[w] = "none"
  /\ OneEach => /\ \A i \in DOMAIN db : result[i[1]] = "ok"
                /\ \A w \in Writer : Refused(w) => \E u \in Writer : ~Refused(u)

\* A transaction that has not ended has committed nothing.
LEMMA NoneCommitted ==
  ASSUME IInv, OneEach, NEW w \in Writer, pc[w] # "idle" \/ tx[w].op = 0,
         NEW i \in DOMAIN db
  PROVE  i[1] \in Writer /\ i[1] # w
<1>1. i \in RowId
  BY CoherentRow DEF IInv, RowsInv
<1>2. i[1] \in Writer /\ i[2] \in 1 .. MaxOps
  BY <1>1 DEF RowId
<1>3. tx[w].op \in Nat /\ tx[w].op <= 1
  BY DEF IInv, Typed, Tx, OneEach
<1>4. i[1] = w => i[2] <= tx[w].op /\ (pc[w] # "idle" => i[2] < tx[w].op)
  BY DEF IInv, RowsInv, Named
<1>5. i[2] \in Nat /\ 1 <= i[2]
  BY <1>2, WriteAssumption
<1> QED BY <1>2, <1>3, <1>4, <1>5

\* A call that returns anything but a refusal leaves the race its winner.
LEMMA RaceAnswered ==
  ASSUME IInv, RaceInv, NEW w \in Writer, pc[w] # "idle",
         NEW out \in Result \ {"conflict", "deadlock"}, Return(w, out),
         \A i \in DOMAIN db' \ DOMAIN db : i[1] = w /\ out = "ok"
  PROVE  RaceInv'
<1>1. /\ pc' = [pc EXCEPT ![w] = "idle"] /\ result' = [result EXCEPT ![w] = out]
      /\ pc \in [Writer -> Labels] /\ result \in [Writer -> Result]
  BY DEF Return, IInv, Typed
<1>2. /\ result'[w] = out /\ pc'[w] = "idle"
      /\ \A u \in Writer \ {w} : result'[u] = result[u] /\ pc'[u] = pc[u]
  BY <1>1
<1>3. OneEach' => OneEach
  BY Returned DEF IInv, OneEach
<1>4. ASSUME OneEach', NEW i \in DOMAIN db'
      PROVE  result'[i[1]] = "ok"
  <2>1. CASE i \in DOMAIN db
    <3>1. i[1] \in Writer /\ i[1] # w
      BY <1>3, <1>4, <2>1, NoneCommitted
    <3> QED BY <1>2, <1>3, <1>4, <2>1, <3>1 DEF RaceInv
  <2>2. CASE i \notin DOMAIN db
    BY <1>2, <2>2
  <2> QED BY <2>1, <2>2
<1>5. ~Refused(w)'
  BY <1>2 DEF Refused
<1> QED BY <1>2, <1>4, <1>5 DEF RaceInv

\* Who is refused has a winner before it: another call that was answered, or that
\* is still under way.
LEMMA RaceRefused ==
  ASSUME IInv, RaceInv, NEW w \in Writer, pc[w] # "idle",
         NEW out \in {"conflict", "deadlock"}, Return(w, out), db' = db,
         OneEach => \E u \in Writer \ {w} : result[u] \in {"ok", "none"}
  PROVE  RaceInv'
<1>1. /\ pc' = [pc EXCEPT ![w] = "idle"] /\ result' = [result EXCEPT ![w] = out]
      /\ pc \in [Writer -> Labels] /\ result \in [Writer -> Result]
  BY DEF Return, IInv, Typed
<1>2. /\ pc'[w] = "idle"
      /\ \A u \in Writer \ {w} : result'[u] = result[u] /\ pc'[u] = pc[u]
  BY <1>1
<1>3. OneEach' => OneEach
  BY Returned DEF IInv, OneEach, Result
<1>4. ASSUME OneEach', NEW i \in DOMAIN db'
      PROVE  result'[i[1]] = "ok"
  <2>1. i[1] \in Writer /\ i[1] # w
    BY <1>3, <1>4, NoneCommitted
  <2> QED BY <1>2, <1>3, <1>4, <2>1 DEF RaceInv
<1>5. OneEach' => \E u \in Writer : ~Refused(u)'
  <2> SUFFICES ASSUME OneEach' PROVE \E u \in Writer : ~Refused(u)'
    OBVIOUS
  <2>1. PICK u \in Writer \ {w} : result[u] \in {"ok", "none"}
    BY <1>3
  <2>2. ~Refused(u)'
    BY <1>2, <2>1 DEF Refused
  <2> QED BY <2>2
<1> QED BY <1>2, <1>4, <1>5 DEF RaceInv

\* A statement that ends no call.
LEMMA RaceGoesOn ==
  ASSUME IInv, RaceInv, NEW w \in Writer, pc[w] # "idle", db' = db,
         result' = result, tx'[w].op = tx[w].op,
         \A u \in Writer \ {w} : pc'[u] = pc[u] /\ tx'[u] = tx[u]
  PROVE  RaceInv'
<1>1. OneEach' => OneEach
  BY DEF OneEach
<1>2. \A u \in Writer : pc'[u] # "idle" => result'[u] = "none"
  BY DEF RaceInv
<1> QED BY <1>1, <1>2 DEF RaceInv, Refused

LEMMA RaceStep ==
  ASSUME Live, LiveState, WaitInv, RaceInv, NEW w \in Writer,
         Submit(w) \/ Step(w) \/ Drop(w)
  PROVE  RaceInv'
<1> USE DEF LiveState
<1>1. CASE Submit(w)
  <2>1. /\ pc[w] = "idle" /\ db' = db
        /\ result' = [result EXCEPT ![w] = "none"]
        /\ pc' = [pc EXCEPT ![w] = "begin"]
    BY <1>1 DEF Submit
  <2>2. PICK req : /\ tx' = [tx EXCEPT ![w] = req] /\ req.op = tx[w].op + 1
    <3>1. PICK kind \in Kinds :
            \E cands  \in IF ById(kind) THEN {<<>>} ELSE AddRequest,
               target \in IF ById(kind) THEN { {i} : i \in DOMAIN db } ELSE {{}} :
              tx' = [tx EXCEPT ![w] =
                       [Idle EXCEPT !.kind = kind, !.cands = cands,
                                    !.target = target, !.op = tx[w].op + 1]]
      BY <1>1 DEF Submit
    <3>2. PICK cands  \in IF ById(kind) THEN {<<>>} ELSE AddRequest,
               target \in IF ById(kind) THEN { {i} : i \in DOMAIN db } ELSE {{}} :
              tx' = [tx EXCEPT ![w] =
                       [Idle EXCEPT !.kind = kind, !.cands = cands,
                                    !.target = target, !.op = tx[w].op + 1]]
      BY <3>1
    <3> DEFINE r == [Idle EXCEPT !.kind = kind, !.cands = cands,
                                 !.target = target, !.op = tx[w].op + 1]
    <3>3. r.op = tx[w].op + 1
      BY DEF Idle
    <3>4. tx' = [tx EXCEPT ![w] = r]
      BY <3>2
    <3> HIDE DEF r
    <3> QED BY <3>3, <3>4
  <2>3. /\ tx'[w].op = tx[w].op + 1 /\ tx[w].op \in Nat
        /\ \A u \in Writer \ {w} : tx'[u] = tx[u]
    BY <2>2 DEF IInv, Typed, Tx
  <2>4. /\ result'[w] = "none"
        /\ \A u \in Writer \ {w} : result'[u] = result[u] /\ pc'[u] = pc[u]
    BY <2>1 DEF IInv, Typed
  <2>5. OneEach' => OneEach /\ tx[w].op = 0
    BY <2>3 DEF OneEach
  <2>6. ASSUME OneEach', NEW i \in DOMAIN db
        PROVE  result'[i[1]] = "ok"
    <3>1. i[1] \in Writer /\ i[1] # w
      BY <2>5, <2>6, NoneCommitted
    <3> QED BY <2>4, <2>5, <2>6, <3>1 DEF RaceInv
  <2>7. ~Refused(w)'
    BY <2>4 DEF Refused
  <2>8. \A u \in Writer : pc'[u] # "idle" => result'[u] = "none"
    BY <2>4 DEF RaceInv
  <2> QED BY <2>1, <2>6, <2>7, <2>8 DEF RaceInv
<1>2. CASE Commit(w)
  <2>1. /\ pc[w] # "idle" /\ db' = View(w)
        /\ Return(w, IF writes[w] = <<>> THEN "nothing" ELSE "ok")
    BY <1>2 DEF Commit
  <2>2. ASSUME NEW i \in DOMAIN db' \ DOMAIN db
        PROVE  i[1] = w /\ writes[w] # <<>>
    <3>1. i \in DOMAIN writes[w]
      BY <2>1, <2>2, Views
    <3> QED BY <2>2, <3>1, EmptyDomain DEF IInv, RowsInv, Written
  <2>3. CASE writes[w] = <<>>
    <3>1. "nothing" \in Result \ {"conflict", "deadlock"}
      BY DEF Result
    <3> QED BY <2>1, <2>2, <2>3, <3>1, RaceAnswered
  <2>4. CASE writes[w] # <<>>
    <3>1. "ok" \in Result \ {"conflict", "deadlock"}
      BY DEF Result
    <3> QED BY <2>1, <2>2, <2>4, <3>1, RaceAnswered
  <2> QED BY <2>3, <2>4
<1>3. ASSUME NEW out \in {"error", "dropped"}, pc[w] # "idle", Return(w, out), db' = db
      PROVE  RaceInv'
  <2>1. out \in Result \ {"conflict", "deadlock"}
    BY DEF Result
  <2> QED BY <1>3, <2>1, RaceAnswered
<1>4. ASSUME NEW out \in {"conflict", "deadlock"}, pc[w] # "idle", Retry(w, out),
             db' = db,
             OneEach => \E u \in Writer \ {w} : result[u] \in {"ok", "none"}
      PROVE  RaceInv'
  <2>1. CASE Return(w, out)
    BY <1>4, <2>1, RaceRefused
  <2>2. CASE /\ pc' = [pc EXCEPT ![w] = "begin"]
             /\ tx' = [tx EXCEPT ![w].attempt = @ + 1] /\ result' = result
    <3>1. /\ tx'[w].op = tx[w].op
          /\ \A u \in Writer \ {w} : pc'[u] = pc[u] /\ tx'[u] = tx[u]
      BY <2>2 DEF IInv, Typed, Tx
    <3> QED BY <1>4, <2>2, <3>1, RaceGoesOn
  <2> QED BY <1>4, <2>1, <2>2 DEF Retry
<1>5. CASE CheckRow(w) /\ Rivals(w) # {}
  <2>1. pc[w] = "check" /\ Retry(w, "conflict") /\ db' = db
    BY <1>5 DEF CheckRow
  <2>2. PICK i \in Rivals(w) : i \notin tx[w].seen
    BY <1>5, <2>1, RivalUnread
  <2>3. i \in DOMAIN db
    <3>1. i \in DOMAIN View(w) /\ i \notin DOMAIN writes[w]
      BY <2>1, <2>2 DEF Rivals, WaitInv, Caught, Adding
    <3> QED BY <3>1, Views
  <2>4. OneEach => i[1] \in Writer \ {w} /\ result[i[1]] = "ok"
    BY <2>1, <2>3, NoneCommitted DEF RaceInv
  <2> QED BY <1>4, <2>1, <2>4
<1>6. CASE DeadlockVictim(w)
  <2>1. PICK v \in Writer : WaitsFor(w, v)
    BY <1>6 DEF DeadlockVictim, Ring
  <2>2. pc[w] # "idle" /\ db' = db
    BY <1>6, <2>1 DEF WaitsFor, DeadlockVictim
  <2>3. v # w /\ pc[v] # "idle"
    BY <2>1, WaitedFor DEF IInv, TxInv, Shape
  <2>4. result[v] = "none"
    BY <2>3 DEF RaceInv
  <2>5. CASE Retry(w, "deadlock")
    BY <1>4, <2>2, <2>3, <2>4, <2>5
  <2>6. CASE Return(w, "error")
    BY <1>3, <2>2, <2>6
  <2> QED BY <1>6, <2>5, <2>6 DEF DeadlockVictim
<1>7. CASE ClosePrior(w) /\ Return(w, "error")
  BY <1>3, <1>7 DEF ClosePrior
<1>8. CASE Drop(w)
  BY <1>3, <1>8 DEF Drop
<1>9. ASSUME db' = db, result' = result, pc[w] # "idle", tx'[w].op = tx[w].op, Alone(w)
      PROVE  RaceInv'
  BY <1>9, RaceGoesOn DEF Alone
<1>10. CASE ~Submit(w) /\ ~Commit(w) /\ ~DeadlockVictim(w) /\ ~Drop(w)
            /\ ~(CheckRow(w) /\ Rivals(w) # {}) /\ ~(ClosePrior(w) /\ Return(w, "error"))
  <2>1. Alone(w) /\ db' = db
    BY <1>10, ViewStep DEF Alone
  <2>2. result' = result /\ pc[w] # "idle"
    BY <1>10 DEF Step, Begin, ReadMatches, Resolve, Bump, ClosePrior, ReadStarts,
                 InsertRow, CheckRow, Recheck, ReadForgetTargets, Tombstone,
                 TombstonesDone, Edit
  <2>3. tx'[w].op = tx[w].op
    <3>1. CASE NextCandidate(w)
      BY <3>1 DEF NextCandidate, IInv, Typed, Tx
    <3>2. CASE Begin(w) \/ Resolve(w)
      BY <3>2 DEF Begin, Resolve, IInv, Typed, Tx
    <3>3. CASE ReadMatches(w) \/ ReadStarts(w) \/ ReadForgetTargets(w)
      BY <3>3 DEF ReadMatches, ReadStarts, ReadForgetTargets, IInv, Typed, Tx
    <3>4. CASE ClosePrior(w) \/ InsertRow(w) \/ CheckRow(w)
      <4>1. CASE ClosePrior(w)
        BY <1>10, <4>1 DEF ClosePrior, IInv, Typed, Tx
      <4>2. CASE InsertRow(w)
        BY <4>2 DEF InsertRow
      <4>3. CASE CheckRow(w)
        BY <1>10, <3>1, <4>3 DEF CheckRow
      <4> QED BY <3>4, <4>1, <4>2, <4>3
    <3>5. CASE Bump(w) \/ Recheck(w)
      BY <3>1, <3>5 DEF Bump, Recheck, IInv, Typed, Tx
    <3>6. CASE Tombstone(w) \/ TombstonesDone(w) \/ Edit(w)
      BY <3>1, <3>6 DEF Tombstone, TombstonesDone, Edit, IInv, Typed, Tx
    <3> QED BY <1>10, <3>2, <3>3, <3>4, <3>5, <3>6 DEF Step
  <2> QED BY <1>9, <2>1, <2>2, <2>3
<1> QED BY <1>1, <1>2, <1>5, <1>6, <1>7, <1>8, <1>10

\* Adds whose facts hold from when they are written, one of each caller, are never
\* all refused (Engine::add_at): whatever attempts conflicts and rings cost, for
\* any number of callers and of attempts, one of them is not.
THEOREM RacesAreWon == ASSUME Live PROVE Spec => []RaceIsWon
<1>1. Init => RaceInv
  BY EmptyDomain DEF Init, RaceInv, Refused
<1>2. LiveState /\ WaitInv /\ RaceInv /\ [Next]_vars => RaceInv'
  <2> SUFFICES ASSUME LiveState, WaitInv, RaceInv, [Next]_vars PROVE RaceInv'
    OBVIOUS
  <2>1. CASE Next
    BY <2>1, RaceStep DEF Next
  <2>2. CASE UNCHANGED vars
    BY <2>2 DEF vars, RaceInv, OneEach, Refused
  <2> QED BY <2>1, <2>2
<1>3. RaceInv => RaceIsWon
  BY DEF RaceInv, RaceIsWon, OneEach
<1> QED BY <1>1, <1>2, <1>3, LiveStateHolds, WaitInvariant, PTL DEF Spec
=============================================================================
