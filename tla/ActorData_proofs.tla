--------------------------- MODULE ActorData_proofs ---------------------------
(***************************************************************************)
(* References stay intact and an erasure is complete, for any number of    *)
(* processes, rows and operations.  Neither is inductive: what protects    *)
(* them are the locks.  The invariant says what each transaction has       *)
(* secured (Secured), that no erasure has doomed a row which another       *)
(* transaction has secured or will make (Doomed), and that a row of        *)
(* mnestic_source is doomed only with all that refers to it.               *)
(***************************************************************************)
EXTENDS ActorData, FiniteSetTheorems, TLAPS

Writing == {"write", "refresh", "upsert", "commit"}
Purging == {"purgeMemories", "deleteMemories", "purgeChunks", "purgeDocuments",
            "purgeSources", "deleteSources", "purgeProfile", "deleteProfile",
            "commitPurge"}
SourcesGone == {"purgeProfile", "deleteProfile", "commitPurge"}

Transaction ==
  [ kind : {"none", "add", "pass", "forget", "classify", "purge"},
    id : SUBSET Id, to : SUBSET Id, found : (SUBSET Id) \cup SUBSET SUBSET Id,
    doomed : SUBSET Id, doomedSources : SUBSET Id, doomedDocuments : SUBSET Id,
    doomedChunks : SUBSET Id, cut : SUBSET (Id \X Id), facts : SUBSET Id,
    wrote : BOOLEAN, before : SUBSET Id,
    read : {<<>>} \cup [Id -> {"none", "active", "forgotten"}] ]

Typed ==
  /\ sources \subseteq Id /\ documents \subseteq Id /\ chunks \subseteq Id
  /\ memory \in [Id -> {"none", "active", "forgotten"}]
  /\ edges \subseteq Id \X Id /\ profile \subseteq SUBSET Id
  /\ pc \in [Process -> Labels]
  /\ tx \in [Process -> Transaction]
  /\ result \in [Process -> {"none", "ok", "error", "dropped"}]

\* What p is doing fits where it is.
Shape(p) ==
  /\ tx[p].kind = "none" <=> pc[p] = "idle"
  /\ tx[p].kind \in {"add", "pass"} => pc[p] \in Writing
  /\ tx[p].kind = "forget" => pc[p] \in {"tombstone", "refresh", "upsert", "commit"}
  /\ tx[p].kind = "classify" => pc[p] \in {"relate", "commitEdge"}
  /\ tx[p].kind = "purge" => pc[p] \in Purging
  /\ tx[p].kind \in {"add", "pass"} => (tx[p].wrote <=> pc[p] # "write")
  /\ pc[p] # "idle" => result[p] = "none"

\* Nothing but an erasure dooms rows, and it dooms none before it has selected
\* them.
Harmless(p) ==
  /\ tx[p].kind # "purge" => tx[p].doomed = {}
  /\ tx[p].kind # "purge" \/ pc[p] \notin SourcesGone => tx[p].doomedSources = {}

\* What p's transaction relies on is there.
Secured(p) ==
  /\ tx[p].kind = "add" => tx[p].id \cap sources = {}
  /\ tx[p].kind = "pass" /\ tx[p].wrote => tx[p].id \subseteq sources
  /\ tx[p].kind = "forget" /\ tx[p].wrote => \A m \in tx[p].id : memory[m] # "none"
  /\ pc[p] = "commitEdge" => \A m \in tx[p].id \cup tx[p].to : memory[m] # "none"

\* An erasure p has doomed nothing that q has secured.
Doomed(p, q) ==
  /\ tx[q].kind = "pass" /\ tx[q].wrote => tx[q].id \cap tx[p].doomedSources = {}
  /\ tx[q].kind = "forget" /\ tx[q].wrote => tx[q].id \cap tx[p].doomed = {}
  /\ pc[q] = "commitEdge" => (tx[q].id \cup tx[q].to) \cap tx[p].doomed = {}

\* Committed rows of the actor, as an erasure p knows and has doomed them.
Erasing(p) ==
  /\ \A e \in edges : {e[1], e[2]} \cap tx[p].doomed = {}
  /\ tx[p].doomedSources \subseteq sources
  /\ \A m \in tx[p].doomedSources :
       /\ memory[m] # "none" => m \in tx[p].doomed
       /\ m \in documents => m \in tx[p].doomedDocuments
  /\ tx[p].kind = "purge" => tx[p].before \subseteq sources
  /\ pc[p] = "deleteMemories" => tx[p].found \subseteq Id
  /\ pc[p] = "deleteSources" =>
       tx[p].before \subseteq tx[p].found /\ tx[p].found \subseteq sources
  /\ pc[p] \in SourcesGone => tx[p].before \subseteq tx[p].doomedSources

\* New sources are distinct, and there is one erasure at a time.
Apart(p, q) ==
  /\ tx[p].kind = "add" /\ tx[q].kind = "add" => tx[p].id \cap tx[q].id = {}
  /\ ~(tx[p].kind = "purge" /\ tx[q].kind = "purge")

PInv ==
  /\ Typed
  /\ ReferencesIntact
  /\ \A p \in Process : Shape(p) /\ Harmless(p) /\ Secured(p) /\ Erasing(p)
  /\ \A p, q \in Process : Doomed(p, q)
  /\ \A p, q \in Process : p # q => Apart(p, q)

-----------------------------------------------------------------------------

LEMMA NoTxType == NoTx \in Transaction
BY DEF NoTx, Transaction

LEMMA InitPInv == Init => PInv
<1> SUFFICES ASSUME Init PROVE PInv
  OBVIOUS
<1>1. \A p \in Process : tx[p] = NoTx /\ pc[p] = "idle"
  BY DEF Init
<1>2. Typed
  BY NoTxType DEF Init, Typed, Labels
<1>3. ReferencesIntact
  BY DEF Init, ReferencesIntact
<1>4. \A p \in Process : Shape(p) /\ Harmless(p) /\ Secured(p) /\ Erasing(p)
  BY <1>1 DEF Init, NoTx, Shape, Harmless, Secured, Erasing, SourcesGone
<1>5. \A p, q \in Process : Doomed(p, q) /\ Apart(p, q)
  BY <1>1 DEF NoTx, Doomed, Apart
<1> QED BY <1>2, <1>3, <1>4, <1>5 DEF PInv


\* Steps of p that commit nothing: it is enough to look at p, and at what an
\* erasure and another transaction are to each other.
LEMMA LocalStep ==
  ASSUME PInv, NEW p \in Process, UNCHANGED tables, Typed',
         \A q \in Process \ {p} :
           tx'[q] = tx[q] /\ pc'[q] = pc[q] /\ result'[q] = result[q],
         Shape(p)', Harmless(p)', Secured(p)', Erasing(p)',
         \A q \in Process \ {p} : Doomed(p, q)' /\ Doomed(q, p)' /\ Apart(p, q)'
  PROVE  PInv'
<1> USE DEF PInv, tables
<1>1. ReferencesIntact'
  BY DEF ReferencesIntact
<1>2. ASSUME NEW q \in Process
      PROVE  (Shape(q) /\ Harmless(q) /\ Secured(q) /\ Erasing(q))'
  <2>1. CASE q = p
    BY <2>1
  <2>2. CASE q # p
    BY <2>2 DEF Shape, Harmless, Secured, Erasing
  <2> QED BY <2>1, <2>2
<1>3. ASSUME NEW q \in Process, NEW r \in Process PROVE Doomed(q, r)'
  <2>1. CASE q = p /\ r = p
    BY <2>1 DEF Shape, Harmless, Doomed, Purging
  <2>2. CASE q # p /\ r # p
    BY <2>2 DEF Doomed
  <2> QED BY <2>1, <2>2
<1>4. ASSUME NEW q \in Process, NEW r \in Process, q # r PROVE Apart(q, r)'
  <2>1. CASE r = p
    BY <1>4, <2>1 DEF Apart
  <2>2. CASE q # p /\ r # p
    BY <1>4, <2>2 DEF Apart
  <2> QED BY <1>4, <2>1, <2>2
<1> QED BY <1>1, <1>2, <1>3, <1>4

\* The end of a transaction that commits nothing: an error or a drop.
LEMMA Ended ==
  ASSUME PInv, NEW p \in Process, NEW out \in {"error", "dropped"},
         Finish(p, out), UNCHANGED tables
  PROVE  PInv'
<1>1. tx'[p] = NoTx /\ pc'[p] = "idle"
  BY DEF PInv, Typed, Finish
<1>2. \A q \in Process \ {p} :
        tx'[q] = tx[q] /\ pc'[q] = pc[q] /\ result'[q] = result[q]
  BY DEF PInv, Typed, Finish
<1>3. Typed'
  BY NoTxType DEF PInv, Typed, Finish, Labels, tables
<1>4. (Shape(p) /\ Harmless(p) /\ Secured(p) /\ Erasing(p))'
  BY <1>1 DEF PInv, ReferencesIntact, NoTx, Shape, Harmless, Secured, Erasing,
              SourcesGone, tables
<1>5. ASSUME NEW q \in Process \ {p}
      PROVE  (Doomed(p, q) /\ Doomed(q, p) /\ Apart(p, q))'
  BY <1>1 DEF NoTx, Doomed, Apart
<1> QED BY <1>2, <1>3, <1>4, <1>5, LocalStep

\* A step that moves p from one label to another, with transaction t.
Moves(p, t, l) ==
  /\ t \in Transaction /\ l \in Labels
  /\ tx' = [tx EXCEPT ![p] = t] /\ pc' = [pc EXCEPT ![p] = l]
  /\ result' = result \/ result' = [result EXCEPT ![p] = "none"]
  /\ UNCHANGED tables

\* What follows of such a step.
LEMMA Moved ==
  ASSUME PInv, NEW p \in Process, NEW t, NEW l, Moves(p, t, l)
  PROVE  /\ tx'[p] = t /\ pc'[p] = l
         /\ result'[p] = result[p] \/ result'[p] = "none"
         /\ Typed'
         /\ \A q \in Process \ {p} :
              tx'[q] = tx[q] /\ pc'[q] = pc[q] /\ result'[q] = result[q]
<1> USE DEF PInv, Typed, Moves
<1>1. /\ tx' \in [Process -> Transaction] /\ tx'[p] = t
      /\ \A q \in Process \ {p} : tx'[q] = tx[q]
  <2>1. tx \in [Process -> Transaction]
    OBVIOUS
  <2> QED BY <2>1
<1>2. /\ pc' \in [Process -> Labels] /\ pc'[p] = l
      /\ \A q \in Process \ {p} : pc'[q] = pc[q]
  OBVIOUS
<1>3. /\ result' \in [Process -> {"none", "ok", "error", "dropped"}]
      /\ result'[p] = result[p] \/ result'[p] = "none"
      /\ \A q \in Process \ {p} : result'[q] = result[q]
  OBVIOUS
<1>4. Typed'
  BY <1>1, <1>2, <1>3 DEF tables
<1> QED BY <1>1, <1>2, <1>3, <1>4

\* Starting an operation of kind k at label l.
LEMMA Begun ==
  ASSUME PInv, NEW p \in Process, NEW k, NEW i \in SUBSET Id,
         NEW j \in SUBSET Id, NEW l, Begin(p, k, i, j, l),
         <<k, l>> \in {<<"add", "write">>, <<"pass", "write">>,
                       <<"forget", "tombstone">>, <<"classify", "relate">>,
                       <<"purge", "purgeMemories">>},
         k = "add" => /\ i \cap sources = {}
                      /\ \A q \in Process : i \cap tx[q].id = {},
         k = "purge" => \A q \in Process : tx[q].kind # "purge"
  PROVE  PInv'
<1> DEFINE t == [NoTx EXCEPT !.kind = k, !.id = i, !.to = j, !.before = sources]
<1>1. sources \cup { m \in Id : memory[m] # "none" } = sources
  BY DEF PInv, ReferencesIntact
<1>2. /\ tx' = [tx EXCEPT ![p] = t] /\ pc' = [pc EXCEPT ![p] = l]
      /\ result' = [result EXCEPT ![p] = "none"] /\ UNCHANGED tables
  BY <1>1 DEF Begin
<1>3. t \in Transaction /\ l \in Labels
  BY ActorAssumption DEF PInv, Typed, NoTx, Transaction, Labels
<1>4. /\ tx'[p] = t /\ pc'[p] = l
      /\ Typed'
      /\ \A q \in Process \ {p} :
           tx'[q] = tx[q] /\ pc'[q] = pc[q] /\ result'[q] = result[q]
  <2> HIDE DEF t
  <2>1. Moves(p, t, l)
    BY <1>2, <1>3 DEF Moves
  <2> QED BY <2>1, Moved
<1>5. /\ tx'[p].kind = k /\ tx'[p].id = i /\ tx'[p].wrote = FALSE
      /\ tx'[p].doomed = {} /\ tx'[p].doomedSources = {}
      /\ tx'[p].doomedDocuments = {} /\ tx'[p].before = sources
  BY <1>4 DEF NoTx
<1>6. result'[p] = "none"
  BY <1>2 DEF PInv, Typed
<1> HIDE DEF t
<1>7. UNCHANGED <<sources, memory, documents, edges, tables>>
  BY <1>2 DEF tables
<1>8. Shape(p)' /\ Harmless(p)'
  BY <1>4, <1>5, <1>6 DEF Shape, Harmless, Writing, Purging
<1>9. Secured(p)' /\ Erasing(p)'
  BY <1>4, <1>5, <1>7 DEF Secured, Erasing, SourcesGone
<1>10. ASSUME NEW q \in Process \ {p}
       PROVE  (Doomed(p, q) /\ Doomed(q, p) /\ Apart(p, q))'
  BY <1>4, <1>5 DEF Doomed, Apart
<1> QED BY <1>4, <1>7, <1>8, <1>9, <1>10, LocalStep

-----------------------------------------------------------------------------
(* Steps of a transaction that commit nothing. *)

LEMMA BeginSteps ==
  ASSUME PInv, NEW p \in Process, NEW m \in Id, NEW n \in Id,
         Add(p, m) \/ Pass(p, m) \/ Forget(p, m) \/ Classify(p, m, n)
  PROVE  PInv'
<1>1. CASE Add(p, m)
  BY <1>1, Begun DEF Add, Fresh
<1>2. CASE Pass(p, m)
  BY <1>2, Begun DEF Pass
<1>3. CASE Forget(p, m)
  BY <1>3, Begun DEF Forget
<1>4. CASE Classify(p, m, n)
  BY <1>4, Begun DEF Classify
<1> QED BY <1>1, <1>2, <1>3, <1>4

LEMMA PurgeStep ==
  ASSUME PInv, NEW p \in Process, Purge(p)
  PROVE  PInv'
BY Begun DEF Purge

LEMMA WriteStep ==
  ASSUME PInv, NEW p \in Process, Write(p)
  PROVE  PInv'
<1>1. CASE Finish(p, "error")
  BY <1>1, Ended DEF Write
<1>2. CASE /\ tx[p].kind = "add" \/ tx[p].id \subseteq sources
           /\ \A q \in Others(p) : tx[p].id \cap tx[q].doomedSources = {}
           /\ tx' = [tx EXCEPT ![p].wrote = TRUE]
           /\ pc' = [pc EXCEPT ![p] = "refresh"]
           /\ UNCHANGED result
  <2> DEFINE t == [tx[p] EXCEPT !.wrote = TRUE]
  <2>1. t \in Transaction /\ "refresh" \in Labels /\ UNCHANGED tables
    <3>1. tx[p] \in Transaction /\ UNCHANGED tables
      BY DEF PInv, Typed, Write
    <3> QED BY <3>1 DEF Transaction, Labels
  <2>2. /\ tx'[p] = t /\ pc'[p] = "refresh" /\ Typed'
        /\ \A q \in Process \ {p} :
             tx'[q] = tx[q] /\ pc'[q] = pc[q] /\ result'[q] = result[q]
    <3>1. /\ tx' = [tx EXCEPT ![p] = t] /\ pc' = [pc EXCEPT ![p] = "refresh"]
          /\ result' = result
      BY <1>2
    <3> HIDE DEF t
    <3>2. Moves(p, t, "refresh")
      BY <2>1, <3>1 DEF Moves
    <3> QED BY <3>2, Moved
  <2>3. pc[p] = "write" /\ tx[p] \in Transaction
    BY DEF Write, PInv, Typed
  <2>6. tx[p].kind \in {"add", "pass"}
    BY <2>3 DEF PInv, Shape, Purging, Transaction
  <2>4. (Shape(p) /\ Harmless(p) /\ Secured(p) /\ Erasing(p))'
    BY <1>2, <2>1, <2>2, <2>3, <2>6
       DEF PInv, Transaction, Shape, Harmless, Secured, Erasing, Writing,
           SourcesGone, tables
  <2>5. ASSUME NEW q \in Process \ {p}
        PROVE  (Doomed(p, q) /\ Doomed(q, p) /\ Apart(p, q))'
    BY <1>2, <2>2, <2>3, <2>6 DEF PInv, Transaction, Doomed, Apart, Others
  <2> QED BY <2>1, <2>2, <2>4, <2>5, LocalStep
<1> QED BY <1>1, <1>2 DEF Write

LEMMA TombstoneStep ==
  ASSUME PInv, NEW p \in Process, Tombstone(p)
  PROVE  PInv'
<1> DEFINE hit == \A m \in tx[p].id : memory[m] = "active"
           cut == { e \in edges : tx[p].id \cap {e[1], e[2]} # {} }
           t == [tx[p] EXCEPT !.wrote = hit, !.cut = cut]
           l == IF hit THEN "refresh" ELSE "commit"
<1>1. tx[p] \in Transaction /\ hit \in BOOLEAN /\ cut \in SUBSET (Id \X Id)
  BY DEF PInv, Typed
<1>2. t \in Transaction /\ l \in Labels /\ UNCHANGED tables
  <2> HIDE DEF hit, cut
  <2> QED BY <1>1 DEF Transaction, Labels, Tombstone
<1>3. /\ tx'[p] = t /\ pc'[p] = l /\ Typed'
      /\ \A q \in Process \ {p} :
           tx'[q] = tx[q] /\ pc'[q] = pc[q] /\ result'[q] = result[q]
  <2>1. tx' = [tx EXCEPT ![p] = t] /\ pc' = [pc EXCEPT ![p] = l] /\ result' = result
    BY DEF Tombstone
  <2> HIDE DEF t, l
  <2>2. Moves(p, t, l)
    BY <1>2, <2>1 DEF Moves
  <2> QED BY <2>2, Moved
<1>4. /\ tx[p].kind = "forget" /\ pc[p] = "tombstone"
      /\ \A q \in Process \ {p} : tx[p].id \cap tx[q].doomed = {}
  BY DEF Tombstone, PInv, Shape, Writing, Purging, Typed, Transaction, Others
<1>5. /\ tx'[p].kind = "forget" /\ tx'[p].id = tx[p].id /\ tx'[p].wrote = hit
      /\ tx'[p].doomed = tx[p].doomed /\ tx'[p].doomedSources = tx[p].doomedSources
      /\ tx'[p].doomedDocuments = tx[p].doomedDocuments
      /\ pc'[p] \in {"refresh", "commit"}
  <2> HIDE DEF hit, cut
  <2> QED BY <1>1, <1>3, <1>4 DEF Transaction
<1>6. hit => \A m \in tx[p].id : memory[m] # "none"
  OBVIOUS
<1> HIDE DEF hit, cut, t
<1>7. result'[p] = result[p] /\ UNCHANGED <<sources, memory, documents, edges>>
  BY <1>2 DEF Tombstone, tables
<1>8. (Shape(p) /\ Harmless(p))'
  BY <1>3, <1>4, <1>5, <1>7 DEF PInv, Shape, Harmless
<1>9. (Secured(p) /\ Erasing(p))'
  BY <1>3, <1>4, <1>5, <1>6, <1>7 DEF PInv, Secured, Erasing, Harmless, SourcesGone
<1>10. ASSUME NEW q \in Process \ {p}
       PROVE  (Doomed(p, q) /\ Doomed(q, p) /\ Apart(p, q))'
  BY <1>3, <1>4, <1>5 DEF PInv, Doomed, Apart, Harmless
<1> QED BY <1>2, <1>3, <1>8, <1>9, <1>10, LocalStep

LEMMA ProfileSteps ==
  ASSUME PInv, NEW p \in Process, ReadProfile(p) \/ UpsertProfile(p)
  PROVE  PInv'
<1> DEFINE t == IF ReadProfile(p)
                THEN [tx[p] EXCEPT !.facts = Active(Seen(p)), !.read = memory]
                ELSE tx[p]
           l == IF ReadProfile(p) THEN "upsert" ELSE "commit"
<1>1. tx[p] \in Transaction /\ Active(Seen(p)) \in SUBSET Id
      /\ memory \in [Id -> {"none", "active", "forgotten"}]
  BY DEF PInv, Typed, Active
<1>2. t \in Transaction /\ l \in Labels
  BY <1>1 DEF Transaction, Labels
<1>3. pc[p] \in {"refresh", "upsert"} /\ UNCHANGED tables /\ result' = result
  BY DEF ReadProfile, UpsertProfile
<1>4. tx' = [tx EXCEPT ![p] = t] /\ pc' = [pc EXCEPT ![p] = l]
  <2>1. CASE ReadProfile(p)
    BY <2>1 DEF ReadProfile
  <2>2. CASE ~ReadProfile(p)
    BY <2>2 DEF UpsertProfile, PInv, Typed
  <2> QED BY <2>1, <2>2
<1>5. /\ t.kind = tx[p].kind /\ t.id = tx[p].id /\ t.to = tx[p].to
      /\ t.wrote = tx[p].wrote /\ t.before = tx[p].before
      /\ t.doomed = tx[p].doomed /\ t.doomedSources = tx[p].doomedSources
      /\ t.doomedDocuments = tx[p].doomedDocuments /\ l \in {"upsert", "commit"}
  BY <1>1 DEF Transaction
<1> HIDE DEF t, l
<1>6. /\ tx'[p] = t /\ pc'[p] = l /\ result'[p] = result[p] /\ Typed'
      /\ \A q \in Process \ {p} :
           tx'[q] = tx[q] /\ pc'[q] = pc[q] /\ result'[q] = result[q]
  <2>1. /\ tx'[p] = t /\ pc'[p] = l /\ Typed'
        /\ \A q \in Process \ {p} :
             tx'[q] = tx[q] /\ pc'[q] = pc[q] /\ result'[q] = result[q]
    BY <1>2, <1>3, <1>4 DEF PInv, Typed, tables
  <2> QED BY <1>3, <2>1
<1>7. (Shape(p) /\ Harmless(p))'
  BY <1>3, <1>5, <1>6 DEF PInv, Shape, Harmless, Writing, Purging, SourcesGone
<1>8. (Secured(p) /\ Erasing(p))'
  BY <1>3, <1>5, <1>6 DEF PInv, Secured, Erasing, SourcesGone, tables
<1>9. ASSUME NEW q \in Process \ {p}
      PROVE  (Doomed(p, q) /\ Doomed(q, p) /\ Apart(p, q))'
  BY <1>5, <1>6 DEF PInv, Doomed, Apart
<1> QED BY <1>3, <1>6, <1>7, <1>8, <1>9, LocalStep

LEMMA RelateStep ==
  ASSUME PInv, NEW p \in Process, Relate(p)
  PROVE  PInv'
<1> DEFINE ends == tx[p].id \cup tx[p].to
<1>0. UNCHANGED tables /\ pc[p] = "relate"
  BY DEF Relate
<1>1. CASE Finish(p, "error")
  BY <1>0, <1>1, Ended
<1>2. CASE /\ \A m \in ends : memory[m] # "none"
           /\ \A q \in Others(p) : ends \cap tx[q].doomed = {}
           /\ pc' = [pc EXCEPT ![p] = "commitEdge"]
           /\ UNCHANGED <<tx, result>>
  <2>1. /\ tx'[p] = tx[p] /\ pc'[p] = "commitEdge" /\ result'[p] = result[p]
        /\ \A q \in Process \ {p} :
             tx'[q] = tx[q] /\ pc'[q] = pc[q] /\ result'[q] = result[q]
        /\ tx[p] \in Transaction
    BY <1>2 DEF PInv, Typed
  <2>2. Typed'
    BY <1>0, <1>2 DEF PInv, Typed, tables, Labels
  <2>3. tx[p].kind = "classify"
    BY <1>0, <2>1 DEF PInv, Shape, Writing, Purging, Transaction
  <2>4. (Shape(p) /\ Harmless(p))'
    BY <1>0, <2>1, <2>3 DEF PInv, Shape, Harmless
  <2>5. (Secured(p) /\ Erasing(p))'
    BY <1>0, <1>2, <2>1, <2>3
       DEF PInv, Secured, Erasing, SourcesGone, tables, Harmless
  <2>6. ASSUME NEW q \in Process \ {p}
        PROVE  (Doomed(p, q) /\ Doomed(q, p) /\ Apart(p, q))'
    BY <1>2, <2>1, <2>3 DEF PInv, Doomed, Apart, Harmless, Others
  <2> QED BY <1>0, <2>1, <2>2, <2>4, <2>5, <2>6, LocalStep
<1> QED BY <1>1, <1>2 DEF Relate

-----------------------------------------------------------------------------
(* Steps of an erasure that commit nothing. *)

LEMMA PurgeKind ==
  ASSUME PInv, NEW p \in Process, pc[p] \in Purging
  PROVE  tx[p].kind = "purge" /\ tx[p] \in Transaction
BY DEF PInv, Typed, Shape, Writing, Purging, Transaction

LEMMA ErasureStep ==
  ASSUME PInv, NEW p \in Process, NEW t \in Transaction, NEW l \in Purging,
         pc[p] \in Purging, t.kind = "purge",
         tx' = [tx EXCEPT ![p] = t], pc' = [pc EXCEPT ![p] = l],
         UNCHANGED tables, result' = result,
         l \notin SourcesGone => t.doomedSources = {},
         Erasing(p)', \A q \in Process \ {p} : Doomed(p, q)'
  PROVE  PInv'
<1>1. /\ tx'[p] = t /\ pc'[p] = l /\ result'[p] = result[p] /\ Typed'
      /\ \A q \in Process \ {p} :
           tx'[q] = tx[q] /\ pc'[q] = pc[q] /\ result'[q] = result[q]
  <2>1. l \in Labels
    BY DEF Purging, Labels
  <2>2. /\ tx'[p] = t /\ pc'[p] = l /\ Typed'
        /\ \A q \in Process \ {p} :
             tx'[q] = tx[q] /\ pc'[q] = pc[q] /\ result'[q] = result[q]
    BY <2>1 DEF PInv, Typed, tables
  <2> QED BY <2>2
<1>2. tx[p].kind = "purge"
  BY PurgeKind
<1>3. (Shape(p) /\ Harmless(p) /\ Secured(p))'
  BY <1>1 DEF PInv, Shape, Harmless, Secured, Purging
<1>4. ASSUME NEW q \in Process \ {p} PROVE (Doomed(q, p) /\ Apart(p, q))'
  BY <1>1, <1>2 DEF PInv, Doomed, Apart, Purging
<1> QED BY <1>1, <1>3, <1>4, LocalStep


\* A step that dooms neither memories nor sources.
LEMMA QuietStep ==
  ASSUME PInv, NEW p \in Process, NEW t \in Transaction, NEW l \in Purging,
         pc[p] \in Purging, t.kind = "purge",
         tx' = [tx EXCEPT ![p] = t], pc' = [pc EXCEPT ![p] = l],
         UNCHANGED tables, result' = result,
         t.doomed = tx[p].doomed, t.doomedSources = tx[p].doomedSources,
         t.before = tx[p].before,
         pc[p] \in SourcesGone => t.doomedDocuments = tx[p].doomedDocuments,
         l \in SourcesGone <=> pc[p] \in SourcesGone,
         l = "deleteMemories" => t.found \subseteq Id,
         l = "deleteSources" => t.found = sources
  PROVE  PInv'
<1>1. /\ tx'[p] = t /\ pc'[p] = l
      /\ \A q \in Process \ {p} : tx'[q] = tx[q] /\ pc'[q] = pc[q]
  BY DEF PInv, Typed
<1>2. tx[p].kind = "purge"
  BY PurgeKind
<1>3. UNCHANGED <<sources, memory, edges, documents>>
  BY DEF tables
<1>4. Erasing(p)'
  BY <1>1, <1>2, <1>3 DEF PInv, Erasing, Harmless
<1>5. \A q \in Process \ {p} : Doomed(p, q)'
  BY <1>1 DEF PInv, Doomed
<1>6. l \notin SourcesGone => t.doomedSources = {}
  BY DEF PInv, Harmless
<1> QED BY <1>4, <1>5, <1>6, ErasureStep

LEMMA QuietSteps ==
  ASSUME PInv, NEW p \in Process,
         \/ SelectMemories(p) \/ DeleteChunks(p) \/ DeleteDocuments(p)
         \/ SelectSources(p) \/ SelectProfile(p) \/ DeleteProfile(p)
  PROVE  PInv'
<1>1. pc[p] \in Purging /\ UNCHANGED tables /\ result' = result
  BY DEF SelectMemories, DeleteChunks, DeleteDocuments, SelectSources,
         SelectProfile, DeleteProfile, Select, Purging
<1>2. tx[p].kind = "purge" /\ tx[p] \in Transaction
  BY <1>1, PurgeKind
<1>3. /\ sources \subseteq Id /\ documents \subseteq Id /\ chunks \subseteq Id
      /\ profile \subseteq SUBSET Id
  BY DEF PInv, Typed
<1>4. CASE SelectMemories(p)
  <2> DEFINE rows == { m \in Id : memory[m] # "none" }
             t == [tx[p] EXCEPT !.found = rows]
  <2>1. /\ tx' = [tx EXCEPT ![p] = t]
        /\ pc[p] = "purgeMemories" /\ pc' = [pc EXCEPT ![p] = "deleteMemories"]
    BY <1>4 DEF SelectMemories, Select
  <2>2. rows \subseteq Id
    OBVIOUS
  <2> HIDE DEF rows
  <2>3. /\ t \in Transaction /\ t.kind = "purge" /\ t.found = rows
        /\ t.doomed = tx[p].doomed /\ t.doomedSources = tx[p].doomedSources
        /\ t.before = tx[p].before
    BY <1>2, <2>2 DEF Transaction
  <2> HIDE DEF t
  <2> QED BY <1>1, <2>1, <2>2, <2>3, QuietStep DEF Purging, SourcesGone
<1>5. CASE SelectSources(p)
  <2> DEFINE t == [tx[p] EXCEPT !.found = sources]
  <2>1. /\ tx' = [tx EXCEPT ![p] = t]
        /\ pc[p] = "purgeSources" /\ pc' = [pc EXCEPT ![p] = "deleteSources"]
    BY <1>5 DEF SelectSources, Select
  <2>2. /\ t \in Transaction /\ t.kind = "purge" /\ t.found = sources
        /\ t.doomed = tx[p].doomed /\ t.doomedSources = tx[p].doomedSources
        /\ t.before = tx[p].before
    BY <1>2, <1>3 DEF Transaction
  <2> HIDE DEF t
  <2> QED BY <1>1, <2>1, <2>2, QuietStep DEF Purging, SourcesGone
<1>6. CASE DeleteChunks(p) \/ DeleteDocuments(p)
  <2> DEFINE t == IF DeleteChunks(p) THEN [tx[p] EXCEPT !.doomedChunks = chunks]
                  ELSE [tx[p] EXCEPT !.doomedDocuments = documents]
             l == IF DeleteChunks(p) THEN "purgeDocuments" ELSE "purgeSources"
  <2>1. /\ tx' = [tx EXCEPT ![p] = t] /\ pc' = [pc EXCEPT ![p] = l]
        /\ pc[p] \in {"purgeChunks", "purgeDocuments"}
    BY <1>6 DEF DeleteChunks, DeleteDocuments
  <2>2. /\ t \in Transaction /\ t.kind = "purge"
        /\ t.doomed = tx[p].doomed /\ t.doomedSources = tx[p].doomedSources
        /\ t.before = tx[p].before /\ l \in {"purgeDocuments", "purgeSources"}
    BY <1>2, <1>3 DEF Transaction
  <2> HIDE DEF t, l
  <2> QED BY <1>1, <2>1, <2>2, QuietStep DEF Purging, SourcesGone
<1>7. CASE SelectProfile(p)
  <2> DEFINE t == [tx[p] EXCEPT !.found = profile]
  <2>1. /\ tx' = [tx EXCEPT ![p] = t]
        /\ pc[p] = "purgeProfile" /\ pc' = [pc EXCEPT ![p] = "deleteProfile"]
    BY <1>7 DEF SelectProfile, Select
  <2>2. /\ t \in Transaction /\ t.kind = "purge"
        /\ t.doomed = tx[p].doomed /\ t.doomedSources = tx[p].doomedSources
        /\ t.doomedDocuments = tx[p].doomedDocuments /\ t.before = tx[p].before
    BY <1>2, <1>3 DEF Transaction
  <2> HIDE DEF t
  <2> QED BY <1>1, <2>1, <2>2, QuietStep DEF Purging, SourcesGone
<1>8. CASE DeleteProfile(p)
  <2>1. /\ tx' = tx /\ tx' = [tx EXCEPT ![p] = tx[p]]
        /\ pc[p] = "deleteProfile" /\ pc' = [pc EXCEPT ![p] = "commitPurge"]
    BY <1>8 DEF DeleteProfile, PInv, Typed
  <2> QED BY <1>1, <1>2, <2>1, QuietStep DEF Purging, SourcesGone
<1> QED BY <1>4, <1>5, <1>6, <1>7, <1>8

\* No edge touches a memory that is about to be doomed: those there were stopped
\* the erasure, and whoever inserts one holds a lock on its ends.
LEMMA DeleteMemoriesStep ==
  ASSUME PInv, NEW p \in Process, DeleteMemories(p)
  PROVE  PInv'
<1> DEFINE found == tx[p].found
           touching == { e \in edges : found \cap {e[1], e[2]} # {} }
           t == [tx[p] EXCEPT !.doomed = found]
<1>1. pc[p] = "deleteMemories" /\ UNCHANGED tables
  BY DEF DeleteMemories
<1>2. tx[p].kind = "purge" /\ tx[p] \in Transaction
  BY <1>1, PurgeKind DEF Purging
<1>3. CASE touching # {}
  BY <1>1, <1>3, Ended DEF DeleteMemories
<1>4. CASE touching = {}
  <2>1. /\ tx' = [tx EXCEPT ![p] = t] /\ pc' = [pc EXCEPT ![p] = "purgeChunks"]
        /\ result' = result
        /\ \A q \in Process \ {p} :
             found \cap (SharedMemories(q) \cup Tombstoned(q)) = {}
    BY <1>4 DEF DeleteMemories, Others
  <2>2. \A e \in edges : {e[1], e[2]} \cap found = {}
    BY <1>4
  <2>3. found \subseteq Id
    BY <1>1 DEF PInv, Erasing
  <2>4. tx[p].doomedSources = {}
    BY <1>1 DEF PInv, Harmless, SourcesGone
  <2>5. /\ t \in Transaction /\ t.kind = "purge" /\ t.doomed = found
        /\ t.doomedSources = {} /\ t.before = tx[p].before
    BY <1>2, <2>3, <2>4 DEF Transaction
  <2> HIDE DEF t, found, touching
  <2>6. /\ tx'[p] = t /\ pc'[p] = "purgeChunks"
        /\ \A q \in Process \ {p} : tx'[q] = tx[q] /\ pc'[q] = pc[q]
    BY <2>1 DEF PInv, Typed
  <2>7. Erasing(p)'
    BY <1>1, <1>2, <2>2, <2>5, <2>6 DEF PInv, Erasing, SourcesGone, tables
  <2>8. ASSUME NEW q \in Process \ {p} PROVE Doomed(p, q)'
    BY <2>1, <2>5, <2>6 DEF Doomed, SharedMemories, Tombstoned
  <2> QED BY <1>1, <2>1, <2>5, <2>7, <2>8, ErasureStep DEF Purging, SourcesGone
<1> QED BY <1>3, <1>4

\* A source is doomed with the memory and the document that refer to it, and no
\* pass holds a lock on it.
LEMMA DeleteSourcesStep ==
  ASSUME PInv, NEW p \in Process, DeleteSources(p)
  PROVE  PInv'
<1> DEFINE found == tx[p].found
           stopped == \E m \in found : \/ memory[m] # "none" /\ m \notin tx[p].doomed
                                       \/ m \in documents \ tx[p].doomedDocuments
           t == [tx[p] EXCEPT !.doomedSources = found]
<1>1. pc[p] = "deleteSources" /\ UNCHANGED tables
  BY DEF DeleteSources
<1>2. tx[p].kind = "purge" /\ tx[p] \in Transaction
  BY <1>1, PurgeKind DEF Purging
<1>3. CASE stopped
  BY <1>1, <1>3, Ended DEF DeleteSources
<1>4. CASE ~stopped
  <2>1. /\ tx' = [tx EXCEPT ![p] = t] /\ pc' = [pc EXCEPT ![p] = "purgeProfile"]
        /\ result' = result
        /\ \A q \in Process \ {p} : found \cap SharedSources(q) = {}
    BY <1>4 DEF DeleteSources, Others
  <2>2. \A m \in found : /\ memory[m] # "none" => m \in tx[p].doomed
                         /\ m \in documents => m \in tx[p].doomedDocuments
    BY <1>4
  <2>3. found \subseteq sources /\ tx[p].before \subseteq found
    BY <1>1 DEF PInv, Erasing
  <2>4. sources \subseteq Id
    BY DEF PInv, Typed
  <2>5. /\ t \in Transaction /\ t.kind = "purge" /\ t.doomed = tx[p].doomed
        /\ t.doomedSources = found /\ t.before = tx[p].before
        /\ t.doomedDocuments = tx[p].doomedDocuments
    BY <1>2, <2>3, <2>4 DEF Transaction
  <2> HIDE DEF t, found, stopped
  <2>6. /\ tx'[p] = t /\ pc'[p] = "purgeProfile"
        /\ \A q \in Process \ {p} : tx'[q] = tx[q] /\ pc'[q] = pc[q]
    BY <2>1 DEF PInv, Typed
  <2>7. Erasing(p)'
    BY <1>1, <1>2, <2>2, <2>3, <2>5, <2>6 DEF PInv, Erasing, SourcesGone, tables
  <2>8. ASSUME NEW q \in Process \ {p} PROVE Doomed(p, q)'
    BY <2>1, <2>5, <2>6 DEF PInv, Doomed, SharedSources
  <2> QED BY <1>1, <2>1, <2>5, <2>7, <2>8, ErasureStep DEF Purging, SourcesGone
<1> QED BY <1>3, <1>4

-----------------------------------------------------------------------------
(* Commits. *)

\* A commit ends q's transaction, or goes on beside it: q keeps its view, a new
\* source is none that q is about to add, and nothing new refers to what q has
\* doomed.
Over(q) == tx'[q] = NoTx /\ pc'[q] = "idle"

Beside(q) ==
  /\ tx'[q] = tx[q] /\ pc'[q] = pc[q] /\ result'[q] = result[q]
  /\ tx[q].kind = "add" => tx[q].id \cap (sources' \ sources) = {}
  /\ \A m \in tx[q].doomedSources :
       /\ memory'[m] # "none" => memory[m] # "none"
       /\ m \in documents' => m \in documents
  /\ \A e \in edges' \ edges : {e[1], e[2]} \cap tx[q].doomed = {}

LEMMA OverIdle ==
  ASSUME NEW q \in Process, Over(q), ReferencesIntact'
  PROVE  (Shape(q) /\ Harmless(q) /\ Secured(q) /\ Erasing(q))'
BY DEF Over, NoTx, Shape, Harmless, Secured, Erasing, SourcesGone

\* Commits other than an erasure's only add to what others rely on.
LEMMA Growth ==
  ASSUME PInv, Typed', ReferencesIntact', sources \subseteq sources',
         \A m \in Id : memory[m] # "none" => memory'[m] # "none",
         \A q \in Process : Over(q) \/ Beside(q)
  PROVE  PInv'
<1>1. ASSUME NEW q \in Process
      PROVE  (Shape(q) /\ Harmless(q) /\ Secured(q) /\ Erasing(q))'
  <2>1. CASE Over(q)
    BY <2>1, OverIdle
  <2>2. CASE Beside(q)
    <3>1. (Shape(q) /\ Harmless(q))'
      BY <2>2 DEF Beside, PInv, Shape, Harmless
    <3>2. Secured(q)'
      <4>1. tx[q] \in Transaction
        BY DEF PInv, Typed
      <4> QED BY <2>2, <4>1 DEF Beside, PInv, Secured, Transaction
    <3>3. Erasing(q)'
      BY <2>2 DEF Beside, PInv, Erasing
    <3> QED BY <3>1, <3>2, <3>3
  <2> QED BY <2>1, <2>2
<1>2. ASSUME NEW q \in Process, NEW r \in Process PROVE Doomed(q, r)'
  BY DEF Over, Beside, NoTx, PInv, Doomed
<1>3. ASSUME NEW q \in Process, NEW r \in Process, q # r PROVE Apart(q, r)'
  BY <1>3 DEF Over, Beside, NoTx, PInv, Apart
<1> QED BY <1>1, <1>2, <1>3 DEF PInv

LEMMA EnqueueStep ==
  ASSUME PInv, NEW p \in Process, NEW m \in Id, Enqueue(p, m) \/ Document(p, m)
  PROVE  PInv'
<1>1. /\ sources' = sources \cup {m} /\ m \notin sources
      /\ UNCHANGED <<memory, edges, profile, pc, tx, result>>
      /\ \A q \in Process : m \notin tx[q].id
      /\ \/ UNCHANGED <<documents, chunks>>
         \/ documents' = documents \cup {m} /\ chunks' = chunks \cup {m}
  BY DEF Enqueue, Document, Fresh
<1>2. Typed'
  BY <1>1 DEF PInv, Typed
<1>3. ReferencesIntact'
  BY <1>1 DEF PInv, ReferencesIntact
<1>4. \A q \in Process : tx[q].doomedSources \subseteq sources
  BY DEF PInv, Erasing
<1>5. ASSUME NEW q \in Process PROVE Beside(q)
  BY <1>1, <1>4 DEF Beside
<1> QED BY <1>1, <1>2, <1>3, <1>5, Growth

LEMMA CommitEdgeStep ==
  ASSUME PInv, NEW p \in Process, CommitEdge(p)
  PROVE  PInv'
<1> DEFINE ends == tx[p].id \cup tx[p].to
<1>1. /\ edges' = edges \cup (tx[p].id \X tx[p].to) /\ pc[p] = "commitEdge"
      /\ UNCHANGED <<sources, memory, documents, chunks, profile>>
      /\ tx' = [tx EXCEPT ![p] = NoTx] /\ pc' = [pc EXCEPT ![p] = "idle"]
      /\ result' = [result EXCEPT ![p] = "ok"]
  BY DEF CommitEdge, Finish
<1>2. tx[p] \in Transaction
  BY DEF PInv, Typed
<1>3. tx[p].id \subseteq Id /\ tx[p].to \subseteq Id
  BY <1>2 DEF Transaction
<1>4. Typed'
  BY <1>1, <1>3, NoTxType DEF PInv, Typed, Labels
<1>5. \A m \in ends : memory[m] # "none"
  BY <1>1 DEF PInv, Secured
<1>6. ReferencesIntact'
  BY <1>1, <1>5 DEF PInv, ReferencesIntact
<1>7. Over(p)
  BY <1>1 DEF Over, PInv, Typed
<1>8. ASSUME NEW q \in Process, q # p PROVE Beside(q)
  <2>1. ends \cap tx[q].doomed = {}
    BY <1>1 DEF PInv, Doomed
  <2>2. tx'[q] = tx[q] /\ pc'[q] = pc[q] /\ result'[q] = result[q]
    BY <1>1, <1>8 DEF PInv, Typed
  <2> QED BY <1>1, <2>1, <2>2 DEF Beside
<1> QED BY <1>1, <1>4, <1>6, <1>7, <1>8, Growth

\* Of an add, a pass or a forget.
LEMMA CommitStep ==
  ASSUME PInv, NEW p \in Process, Commit(p)
  PROVE  PInv'
<1>1. /\ memory' = Seen(p) /\ pc[p] = "commit"
      /\ sources' = IF tx[p].kind = "add" THEN sources \cup tx[p].id ELSE sources
      /\ edges' = edges \ tx[p].cut
      /\ profile' = IF tx[p].wrote THEN {tx[p].facts} ELSE profile
      /\ UNCHANGED <<documents, chunks>>
      /\ tx' = [tx EXCEPT ![p] = NoTx] /\ pc' = [pc EXCEPT ![p] = "idle"]
      /\ result' = [result EXCEPT ![p] = "ok"]
  BY DEF Commit, Finish
<1>2. tx[p] \in Transaction
  BY DEF PInv, Typed
<1>3. tx[p].id \subseteq Id /\ tx[p].facts \subseteq Id
  BY <1>2 DEF Transaction
<1>4. tx[p].kind \in {"add", "pass", "forget"}
  BY <1>1, <1>2 DEF PInv, Shape, Purging, Transaction
<1>5. /\ tx[p].kind \in {"add", "pass"} => tx[p].wrote = TRUE
      /\ tx[p].kind = "pass" => tx[p].id \subseteq sources
      /\ tx[p].kind = "forget" /\ tx[p].wrote =>
           \A m \in tx[p].id : memory[m] # "none"
  BY <1>1, <1>2 DEF PInv, Shape, Secured, Transaction
<1>6. memory' \in [Id -> {"none", "active", "forgotten"}]
  BY <1>1 DEF Seen, PInv, Typed
<1>7. Typed'
  BY <1>1, <1>3, <1>6, NoTxType DEF PInv, Typed, Labels
<1>8. \A m \in Id : memory[m] # "none" => memory'[m] # "none"
  BY <1>1 DEF Seen
<1>9. \A m \in Id : memory'[m] # "none" /\ memory[m] = "none" =>
        m \in tx[p].id /\ tx[p].kind \in {"add", "pass"}
  BY <1>1, <1>4, <1>5 DEF Seen
<1>10. ReferencesIntact'
  BY <1>1, <1>5, <1>8, <1>9 DEF PInv, Typed, ReferencesIntact
<1>11. Over(p)
  BY <1>1 DEF Over, PInv, Typed
<1>12. ASSUME NEW q \in Process, q # p PROVE Beside(q)
  <2>1. tx'[q] = tx[q] /\ pc'[q] = pc[q] /\ result'[q] = result[q]
    BY <1>1, <1>12 DEF PInv, Typed
  <2>2. tx[q].kind = "add" => tx[q].id \cap (sources' \ sources) = {}
    BY <1>1, <1>12 DEF PInv, Apart
  <2>3. tx[q].doomedSources \subseteq sources /\ sources \subseteq Id
    BY DEF PInv, Erasing, Typed
  <2>4. tx[p].kind = "add" => tx[p].id \cap sources = {}
    BY DEF PInv, Secured
  <2>5. tx[p].kind = "pass" => tx[p].id \cap tx[q].doomedSources = {}
    BY <1>5 DEF PInv, Doomed
  <2>6. \A m \in tx[q].doomedSources : memory'[m] # "none" => memory[m] # "none"
    BY <1>9, <2>3, <2>4, <2>5
  <2> QED BY <1>1, <2>1, <2>2, <2>6 DEF Beside
<1> QED BY <1>1, <1>7, <1>8, <1>10, <1>11, <1>12, Growth

\* What an erasure takes away, nobody has secured.
LEMMA CommitPurgeStep ==
  ASSUME PInv, NEW p \in Process, CommitPurge(p)
  PROVE  PInv' /\ tx[p].before \cap sources' = {}
<1>1. /\ memory' = [m \in Id |-> IF m \in tx[p].doomed THEN "none" ELSE memory[m]]
      /\ sources' = sources \ tx[p].doomedSources
      /\ documents' = documents \ tx[p].doomedDocuments
      /\ chunks' = chunks \ (tx[p].doomedChunks \cup tx[p].doomedDocuments)
      /\ profile' = IF tx[p].found # {} THEN {} ELSE profile
      /\ edges' = edges /\ pc[p] = "commitPurge"
      /\ tx' = [tx EXCEPT ![p] = NoTx] /\ pc' = [pc EXCEPT ![p] = "idle"]
      /\ result' = [result EXCEPT ![p] = "ok"]
  BY DEF CommitPurge, Finish
<1>2. tx[p].kind = "purge" /\ tx[p] \in Transaction
  BY <1>1, PurgeKind DEF Purging
<1>3. /\ \A e \in edges : {e[1], e[2]} \cap tx[p].doomed = {}
      /\ \A m \in tx[p].doomedSources :
           /\ memory[m] # "none" => m \in tx[p].doomed
           /\ m \in documents => m \in tx[p].doomedDocuments
      /\ tx[p].before \subseteq tx[p].doomedSources
  BY <1>1 DEF PInv, Erasing, SourcesGone
<1>4. Typed'
  BY <1>1, NoTxType DEF PInv, Typed, Labels
<1>5. ReferencesIntact'
  BY <1>1, <1>3 DEF PInv, Typed, ReferencesIntact
<1>6. Over(p)
  BY <1>1 DEF Over, PInv, Typed
<1>7. ASSUME NEW q \in Process, q # p
      PROVE  /\ tx'[q] = tx[q] /\ pc'[q] = pc[q] /\ result'[q] = result[q]
             /\ tx[q].kind # "purge" /\ tx[q] \in Transaction
             /\ tx[q].doomed = {} /\ tx[q].doomedSources = {}
  BY <1>1, <1>2, <1>7 DEF PInv, Typed, Apart, Harmless
<1>8. ASSUME NEW q \in Process, q # p
      PROVE  (Shape(q) /\ Harmless(q) /\ Secured(q) /\ Erasing(q))'
  <2>1. (Shape(q) /\ Harmless(q))'
    BY <1>7, <1>8 DEF PInv, Shape, Harmless
  <2>2. Doomed(p, q) /\ Secured(q)
    BY DEF PInv
  <2>3. tx[q].id \subseteq Id /\ tx[q].to \subseteq Id
    BY <1>7, <1>8 DEF Transaction
  <2>4. Secured(q)'
    BY <1>1, <1>7, <1>8, <2>2, <2>3 DEF Secured, Doomed
  <2>5. pc[q] \notin Purging
    BY <1>7, <1>8 DEF PInv, Shape, Writing, Purging, Transaction
  <2>6. Erasing(q)'
    BY <1>1, <1>7, <1>8, <2>5 DEF Erasing, Purging, SourcesGone
  <2> QED BY <2>1, <2>4, <2>6
<1>9. ASSUME NEW q \in Process
      PROVE  (Shape(q) /\ Harmless(q) /\ Secured(q) /\ Erasing(q))'
  BY <1>5, <1>6, <1>8, OverIdle
<1>10. ASSUME NEW q \in Process, NEW r \in Process
       PROVE  Doomed(q, r)' /\ (q # r => Apart(q, r)')
  BY <1>6, <1>7 DEF Over, NoTx, PInv, Doomed, Apart
<1>11. tx[p].before \cap sources' = {}
  BY <1>1, <1>3
<1> QED BY <1>4, <1>5, <1>9, <1>10, <1>11 DEF PInv

-----------------------------------------------------------------------------

LEMMA DropStep ==
  ASSUME PInv, NEW p \in Process, Drop(p)
  PROVE  PInv'
BY Ended DEF Drop

LEMMA StepPInv ==
  ASSUME PInv, NEW p \in Process, Step(p)
  PROVE  PInv'
<1>1. CASE \E m \in Id : Add(p, m) \/ Enqueue(p, m) \/ Document(p, m)
                           \/ Pass(p, m) \/ Forget(p, m)
  BY <1>1, BeginSteps, EnqueueStep
<1>2. CASE \E m, n \in Id : Classify(p, m, n)
  BY <1>2, BeginSteps
<1>3. CASE Write(p) \/ Tombstone(p) \/ ReadProfile(p) \/ UpsertProfile(p)
  BY <1>3, WriteStep, TombstoneStep, ProfileSteps
<1>4. CASE Commit(p) \/ CommitEdge(p) \/ CommitPurge(p)
  BY <1>4, CommitStep, CommitEdgeStep, CommitPurgeStep
<1>5. CASE Relate(p) \/ Drop(p)
  BY <1>5, RelateStep, DropStep
<1>6. CASE \/ SelectMemories(p) \/ DeleteChunks(p) \/ DeleteDocuments(p)
           \/ SelectSources(p) \/ SelectProfile(p) \/ DeleteProfile(p)
  BY <1>6, QuietSteps
<1>7. CASE DeleteMemories(p) \/ DeleteSources(p)
  BY <1>7, DeleteMemoriesStep, DeleteSourcesStep
<1>8. CASE Purge(p)
  BY <1>8, PurgeStep
<1> QED BY <1>1, <1>2, <1>3, <1>4, <1>5, <1>6, <1>7, <1>8 DEF Step

LEMMA NextPInv == PInv /\ [Next]_vars => PInv'
<1>1. ASSUME PInv, Next PROVE PInv'
  BY <1>1, StepPInv DEF Next
<1>2. ASSUME PInv, UNCHANGED vars PROVE PInv'
  <2>1. UNCHANGED <<sources, memory, edges, documents, chunks, profile>>
        /\ UNCHANGED <<pc, tx, result>>
    BY <1>2 DEF vars, tables
  <2>2. Typed' /\ ReferencesIntact'
    BY <1>2, <2>1 DEF PInv, Typed, ReferencesIntact
  <2>3. \A q \in Process : (Shape(q) /\ Harmless(q) /\ Secured(q) /\ Erasing(q))'
    BY <1>2, <2>1 DEF PInv, Shape, Harmless, Secured, Erasing
  <2>4. \A q, r \in Process : Doomed(q, r)' /\ (q # r => Apart(q, r)')
    BY <1>2, <2>1 DEF PInv, Doomed, Apart
  <2> QED BY <2>2, <2>3, <2>4 DEF PInv
<1> QED BY <1>1, <1>2

LEMMA AlwaysPInv == Spec => []PInv
BY InitPInv, NextPInv, PTL DEF Spec

\* However operations race, no committed edge ends in a row that is not there, no
\* memory or document outlives its source and no chunk its document.
THEOREM ReferencesStayIntact == Spec => []ReferencesIntact
<1>1. PInv => ReferencesIntact
  BY DEF PInv
<1> QED BY <1>1, AlwaysPInv, PTL

\* A step of a process that is not idle answers nobody else.
LEMMA OwnAnswer ==
  ASSUME PInv, NEW p \in Process, NEW q \in Process, Step(q),
         pc[p] # "idle", result'[p] = "ok"
  PROVE  q = p
<1>1. result[p] = "none"
  BY DEF PInv, Shape
<1>2. result' = result \/ \E out : result' = [result EXCEPT ![q] = out]
  BY DEF Step, Add, Enqueue, Document, Pass, Forget, Classify, Purge, Begin, Write,
         Tombstone, ReadProfile, UpsertProfile, Commit, Relate, CommitEdge,
         SelectMemories, DeleteMemories, DeleteChunks, DeleteDocuments,
         SelectSources, DeleteSources, SelectProfile, DeleteProfile, CommitPurge,
         Drop, Finish, Select
<1> QED BY <1>1, <1>2 DEF PInv, Typed

\* What is about to commit can only commit or be dropped.
LEMMA AnsweredByCommit ==
  ASSUME PInv, NEW p \in Process, NEW q \in Process, Step(q),
         pc[p] = "commitPurge", result'[p] = "ok"
  PROVE  CommitPurge(p)
<1>1. q = p
  BY OwnAnswer
<1>2. CommitPurge(p) \/ Drop(p)
  BY <1>1 DEF Step, Add, Enqueue, Document, Pass, Forget, Classify, Purge, Begin,
         Write, Tombstone, ReadProfile, UpsertProfile, Commit, Relate, CommitEdge,
         SelectMemories, DeleteMemories, DeleteChunks, DeleteDocuments,
         SelectSources, DeleteSources, SelectProfile, DeleteProfile, Select
<1>3. ~Drop(p)
  BY DEF Drop, Finish, PInv, Typed
<1> QED BY <1>2, <1>3

LEMMA AnsweredByWrite ==
  ASSUME PInv, NEW p \in Process, NEW q \in Process, Step(q),
         pc[p] = "commit", result'[p] = "ok"
  PROVE  Commit(p)
<1>1. q = p
  BY OwnAnswer
<1>2. Commit(p) \/ Drop(p)
  BY <1>1 DEF Step, Add, Enqueue, Document, Pass, Forget, Classify, Purge, Begin,
         Write, Tombstone, ReadProfile, UpsertProfile, Relate, CommitEdge,
         SelectMemories, DeleteMemories, DeleteChunks, DeleteDocuments,
         SelectSources, DeleteSources, SelectProfile, DeleteProfile, CommitPurge,
         Select
<1>3. ~Drop(p)
  BY DEF Drop, Finish, PInv, Typed
<1> QED BY <1>2, <1>3

\* An erasure that succeeds leaves no row that was there when it began: a purge
\* that deleted the sources has deleted, or failed on, all that refers to them.
THEOREM ErasureComplete == Spec => PurgeErases
<1> DEFINE Erased(p) ==
      pc[p] = "commitPurge" /\ result'[p] = "ok" =>
        \A m \in tx[p].before :
          /\ memory'[m] = "none"
          /\ m \notin sources' \cup documents' \cup chunks'
          /\ \A e \in edges' : m \notin {e[1], e[2]}
<1>1. ASSUME PInv, Next, NEW p \in Process PROVE Erased(p)
  <2> SUFFICES ASSUME pc[p] = "commitPurge", result'[p] = "ok",
                      NEW m \in tx[p].before
               PROVE  /\ memory'[m] = "none"
                      /\ m \notin sources' \cup documents' \cup chunks'
                      /\ \A e \in edges' : m \notin {e[1], e[2]}
    OBVIOUS
  <2>1. CommitPurge(p)
    BY <1>1, AnsweredByCommit DEF Next
  <2>2. PInv' /\ m \notin sources'
    BY <1>1, <2>1, CommitPurgeStep
  <2>3. m \in Id
    <3>1. tx[p] \in Transaction
      BY <1>1 DEF PInv, Typed
    <3> QED BY <3>1 DEF Transaction
  <2> QED BY <2>2, <2>3 DEF PInv, ReferencesIntact
<1>2. ASSUME PInv, [Next]_vars PROVE [\A p \in Process : Erased(p)]_vars
  BY <1>1, <1>2
<1> QED BY <1>2, AlwaysPInv, PTL DEF Spec, PurgeErases

-----------------------------------------------------------------------------
(* Types, and the profile. *)

\* What a refresh has computed is what the memories it read add up to.
Refreshed(p) ==
  pc[p] \in {"upsert", "commit"} /\ tx[p].wrote =>
    tx[p].facts = { m \in Id :
                      IF m \in tx[p].id THEN tx[p].kind # "forget"
                      ELSE tx[p].read[m] = "active" }

\* Beyond PInv: forgets under way delete different edges, all of them there.
DataInv ==
  /\ profile = {} \/ \E facts : profile = {facts}
  /\ ops \in [Process -> 0 .. MaxOps]
  /\ \A p \in Process :
       tx[p].kind \in Kinds \cup {"none"} /\ tx[p].cut \subseteq edges /\ Refreshed(p)
  /\ \A p, q \in Process : p # q => tx[p].cut \cap tx[q].cut = {}

\* A step of p that leaves the edges it deletes alone, or ends.
LEMMA DataStep ==
  ASSUME PInv, DataInv, NEW p \in Process,
         \A q \in Process \ {p} : tx'[q] = tx[q] /\ pc'[q] = pc[q],
         profile' = profile \/ profile' = {} \/ \E facts : profile' = {facts},
         ops' \in [Process -> 0 .. MaxOps],
         tx'[p].kind \in Kinds \cup {"none"}, Refreshed(p)',
         tx'[p].cut \in {{}, tx[p].cut},
         edges \ (tx[p].cut \ tx'[p].cut) \subseteq edges'
  PROVE  DataInv'
<1>1. ASSUME NEW q \in Process \ {p}
      PROVE  /\ tx'[q].kind \in Kinds \cup {"none"}
             /\ tx'[q].cut \subseteq edges' /\ Refreshed(q)'
             /\ tx[p].cut \cap tx[q].cut = {}
  BY DEF DataInv, Refreshed
<1>2. tx'[p].cut \subseteq edges'
  BY DEF DataInv
<1>3. \A q, r \in Process : q # r => tx'[q].cut \cap tx'[r].cut = {}
  BY DEF DataInv
<1>4. profile' = {} \/ \E facts : profile' = {facts}
  BY DEF DataInv
<1> QED BY <1>1, <1>2, <1>3, <1>4 DEF DataInv

\* A call that ends, and what it may have committed.
LEMMA DataFinish ==
  ASSUME PInv, DataInv, NEW p \in Process, NEW out, Finish(p, out), ops' = ops,
         profile' = profile \/ profile' = {} \/ \E facts : profile' = {facts},
         edges \ tx[p].cut \subseteq edges'
  PROVE  DataInv'
<1>1. tx'[p] = NoTx /\ pc'[p] = "idle"
  BY DEF Finish, PInv, Typed
<1>2. \A q \in Process \ {p} : tx'[q] = tx[q] /\ pc'[q] = pc[q]
  BY DEF Finish, PInv, Typed
<1>3. tx'[p].kind = "none" /\ tx'[p].cut = {}
  BY <1>1 DEF NoTx
<1>4. Refreshed(p)'
  BY <1>1 DEF Refreshed
<1> QED BY <1>2, <1>3, <1>4, DataStep DEF DataInv

LEMMA DataBegin ==
  ASSUME PInv, DataInv, NEW p \in Process, NEW kind, NEW id, NEW to,
         NEW label \in {"write", "tombstone", "relate", "purgeMemories"},
         Begin(p, kind, id, to, label)
  PROVE  DataInv'
<1>1. /\ pc'[p] = label /\ tx'[p].kind = kind /\ tx'[p].cut = {}
      /\ \A q \in Process \ {p} : tx'[q] = tx[q] /\ pc'[q] = pc[q]
      /\ kind \in Kinds /\ profile' = profile /\ edges' = edges
  BY DEF Begin, PInv, Typed, NoTx, tables
<1>2. ops' \in [Process -> 0 .. MaxOps]
  BY ActorAssumption DEF Begin, DataInv
<1> QED BY <1>1, <1>2, DataStep DEF Refreshed

\* Steps that change no table, no count and no edge to delete, and of what a
\* refresh has computed nothing either.
LEMMA DataQuiet ==
  ASSUME PInv, DataInv, NEW p \in Process, NEW t \in Transaction, NEW l \in Labels,
         tx' = [tx EXCEPT ![p] = t], pc' = [pc EXCEPT ![p] = l],
         UNCHANGED tables, ops' = ops, t.kind = tx[p].kind, t.cut = tx[p].cut,
         \/ l \notin {"upsert", "commit"}
         \/ l = "commit" /\ pc[p] = "upsert" /\ t = tx[p]
  PROVE  DataInv'
<1>1. /\ tx'[p] = t /\ pc'[p] = l
      /\ \A q \in Process \ {p} : tx'[q] = tx[q] /\ pc'[q] = pc[q]
      /\ profile' = profile /\ edges' = edges
  BY DEF PInv, Typed, tables
<1>2. Refreshed(p)'
  BY <1>1 DEF Refreshed, DataInv
<1> QED BY <1>1, <1>2, DataStep DEF DataInv

LEMMA DataQuietSteps ==
  ASSUME PInv, DataInv, NEW p \in Process,
         \/ Write(p) \/ UpsertProfile(p) \/ Relate(p) \/ SelectMemories(p)
         \/ DeleteMemories(p) \/ DeleteChunks(p) \/ DeleteDocuments(p)
         \/ SelectSources(p) \/ DeleteSources(p) \/ SelectProfile(p)
         \/ DeleteProfile(p)
  PROVE  DataInv'
<1>0. UNCHANGED tables /\ ops' = ops /\ tx[p] \in Transaction
  BY DEF Write, UpsertProfile, Relate, SelectMemories, DeleteMemories, DeleteChunks,
         DeleteDocuments, SelectSources, DeleteSources, SelectProfile, DeleteProfile,
         Select, PInv, Typed
<1>1. ASSUME NEW out, Finish(p, out)
      PROVE  DataInv'
  BY <1>0, <1>1, DataFinish DEF tables
<1>2. ASSUME NEW l \in Labels \ {"upsert", "commit"},
             pc' = [pc EXCEPT ![p] = l], tx' = tx
      PROVE  DataInv'
  <2>1. tx' = [tx EXCEPT ![p] = tx[p]]
    BY <1>2 DEF PInv, Typed
  <2> QED BY <1>0, <1>2, <2>1, DataQuiet
<1>3. ASSUME NEW l \in Labels \ {"upsert", "commit"}, NEW t,
             pc' = [pc EXCEPT ![p] = l], tx' = [tx EXCEPT ![p] = t],
             \/ t = [tx[p] EXCEPT !.wrote = TRUE]
             \/ \E rows \in (SUBSET Id) \cup SUBSET SUBSET Id :
                  t = [tx[p] EXCEPT !.found = rows]
             \/ \E rows \in SUBSET Id :
                  \/ t = [tx[p] EXCEPT !.doomed = rows]
                  \/ t = [tx[p] EXCEPT !.doomedChunks = rows]
                  \/ t = [tx[p] EXCEPT !.doomedDocuments = rows]
                  \/ t = [tx[p] EXCEPT !.doomedSources = rows]
      PROVE  DataInv'
  <2> DEFINE Kept(u) ==
        u \in Transaction /\ u.kind = tx[p].kind /\ u.cut = tx[p].cut
  <2>1. Kept([tx[p] EXCEPT !.wrote = TRUE])
    BY <1>0 DEF Transaction
  <2>2. \A rows \in (SUBSET Id) \cup SUBSET SUBSET Id :
          Kept([tx[p] EXCEPT !.found = rows])
    BY <1>0 DEF Transaction
  <2>3. ASSUME NEW rows \in SUBSET Id
        PROVE  /\ Kept([tx[p] EXCEPT !.doomed = rows])
               /\ Kept([tx[p] EXCEPT !.doomedChunks = rows])
               /\ Kept([tx[p] EXCEPT !.doomedDocuments = rows])
               /\ Kept([tx[p] EXCEPT !.doomedSources = rows])
    BY <1>0 DEF Transaction
  <2>4. Kept(t)
    <3> HIDE DEF Kept
    <3> QED BY <1>3, <2>1, <2>2, <2>3
  <2> QED BY <1>0, <1>3, <2>4, DataQuiet
<1>4. CASE Write(p)
  BY <1>1, <1>3, <1>4 DEF Write, Labels
<1>5. CASE UpsertProfile(p)
  <2>1. tx' = [tx EXCEPT ![p] = tx[p]] /\ pc' = [pc EXCEPT ![p] = "commit"]
        /\ pc[p] = "upsert"
    BY <1>5 DEF UpsertProfile, PInv, Typed
  <2> QED BY <1>0, <2>1, DataQuiet DEF Labels
<1>6. CASE Relate(p) \/ DeleteProfile(p)
  BY <1>1, <1>2, <1>6 DEF Relate, DeleteProfile, Labels
<1>7. CASE SelectMemories(p) \/ SelectSources(p) \/ SelectProfile(p)
  <2>1. sources \in SUBSET Id /\ profile \in SUBSET SUBSET Id
        /\ { m \in Id : memory[m] # "none" } \in SUBSET Id
    BY DEF PInv, Typed
  <2> QED BY <1>3, <1>7, <2>1
          DEF SelectMemories, SelectSources, SelectProfile, Select, Labels
<1>8. CASE DeleteChunks(p) \/ DeleteDocuments(p)
  <2>1. chunks \in SUBSET Id /\ documents \in SUBSET Id
    BY DEF PInv, Typed
  <2> QED BY <1>3, <1>8, <2>1 DEF DeleteChunks, DeleteDocuments, Labels
<1>9. CASE DeleteMemories(p) \/ DeleteSources(p)
  <2>1. tx[p].found \in SUBSET Id
    BY <1>9 DEF DeleteMemories, DeleteSources, PInv, Typed, Erasing
  <2> QED BY <1>1, <1>3, <1>9, <2>1 DEF DeleteMemories, DeleteSources, Labels
<1> QED BY <1>4, <1>5, <1>6, <1>7, <1>8, <1>9

LEMMA DataTombstone ==
  ASSUME PInv, DataInv, NEW p \in Process, Tombstone(p)
  PROVE  DataInv'
<1> DEFINE hit == \A m \in tx[p].id : memory[m] = "active"
           cut == { e \in edges : tx[p].id \cap {e[1], e[2]} # {} }
<1>1. /\ tx' = [tx EXCEPT ![p].wrote = hit, ![p].cut = cut]
      /\ pc' = [pc EXCEPT ![p] = IF hit THEN "refresh" ELSE "commit"]
      /\ UNCHANGED <<tables, ops>>
      /\ \A q \in Process \ {p} : cut \cap tx[q].cut = {}
  BY DEF Tombstone, Others
<1>2. hit \in BOOLEAN /\ cut \subseteq edges
  OBVIOUS
<1> HIDE DEF hit, cut
<1>3. /\ tx'[p].kind = tx[p].kind /\ tx'[p].cut = cut /\ tx'[p].wrote = hit
      /\ pc'[p] = IF hit THEN "refresh" ELSE "commit"
      /\ \A q \in Process \ {p} : tx'[q] = tx[q] /\ pc'[q] = pc[q]
  BY <1>1 DEF PInv, Typed, Transaction
<1>4. profile' = profile /\ edges' = edges /\ ops' = ops
  BY <1>1 DEF tables
<1>5. Refreshed(p)'
  BY <1>3 DEF Refreshed
<1>6. \A q \in Process \ {p} : tx'[q].kind \in Kinds \cup {"none"}
        /\ tx'[q].cut \subseteq edges' /\ Refreshed(q)'
  BY <1>3, <1>4 DEF DataInv, Refreshed
<1>7. ASSUME NEW q \in Process, NEW r \in Process, q # r
      PROVE  tx'[q].cut \cap tx'[r].cut = {}
  <2>1. CASE q = p
    <3>1. tx'[q].cut = cut /\ tx'[r].cut = tx[r].cut
      BY <1>3, <1>7, <2>1
    <3>2. cut \cap tx[r].cut = {}
      BY <1>1, <1>7, <2>1
    <3> QED BY <3>1, <3>2
  <2>2. CASE r = p
    <3>1. tx'[r].cut = cut /\ tx'[q].cut = tx[q].cut
      BY <1>3, <1>7, <2>2
    <3>2. cut \cap tx[q].cut = {}
      BY <1>1, <1>7, <2>2
    <3> QED BY <3>1, <3>2
  <2>3. CASE q # p /\ r # p
    <3>1. tx'[q].cut = tx[q].cut /\ tx'[r].cut = tx[r].cut
      BY <1>3, <2>3
    <3>2. tx[q].cut \cap tx[r].cut = {}
      BY <1>7 DEF DataInv
    <3> QED BY <3>1, <3>2
  <2> QED BY <2>1, <2>2, <2>3
<1> QED BY <1>2, <1>3, <1>4, <1>5, <1>6, <1>7 DEF DataInv

LEMMA DataReadProfile ==
  ASSUME PInv, DataInv, NEW p \in Process, ReadProfile(p)
  PROVE  DataInv'
<1>1. /\ tx' = [tx EXCEPT ![p].facts = Active(Seen(p)), ![p].read = memory]
      /\ pc' = [pc EXCEPT ![p] = "upsert"] /\ UNCHANGED <<tables, ops>>
  BY DEF ReadProfile
<1>2. /\ tx'[p].facts = Active(Seen(p)) /\ tx'[p].read = memory
      /\ tx'[p].kind = tx[p].kind /\ tx'[p].cut = tx[p].cut
      /\ tx'[p].id = tx[p].id /\ tx'[p].wrote = tx[p].wrote
      /\ \A q \in Process \ {p} : tx'[q] = tx[q] /\ pc'[q] = pc[q]
  BY <1>1 DEF PInv, Typed, Transaction
<1>3. Refreshed(p)'
  BY <1>2 DEF Refreshed, Active, Seen
<1> QED BY <1>1, <1>2, <1>3, DataStep DEF DataInv, tables

LEMMA DataCommits ==
  ASSUME PInv, DataInv, NEW p \in Process,
         Commit(p) \/ CommitEdge(p) \/ CommitPurge(p) \/ Drop(p)
  PROVE  DataInv'
<1>1. PICK out : Finish(p, out)
  BY DEF Commit, CommitEdge, CommitPurge, Drop
<1>2. /\ ops' = ops /\ edges \ tx[p].cut \subseteq edges'
      /\ profile' = profile \/ profile' = {} \/ \E facts : profile' = {facts}
  BY DEF Commit, CommitEdge, CommitPurge, Drop, tables
<1> QED BY <1>1, <1>2, DataFinish

LEMMA DataEnqueue ==
  ASSUME PInv, DataInv, NEW p \in Process, NEW m \in Id, Enqueue(p, m) \/ Document(p, m)
  PROVE  DataInv'
<1>1. UNCHANGED <<edges, profile, pc, tx>>
  BY DEF Enqueue, Document
<1>2. ops' \in [Process -> 0 .. MaxOps]
  BY ActorAssumption DEF Enqueue, Document, DataInv
<1> QED BY <1>1, <1>2 DEF DataInv, Refreshed

LEMMA DataKept == PInv /\ DataInv /\ [Next]_vars => DataInv'
<1> SUFFICES ASSUME PInv, DataInv, [Next]_vars PROVE DataInv'
  OBVIOUS
<1>1. CASE UNCHANGED vars
  BY <1>1 DEF vars, tables, DataInv, Refreshed
<1>2. ASSUME NEW p \in Process, Step(p)
      PROVE  DataInv'
  <2>1. CASE \E m \in Id : Add(p, m) \/ Pass(p, m) \/ Forget(p, m)
    BY <2>1, DataBegin DEF Add, Pass, Forget
  <2>2. CASE \E m, n \in Id : Classify(p, m, n)
    BY <2>2, DataBegin DEF Classify
  <2>3. CASE Purge(p)
    BY <2>3, DataBegin DEF Purge
  <2>4. CASE \E m \in Id : Enqueue(p, m) \/ Document(p, m)
    BY <2>4, DataEnqueue
  <2> QED BY <1>2, <2>1, <2>2, <2>3, <2>4, DataQuietSteps, DataTombstone,
             DataReadProfile, DataCommits DEF Step
<1> QED BY <1>1, <1>2 DEF Next

LEMMA AlwaysDataInv == Spec => []DataInv
<1>1. Init => DataInv
  BY ActorAssumption DEF Init, DataInv, Refreshed, NoTx
<1> QED BY <1>1, DataKept, AlwaysPInv, PTL DEF Spec

\* Every table holds rows of the actor, the profile is one row at most, and what
\* a forget is about to delete is still there: no other forget deletes it first
\* (forget_source_memories_tx, PROFILE_REFRESH_SQL).
THEOREM ActorTypeCorrect == Spec => []TypeOK
<1>1. PInv /\ DataInv => TypeOK
  <2> SUFFICES ASSUME PInv, DataInv PROVE TypeOK
    OBVIOUS
  <2>1. Cardinality(profile) <= 1
    <3>1. CASE profile = {}
      BY <3>1, FS_EmptySet
    <3>2. ASSUME NEW facts, profile = {facts}
          PROVE  Cardinality(profile) <= 1
      BY <3>2, FS_Singleton
    <3> QED BY <3>1, <3>2 DEF DataInv
  <2>2. ASSUME NEW p \in Process
        PROVE  /\ tx[p].kind \in Kinds \cup {"none"}
               /\ tx[p].id \subseteq Id /\ tx[p].to \subseteq Id
               /\ tx[p].facts \subseteq Id /\ tx[p].cut \subseteq edges
    <3>1. tx[p] \in Transaction
      BY DEF PInv, Typed
    <3> QED BY <3>1 DEF Transaction, DataInv
  <2> QED BY <2>1, <2>2 DEF PInv, Typed, DataInv, TypeOK
<1> QED BY <1>1, AlwaysPInv, AlwaysDataInv, PTL

\* A write between whose refresh and whose commit nobody else has committed
\* leaves the profile exact (refresh_profile_tx inside the writing transaction).
THEOREM ProfileRepaired == Spec => LoneWriteRepairsProfile
<1> DEFINE Repaired(p) ==
      /\ pc[p] = "commit" /\ result'[p] = "ok"
      /\ tx[p].wrote /\ tx[p].read = memory
      => profile' = {Active(memory')}
<1>1. ASSUME PInv, DataInv, Next, NEW p \in Process PROVE Repaired(p)
  <2> SUFFICES ASSUME pc[p] = "commit", result'[p] = "ok",
                      tx[p].wrote, tx[p].read = memory
               PROVE  profile' = {Active(memory')}
    OBVIOUS
  <2>1. Commit(p)
    BY <1>1, AnsweredByWrite DEF Next
  <2>2. memory' = Seen(p) /\ profile' = {tx[p].facts}
    BY <2>1 DEF Commit
  <2>3. tx[p].facts = Active(Seen(p))
    BY <1>1 DEF DataInv, Refreshed, Active, Seen
  <2> QED BY <2>2, <2>3
<1>2. ASSUME PInv, DataInv, [Next]_vars PROVE [\A p \in Process : Repaired(p)]_vars
  BY <1>1, <1>2
<1> QED BY <1>2, AlwaysPInv, AlwaysDataInv, PTL DEF Spec, LoneWriteRepairsProfile
=============================================================================
