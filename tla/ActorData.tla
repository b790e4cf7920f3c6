----------------------------- MODULE ActorData -----------------------------
(***************************************************************************)
(* What one actor has stored and who changes it together: adds, the        *)
(* workers' passes over enqueued sources, documents, forgets, the           *)
(* post-commit relation classifier, and the erasure (purge_actor).  The    *)
(* rows are sources, memories, relation edges, documents, their chunks and *)
(* the cached profile; the references between them are NO ACTION foreign   *)
(* keys, but for chunks, whose reference to their document cascades.       *)
(*                                                                         *)
(* Isolation is READ COMMITTED.  A statement that may have to wait for a   *)
(* row lock is two steps: it takes its snapshot, and it runs on what it    *)
(* found once the locks it needs are free.  A memory and the source it     *)
(* was extracted from carry the same id, and so do a document, its chunks  *)
(* and the source that anchors it.  Validity and supersession are the      *)
(* subject of WritePath, claims of AsyncIngest.                            *)
(***************************************************************************)
EXTENDS Naturals, FiniteSets, TLC

CONSTANTS
  Id,       \* names of sources and of the memory or document each yields
  Process,  \* requests' tasks, workers, the operator's purge tool
  MaxOps,   \* operations each process performs
  Kinds     \* the operations in play

ASSUME ActorAssumption ==
  /\ MaxOps \in Nat
  /\ Kinds \subseteq {"add", "enqueue", "pass", "document", "forget",
                 "classify", "purge"}

VARIABLES
  sources,  \* committed rows of mnestic_source
  memory,   \* committed rows of mnestic_memory: "none", "active", "forgotten"
  edges,    \* committed rows of mnestic_memory_relation
  documents, \* committed rows of mnestic_document
  chunks,   \* documents with committed rows of mnestic_chunk
  profile,  \* committed rows of mnestic_profile: none, or one set of memories
  pc,       \* what each process does next
  tx,       \* its operation, and what its open transaction has read and written
  ops,      \* operations each process has begun
  result    \* how each process's latest operation ended

tables == <<sources, memory, edges, documents, chunks, profile>>

vars == <<tables, pc, tx, ops, result>>

\* id and to: the memory worked on and the neighbour it is related to; found:
\* the rows a statement's snapshot selected; doomed...: the rows a purge
\* has deleted; facts: the profile a refresh computed; before: the rows
\* there were when the operation began; read: the memories when the refresh
\* took its snapshot (the last two are read by properties only).
NoTx == [ kind |-> "none", id |-> {}, to |-> {}, found |-> {}, doomed |-> {},
          doomedSources |-> {}, doomedDocuments |-> {}, doomedChunks |-> {},
          cut |-> {}, facts |-> {}, wrote |-> FALSE,
          before |-> {}, read |-> <<>> ]

Init ==
  /\ sources = {}
  /\ memory = [m \in Id |-> "none"]
  /\ edges = {}
  /\ documents = {}
  /\ chunks = {}
  /\ profile = {}
  /\ pc = [p \in Process |-> "idle"]
  /\ tx = [p \in Process |-> NoTx]
  /\ ops = [p \in Process |-> 0]
  /\ result = [p \in Process |-> "none"]

-----------------------------------------------------------------------------
(* Locks of the open transactions. *)

\* Rows with a FOR KEY SHARE lock: an inserted row's foreign keys.
SharedMemories(p) == IF pc[p] = "commitEdge" THEN tx[p].id \cup tx[p].to ELSE {}
SharedSources(p) ==
  IF tx[p].kind = "pass" /\ tx[p].wrote THEN tx[p].id ELSE {}

\* Memories tombstoned by an uncommitted forget.
Tombstoned(p) == IF tx[p].kind = "forget" /\ tx[p].wrote THEN tx[p].id ELSE {}

HoldsProfile(p) ==
  \/ pc[p] = "commit" /\ tx[p].wrote
  \/ pc[p] = "commitPurge" /\ tx[p].found # {}

Others(p) == Process \ {p}

-----------------------------------------------------------------------------
(* The profile refresh that ends every transaction that wrote memories. *)

Active(mem) == { m \in Id : mem[m] = "active" }

\* The memories as p's transaction sees them.
Seen(p) ==
  [ m \in Id |->
      IF m \in tx[p].id /\ tx[p].wrote
      THEN IF tx[p].kind = "forget" THEN "forgotten" ELSE "active"
      ELSE memory[m] ]

Finish(p, out) ==
  /\ pc' = [pc EXCEPT ![p] = "idle"]
  /\ tx' = [tx EXCEPT ![p] = NoTx]
  /\ result' = [result EXCEPT ![p] = out]

\* Faulty variant: the refresh runs on another connection of the pool.
ReadProfileElsewhere(p) ==
  /\ pc[p] = "refresh"
  /\ tx' = [tx EXCEPT ![p].facts = Active(memory), ![p].read = memory]
  /\ pc' = [pc EXCEPT ![p] = "upsert"]
  /\ UNCHANGED <<tables, ops, result>>

\* The SELECT inside PROFILE_REFRESH_SQL.
ReadProfile(p) ==
  /\ pc[p] = "refresh"
  /\ tx' = [tx EXCEPT ![p].facts = Active(Seen(p)), ![p].read = memory]
  /\ pc' = [pc EXCEPT ![p] = "upsert"]
  /\ UNCHANGED <<tables, ops, result>>

\* The INSERT ... ON CONFLICT DO UPDATE around it waits for the profile row,
\* then writes what was selected before it waited.
UpsertProfile(p) ==
  /\ pc[p] = "upsert"
  /\ \A q \in Others(p) : ~HoldsProfile(q)
  /\ pc' = [pc EXCEPT ![p] = "commit"]
  /\ UNCHANGED <<tables, tx, ops, result>>

\* Faulty variant: a plain INSERT of the profile, no ON CONFLICT DO UPDATE and no
\* primary key.
CommitAppends(p) ==
  /\ pc[p] = "commit"
  /\ memory' = Seen(p)
  /\ sources' = IF tx[p].kind = "add" THEN sources \cup tx[p].id ELSE sources
  /\ edges' = edges \ tx[p].cut
  /\ profile' = IF tx[p].wrote THEN profile \cup {tx[p].facts} ELSE profile
  /\ Finish(p, "ok")
  /\ UNCHANGED <<documents, chunks, ops>>

\* Commit of an add, a pass or a forget.
Commit(p) ==
  /\ pc[p] = "commit"
  /\ memory' = Seen(p)
  /\ sources' = IF tx[p].kind = "add" THEN sources \cup tx[p].id ELSE sources
  /\ edges' = edges \ tx[p].cut
  /\ profile' = IF tx[p].wrote THEN {tx[p].facts} ELSE profile
  /\ Finish(p, "ok")
  /\ UNCHANGED <<documents, chunks, ops>>

-----------------------------------------------------------------------------
(* Operations. *)

Begin(p, kind, id, to, label) ==
  /\ pc[p] = "idle"
  /\ kind \in Kinds
  /\ ops[p] < MaxOps
  /\ ops' = [ops EXCEPT ![p] = @ + 1]
  /\ tx' = [tx EXCEPT ![p] =
              [NoTx EXCEPT !.kind = kind, !.id = id, !.to = to,
                 !.before = sources \cup { m \in Id : memory[m] # "none" }]]
  /\ pc' = [pc EXCEPT ![p] = label]
  /\ result' = [result EXCEPT ![p] = "none"]
  /\ UNCHANGED tables

Fresh(m) == /\ m \notin sources /\ memory[m] = "none"
            /\ \A p \in Process : m \notin tx[p].id

\* Engine::add of a source that yields one memory.
Add(p, m) == Fresh(m) /\ Begin(p, "add", {m}, {}, "write")

\* Engine::enqueue: one statement, committed at once.
Enqueue(p, m) ==
  /\ pc[p] = "idle" /\ "enqueue" \in Kinds /\ ops[p] < MaxOps
  /\ Fresh(m)
  /\ sources' = sources \cup {m}
  /\ ops' = [ops EXCEPT ![p] = @ + 1]
  /\ UNCHANGED <<memory, edges, documents, chunks, profile, pc, tx, result>>

\* Engine::ingest_document of a fresh source: nothing in its transaction waits
\* for another one, so its rows appear together.
Document(p, m) ==
  /\ pc[p] = "idle" /\ "document" \in Kinds /\ ops[p] < MaxOps
  /\ Fresh(m)
  /\ sources' = sources \cup {m}
  /\ documents' = documents \cup {m}
  /\ chunks' = chunks \cup {m}
  /\ ops' = [ops EXCEPT ![p] = @ + 1]
  /\ UNCHANGED <<memory, edges, profile, pc, tx, result>>

\* process_claimed on a source nobody else works on.
Pass(p, m) ==
  /\ m \in sources \ documents /\ memory[m] = "none"
  /\ \A q \in Process : m \notin tx[q].id
  /\ Begin(p, "pass", {m}, {}, "write")

\* persist_candidates: insert the memory.  Its foreign key waits for a purge
\* that has deleted the source, and fails if the source is gone.
Write(p) ==
  /\ pc[p] = "write"
  /\ UNCHANGED <<tables, ops>>
  /\ \/ /\ tx[p].kind = "add" \/ tx[p].id \subseteq sources
        /\ \A q \in Others(p) : tx[p].id \cap tx[q].doomedSources = {}
        /\ tx' = [tx EXCEPT ![p].wrote = TRUE]
        /\ pc' = [pc EXCEPT ![p] = "refresh"]
        /\ UNCHANGED result
     \/ /\ tx[p].kind = "pass" /\ ~(tx[p].id \subseteq sources)
        /\ Finish(p, "error")

\* forget_by_id and forget of a source with one memory.
Forget(p, m) == memory[m] = "active" /\ Begin(p, "forget", {m}, {}, "tombstone")

\* The UPDATE waits for whoever is changing the row and re-checks it; the
\* DELETE of the edges takes the committed ones, whether or not the UPDATE hit,
\* and waits for another forget that deletes one of them.
Tombstone(p) ==
  LET hit == \A m \in tx[p].id : memory[m] = "active"
      cut == { e \in edges : tx[p].id \cap {e[1], e[2]} # {} }
  IN
  /\ pc[p] = "tombstone"
  /\ \A q \in Others(p) :
       /\ tx[p].id \cap (tx[q].doomed \cup Tombstoned(q)) = {}
       /\ cut \cap tx[q].cut = {}
  /\ tx' = [tx EXCEPT ![p].wrote = hit, ![p].cut = cut]
  /\ pc' = [pc EXCEPT ![p] = IF hit THEN "refresh" ELSE "commit"]
  /\ UNCHANGED <<tables, ops, result>>

\* classify_relations after a commit: memory_brief and same_subject_neighbors
\* see latest active rows, then the model is asked.
Classify(p, m, n) ==
  /\ m # n /\ memory[m] = "active" /\ memory[n] = "active"
  /\ Begin(p, "classify", {m}, {n}, "relate")

\* Faulty variant: from_id and to_id are plain columns, not foreign keys.
RelateUnchecked(p) ==
  /\ pc[p] = "relate"
  /\ pc' = [pc EXCEPT ![p] = "commitEdge"]
  /\ UNCHANGED <<tables, tx, ops, result>>

\* insert_relation_tx: both endpoints must exist, in whatever status.
Relate(p) ==
  LET ends == tx[p].id \cup tx[p].to IN
  /\ pc[p] = "relate"
  /\ UNCHANGED <<tables, ops>>
  /\ \/ /\ \A m \in ends : memory[m] # "none"
        /\ \A q \in Others(p) : ends \cap tx[q].doomed = {}
        /\ pc' = [pc EXCEPT ![p] = "commitEdge"]
        /\ UNCHANGED <<tx, result>>
     \/ /\ \E m \in ends : memory[m] = "none"
        /\ Finish(p, "error")

CommitEdge(p) ==
  /\ pc[p] = "commitEdge"
  /\ edges' = edges \cup (tx[p].id \X tx[p].to)
  /\ Finish(p, "ok")
  /\ UNCHANGED <<sources, memory, documents, chunks, profile, ops>>

-----------------------------------------------------------------------------
(* purge_actor. *)

\* An operator runs one erasure at a time (bin/purge-actor).
Purge(p) ==
  /\ \A q \in Process : tx[q].kind # "purge"
  /\ Begin(p, "purge", {}, {}, "purgeMemories")

\* The snapshot of a DELETE: the rows it is going to delete.
Select(p, from, to, rows) ==
  /\ pc[p] = from
  /\ tx' = [tx EXCEPT ![p].found = rows]
  /\ pc' = [pc EXCEPT ![p] = to]
  /\ UNCHANGED <<tables, ops, result>>

SelectMemories(p) ==
  Select(p, "purgeMemories", "deleteMemories", { m \in Id : memory[m] # "none" })

\* The links between memories are nulled first, so that only relation edges can
\* still refer to a deleted memory.  Nothing deletes those.
DeleteMemories(p) ==
  LET found == tx[p].found
      touching == { e \in edges : found \cap {e[1], e[2]} # {} }
  IN
  /\ pc[p] = "deleteMemories"
  /\ \A q \in Others(p) :
       /\ found \cap (SharedMemories(q) \cup Tombstoned(q)) = {}
       /\ touching \cap tx[q].cut = {}
  /\ UNCHANGED <<tables, ops>>
  /\ IF touching # {}
     THEN Finish(p, "error")
     ELSE /\ tx' = [tx EXCEPT ![p].doomed = found]
          /\ pc' = [pc EXCEPT ![p] = "purgeChunks"]
          /\ UNCHANGED result

\* Nobody else locks rows of these two tables, and what cascades is looked up
\* when the documents' rows go: each statement is one step.
DeleteChunks(p) ==
  /\ pc[p] = "purgeChunks"
  /\ tx' = [tx EXCEPT ![p].doomedChunks = chunks]
  /\ pc' = [pc EXCEPT ![p] = "purgeDocuments"]
  /\ UNCHANGED <<tables, ops, result>>

DeleteDocuments(p) ==
  /\ pc[p] = "purgeDocuments"
  /\ tx' = [tx EXCEPT ![p].doomedDocuments = documents]
  /\ pc' = [pc EXCEPT ![p] = "purgeSources"]
  /\ UNCHANGED <<tables, ops, result>>

\* Faulty variant: only sources that memories were extracted from are deleted.
SelectExtractedSources(p) ==
  Select(p, "purgeSources", "deleteSources",
         { m \in sources : memory[m] # "none" })

SelectSources(p) == Select(p, "purgeSources", "deleteSources", sources)

\* A memory or document of a doomed source that this purge has not deleted stops
\* it.
DeleteSources(p) ==
  LET found == tx[p].found IN
  /\ pc[p] = "deleteSources"
  /\ \A q \in Others(p) : found \cap SharedSources(q) = {}
  /\ UNCHANGED <<tables, ops>>
  /\ IF \E m \in found : \/ memory[m] # "none" /\ m \notin tx[p].doomed
                       \/ m \in documents \ tx[p].doomedDocuments
     THEN Finish(p, "error")
     ELSE /\ tx' = [tx EXCEPT ![p].doomedSources = found]
          /\ pc' = [pc EXCEPT ![p] = "purgeProfile"]
          /\ UNCHANGED result

\* found is non-empty iff there is a profile row to delete.
SelectProfile(p) ==
  Select(p, "purgeProfile", "deleteProfile", profile)

DeleteProfile(p) ==
  /\ pc[p] = "deleteProfile"
  /\ tx[p].found # {} => \A q \in Others(p) : ~HoldsProfile(q)
  /\ pc' = [pc EXCEPT ![p] = "commitPurge"]
  /\ UNCHANGED <<tables, tx, ops, result>>

CommitPurge(p) ==
  /\ pc[p] = "commitPurge"
  /\ memory' = [m \in Id |-> IF m \in tx[p].doomed THEN "none" ELSE memory[m]]
  /\ sources' = sources \ tx[p].doomedSources
  /\ documents' = documents \ tx[p].doomedDocuments
  /\ chunks' = chunks \ (tx[p].doomedChunks \cup tx[p].doomedDocuments)
  /\ profile' = IF tx[p].found # {} THEN {} ELSE profile
  /\ Finish(p, "ok")
  /\ UNCHANGED <<edges, ops>>

-----------------------------------------------------------------------------

\* The task, its connection or the process dies: the transaction is undone.
Drop(p) ==
  /\ pc[p] # "idle"
  /\ Finish(p, "dropped")
  /\ UNCHANGED <<tables, ops>>

Step(p) ==
  \/ \E m \in Id : Add(p, m) \/ Enqueue(p, m) \/ Document(p, m)
                    \/ Pass(p, m) \/ Forget(p, m)
  \/ \E m, n \in Id : Classify(p, m, n)
  \/ Purge(p)
  \/ Write(p) \/ Tombstone(p) \/ ReadProfile(p) \/ UpsertProfile(p) \/ Commit(p)
  \/ Relate(p) \/ CommitEdge(p)
  \/ SelectMemories(p) \/ DeleteMemories(p)
  \/ DeleteChunks(p) \/ DeleteDocuments(p) \/ SelectSources(p)
  \/ DeleteSources(p) \/ SelectProfile(p) \/ DeleteProfile(p) \/ CommitPurge(p)
  \/ Drop(p)

Next == \E p \in Process : Step(p)

Spec == Init /\ [][Next]_vars

-----------------------------------------------------------------------------
(* Properties. *)

Labels == {"idle", "write", "tombstone", "refresh", "upsert", "commit", "relate",
           "commitEdge", "purgeMemories", "deleteMemories", "purgeChunks",
           "purgeDocuments", "purgeSources", "deleteSources", "purgeProfile",
           "deleteProfile", "commitPurge"}

TypeOK ==
  /\ sources \subseteq Id
  /\ memory \in [Id -> {"none", "active", "forgotten"}]
  /\ edges \subseteq Id \X Id
  /\ documents \subseteq Id /\ chunks \subseteq Id
  /\ profile \subseteq SUBSET Id /\ Cardinality(profile) <= 1
  /\ pc \in [Process -> Labels]
  /\ ops \in [Process -> 0 .. MaxOps]
  /\ result \in [Process -> {"none", "ok", "error", "dropped"}]
  /\ \A p \in Process :
       /\ tx[p].kind \in Kinds \cup {"none"}
       /\ tx[p].id \subseteq Id /\ tx[p].to \subseteq Id
       /\ tx[p].facts \subseteq Id /\ tx[p].cut \subseteq edges

\* However erasures, passes and classifications race, no committed edge ends in
\* a row that is not there, no memory or document outlives the source it came
\* from, and no chunk its document.
ReferencesIntact ==
  /\ \A e \in edges : memory[e[1]] # "none" /\ memory[e[2]] # "none"
  /\ \A m \in Id : memory[m] # "none" => m \in sources
  /\ documents \subseteq sources /\ chunks \subseteq documents

\* A write that overlaps no other commit leaves the profile exact, whatever
\* state earlier races left it in: staleness does not outlive the next write.
LoneWriteRepairsProfile ==
  [][\A p \in Process :
       /\ pc[p] = "commit" /\ result'[p] = "ok"
       /\ tx[p].wrote /\ tx[p].read = memory
       => profile' = {Active(memory')}]_vars

\* A successful erasure leaves no row that was there when it began, although
\* each DELETE sees only what was committed when its turn came.
PurgeErases ==
  [][\A p \in Process :
       pc[p] = "commitPurge" /\ result'[p] = "ok" =>
         \A m \in tx[p].before :
           /\ memory'[m] = "none"
           /\ m \notin sources' \cup documents' \cup chunks'
           /\ \A e \in edges' : m \notin {e[1], e[2]}]_vars

-----------------------------------------------------------------------------
(* What comments of the code say and racing calls refute. *)

AllIdle == \A p \in Process : pc[p] = "idle"

\* engine/src/lib.rs:552: "the cached profile never lags a committed write".
ProfileNeverLags ==
  AllIdle => \A facts \in profile : facts = Active(memory)

\* store/src/lib.rs:1763: no reference among the actor's rows stops the bulk
\* delete, so an erasure that meets nobody else's transaction succeeds.
PurgeSucceedsAlone ==
  [][\A p \in Process :
       /\ tx[p].kind = "purge"
       /\ \A q \in Others(p) : pc[q] = "idle"
       => result'[p] # "error"]_vars
=============================================================================
