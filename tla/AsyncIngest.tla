----------------------------- MODULE AsyncIngest -----------------------------
(***************************************************************************)
(* Ingestion of sources by idempotency key: Engine::add_at (synchronous),  *)
(* Engine::enqueue (dreaming: dynamic), Engine::ingest_document (superrag) *)
(* and the workers' process_pending, all against mnestic_source.  The rows *)
(* are leased, not locked, while a worker extracts; a lapsed lease lets    *)
(* another worker claim the same source while the first is still at it.    *)
(*                                                                         *)
(* A transaction is open from its first to its last statement: rowLock[k]  *)
(* is the transaction that has inserted or updated the source row of k and *)
(* not ended, keyShare[w] says that w's open transaction has inserted      *)
(* memories referencing its source (the foreign key's FOR KEY SHARE lock). *)
(* The memories' own resolution is the subject of module WritePath; here   *)
(* it succeeds, fails for good or meets a transient conflict.              *)
(***************************************************************************)
EXTENDS Integers

CONSTANTS
  Key,         \* (tenant, custom_id) pairs
  Caller,      \* request tasks of the server
  Worker,      \* worker processes (each handles one source at a time)
  NoOne,       \* no transaction
  Lease,       \* lease_secs after max(1)
  MaxRetries,  \* MAX_CONFLICT_RETRIES
  MaxTime      \* bound of the clock

ASSUME IngestAssumption ==
  /\ Key # {}
  /\ Caller \cap Worker = {}
  /\ NoOne \notin Caller \cup Worker
  /\ Lease \in Nat \ {0}
  /\ MaxRetries \in Nat \ {0}
  /\ MaxTime \in Nat

VARIABLES
  source,    \* committed source row of each key
  batches,   \* how many transactions have committed memories, or the document
             \* with its chunks, of each key
  rowLock,   \* open transaction holding the source row of each key
  keyShare,  \* workers whose open transaction references its source row
  pc,        \* what each caller and worker does next
  job,       \* the key it works on, its claim and its retry count
  clock

vars == <<source, batches, rowLock, keyShare, pc, job, clock>>

Never == -1   \* claimed_at IS NULL

Process == Caller \cup Worker

\* "absent": no row; "pending": needs_extraction; "done": extracted.
Source == [state : {"absent", "pending", "done"}, claimedAt : {Never} \cup Nat]
Mode   == {"sync", "dynamic", "document"}
Job    == [key : Key, mode : Mode \cup {"pass"}, claim : Nat,
           attempt : 0 .. MaxRetries - 1]

Unused == [key |-> CHOOSE k \in Key : TRUE, mode |-> "sync", claim |-> 0,
           attempt |-> 0]

Init ==
  /\ source = [k \in Key |-> [state |-> "absent", claimedAt |-> Never]]
  /\ batches = [k \in Key |-> 0]
  /\ rowLock = [k \in Key |-> NoOne]
  /\ keyShare = {}
  /\ pc = [p \in Process |-> "idle"]
  /\ job = [p \in Process |-> Unused]
  /\ clock = 0

-----------------------------------------------------------------------------

Goto(p, label) == pc' = [pc EXCEPT ![p] = label]

\* End of a transaction, committed or not: its locks go.
Release(p) ==
  /\ rowLock' = [k \in Key |-> IF rowLock[k] = p THEN NoOne ELSE rowLock[k]]
  /\ keyShare' = keyShare \ {p}

\* Faulty variant: the loops make one attempt too many.
RetryOnceMore(p, label) ==
  /\ Release(p)
  /\ IF job[p].attempt < MaxRetries
     THEN /\ Goto(p, label)
          /\ job' = [job EXCEPT ![p].attempt = @ + 1]
     ELSE Goto(p, "idle") /\ UNCHANGED job
  /\ UNCHANGED <<source, batches, clock>>

\* The retry loops of add_at and process_claimed around a transient conflict:
\* begin again at `label`, or give up after the last attempt.
Retry(p, label) ==
  /\ Release(p)
  /\ IF job[p].attempt + 1 < MaxRetries
     THEN /\ Goto(p, label)
          /\ job' = [job EXCEPT ![p].attempt = @ + 1]
     ELSE Goto(p, "idle") /\ UNCHANGED job
  /\ UNCHANGED <<source, batches, clock>>

\* The call fails, the task is cancelled, the process dies or the connection
\* breaks: the open transaction is rolled back and nothing else remembered.
Abandon(p) ==
  /\ pc[p] # "idle"
  /\ Goto(p, "idle")
  /\ Release(p)
  /\ UNCHANGED <<source, batches, job, clock>>

-----------------------------------------------------------------------------
(* add_at, enqueue and ingest_document, called for a key any number of times. *)

Request(c, k, mode) ==
  /\ pc[c] = "idle"
  /\ job' = [job EXCEPT ![c] =
               [key |-> k, mode |-> mode, claim |-> 0, attempt |-> 0]]
  /\ Goto(c, IF mode = "dynamic" THEN "insert" ELSE "extract")
  /\ UNCHANGED <<source, batches, rowLock, keyShare, clock>>

\* extract_and_embed, once, before any transaction.
Extract(c) ==
  /\ pc[c] = "extract" /\ job[c].mode = "sync"
  /\ Goto(c, "insert")
  /\ UNCHANGED <<source, batches, rowLock, keyShare, job, clock>>

\* ingest_document: chunk_text (module Chunker) and the chunks' embeddings.
ChunkAndEmbed(c) ==
  /\ pc[c] = "extract" /\ job[c].mode = "document"
  /\ Goto(c, "insert")
  /\ UNCHANGED <<source, batches, rowLock, keyShare, job, clock>>

\* Faulty variant: ON CONFLICT DO UPDATE, a repeated custom_id starts over.
UpsertSource(c) ==
  LET k == job[c].key IN
  /\ pc[c] = "insert"
  /\ rowLock[k] = NoOne
  /\ rowLock' = [rowLock EXCEPT ![k] = c]
  /\ Goto(c, IF job[c].mode = "dynamic" THEN "commit" ELSE "persist")
  /\ UNCHANGED <<source, batches, keyShare, job, clock>>

\* insert_source_tx: ON CONFLICT DO NOTHING.  The unique index makes it wait
\* for another transaction's uncommitted row of the same key.
InsertSource(c) ==
  LET k == job[c].key IN
  /\ pc[c] = "insert"
  /\ source[k].state = "absent" /\ rowLock[k] = NoOne
  /\ rowLock' = [rowLock EXCEPT ![k] = c]
  /\ Goto(c, IF job[c].mode = "dynamic" THEN "commit" ELSE "persist")
  /\ UNCHANGED <<source, batches, keyShare, job, clock>>

\* The key was ingested or enqueued before: idempotent_skip / queued = false.
SkipDuplicate(c) ==
  /\ pc[c] = "insert"
  /\ source[job[c].key].state # "absent"
  /\ Goto(c, "idle")
  /\ UNCHANGED <<source, batches, rowLock, keyShare, job, clock>>

\* persist_candidates in the transaction that inserted the source.
Persist(c) ==
  /\ pc[c] = "persist" /\ job[c].mode = "sync"
  /\ \/ /\ Goto(c, "commit")
        /\ UNCHANGED <<source, batches, rowLock, keyShare, job, clock>>
     \/ Retry(c, "insert")

\* The document row and its chunks, in the transaction that inserted the
\* source.  ingest_document does not try again: any error is Abandon.
PersistDocument(c) ==
  /\ pc[c] = "persist" /\ job[c].mode = "document"
  /\ Goto(c, "commit")
  /\ UNCHANGED <<source, batches, rowLock, keyShare, job, clock>>

CommitAdd(c) ==
  LET k == job[c].key IN
  /\ pc[c] = "commit"
  /\ source' = [source EXCEPT ![k].state =
                  IF job[c].mode = "dynamic" THEN "pending" ELSE "done"]
  /\ batches' = IF job[c].mode = "dynamic"
                THEN batches ELSE [batches EXCEPT ![k] = @ + 1]
  /\ Release(c)
  /\ Goto(c, "idle")
  /\ UNCHANGED <<job, clock>>

-----------------------------------------------------------------------------
(* process_pending. *)

\* claim_pending_source opens a transaction: its now() is fixed here.
BeginClaim(w) ==
  /\ pc[w] = "idle"
  /\ job' = [job EXCEPT ![w] =
               [key |-> @.key, mode |-> "pass", claim |-> clock, attempt |-> 0]]
  /\ Goto(w, "claim")
  /\ UNCHANGED <<source, batches, rowLock, keyShare, clock>>

\* Faulty variants: the lease is ignored; it is over one instant too early.
LeaseIgnored(k, now) == TRUE

LeaseLapsedEarly(k, now) ==
  \/ source[k].claimedAt = Never
  \/ source[k].claimedAt + Lease <= now

\* Claimable: never claimed, or claimed longer than the lease ago.
LeaseLapsed(k, now) ==
  \/ source[k].claimedAt = Never
  \/ source[k].claimedAt + Lease < now

\* FOR UPDATE SKIP LOCKED passes over rows with any lock on them.
Unlocked(k) ==
  /\ rowLock[k] = NoOne
  /\ \A u \in keyShare : job[u].key # k

Claimable(k, now) ==
  /\ source[k].state = "pending"
  /\ LeaseLapsed(k, now)
  /\ Unlocked(k)

\* The UPDATE stamps claimed_at and the claim's own transaction commits.
Claim(w, k) ==
  /\ pc[w] = "claim"
  /\ Claimable(k, job[w].claim)
  /\ source' = [source EXCEPT ![k].claimedAt = job[w].claim]
  /\ job' = [job EXCEPT ![w].key = k]
  /\ Goto(w, "extract")
  /\ UNCHANGED <<batches, rowLock, keyShare, clock>>

\* Nothing to claim: the batch ends.
NothingPending(w) ==
  /\ pc[w] = "claim"
  /\ \A k \in Key : ~Claimable(k, job[w].claim)
  /\ Goto(w, "idle")
  /\ UNCHANGED <<source, batches, rowLock, keyShare, job, clock>>

ExtractClaimed(w) ==
  /\ pc[w] = "extract"
  /\ Goto(w, "persist")
  /\ UNCHANGED <<source, batches, rowLock, keyShare, job, clock>>

\* persist_into_source, first half: the memory statements.  A pass that only
\* dedups inserts nothing and takes no foreign-key lock.
PersistClaimed(w) ==
  /\ pc[w] = "persist"
  /\ \/ /\ keyShare' \in {keyShare, keyShare \cup {w}}
        /\ Goto(w, "mark")
        /\ UNCHANGED <<source, batches, rowLock, job, clock>>
     \/ Retry(w, "persist")

\* Faulty variant: UPDATE ... WHERE id = $2, without the claimed_at guard.
ClaimNotChecked(w) == TRUE

\* mark_source_extracted_tx: only the current holder of the claim matches.
ClaimHeld(w) == source[job[w].key].claimedAt = job[w].claim

MarkExtracted(w) ==
  /\ pc[w] = "mark"
  /\ ClaimHeld(w)
  /\ rowLock[job[w].key] = NoOne
  /\ rowLock' = [rowLock EXCEPT ![job[w].key] = w]
  /\ Goto(w, "commit")
  /\ UNCHANGED <<source, batches, keyShare, job, clock>>

\* The claim was lost: roll back this pass's writes.
LoseClaim(w) ==
  /\ pc[w] = "mark"
  /\ ~ClaimHeld(w)
  /\ Release(w)
  /\ Goto(w, "idle")
  /\ UNCHANGED <<source, batches, job, clock>>

CommitPass(w) ==
  LET k == job[w].key IN
  /\ pc[w] = "commit"
  /\ source' = [source EXCEPT ![k] = [state |-> "done", claimedAt |-> Never]]
  /\ batches' = [batches EXCEPT ![k] = @ + 1]
  /\ Release(w)
  /\ Goto(w, "idle")
  /\ UNCHANGED <<job, clock>>

-----------------------------------------------------------------------------

Tick ==
  /\ clock < MaxTime
  /\ clock' = clock + 1
  /\ UNCHANGED <<source, batches, rowLock, keyShare, pc, job>>

CallerStep(c) ==
  \/ \E k \in Key, mode \in Mode : Request(c, k, mode)
  \/ Extract(c) \/ ChunkAndEmbed(c) \/ InsertSource(c) \/ SkipDuplicate(c)
  \/ Persist(c) \/ PersistDocument(c) \/ CommitAdd(c) \/ Abandon(c)

WorkerStep(w) ==
  \/ BeginClaim(w) \/ (\E k \in Key : Claim(w, k)) \/ NothingPending(w)
  \/ ExtractClaimed(w) \/ PersistClaimed(w) \/ MarkExtracted(w)
  \/ LoseClaim(w) \/ CommitPass(w) \/ Abandon(w)

Next == Tick \/ (\E c \in Caller : CallerStep(c)) \/ (\E w \in Worker : WorkerStep(w))

Spec == Init /\ [][Next]_vars

-----------------------------------------------------------------------------
(* Properties. *)

TypeOK ==
  /\ source \in [Key -> Source]
  /\ batches \in [Key -> Nat]
  /\ rowLock \in [Key -> Process \cup {NoOne}]
  /\ keyShare \subseteq Worker
  /\ pc \in [Process -> {"idle", "extract", "insert", "claim", "persist", "mark",
                         "commit"}]
  /\ job \in [Process -> Job]
  /\ clock \in Nat

\* A key's memories (or document) are committed at most once, and exactly when
\* its source row says it needs no extraction: no retry, repeated request, reclaimed
\* lease or crash duplicates them or marks a source done without them.
ExactlyOnce ==
  \A k \in Key : batches[k] = IF source[k].state = "done" THEN 1 ELSE 0

\* A worker between its claim and the end of its pass.
Working(w) == pc[w] \in {"extract", "persist", "mark", "commit"}

\* Of the passes working on one source at the same time, at most one holds the
\* claim that may commit: two of them never carry the same stamp.
ClaimExclusive ==
  \A w, u \in Worker :
    w # u /\ Working(w) /\ Working(u) /\ job[w].key = job[u].key
    => job[w].claim # job[u].claim

\* The lease is worth its length: a pass that is within it has lost its claim
\* to nobody, so only slow passes ever throw work away.
PromptPassKeepsClaim ==
  \A w \in Worker : Working(w) /\ clock <= job[w].claim + Lease => ClaimHeld(w)

(* The abstract specification it implements. *)

Status(s) == CASE s = "absent" -> "absent" [] s = "pending" -> "queued"
               [] s = "done" -> "ingested"

Once == INSTANCE IngestOnce WITH
          status <- [k \in Key |-> Status(source[k].state)]

ImplementsOnce == Once!Spec
=============================================================================
