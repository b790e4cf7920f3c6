----------------------------- MODULE IngestOnce -----------------------------
(***************************************************************************)
(* What the write path promises for an idempotency key (custom_id),        *)
(* whatever mix of adds, enqueues, documents, retries, workers, lapsed     *)
(* leases and crashes carries it out: a key is accepted at most once, and  *)
(* its memories, or its document, land exactly when it becomes ingested.   *)
(***************************************************************************)
EXTENDS Naturals

CONSTANT Key

VARIABLES
  status,   \* how far each key has got
  batches   \* how many times each key's memories have been committed

once == <<status, batches>>

Init ==
  /\ status = [k \in Key |-> "absent"]
  /\ batches = [k \in Key |-> 0]

\* The raw content is durably queued (dreaming: dynamic).
Accept(k) ==
  /\ status[k] = "absent"
  /\ status' = [status EXCEPT ![k] = "queued"]
  /\ UNCHANGED batches

\* The key's memories become visible, directly or from the queue.
Ingest(k) ==
  /\ status[k] # "ingested"
  /\ status' = [status EXCEPT ![k] = "ingested"]
  /\ batches' = [batches EXCEPT ![k] = @ + 1]

Next == \E k \in Key : Accept(k) \/ Ingest(k)

Spec == Init /\ [][Next]_once
=============================================================================
