----------------------------- MODULE ModelCalls -----------------------------
(***************************************************************************)
(* The model calls of one extraction pass, against the clock: the          *)
(* extractor, the embedder for what it found, and, once that is committed, *)
(* the relation classifier for the new memories.  Every call is a loop of  *)
(* requests (send_with_retry) with a timeout and a growing pause; replies  *)
(* and the time they take are choices.  A pass does its calls one after    *)
(* the other, and the lease on its source runs meanwhile.                  *)
(*                                                                         *)
(* Time is in half seconds, the first pause.                               *)
(***************************************************************************)
EXTENDS Naturals

CONSTANTS
  Timeout,    \* request timeout of http_client
  LeaseTime,  \* MNESTIC_WORKER_LEASE_SECS
  Duration,   \* how long a request that is answered may take
  MaxFound    \* bound: candidates an extraction yields

MaxAttempts == 4

\* backoff: 500 ms, doubled with every attempt.
Backoff(n) == 2 ^ n

\* Each request of a call times out, and the pauses between them.
LongestCall == MaxAttempts * Timeout + Backoff(0) + Backoff(1) + Backoff(2)

\* worker.rs:9: the lease is set above the slowest extraction.
ASSUME CallsAssumption ==
  /\ Timeout \in Nat /\ LeaseTime \in Nat /\ MaxFound \in Nat
  /\ Duration \subseteq 0 .. Timeout
  /\ 2 * LongestCall <= LeaseTime

VARIABLES
  stage,    \* the call the pass is in, or how it ended
  attempt,  \* requests of this call that have failed
  elapsed,  \* since the source was claimed, until its memories are committed
  found,    \* candidates to embed, then memories to classify
  trouble,  \* transient failures since a call last succeeded
  cause     \* why the last call gave up

calls == <<stage, attempt, elapsed, found, trouble, cause>>

\* "busy": 408, 429, 500, 502, 503 or 529; "refused": any other status that is
\* no success; "broken": another error of the connection, or an answer that does
\* not arrive whole, was refused or cut off by the model, or does not parse.
Transients == {"busy", "timeout", "unreachable"}
Failures == Transients \cup {"refused", "broken"}

CallsInit ==
  /\ stage = "extract" /\ attempt = 0 /\ elapsed = 0
  /\ found = 0 /\ trouble = 0 /\ cause = "none"

-----------------------------------------------------------------------------
(* send_with_retry. *)

Calling == stage \in {"extract", "embed", "classify"}

Takes(reply) == IF reply = "timeout" THEN {Timeout} ELSE Duration

Spend(time) == elapsed' = IF stage = "classify" THEN elapsed ELSE elapsed + time

\* Faulty variant: the retries are counted, not the attempts.
LastRetry == attempt = MaxAttempts

LastAttempt == attempt + 1 = MaxAttempts

\* A transient failure, a pause, and the request is sent again.
Again ==
  /\ Calling /\ ~LastAttempt
  /\ \E reply \in Transients : \E time \in Takes(reply) : Spend(time + Backoff(attempt))
  /\ attempt' = attempt + 1
  /\ trouble' = trouble + 1
  /\ UNCHANGED <<stage, found, cause>>

\* Any other failure, or the last attempt's.  Classification is best effort.
GiveUp ==
  /\ Calling
  /\ \E reply \in Failures :
       /\ reply \in Transients => LastAttempt
       /\ \E time \in Takes(reply) : Spend(time)
       /\ cause' = reply
       /\ trouble' = IF reply \in Transients THEN trouble + 1 ELSE trouble
  /\ stage' = IF stage = "classify" THEN "done" ELSE "failed"
  /\ UNCHANGED <<attempt, found>>

\* The call answers and the pass goes on to its next one.
Answered(next) ==
  /\ \E time \in Duration : Spend(time)
  /\ stage' = next
  /\ attempt' = 0
  /\ trouble' = 0

-----------------------------------------------------------------------------
(* The pass. *)

\* Blank candidates are dropped, and without any the embedder is not asked.
Extracted ==
  /\ stage = "extract"
  /\ \E n \in 0 .. MaxFound :
       /\ found' = n
       /\ Answered(IF n = 0 THEN "persist" ELSE "embed")
  /\ UNCHANGED cause

\* A number of vectors other than that of candidates fails the pass.
Embedded ==
  /\ stage = "embed"
  /\ \/ Answered("persist") /\ UNCHANGED cause
     \/ Answered("failed") /\ cause' = "mismatch"
  /\ UNCHANGED found

\* The transaction commits or fails (AsyncIngest).  Some of its memories have
\* neighbours to be related to; each of those is one call.
Persist ==
  /\ stage = "persist"
  /\ \/ \E asked \in 0 .. found :
          /\ found' = asked
          /\ stage' = IF asked = 0 THEN "done" ELSE "classify"
          /\ UNCHANGED cause
     \/ stage' = "failed" /\ cause' = "database" /\ UNCHANGED found
  /\ UNCHANGED <<attempt, elapsed, trouble>>

\* One memory's edges are written, or the database fails and the rest goes
\* without.
Classified ==
  /\ stage = "classify"
  /\ \/ found > 1 /\ found' = found - 1 /\ Answered("classify")
     \/ found' = 0 /\ Answered("done")
  /\ UNCHANGED cause

\* process_pending: the pass has returned, and another source is claimed.
NextPass ==
  /\ stage \in {"done", "failed"}
  /\ stage' = "extract" /\ attempt' = 0 /\ elapsed' = 0
  /\ found' = 0 /\ trouble' = 0 /\ cause' = "none"

CallsNext == Again \/ GiveUp \/ Extracted \/ Embedded \/ Persist \/ Classified
             \/ NextPass

CallsSpec == CallsInit /\ [][CallsNext]_calls

-----------------------------------------------------------------------------
(* Properties. *)

CallsTypeOK ==
  /\ stage \in {"extract", "embed", "persist", "classify", "done", "failed"}
  /\ attempt \in 0 .. MaxAttempts - 1
  /\ elapsed \in Nat
  /\ found \in 0 .. MaxFound
  /\ trouble \in 0 .. MaxAttempts
  /\ cause \in Failures \cup {"none", "mismatch", "database"}

\* However its calls time out, fail and are retried, a pass comes to its
\* transaction within the lease, so a worker loses no claim to slow or failing
\* providers (worker.rs:8, extract_schema.rs:13).
PassWithinLease == elapsed <= LeaseTime

\* A blip does not abort a pass (extract_schema.rs:24): transient failures end
\* it only as MAX_ATTEMPTS of one call in a row.
GivesUpForCause == cause \in Transients => trouble = MaxAttempts
=============================================================================
