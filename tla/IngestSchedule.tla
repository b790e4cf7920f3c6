--------------------------- MODULE IngestSchedule ---------------------------
(***************************************************************************)
(* The ingestion worker's loop over time: run_cycle visits every tenant,   *)
(* process_pending claims up to Batch sources of it, oldest first, and     *)
(* extracts one at a time; a failed extraction leaves the source leased.   *)
(* The question is which sources are eventually extracted.                 *)
(*                                                                         *)
(* Time is the age of each claim, in ticks, and saturates once the lease   *)
(* is over, so the state space is finite without a bound on time.  What    *)
(* two passes over one source do to the database is the subject of         *)
(* AsyncIngest.                                                            *)
(***************************************************************************)
EXTENDS Naturals, FiniteSets

CONSTANTS
  Worker,      \* worker processes
  NoWorker,    \* holder of a source never claimed
  Tenants,     \* tenants are 1 .. Tenants, in the order they are listed
  Source,      \* enqueued contents, numbered in the order of ingested_at
  Owner,       \* the tenant of each source
  Poison,      \* sources whose extraction always fails
  Cost,        \* longest extraction, in ticks
  Lease,       \* MNESTIC_WORKER_LEASE_SECS, in ticks
  Batch,       \* MNESTIC_WORKER_BATCH
  Poll,        \* MNESTIC_WORKER_POLL_SECS, in ticks
  MaxCrashes   \* bound: how many times workers die

ASSUME ScheduleAssumption ==
  /\ NoWorker \notin Worker
  /\ Tenants \in Nat \ {0} /\ Source \subseteq Nat
  /\ Owner \in [Source -> 1 .. Tenants] /\ Poison \subseteq Source
  /\ Cost \in Nat /\ Lease \in Nat \ {0} /\ Batch \in Nat \ {0}
  /\ Poll \in Nat \ {0} /\ MaxCrashes \in Nat

VARIABLES
  state,    \* "absent", "pending" or "done"
  age,      \* ticks since the claim; more than Lease when it has lapsed
  holder,   \* who stamped the present claim
  loop,     \* where each worker is in its loop
  crashes

vars == <<state, age, holder, loop, crashes>>

Lapsed == Lease + 1

\* tenant and left: position in run_cycle and claims left in this batch; work:
\* the source being extracted; spent: ticks in this phase; processed: whether
\* the cycle has processed anything.
Loop == [ phase : {"claim", "extract", "nap"}, tenant : 1 .. Tenants,
          left : 0 .. Batch, work : SUBSET Source,
          spent : 0 .. (IF Cost > Poll THEN Cost ELSE Poll), processed : BOOLEAN ]

NewCycle == [ phase |-> "claim", tenant |-> 1, left |-> Batch, work |-> {},
              spent |-> 0, processed |-> FALSE ]

Init ==
  /\ state = [s \in Source |-> "absent"]
  /\ age = [s \in Source |-> Lapsed]
  /\ holder = [s \in Source |-> NoWorker]
  /\ loop = [w \in Worker |-> NewCycle]
  /\ crashes = 0

-----------------------------------------------------------------------------

\* enqueue: sources arrive at any time.
Enqueue(s) ==
  /\ state[s] = "absent"
  /\ \A r \in Source : r < s => state[r] # "absent"
  /\ state' = [state EXCEPT ![s] = "pending"]
  /\ UNCHANGED <<age, holder, loop, crashes>>

\* Faulty variant: the lease includes its last instant.
ClaimableEarly(t) ==
  { s \in Source : Owner[s] = t /\ state[s] = "pending" /\ age[s] >= Lease }

\* claim_pending_source's WHERE clause, for one tenant.
Claimable(t) ==
  { s \in Source : Owner[s] = t /\ state[s] = "pending" /\ age[s] > Lease }

\* Faulty variant: process_pending claims one source too many.
ClaimOneMore(w) ==
  LET open == Claimable(loop[w].tenant) IN
  /\ loop[w].phase = "claim"
  /\ \E s \in open :
       /\ \A r \in open : s <= r
       /\ age' = [age EXCEPT ![s] = 0]
       /\ holder' = [holder EXCEPT ![s] = w]
       /\ loop' = [loop EXCEPT ![w].phase = "extract", ![w].work = {s},
                               ![w].spent = 0, ![w].left = @ - 1]
  /\ UNCHANGED <<state, crashes>>

\* claim_pending_source: ORDER BY ingested_at LIMIT 1.
Claim(w) ==
  LET open == Claimable(loop[w].tenant) IN
  /\ loop[w].phase = "claim" /\ loop[w].left > 0
  /\ \E s \in open :
       /\ \A r \in open : s <= r
       /\ age' = [age EXCEPT ![s] = 0]
       /\ holder' = [holder EXCEPT ![s] = w]
       /\ loop' = [loop EXCEPT ![w].phase = "extract", ![w].work = {s},
                               ![w].spent = 0, ![w].left = @ - 1]
  /\ UNCHANGED <<state, crashes>>

\* Faulty variant: a failed extraction gives its claim back at once.
ExtractReleasing(w) ==
  /\ loop[w].phase = "extract"
  /\ \E s \in loop[w].work :
       /\ state' = [state EXCEPT ![s] =
                      IF s \notin Poison /\ holder[s] = w THEN "done" ELSE @]
       /\ age' = [age EXCEPT ![s] = IF s \in Poison THEN Lapsed ELSE @]
       /\ loop' = [loop EXCEPT ![w].phase = "claim", ![w].work = {},
                     ![w].spent = 0, ![w].processed = @ \/ s \notin Poison]
  /\ UNCHANGED <<holder, crashes>>

\* process_claimed returns: the source is done if the claim is still held, the
\* pass is thrown away if not, and an error leaves the source as it is.
Extract(w) ==
  /\ loop[w].phase = "extract"
  /\ \E s \in loop[w].work :
       /\ state' = [state EXCEPT ![s] =
                      IF s \notin Poison /\ holder[s] = w THEN "done" ELSE @]
       /\ loop' = [loop EXCEPT ![w].phase = "claim", ![w].work = {},
                     ![w].spent = 0, ![w].processed = @ \/ s \notin Poison]
  /\ UNCHANGED <<age, holder, crashes>>

\* The `for _ in 0..max` loop of process_pending ends.
BatchOver(w) ==
  loop[w].left = 0 \/ Claimable(loop[w].tenant) = {}

\* run_cycle goes on to the next tenant.
NextTenant(w) ==
  /\ loop[w].phase = "claim" /\ BatchOver(w) /\ loop[w].tenant < Tenants
  /\ loop' = [loop EXCEPT ![w].tenant = @ + 1, ![w].left = Batch]
  /\ UNCHANGED <<state, age, holder, crashes>>

\* After the last tenant: again at once, or after a nap if nothing was done.
EndCycle(w) ==
  /\ loop[w].phase = "claim" /\ BatchOver(w) /\ loop[w].tenant = Tenants
  /\ loop' = [loop EXCEPT ![w] = IF loop[w].processed THEN NewCycle
                                 ELSE [NewCycle EXCEPT !.phase = "nap"]]
  /\ UNCHANGED <<state, age, holder, crashes>>

WakeUp(w) ==
  /\ loop[w].phase = "nap" /\ loop[w].spent = Poll
  /\ loop' = [loop EXCEPT ![w] = NewCycle]
  /\ UNCHANGED <<state, age, holder, crashes>>

\* The worker dies, holding whatever it has claimed, and is started again.
Crash(w) ==
  /\ crashes < MaxCrashes
  /\ crashes' = crashes + 1
  /\ loop' = [loop EXCEPT ![w] = NewCycle]
  /\ UNCHANGED <<state, age, holder>>

\* Time passes in extractions and naps, unless one is due to end; going from
\* one source to the next takes none.
Tick ==
  /\ \A w \in Worker : \/ loop[w].phase = "extract" /\ loop[w].spent < Cost
                       \/ loop[w].phase = "nap" /\ loop[w].spent < Poll
  /\ age' = [s \in Source |-> IF age[s] < Lapsed THEN age[s] + 1 ELSE Lapsed]
  /\ loop' = [w \in Worker |-> [loop[w] EXCEPT !.spent = @ + 1]]
  /\ UNCHANGED <<state, holder, crashes>>

WorkerStep(w) == Claim(w) \/ Extract(w) \/ NextTenant(w) \/ EndCycle(w) \/ WakeUp(w)

Next ==
  \/ \E s \in Source : Enqueue(s)
  \/ \E w \in Worker : WorkerStep(w) \/ Crash(w)
  \/ Tick

\* Time passes and a worker that can go on does; nothing makes sources arrive
\* or workers die.
Spec == Init /\ [][Next]_vars /\ WF_vars(Tick) /\ \A w \in Worker : WF_vars(WorkerStep(w))

-----------------------------------------------------------------------------
(* Properties. *)

ScheduleTypeOK ==
  /\ state \in [Source -> {"absent", "pending", "done"}]
  /\ age \in [Source -> 0 .. Lapsed]
  /\ holder \in [Source -> Worker \cup {NoWorker}]
  /\ loop \in [Worker -> Loop]
  /\ crashes \in 0 .. MaxCrashes

\* With a lease as long as the slowest extraction (worker.rs:8) a source is
\* extracted by one worker at a time, crashes included: no model call is paid
\* for twice.
OneExtraction ==
  \A v, w \in Worker :
    v # w => loop[v].work \cap loop[w].work = {}

\* Every source that can be extracted eventually is, whatever fails, dies or
\* is enqueued before or after it, for its own or another tenant.
EveryHealthySourceExtracted ==
  \A s \in Source \ Poison : state[s] = "pending" ~> state[s] = "done"
=============================================================================
