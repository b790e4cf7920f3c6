---------------------------- MODULE Worker_proofs ----------------------------
(***************************************************************************)
(* Proofs about the ingestion worker, for any number of workers, tenants,  *)
(* sources and crashes, every timeout and lease, and every time that       *)
(* replies take: the model calls of a pass (ModelCalls), the schedule of   *)
(* the passes (IngestSchedule), and the two side by side.                  *)
(*                                                                         *)
(* OneExtraction is not inductive: nothing in it keeps a worker from       *)
(* claiming what another works on.  The invariant adds that the claim of a *)
(* source in work is as old as its extraction (Clocked), hence within the  *)
(* lease, which therefore has to be no shorter than an extraction.         *)
(***************************************************************************)
EXTENDS MCIngestSchedule, TLAPS

-----------------------------------------------------------------------------
(* The model calls of a pass. *)

\* The pauses, in half seconds: 0.5, 1 and 2 seconds.
LEMMA Pauses == Backoff(0) = 1 /\ Backoff(1) = 2 /\ Backoff(2) = 4
  BY SMT DEF Backoff

\* Pauses made before attempt n.
Paused(n) == IF n = 0 THEN 0 ELSE IF n = 1 THEN 1 ELSE IF n = 2 THEN 3 ELSE 7

\* Time that the calls before this one may have taken.
Before == IF stage = "extract" THEN 0
          ELSE IF stage = "embed" THEN 4 * Timeout + 7 ELSE 8 * Timeout + 14

\* Time that this call's failed requests may have taken.
Lost == IF attempt = 0 THEN 0 ELSE IF attempt = 1 THEN Timeout
        ELSE IF attempt = 2 THEN 2 * Timeout ELSE 3 * Timeout

\* While a call runs, the time is accounted for by the calls before it and by
\* its own requests and pauses; and transient failures are counted alike.
CallsInv ==
  /\ CallsTypeOK
  /\ stage \in {"extract", "embed"} =>
       elapsed <= Before + Lost + Paused(attempt)
  /\ elapsed <= 8 * Timeout + 14
  /\ stage \in {"extract", "embed", "persist", "classify"} => trouble = attempt
  /\ GivesUpForCause
  /\ stage \in {"extract", "embed", "persist", "classify"} => cause = "none"

LEMMA Budget ==
  /\ LongestCall = 4 * Timeout + 7
  /\ 8 * Timeout + 14 <= LeaseTime
  /\ Timeout \in Nat /\ LeaseTime \in Nat /\ MaxFound \in Nat
  /\ \A reply \in Failures : \A time \in Takes(reply) : time \in 0 .. Timeout
  /\ \A time \in Duration : time \in 0 .. Timeout
<1>1. LongestCall = 4 * Timeout + 7
  BY Pauses, CallsAssumption, SMT DEF LongestCall, MaxAttempts
<1>2. 8 * Timeout + 14 <= LeaseTime
  BY <1>1, CallsAssumption, SMT
<1>3. \A reply \in Failures : \A time \in Takes(reply) : time \in 0 .. Timeout
  BY CallsAssumption, SMT DEF Takes
<1> QED
  BY <1>1, <1>2, <1>3, CallsAssumption

LEMMA CallsInitially == CallsInit => CallsInv
  BY Budget, SMT DEF CallsInit, CallsInv, CallsTypeOK, MaxAttempts, Before, Lost,
     Paused, Calling, GivesUpForCause, Transients, Failures

\* Every step spends at most what is set aside for it.
LEMMA CallsStep == CallsInv /\ [CallsNext]_calls => CallsInv'
<1> SUFFICES ASSUME CallsInv, [CallsNext]_calls PROVE CallsInv'
  OBVIOUS
<1> USE Budget, Pauses DEF CallsInv, CallsTypeOK, MaxAttempts, Calling, GivesUpForCause,
      Transients, Failures
<1>1. CASE Again
  <2>1. PICK reply \in Transients : \E time \in Takes(reply) : Spend(time + Backoff(attempt))
    BY <1>1 DEF Again
  <2>2. PICK time \in 0 .. Timeout : Spend(time + Backoff(attempt))
    BY <2>1
  <2>3. attempt \in 0 .. 2 /\ attempt' = attempt + 1 /\ trouble' = trouble + 1
        /\ stage' = stage /\ found' = found /\ cause' = cause /\ Calling
    BY <1>1, SMT DEF Again, LastAttempt
  <2>4. Paused(attempt') = Paused(attempt) + Backoff(attempt)
    BY <2>3, SMT DEF Paused
  <2>5. Lost' = Lost + Timeout
    BY <2>3, SMT DEF Lost
  <2>6. Before' = Before
    BY <2>3 DEF Before
  <2>7. CASE stage = "classify"
    BY <2>2, <2>3, <2>7, SMT DEF Spend
  <2>8. CASE stage # "classify"
    <3>1. elapsed' = elapsed + time + Backoff(attempt) /\ Backoff(attempt) \in Nat
      BY <2>2, <2>3, <2>8, SMT DEF Spend
    <3>2. elapsed <= Before + Lost + Paused(attempt)
      BY <2>3, <2>8
    <3>3. Before \in Nat /\ Lost \in Nat /\ Paused(attempt) \in Nat
      BY SMT DEF Before, Lost, Paused
    <3>4. elapsed' <= Before' + Lost' + Paused(attempt')
      BY <3>1, <3>2, <3>3, <2>4, <2>5, <2>6, SMT
    <3>5. Before' \in 0 .. 4 * Timeout + 7
      BY <2>3, <2>8, SMT DEF Before
    <3>6. Lost' \in 0 .. 3 * Timeout /\ Paused(attempt') \in 0 .. 7
      BY <2>3, SMT DEF Lost, Paused
    <3>7. elapsed' <= 8 * Timeout + 14
      BY <3>1, <3>4, <3>5, <3>6, SMT
    <3> QED
      BY <3>1, <3>4, <3>7, <2>3, SMT
  <2> QED
    BY <2>7, <2>8
<1>2. CASE GiveUp
  <2>1. PICK reply \in Failures : /\ reply \in Transients => LastAttempt
                                  /\ \E time \in Takes(reply) : Spend(time)
                                  /\ cause' = reply
                                  /\ trouble' = IF reply \in Transients THEN trouble + 1
                                                ELSE trouble
    BY <1>2 DEF GiveUp
  <2>2. PICK time \in 0 .. Timeout : Spend(time)
    BY <2>1
  <2>3. elapsed' \in Nat /\ elapsed' <= 8 * Timeout + 14
    BY <1>2, <2>2, SMT DEF Spend, GiveUp, Before, Lost, Paused
  <2>4. stage' \in {"done", "failed"} /\ attempt' = attempt /\ found' = found
    BY <1>2 DEF GiveUp
  <2>5. trouble' \in 0 .. 4 /\ (cause' \in Transients => trouble' = 4)
    BY <1>2, <2>1, SMT DEF GiveUp, LastAttempt
  <2> QED
    BY <2>1, <2>3, <2>4, <2>5, SMT
<1>3. CASE Extracted
  <2>1. PICK time \in 0 .. Timeout : Spend(time)
    BY <1>3 DEF Extracted, Answered
  <2>2. elapsed' \in Nat /\ elapsed' <= 4 * Timeout + 7
    BY <1>3, <2>1, SMT DEF Extracted, Spend, Before, Lost, Paused
  <2> QED
    BY <1>3, <2>2, SMT DEF Extracted, Answered, Before, Lost, Paused
<1>4. CASE Embedded
  <2>1. PICK time \in 0 .. Timeout : Spend(time)
    BY <1>4 DEF Embedded, Answered
  <2>2. elapsed' \in Nat /\ elapsed' <= 8 * Timeout + 14
    BY <1>4, <2>1, SMT DEF Embedded, Spend, Before, Lost, Paused
  <2> QED
    BY <1>4, <2>2, SMT DEF Embedded, Answered
<1>5. CASE Persist
  BY <1>5, SMT DEF Persist
<1>6. CASE Classified
  BY <1>6, SMT DEF Classified, Answered, Spend
<1>7. CASE NextPass
  BY <1>7, SMT DEF NextPass, Before, Lost, Paused
<1>8. CASE UNCHANGED calls
  BY <1>8 DEF calls, Before, Lost, Paused
<1> QED
  BY <1>1, <1>2, <1>3, <1>4, <1>5, <1>6, <1>7, <1>8 DEF CallsNext

LEMMA CallsInvariant == CallsSpec => []CallsInv
  BY CallsInitially, CallsStep, PTL DEF CallsSpec

\* Type correctness of a pass's calls.
THEOREM CallsTypeCorrect == CallsSpec => []CallsTypeOK
<1>1. CallsInv => CallsTypeOK
  BY DEF CallsInv
<1> QED
  BY <1>1, CallsInvariant, PTL

\* The lease outlasts the calls: with a lease of at least twice the longest call
\* (send_with_retry: 123.5 seconds, worker.rs: 300), no pass is still calling
\* a model when its claim may be taken over.
THEOREM CallsEndInLease == CallsSpec => []PassWithinLease
<1>1. CallsInv => PassWithinLease
  BY Budget, SMT DEF CallsInv, CallsTypeOK, PassWithinLease
<1> QED
  BY <1>1, CallsInvariant, PTL

\* A transient failure ends a pass only as the last of MAX_ATTEMPTS in a row.
THEOREM BlipsAreRetried == CallsSpec => []GivesUpForCause
<1>1. CallsInv => GivesUpForCause
  BY DEF CallsInv
<1> QED
  BY <1>1, CallsInvariant, PTL

-----------------------------------------------------------------------------
(* The schedule. *)

\* A worker has a source exactly while it extracts.
Busy ==
  \A w \in Worker :
    IF loop[w].phase = "extract" THEN \E s \in Source : loop[w].work = {s}
    ELSE loop[w].work = {}

Clocked ==
  \A w \in Worker : \A s \in loop[w].work :
    age[s] = loop[w].spent /\ loop[w].spent <= Cost

IInv == ScheduleTypeOK /\ Busy /\ Clocked /\ OneExtraction

USE ScheduleAssumption

-----------------------------------------------------------------------------
(* Types. *)

LEMMA InitType == Init => ScheduleTypeOK
BY DEF Init, ScheduleTypeOK, NewCycle, Loop, Lapsed

LEMMA StepType ==
  ASSUME ScheduleTypeOK, NEW w \in Worker, WorkerStep(w) \/ Crash(w)
  PROVE  ScheduleTypeOK'
<1> USE DEF ScheduleTypeOK, Loop, Lapsed
<1>1. CASE Claim(w)
  BY <1>1 DEF Claim, Claimable
<1>2. CASE Extract(w)
  BY <1>2 DEF Extract
<1>3. CASE NextTenant(w)
  <2>1. loop[w].tenant + 1 \in 1 .. Tenants /\ Batch \in 0 .. Batch
    BY <1>3 DEF NextTenant
  <2>2. [[loop[w] EXCEPT !.tenant = @ + 1] EXCEPT !.left = Batch] \in Loop
    <3>1. loop[w] \in Loop
      OBVIOUS
    <3>2. [loop[w] EXCEPT !.tenant = @ + 1] \in Loop
      BY <2>1, <3>1
    <3> QED BY <2>1, <3>2
  <2> QED BY <1>3, <2>2 DEF NextTenant
<1>4. CASE EndCycle(w)
  <2>0. 1 \in 1 .. Tenants /\ Batch \in 0 .. Batch
        /\ 0 \in 0 .. (IF Cost > Poll THEN Cost ELSE Poll)
    OBVIOUS
  <2>1. NewCycle \in Loop /\ [NewCycle EXCEPT !.phase = "nap"] \in Loop
    BY <2>0 DEF NewCycle
  <2> QED BY <1>4, <2>1 DEF EndCycle
<1>5. CASE WakeUp(w)
  BY <1>5 DEF WakeUp, NewCycle
<1>6. CASE Crash(w)
  BY <1>6 DEF Crash, NewCycle
<1> QED BY <1>1, <1>2, <1>3, <1>4, <1>5, <1>6 DEF WorkerStep

LEMMA TickType == ScheduleTypeOK /\ Tick => ScheduleTypeOK'
<1> SUFFICES ASSUME ScheduleTypeOK, Tick PROVE ScheduleTypeOK'
  OBVIOUS
<1>1. age' \in [Source -> 0 .. Lapsed]
  BY DEF Tick, ScheduleTypeOK, Lapsed
<1>2. ASSUME NEW w \in Worker
      PROVE  [loop[w] EXCEPT !.spent = @ + 1] \in Loop
  <2>1. loop[w] \in Loop
    BY DEF ScheduleTypeOK
  <2>2. loop[w].spent < Cost \/ loop[w].spent < Poll
    BY DEF Tick
  <2>3. loop[w].spent + 1 \in 0 .. (IF Cost > Poll THEN Cost ELSE Poll)
    BY <2>1, <2>2 DEF Loop
  <2> QED BY <2>1, <2>3 DEF Loop
<1> QED BY <1>1, <1>2 DEF Tick, ScheduleTypeOK

LEMMA NextType == ScheduleTypeOK /\ [Next]_vars => ScheduleTypeOK'
<1> SUFFICES ASSUME ScheduleTypeOK, [Next]_vars PROVE ScheduleTypeOK'
  OBVIOUS
<1>1. ASSUME NEW s \in Source, Enqueue(s) PROVE ScheduleTypeOK'
  BY <1>1 DEF Enqueue, ScheduleTypeOK
<1>2. CASE UNCHANGED vars
  BY <1>2 DEF vars, ScheduleTypeOK
<1> QED BY <1>1, <1>2, StepType, TickType DEF Next

\* The worker's loop stays within its batch, its tenants and its clocks.
THEOREM ScheduleTypeCorrect == Spec => []ScheduleTypeOK
BY InitType, NextType, PTL DEF Spec

-----------------------------------------------------------------------------
(* One extraction at a time. *)

LEMMA ClaimKeeps ==
  ASSUME Cost <= Lease, IInv, NEW w \in Worker, Claim(w)
  PROVE  (Busy /\ Clocked /\ OneExtraction)'
<1>1. PICK s \in Claimable(loop[w].tenant) :
        /\ age' = [age EXCEPT ![s] = 0]
        /\ loop' = [loop EXCEPT ![w].phase = "extract", ![w].work = {s},
                                ![w].spent = 0, ![w].left = @ - 1]
  BY DEF Claim
<1>2. s \in Source /\ age[s] > Lease
  BY <1>1 DEF Claimable
<1>3. loop \in [Worker -> Loop] /\ age \in [Source -> 0 .. Lapsed]
  BY DEF IInv, ScheduleTypeOK
<1>4. /\ \A v \in Worker \ {w} : loop'[v] = loop[v]
      /\ loop'[w].phase = "extract" /\ loop'[w].work = {s} /\ loop'[w].spent = 0
  BY <1>1, <1>3 DEF Loop
<1>5. ASSUME NEW v \in Worker \ {w}
      PROVE  s \notin loop[v].work
  BY <1>2, <1>3 DEF IInv, Clocked, Loop, Lapsed
<1>6. Busy'
  BY <1>2, <1>4 DEF IInv, Busy
<1>7. Clocked'
  <2> SUFFICES ASSUME NEW v \in Worker, NEW r \in loop'[v].work
               PROVE  age'[r] = loop'[v].spent /\ loop'[v].spent <= Cost
    BY DEF Clocked
  <2>1. CASE v = w
    BY <2>1, <1>1, <1>2, <1>3, <1>4
  <2>2. CASE v # w
    <3>1. r \in loop[v].work /\ r # s /\ r \in Source
      BY <2>2, <1>3, <1>4, <1>5 DEF Loop
    <3> QED BY <2>2, <3>1, <1>1, <1>3, <1>4 DEF IInv, Clocked
  <2> QED BY <2>1, <2>2
<1>8. OneExtraction'
  <2> SUFFICES ASSUME NEW u \in Worker, NEW v \in Worker, u # v
               PROVE  loop'[u].work \cap loop'[v].work = {}
    BY DEF OneExtraction
  <2>1. CASE u = w \/ v = w
    BY <2>1, <1>4, <1>5
  <2>2. CASE u # w /\ v # w
    BY <2>2, <1>4 DEF IInv, OneExtraction
  <2> QED BY <2>1, <2>2
<1> QED BY <1>6, <1>7, <1>8

\* A worker whose extraction is over, in whatever way, has no source.
LEMMA LeaveKeeps ==
  ASSUME IInv, NEW w \in Worker, age' = age,
         \A v \in Worker \ {w} : loop'[v] = loop[v],
         loop'[w].phase # "extract", loop'[w].work = {}
  PROVE  (Busy /\ Clocked /\ OneExtraction)'
<1>1. Busy'
  BY DEF IInv, Busy
<1>2. Clocked'
  BY DEF IInv, Clocked
<1>3. OneExtraction'
  BY DEF IInv, OneExtraction
<1> QED BY <1>1, <1>2, <1>3

LEMMA WorkerKeeps ==
  ASSUME Cost <= Lease, IInv, NEW w \in Worker, WorkerStep(w) \/ Crash(w)
  PROVE  (Busy /\ Clocked /\ OneExtraction)'
<1>1. loop \in [Worker -> Loop]
  BY DEF IInv, ScheduleTypeOK
<1>2. CASE Extract(w)
  BY <1>1, <1>2, LeaveKeeps DEF Extract, Loop
<1>3. CASE NextTenant(w)
  <2>1. loop[w].work = {}
    BY <1>3 DEF NextTenant, IInv, Busy
  <2> QED BY <1>1, <1>3, <2>1, LeaveKeeps DEF NextTenant, Loop
<1>4. CASE EndCycle(w)
  BY <1>1, <1>4, LeaveKeeps DEF EndCycle, NewCycle
<1>5. CASE WakeUp(w)
  BY <1>1, <1>5, LeaveKeeps DEF WakeUp, NewCycle
<1>6. CASE Crash(w)
  BY <1>1, <1>6, LeaveKeeps DEF Crash, NewCycle
<1> QED BY <1>2, <1>3, <1>4, <1>5, <1>6, ClaimKeeps DEF WorkerStep

LEMMA TickKeeps ==
  ASSUME Cost <= Lease, IInv, Tick
  PROVE  (Busy /\ Clocked /\ OneExtraction)'
<1>1. loop \in [Worker -> Loop] /\ age \in [Source -> 0 .. Lapsed]
  BY DEF IInv, ScheduleTypeOK
<1>2. \A w \in Worker : /\ loop'[w].phase = loop[w].phase
                        /\ loop'[w].work = loop[w].work
                        /\ loop'[w].spent = loop[w].spent + 1
  BY <1>1 DEF Tick, Loop
<1>3. Busy' /\ OneExtraction'
  BY <1>2 DEF IInv, Busy, OneExtraction
<1>4. ASSUME NEW w \in Worker, NEW s \in loop[w].work
      PROVE  age'[s] = loop[w].spent + 1 /\ loop[w].spent + 1 <= Cost
  <2>1. loop[w].phase = "extract" /\ s \in Source
    BY <1>1 DEF IInv, Busy, Loop
  <2>2. loop[w].spent < Cost /\ loop[w].spent \in Nat
    BY <1>1, <2>1 DEF Tick, Loop
  <2>3. age[s] = loop[w].spent
    BY DEF IInv, Clocked
  <2> QED BY <2>1, <2>2, <2>3 DEF Tick, Lapsed
<1>5. Clocked'
  BY <1>2, <1>4 DEF Clocked
<1> QED BY <1>3, <1>5

LEMMA NextKeeps ==
  ASSUME Cost <= Lease
  PROVE  IInv /\ [Next]_vars => IInv'
<1> SUFFICES ASSUME IInv, [Next]_vars PROVE (Busy /\ Clocked /\ OneExtraction)'
  BY NextType DEF IInv
<1>1. ASSUME NEW s \in Source, Enqueue(s)
      PROVE  (Busy /\ Clocked /\ OneExtraction)'
  BY <1>1 DEF Enqueue, IInv, Busy, Clocked, OneExtraction
<1>2. CASE UNCHANGED vars
  BY <1>2 DEF vars, IInv, Busy, Clocked, OneExtraction
<1> QED BY <1>1, <1>2, WorkerKeeps, TickKeeps DEF Next

\* claim_pending_source and the lease of worker.rs: with a lease as long as the
\* longest extraction no model call is paid for twice, whatever workers die.
THEOREM OneWorkerExtracts ==
  ASSUME Cost <= Lease
  PROVE  Spec => []OneExtraction
<1>1. Init => IInv
  BY InitType DEF Init, IInv, Busy, Clocked, OneExtraction, NewCycle
<1>2. IInv /\ [Next]_vars => IInv'
  BY NextKeeps
<1>3. IInv => OneExtraction
  BY DEF IInv
<1> QED BY <1>1, <1>2, <1>3, PTL DEF Spec

-----------------------------------------------------------------------------
(* The two side by side, as the runs check them. *)

LEMMA RestingCalls == CallsRest => CallsInv
BY Budget, CallsAssumption
   DEF CallsRest, CallsInv, CallsTypeOK, MaxAttempts, GivesUpForCause, Transients,
       Failures

LEMMA SideBySide == MCNext => [Next]_vars /\ [CallsNext]_calls
BY DEF MCNext, Loops, Next, CallsNext

\* Every variable of a worker's loop and of its pass's calls keeps its type.
THEOREM WorkerTypeCorrect == MCSpec => []TypeOK
<1>1. MCInit => ScheduleTypeOK /\ CallsInv
  BY InitType, CallsInitially, RestingCalls DEF MCInit
<1>2. ScheduleTypeOK /\ CallsInv /\ [MCNext]_<<vars, calls>> =>
        (ScheduleTypeOK /\ CallsInv)'
  BY NextType, CallsStep, SideBySide DEF vars, calls
<1>3. ScheduleTypeOK /\ CallsInv => TypeOK
  BY DEF TypeOK, CallsInv
<1> QED BY <1>1, <1>2, <1>3, PTL DEF MCSpec
=============================================================================
