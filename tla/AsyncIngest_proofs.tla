------------------------- MODULE AsyncIngest_proofs -------------------------
(***************************************************************************)
(* Proofs about AsyncIngest and Forgetting, for any keys, callers, workers, *)
(* lease, retry and clock bounds.  The invariants the runs check are not   *)
(* inductive: what keeps a source from being extracted twice is that a     *)
(* process about to commit holds the row lock of its key and, if it is a   *)
(* worker, the claim; what keeps claims apart is that the stamps on a row  *)
(* only grow; and what keeps a forget from being reported twice is that    *)
(* the forget that has tombstoned rows is alone with them.                 *)
(***************************************************************************)
EXTENDS Forgetting, TLAPS

\* A claim is on a pending row and was stamped in the past.
StampsValid ==
  \A k \in Key : source[k].claimedAt # Never =>
    source[k].state = "pending" /\ source[k].claimedAt <= clock

\* A caller with an open transaction holds the row it is about to create.
CallerHolds ==
  \A c \in Caller :
    /\ pc[c] \notin {"claim", "mark"}
    /\ job[c].mode # "pass"
    /\ pc[c] \in {"persist", "commit"} =>
         /\ source[job[c].key].state = "absent"
         /\ rowLock[job[c].key] = c

\* A pass works on an accepted source, whose present claim is not older.
PassAccepted ==
  \A w \in Worker :
    /\ pc[w] # "insert"
    /\ pc[w] # "idle" => job[w].claim <= clock
    /\ Working(w) =>
         \/ source[job[w].key].state = "done"
         \/ /\ source[job[w].key].state = "pending"
            /\ source[job[w].key].claimedAt # Never
            /\ job[w].claim <= source[job[w].key].claimedAt

\* A pass about to commit holds the row and the claim.
PassHolds ==
  \A w \in Worker :
    pc[w] = "commit" =>
      /\ source[job[w].key].state = "pending"
      /\ rowLock[job[w].key] = w
      /\ ClaimHeld(w)

IInv ==
  /\ TypeOK
  /\ StampsValid
  /\ CallerHolds
  /\ PassAccepted
  /\ PassHolds
  /\ ExactlyOnce
  /\ ClaimExclusive
  /\ PromptPassKeepsClaim

-----------------------------------------------------------------------------

LEMMA UnusedInJob == Unused \in Job
BY IngestAssumption DEF Unused, Job, Mode

LEMMA InitInv == Init => IInv
<1> SUFFICES ASSUME Init PROVE IInv
  OBVIOUS
<1>1. TypeOK
  BY UnusedInJob, IngestAssumption DEF Init, TypeOK, Source, Never
<1>2. job \in [Process -> Job] /\ \A p \in Process : job[p].mode = "sync"
  BY UnusedInJob DEF Init, Unused
<1> QED
  BY <1>1, <1>2 DEF Init, IInv, StampsValid, CallerHolds, PassAccepted, PassHolds,
    ExactlyOnce, ClaimExclusive, PromptPassKeepsClaim, Working, Process

(***************************************************************************)
(* One step per action.  The actions that touch neither a source row nor a *)
(* row lock go through at once; Claim and the two commits are taken apart  *)
(* by the conjuncts they can disturb.                                      *)
(***************************************************************************)
LEMMA StepInv == IInv /\ [Next]_vars => IInv'
<1> SUFFICES ASSUME IInv, [Next]_vars PROVE IInv'
  OBVIOUS
<1> USE IngestAssumption
    DEF Process, Never, Goto, Release, Working, ClaimHeld, IInv, TypeOK, Source,
        Job, Mode, StampsValid, CallerHolds, PassAccepted, PassHolds, ExactlyOnce,
        ClaimExclusive, PromptPassKeepsClaim
<1>1. CASE Tick
  BY <1>1 DEF Tick
<1>2. ASSUME NEW c \in Caller, NEW k \in Key, NEW mode \in Mode,
             Request(c, k, mode)
      PROVE  IInv'
  BY <1>2 DEF Request
<1>3. ASSUME NEW c \in Caller, Extract(c) PROVE IInv'
  BY <1>3 DEF Extract
<1>4. ASSUME NEW c \in Caller, InsertSource(c) PROVE IInv'
  BY <1>4 DEF InsertSource
<1>5. ASSUME NEW c \in Caller, SkipDuplicate(c) PROVE IInv'
  BY <1>5 DEF SkipDuplicate
<1>6. ASSUME NEW c \in Caller, Persist(c) PROVE IInv'
  <2>1. /\ pc[c] = "persist"
        /\ UNCHANGED <<source, batches, clock>>
        /\ \A p \in Process : job'[p].key = job[p].key /\ job'[p].mode = job[p].mode
                               /\ job'[p].claim = job[p].claim
        /\ job' \in [Process -> Job]
    BY <1>6 DEF Persist, Retry
  <2>2. \/ pc' = [pc EXCEPT ![c] = "commit"] /\ UNCHANGED <<rowLock, keyShare>>
        \/ \E l \in {"insert", "idle"} :
             Release(c) /\ pc' = [pc EXCEPT ![c] = l]
    BY <1>6 DEF Persist, Retry
  <2>3. CASE pc' = [pc EXCEPT ![c] = "commit"] /\ UNCHANGED <<rowLock, keyShare>>
    BY <2>1, <2>3
  <2>4. ASSUME NEW l \in {"insert", "idle"}, Release(c), pc' = [pc EXCEPT ![c] = l]
        PROVE  IInv'
    <3>1. TypeOK'
      BY <2>1, <2>4
    <3>2. StampsValid' /\ ExactlyOnce' /\ CallerHolds'
      BY <2>1, <2>4
    <3>3. PassAccepted' /\ PassHolds'
      BY <2>1, <2>4
    <3>4. ClaimExclusive' /\ PromptPassKeepsClaim'
      BY <2>1, <2>4
    <3> QED
      BY <3>1, <3>2, <3>3, <3>4
  <2> QED
    BY <2>2, <2>3, <2>4
<1>7. ASSUME NEW c \in Caller, CommitAdd(c) PROVE IInv'
  <2> DEFINE k == job[c].key
             new == IF job[c].mode = "dynamic" THEN "pending" ELSE "done"
  <2>1. /\ k \in Key /\ source[k].state = "absent" /\ rowLock[k] = c
        /\ source[k].claimedAt = Never /\ batches[k] = 0
    BY <1>7 DEF CommitAdd
  <2>2. /\ source' \in [Key -> Source]
        /\ source'[k].state = new /\ source'[k].claimedAt = Never
        /\ \A j \in Key \ {k} : source'[j] = source[j]
    BY <1>7, <2>1 DEF CommitAdd
  <2>3. /\ batches' \in [Key -> Nat]
        /\ batches'[k] = IF job[c].mode = "dynamic" THEN 0 ELSE 1
        /\ \A j \in Key \ {k} : batches'[j] = batches[j]
    BY <1>7, <2>1 DEF CommitAdd
  <2>4. /\ rowLock' = [j \in Key |-> IF rowLock[j] = c THEN NoOne ELSE rowLock[j]]
        /\ keyShare' = keyShare \ {c} /\ pc' = [pc EXCEPT ![c] = "idle"]
        /\ UNCHANGED <<job, clock>>
    BY <1>7 DEF CommitAdd
  <2>5. TypeOK'
    BY <2>1, <2>2, <2>3, <2>4
  <2>6. StampsValid' /\ ExactlyOnce'
    <3> SUFFICES ASSUME NEW j \in Key
                 PROVE  /\ source'[j].claimedAt # Never =>
                             source'[j].state = "pending" /\ source'[j].claimedAt <= clock
                        /\ batches'[j] = IF source'[j].state = "done" THEN 1 ELSE 0
      BY <2>4
    <3>1. CASE j = k
      BY <3>1, <2>2, <2>3
    <3>2. CASE j # k
      BY <3>2, <2>2, <2>3
    <3> QED
      BY <3>1, <3>2
  <2>7. CallerHolds'
    <3> SUFFICES ASSUME NEW d \in Caller \ {c}, pc[d] \in {"persist", "commit"}
                 PROVE  job[d].key # k
      BY <2>2, <2>4
    <3> QED
      BY <2>1
  <2>8. \A w \in Worker : Working(w) => job[w].key # k
    BY <2>1
  <2>9. PassAccepted' /\ PassHolds'
    BY <2>1, <2>2, <2>4, <2>8
  <2>10. ClaimExclusive' /\ PromptPassKeepsClaim'
    BY <2>1, <2>2, <2>4, <2>8
  <2> QED
    BY <2>5, <2>6, <2>7, <2>9, <2>10
<1>8. ASSUME NEW w \in Worker, BeginClaim(w) PROVE IInv'
  <2>1. /\ pc' = [pc EXCEPT ![w] = "claim"]
        /\ UNCHANGED <<source, batches, rowLock, keyShare, clock>>
    BY <1>8 DEF BeginClaim
  <2>2. /\ job' \in [Process -> Job] /\ job'[w].claim = clock
        /\ \A p \in Process \ {w} : job'[p] = job[p]
    <3> DEFINE new == [key |-> job[w].key, mode |-> "pass", claim |-> clock,
                       attempt |-> 0]
    <3>1. new \in Job /\ new.claim = clock
      OBVIOUS
    <3>2. job' = [job EXCEPT ![w] = new]
      BY <1>8 DEF BeginClaim
    <3> HIDE DEF new
    <3> QED
      BY <3>1, <3>2
  <2> QED
    BY <2>1, <2>2
<1>9. ASSUME NEW w \in Worker, NEW k \in Key, Claim(w, k) PROVE IInv'
  <2>1. /\ pc[w] = "claim" /\ source[k].state = "pending" /\ rowLock[k] = NoOne
        /\ \/ source[k].claimedAt = Never
           \/ source[k].claimedAt + Lease < job[w].claim
    BY <1>9 DEF Claim, Claimable, LeaseLapsed, Unlocked
  <2>2. /\ source' = [source EXCEPT ![k].claimedAt = job[w].claim]
        /\ job' = [job EXCEPT ![w].key = k]
        /\ pc' = [pc EXCEPT ![w] = "extract"]
        /\ UNCHANGED <<batches, rowLock, keyShare, clock>>
    BY <1>9 DEF Claim
  <2>3. /\ job' \in [Process -> Job] /\ source' \in [Key -> Source]
        /\ job'[w].key = k /\ job'[w].claim = job[w].claim
        /\ \A p \in Process \ {w} : job'[p] = job[p]
        /\ \A p \in Process : job'[p].claim = job[p].claim /\ job'[p].mode = job[p].mode
    BY <2>2
  <2>4. /\ \A j \in Key : source'[j].state = source[j].state
        /\ \A j \in Key \ {k} : source'[j] = source[j]
        /\ source'[k].claimedAt = job[w].claim
    BY <2>2
  <2>5. TypeOK'
    BY <2>2, <2>3
  <2>6. StampsValid' /\ ExactlyOnce'
    BY <2>1, <2>2, <2>4
  <2>7. CallerHolds'
    BY <2>2, <2>3, <2>4
  \* The stamps on the row only grow, by more than a lease.
  <2>8. \A u \in Worker \ {w} : Working(u) /\ job[u].key = k =>
          job[u].claim + Lease < job[w].claim
    BY <2>1
  <2>9. PassAccepted'
    BY <2>1, <2>2, <2>3, <2>4, <2>8
  <2>10. PassHolds'
    BY <2>1, <2>2, <2>3, <2>4
  <2>11. ClaimExclusive'
    BY <2>1, <2>2, <2>3, <2>8
  <2>12. PromptPassKeepsClaim'
    BY <2>1, <2>2, <2>3, <2>4, <2>8
  <2> QED
    BY <2>5, <2>6, <2>7, <2>9, <2>10, <2>11, <2>12
<1>10. ASSUME NEW w \in Worker, NothingPending(w) PROVE IInv'
  BY <1>10 DEF NothingPending
<1>11. ASSUME NEW w \in Worker, ExtractClaimed(w) PROVE IInv'
  BY <1>11 DEF ExtractClaimed
<1>12. ASSUME NEW w \in Worker, PersistClaimed(w) PROVE IInv'
  <2>1. CASE /\ keyShare' \in {keyShare, keyShare \cup {w}}
             /\ Goto(w, "mark")
             /\ UNCHANGED <<source, batches, rowLock, job, clock>>
    BY <1>12, <2>1 DEF PersistClaimed
  <2>2. CASE Retry(w, "persist")
    <3>1. /\ pc[w] = "persist" /\ UNCHANGED <<source, batches, clock>>
          /\ \A p \in Process : job'[p].key = job[p].key /\ job'[p].mode = job[p].mode
                                 /\ job'[p].claim = job[p].claim
          /\ job' \in [Process -> Job]
      <4>1. pc[w] = "persist"
        BY <1>12 DEF PersistClaimed
      <4>2. /\ \/ job' = job
               \/ /\ job[w].attempt + 1 < MaxRetries
                  /\ job' = [job EXCEPT ![w].attempt = @ + 1]
            /\ UNCHANGED <<source, batches, clock>>
        <5> HIDE DEF IInv, Goto, Release
        <5> QED BY <2>2 DEF Retry
      <4>3. job \in [Process -> Job]
        OBVIOUS
      <4> HIDE DEF IInv
      <4> QED BY <4>1, <4>2, <4>3
    <3>0. Release(w) /\ (Goto(w, "persist") \/ Goto(w, "idle"))
      <4> HIDE DEF IInv, Goto, Release
      <4> QED BY <2>2 DEF Retry
    <3>2. /\ rowLock' \in [Key -> Process \cup {NoOne}] /\ keyShare' \subseteq Worker
          /\ \A j \in Key : rowLock[j] # w => rowLock'[j] = rowLock[j]
          /\ pc' \in [Process -> {"idle", "extract", "insert", "claim", "persist", "mark",
                                 "commit"}]
          /\ pc'[w] \in {"persist", "idle"}
          /\ \A u \in Process \ {w} : pc'[u] = pc[u]
      <4>1. /\ rowLock \in [Key -> Process \cup {NoOne}] /\ keyShare \subseteq Worker
            /\ pc \in [Process -> {"idle", "extract", "insert", "claim", "persist", "mark",
                                   "commit"}]
        OBVIOUS
      <4> HIDE DEF IInv
      <4> QED BY <3>0, <4>1
    <3>3. TypeOK'
      <4>1. TypeOK
        OBVIOUS
      <4> HIDE DEF IInv
      <4> QED BY <3>1, <3>2, <4>1
    <3>7. \A u \in Worker :
            /\ Working(u)' => Working(u)
            /\ pc'[u] # "idle" => pc[u] # "idle"
            /\ pc'[u] \in {"insert", "commit"} => pc'[u] = pc[u] /\ u # w
      <4> HIDE DEF IInv
      <4> QED BY <3>1, <3>2
    <3>4. StampsValid' /\ ExactlyOnce' /\ CallerHolds'
      BY <3>1, <3>2
    <3>5. PassAccepted' /\ PassHolds'
      <4> HIDE DEF Working
      <4> QED BY <3>1, <3>2, <3>7
    <3>6. ClaimExclusive' /\ PromptPassKeepsClaim'
      <4> HIDE DEF Working
      <4> QED BY <3>1, <3>7
    <3> QED BY <3>3, <3>4, <3>5, <3>6
  <2>3. \/ /\ keyShare' \in {keyShare, keyShare \cup {w}}
           /\ Goto(w, "mark")
           /\ UNCHANGED <<source, batches, rowLock, job, clock>>
        \/ Retry(w, "persist")
    <3> HIDE DEF IInv, Goto
    <3> QED BY <1>12 DEF PersistClaimed
  <2> HIDE DEF IInv, Goto
  <2> QED BY <2>1, <2>2, <2>3
<1>13. ASSUME NEW w \in Worker, MarkExtracted(w) PROVE IInv'
  <2>1. /\ pc[w] = "mark" /\ ClaimHeld(w) /\ rowLock[job[w].key] = NoOne
        /\ rowLock' = [rowLock EXCEPT ![job[w].key] = w]
        /\ pc' = [pc EXCEPT ![w] = "commit"]
        /\ UNCHANGED <<source, batches, keyShare, job, clock>>
    BY <1>13 DEF MarkExtracted
  <2>2. TypeOK'
    BY <2>1
  <2>3. StampsValid' /\ ExactlyOnce' /\ CallerHolds'
    BY <2>1
  <2>4. PassAccepted' /\ PassHolds'
    BY <2>1
  <2>5. ClaimExclusive' /\ PromptPassKeepsClaim'
    BY <2>1
  <2> QED BY <2>2, <2>3, <2>4, <2>5
<1>14. ASSUME NEW w \in Worker, LoseClaim(w) PROVE IInv'
  BY <1>14 DEF LoseClaim
<1>15. ASSUME NEW w \in Worker, CommitPass(w) PROVE IInv'
  BY <1>15 DEF CommitPass
<1>16. ASSUME NEW p \in Process, Abandon(p) PROVE IInv'
  BY <1>16 DEF Abandon
<1>17. ASSUME NEW c \in Caller, ChunkAndEmbed(c) PROVE IInv'
  BY <1>17 DEF ChunkAndEmbed
<1>18. ASSUME NEW c \in Caller, PersistDocument(c) PROVE IInv'
  BY <1>18 DEF PersistDocument
<1>19. CASE UNCHANGED vars
  BY <1>19 DEF vars
<1> HIDE DEF IInv
<1> QED
  BY <1>1, <1>2, <1>3, <1>4, <1>5, <1>6, <1>7, <1>8, <1>9, <1>10, <1>11,
     <1>12, <1>13, <1>14, <1>15, <1>16, <1>17, <1>18, <1>19
  DEF Next, CallerStep, WorkerStep

LEMMA Invariance == Spec => []IInv
BY InitInv, StepInv, PTL DEF Spec

-----------------------------------------------------------------------------

\* Every variable keeps its type; in particular no request is retried more
\* than MAX_CONFLICT_RETRIES times.
THEOREM TypeCorrect == Spec => []TypeOK
BY Invariance, PTL DEF IInv

\* The memories of an idempotency key are committed at most once, and exactly
\* when its source is marked extracted (persist, persist_into_source).
THEOREM IngestedExactlyOnce == Spec => []ExactlyOnce
BY Invariance, PTL DEF IInv

\* Passes that work on one source at the same time carry different claims, so
\* the claimed_at guard of mark_source_extracted_tx lets one of them through.
THEOREM ClaimsDiffer == Spec => []ClaimExclusive
BY Invariance, PTL DEF IInv

\* A pass loses its claim only after its lease (process_pending).
THEOREM LeaseProtects == Spec => []PromptPassKeepsClaim
BY Invariance, PTL DEF IInv

-----------------------------------------------------------------------------
(* Refinement. *)

LEMMA InitRefines == Init => Once!Init
BY DEF Init, Once!Init, Status

\* Only the two commits are visible to the abstract specification.
LEMMA StepRefines == IInv /\ [Next]_vars => [Once!Next]_(Once!once)
<1> SUFFICES ASSUME IInv, [Next]_vars PROVE [Once!Next]_(Once!once)
  OBVIOUS
<1> DEFINE status == [k \in Key |-> Status(source[k].state)]
<1>1. ASSUME NEW c \in Caller, CommitAdd(c) PROVE Once!Next
  <2> DEFINE k == job[c].key
  <2>1. k \in Key /\ source[k].state = "absent"
    BY <1>1 DEF CommitAdd, IInv, TypeOK, Job, Process, CallerHolds
  <2>2. status[k] = "absent"
    BY <2>1 DEF Status
  <2>3. CASE job[c].mode # "dynamic"
    <3>1. source' = [source EXCEPT ![k].state = "done"]
          /\ batches' = [batches EXCEPT ![k] = @ + 1]
      BY <1>1, <2>3 DEF CommitAdd
    <3>2. status' = [status EXCEPT ![k] = "ingested"]
      BY <2>1, <3>1 DEF IInv, TypeOK, Source, Status
    <3>3. Once!Ingest(k)
      BY <2>2, <3>1, <3>2 DEF Once!Ingest
    <3> QED
      BY <2>1, <3>3 DEF Once!Next
  <2>4. CASE job[c].mode = "dynamic"
    <3>1. source' = [source EXCEPT ![k].state = "pending"] /\ UNCHANGED batches
      BY <1>1, <2>4 DEF CommitAdd
    <3>2. status' = [status EXCEPT ![k] = "queued"]
      BY <2>1, <3>1 DEF IInv, TypeOK, Source, Status
    <3>3. Once!Accept(k)
      BY <2>2, <3>1, <3>2 DEF Once!Accept
    <3> QED
      BY <2>1, <3>3 DEF Once!Next
  <2> QED
    BY <2>3, <2>4
<1>2. ASSUME NEW w \in Worker, CommitPass(w) PROVE Once!Next
  <2> DEFINE k == job[w].key
  <2>1. k \in Key /\ source[k].state = "pending"
    BY <1>2 DEF CommitPass, IInv, TypeOK, Job, Process, PassHolds
  <2>2. status[k] # "ingested"
    BY <2>1 DEF Status
  <2>3. source' = [source EXCEPT ![k] = [state |-> "done", claimedAt |-> Never]]
        /\ batches' = [batches EXCEPT ![k] = @ + 1]
    BY <1>2 DEF CommitPass
  <2>4. status' = [status EXCEPT ![k] = "ingested"]
    BY <2>1, <2>3 DEF IInv, TypeOK, Source, Status
  <2>5. Once!Ingest(k)
    BY <2>2, <2>3, <2>4 DEF Once!Ingest
  <2> QED
    BY <2>1, <2>5 DEF Once!Next
<1>3. ASSUME NEW w \in Worker, NEW k \in Key, Claim(w, k)
      PROVE  UNCHANGED Once!once
  <2>1. source' = [source EXCEPT ![k].claimedAt = job[w].claim] /\ UNCHANGED batches
    BY <1>3 DEF Claim
  <2>2. \A j \in Key : source'[j].state = source[j].state
    BY <2>1 DEF IInv, TypeOK, Source
  <2> QED
    BY <2>1, <2>2 DEF Once!once
<1>4. ASSUME UNCHANGED <<source, batches>> PROVE UNCHANGED Once!once
  BY <1>4 DEF Once!once
<1>5. CASE Next
  BY <1>1, <1>2, <1>3, <1>4, <1>5
  DEF Next, Tick, CallerStep, WorkerStep, Request, Extract, ChunkAndEmbed,
      InsertSource, SkipDuplicate, Persist, PersistDocument, Retry, Abandon, BeginClaim, NothingPending,
      ExtractClaimed, PersistClaimed, MarkExtracted, LoseClaim
<1>6. CASE UNCHANGED vars
  BY <1>4, <1>6 DEF vars
<1> QED
  BY <1>5, <1>6

\* The leases, locks, retries and crashes implement the promise of IngestOnce.
THEOREM ImplementsIngestOnce == Spec => ImplementsOnce
BY InitRefines, Invariance, StepRefines, PTL DEF Spec, ImplementsOnce, Once!Spec

-----------------------------------------------------------------------------
(* Forgetting. *)

ForgetTypeOK ==
  /\ active \in [Key -> Nat] /\ forgets \in [Key -> Nat]
  /\ erasing \in [Caller -> [key : Key, step : {"none", "update", "commit"}]]

\* What is active or has been forgotten was committed once; a forget about to
\* commit has rows to report, and nobody else has tombstoned them.
ForgetInv ==
  /\ ForgetTypeOK
  /\ \A k \in Key : active[k] + forgets[k] <= batches[k]
  /\ \A c \in Caller : erasing[c].step = "commit" =>
       /\ active[erasing[c].key] > 0
       /\ \A d \in Caller \ {c} :
            erasing[d].step = "commit" => erasing[d].key # erasing[c].key

LEMMA NoForgetTyped == NoForget \in [key : Key, step : {"none", "update", "commit"}]
BY UnusedInJob DEF NoForget, Job

LEMMA BatchesGrow ==
  ASSUME TypeOK, Next
  PROVE  \A k \in Key : batches[k] \in Nat /\ batches'[k] \in Nat
                        /\ batches[k] <= batches'[k]
<1>1. \/ UNCHANGED batches
      \/ \E k \in Key : batches' = [batches EXCEPT ![k] = @ + 1]
  <2>1. ASSUME NEW p \in Process
        PROVE  job[p].key \in Key
    BY DEF TypeOK, Job
  <2> QED
    BY <2>1
    DEF Next, Tick, CallerStep, WorkerStep, Request, Extract, ChunkAndEmbed,
        InsertSource, SkipDuplicate, Persist, PersistDocument, Retry, Abandon,
        CommitAdd, BeginClaim, Claim, NothingPending, ExtractClaimed, PersistClaimed,
        MarkExtracted, LoseClaim, CommitPass, Process
<1> QED
  BY <1>1 DEF TypeOK

LEMMA IngestKeeps ==
  ASSUME TypeOK, ForgetInv, Ingest
  PROVE  ForgetInv'
<1>1. PICK yield \in {0, 1} :
        active' = [ k \in Key |->
                      IF \E p \in Process : /\ pc[p] = "commit" /\ pc'[p] = "idle"
                                            /\ job[p].key = k
                                            /\ job[p].mode # "document"
                      THEN active[k] + yield * (batches'[k] - batches[k])
                      ELSE active[k] ]
  BY DEF Ingest
<1>2. forgets' = forgets /\ erasing' = erasing
  BY DEF Ingest
<1>3. ASSUME NEW k \in Key
      PROVE  /\ active'[k] \in Nat /\ active[k] <= active'[k]
             /\ active'[k] - active[k] <= batches'[k] - batches[k]
  <2>1. /\ batches[k] \in Nat /\ batches'[k] \in Nat /\ batches[k] <= batches'[k]
        /\ active[k] \in Nat
    BY BatchesGrow DEF Ingest, ForgetInv, ForgetTypeOK
  <2>2. active'[k] \in {active[k], active[k] + yield * (batches'[k] - batches[k])}
    BY <1>1
  <2>3. yield * (batches'[k] - batches[k]) \in {0, batches'[k] - batches[k]}
    BY <2>1
  <2> QED
    BY <2>1, <2>2, <2>3
<1>4. ForgetTypeOK'
  BY <1>1, <1>2, <1>3 DEF ForgetInv, ForgetTypeOK
<1>5. ASSUME NEW k \in Key
      PROVE  active'[k] + forgets'[k] <= batches'[k]
  <2>1. active[k] + forgets[k] <= batches[k] /\ forgets[k] \in Nat /\ active[k] \in Nat
    BY DEF ForgetInv, ForgetTypeOK
  <2>2. batches[k] \in Nat /\ batches'[k] \in Nat
    BY BatchesGrow DEF Ingest
  <2> QED
    BY <1>2, <1>3, <2>1, <2>2
<1>6. ASSUME NEW c \in Caller, erasing[c].step = "commit"
      PROVE  active'[erasing[c].key] > 0
  <2>1. erasing[c].key \in Key /\ active[erasing[c].key] > 0
        /\ active[erasing[c].key] \in Nat
    BY <1>6 DEF ForgetInv, ForgetTypeOK
  <2> QED
    BY <1>3, <2>1
<1> QED
  BY <1>2, <1>4, <1>5, <1>6 DEF ForgetInv

\* A forget takes its rows away, or changes only what it is doing.
LEMMA ForgetKeeps ==
  ASSUME TypeOK, ForgetInv, NEW c \in Caller,
         \/ \E k \in Key : Find(c, k)
         \/ Tombstone(c) \/ CommitForget(c) \/ AbandonForget(c)
  PROVE  ForgetInv'
<1> USE DEF ForgetInv, ForgetTypeOK
<1>1. ASSUME NEW k \in Key, Find(c, k) PROVE ForgetInv'
  BY <1>1 DEF Find, vars
<1>2. CASE Tombstone(c)
  BY <1>2, NoForgetTyped DEF Tombstone, RowsFree, NoForget, vars
<1>3. CASE CommitForget(c)
  <2> DEFINE k == erasing[c].key
  <2>1. /\ k \in Key /\ active[k] \in Nat /\ active[k] > 0 /\ forgets[k] \in Nat
        /\ active[k] + forgets[k] <= batches[k]
    BY <1>3 DEF CommitForget
  <2>2. /\ active' = [active EXCEPT ![k] = 0]
        /\ forgets' = [forgets EXCEPT ![k] = @ + 1]
        /\ erasing' = [erasing EXCEPT ![c] = NoForget]
        /\ batches' = batches
    BY <1>3 DEF CommitForget, vars
  <2>3. active'[k] = 0 /\ forgets'[k] = forgets[k] + 1
    BY <2>1, <2>2
  <2>4. ForgetTypeOK'
    BY <2>1, <2>2, NoForgetTyped
  <2>5. \A j \in Key \ {k} : active'[j] = active[j] /\ forgets'[j] = forgets[j]
    BY <2>2
  <2>6. ASSUME NEW j \in Key
        PROVE  active'[j] + forgets'[j] <= batches'[j]
    <3>1. CASE j = k
      <4>1. batches[k] \in Nat
        BY <2>1 DEF TypeOK
      <4> QED
        BY <3>1, <4>1, <2>1, <2>2, <2>3
    <3>2. CASE j # k
      BY <3>2, <2>2, <2>5
    <3> QED
      BY <3>1, <3>2
  <2>7. ASSUME NEW d \in Caller, erasing'[d].step = "commit"
        PROVE  /\ erasing'[d] = erasing[d] /\ erasing[d].step = "commit"
               /\ erasing[d].key \in Key /\ erasing[d].key # k
    BY <1>3, <2>2, <2>7 DEF NoForget, CommitForget
  <2>8. ASSUME NEW d \in Caller, erasing'[d].step = "commit"
        PROVE  /\ active'[erasing'[d].key] > 0
               /\ \A e \in Caller \ {d} :
                    erasing'[e].step = "commit" => erasing'[e].key # erasing'[d].key
    BY <2>5, <2>7, <2>8
  <2> HIDE DEF k
  <2> QED
    BY <2>4, <2>6, <2>8
<1>4. CASE AbandonForget(c)
  BY <1>4, NoForgetTyped DEF AbandonForget, NoForget, vars
<1> QED
  BY <1>1, <1>2, <1>3, <1>4

\* Forgets leave what AsyncIngest describes alone, so all that is proved of it
\* holds with callers forgetting.
THEOREM ForgettingIngests == ForgetSpec => Spec
<1>1. ForgetInit => Init
  BY DEF ForgetInit
<1>2. [ForgetNext]_forgetVars => [Next]_vars
  BY DEF ForgetNext, Ingest, Find, Tombstone, CommitForget, AbandonForget, forgetVars
<1> QED
  BY <1>1, <1>2, PTL DEF ForgetSpec, Spec

LEMMA ForgetInvariance == ForgetSpec => []ForgetInv
<1>1. ForgetInit => ForgetInv
  BY NoForgetTyped DEF ForgetInit, Init, ForgetInv, ForgetTypeOK, NoForget
<1>2. TypeOK /\ ForgetInv /\ [ForgetNext]_forgetVars => ForgetInv'
  <2> SUFFICES ASSUME TypeOK, ForgetInv, [ForgetNext]_forgetVars PROVE ForgetInv'
    OBVIOUS
  <2>1. CASE UNCHANGED forgetVars
    BY <2>1 DEF forgetVars, vars, ForgetInv, ForgetTypeOK
  <2> QED
    BY <2>1, IngestKeeps, ForgetKeeps DEF ForgetNext
<1> QED
  BY <1>1, <1>2, ForgettingIngests, TypeCorrect, PTL DEF ForgetSpec

\* The memories of a custom_id are reported forgotten by at most one forget, and
\* no repeated add, lapsed worker or second forget brings them back
\* (forget_source_memories_tx, the UPDATE that checks the status again).
THEOREM ForgetIsFinal == ForgetSpec => []ForgottenForGood
<1>1. TypeOK /\ ForgetInv /\ ExactlyOnce => ForgottenForGood
  <2> SUFFICES ASSUME TypeOK, ForgetInv, ExactlyOnce, NEW k \in Key
               PROVE  active[k] + forgets[k] <= 1
    BY DEF ForgottenForGood
  <2>1. batches[k] \in {0, 1}
    BY DEF ExactlyOnce
  <2> QED
    BY <2>1 DEF ForgetInv, ForgetTypeOK
<1> QED
  BY <1>1, ForgetInvariance, ForgettingIngests, TypeCorrect, IngestedExactlyOnce, PTL
=============================================================================
