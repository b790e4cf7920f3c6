----------------------------- MODULE Forgetting -----------------------------
(***************************************************************************)
(* Engine::forget (by custom_id) among the adds, enqueues, repeats, passes *)
(* and crashes of AsyncIngest.  Callers re-issue a forget whenever they    *)
(* like; a pass whose lease has lapsed may still be about to commit.       *)
(***************************************************************************)
EXTENDS AsyncIngest

VARIABLES
  active,   \* commits of each key whose memories are active
  forgets,  \* forgets of each key that answered with memories
  erasing   \* the forget each caller has open: none, or its key and step

forgetVars == <<vars, active, forgets, erasing>>

NoForget == [key |-> Unused.key, step |-> "none"]

ForgetInit ==
  /\ Init
  /\ active = [k \in Key |-> 0]
  /\ forgets = [k \in Key |-> 0]
  /\ erasing = [c \in Caller |-> NoForget]

\* A step of AsyncIngest.  A commit that is not a document's leaves memories
\* behind, unless its extraction found nothing that was not known already.
Ingest ==
  /\ Next
  /\ \E yield \in {0, 1} :
       active' = [ k \in Key |->
                     IF \E p \in Process : /\ pc[p] = "commit" /\ pc'[p] = "idle"
                                           /\ job[p].key = k
                                           /\ job[p].mode # "document"
                     THEN active[k] + yield * (batches'[k] - batches[k])
                     ELSE active[k] ]
  /\ \A c \in Caller : pc'[c] # "idle" => erasing[c].step = "none"
  /\ UNCHANGED <<forgets, erasing>>

-----------------------------------------------------------------------------

\* The snapshot of forget_source_memories_tx.  An unknown custom_id, one still
\* to be extracted and one already forgotten all answer with no ids.
Find(c, k) ==
  /\ pc[c] = "idle" /\ erasing[c].step = "none"
  /\ active[k] > 0
  /\ erasing' = [erasing EXCEPT ![c] = [key |-> k, step |-> "update"]]
  /\ UNCHANGED <<vars, active, forgets>>

\* Nobody else has tombstoned the rows and not ended.
RowsFree(c) ==
  \A d \in Caller \ {c} :
    erasing[d].key = erasing[c].key => erasing[d].step # "commit"

\* Faulty variant: no m.status = 'active', what is forgotten is found again.
TombstoneAgain(c) ==
  /\ erasing[c].step = "update"
  /\ RowsFree(c)
  /\ erasing' = [erasing EXCEPT ![c].step = "commit"]
  /\ UNCHANGED <<vars, active, forgets>>

\* The UPDATE waits for the rows and checks their status again.
Tombstone(c) ==
  /\ erasing[c].step = "update"
  /\ RowsFree(c)
  /\ erasing' = [erasing EXCEPT ![c] =
                   IF active[@.key] > 0 THEN [@ EXCEPT !.step = "commit"]
                   ELSE NoForget]
  /\ UNCHANGED <<vars, active, forgets>>

CommitForget(c) ==
  LET k == erasing[c].key IN
  /\ erasing[c].step = "commit"
  /\ active' = [active EXCEPT ![k] = 0]
  /\ forgets' = [forgets EXCEPT ![k] = @ + 1]
  /\ erasing' = [erasing EXCEPT ![c] = NoForget]
  /\ UNCHANGED vars

\* The call is cut off; forget is not retried internally.
AbandonForget(c) ==
  /\ erasing[c].step # "none"
  /\ erasing' = [erasing EXCEPT ![c] = NoForget]
  /\ UNCHANGED <<vars, active, forgets>>

ForgetNext ==
  \/ Ingest
  \/ \E c \in Caller :
       \/ \E k \in Key : Find(c, k)
       \/ Tombstone(c) \/ CommitForget(c) \/ AbandonForget(c)

ForgetSpec == ForgetInit /\ [][ForgetNext]_forgetVars

-----------------------------------------------------------------------------

\* A custom_id's memories are reported forgotten by one forget, and nothing
\* brings them back: not a repeated add, not a worker whose lease had lapsed,
\* not a forget issued twice.  An open forget does not count before it commits.
ForgottenForGood == \A k \in Key : active[k] + forgets[k] <= 1
=============================================================================
