-------------------------- MODULE MCIngestSchedule --------------------------
(***************************************************************************)
(* Small instances of IngestSchedule, with ModelCalls beside it: a         *)
(* behaviour is either workers in their loops or the model calls of one    *)
(* pass, the other resting.  Cost in the one is what the other adds up to. *)
(* The tenant with the poison sources is listed first, and they are its    *)
(* oldest.                                                                 *)
(***************************************************************************)
EXTENDS IngestSchedule, ModelCalls

CONSTANTS w1, w2

OneWorker == {w1}
TwoWorkers == {w1, w2}

FourSources == 1 .. 4
ThreeSources == 1 .. 3

\* Sources 1 to 3 belong to the first tenant, source 4 to the second.
OwnerOf4 == [s \in FourSources |-> IF s = 4 THEN 2 ELSE 1]
OneOwner == [s \in ThreeSources |-> 1]

CallsRest ==
  stage = "done" /\ attempt = 0 /\ elapsed = 0 /\ found = 0 /\ trouble = 0 /\ cause = "none"

Loops(action) == action /\ CallsRest /\ UNCHANGED calls

MCInit == Init /\ (CallsInit \/ CallsRest)

MCNext ==
  \/ \E s \in Source : Loops(Enqueue(s))
  \/ \E w \in Worker : Loops(WorkerStep(w)) \/ Loops(Crash(w))
  \/ Loops(Tick)
  \/ Again      /\ UNCHANGED vars
  \/ GiveUp     /\ UNCHANGED vars
  \/ Extracted  /\ UNCHANGED vars
  \/ Embedded   /\ UNCHANGED vars
  \/ Persist    /\ UNCHANGED vars
  \/ Classified /\ UNCHANGED vars
  \/ NextPass /\ ~CallsRest /\ UNCHANGED vars

\* The fairness of IngestSchedule's Spec.
MCSpec ==
  /\ MCInit /\ [][MCNext]_<<vars, calls>>
  /\ WF_<<vars, calls>>(Loops(Tick))
  /\ \A w \in Worker : WF_<<vars, calls>>(Loops(WorkerStep(w)))

\* Every variable of the two keeps its type.
TypeOK == ScheduleTypeOK /\ CallsTypeOK
=============================================================================
