---------------------------- MODULE MCAsyncIngest ----------------------------
(***************************************************************************)
(* A small instance of AsyncIngest: one idempotency key, on which every    *)
(* caller and every worker meets; keys share nothing.                      *)
(***************************************************************************)
EXTENDS Forgetting, TLC

IngestSymmetry == Permutations(Caller) \cup Permutations(Worker)
=============================================================================
