---------------------------- MODULE MCActorData ----------------------------
(***************************************************************************)
(* Small instances of ActorData for TLC.                                   *)
(***************************************************************************)
EXTENDS ActorData

CONSTANTS p1, p2, p3, m1, m2, m3

OneProcess == {p1}
TwoProcesses == {p1, p2}
ThreeProcesses == {p1, p2, p3}
TwoIds == {m1, m2}
ThreeIds == {m1, m2, m3}

ActorSymmetry == Permutations(Process) \cup Permutations(Id)

\* Everything but the erasure.
Writes == {"add", "enqueue", "pass", "document", "forget", "classify"}
AddsAndForgets == {"add", "forget"}
WritesAndPurge == Writes \cup {"purge"}
=============================================================================
