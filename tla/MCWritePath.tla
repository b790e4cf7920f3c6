----------------------------- MODULE MCWritePath -----------------------------
(***************************************************************************)
(* Small instances of WritePath for TLC: what callers send, by scene.      *)
(***************************************************************************)
EXTENDS WritePath, TLC

CONSTANTS w1, w2, NYC, SF,
  Scenes  \* the scenes of a run, a subset of {"calls", "pairs", "dated"}

VARIABLE scene  \* which of them this behaviour is

Writers2 == {w1, w2}
Cities == {NYC, SF}

\* Where any value may be added whenever another may, values are alike too.
WriterSymmetry == Permutations(Writer)
LiveSymmetry == WriterSymmetry \cup Permutations(Value)

\* What the server's handlers send: no extracted time, no as_of.
LiveFact(v) == [value |-> v, single |-> TRUE, from |-> Unset, until |-> Forever]
\* One extraction may name both cities, in either order.
LiveAdds == { <<LiveFact(v)>> : v \in Value }
            \cup { <<LiveFact(NYC), LiveFact(SF)>>, <<LiveFact(SF), LiveFact(NYC)>> }

\* Dated history (add_at with as_of).
DatedFact(v, t) == [value |-> v, single |-> TRUE, from |-> t, until |-> Forever]

\* Two extractions naming the same two facts in opposite orders: each can
\* bump one row and wait for the other's.  The second takes the attribute for
\* a multi-valued one where it is late.  The third fact starts when another does.
DatedAdds == { <<DatedFact(NYC, 1), DatedFact(SF, 2)>>,
               <<DatedFact(SF, 2), [DatedFact(NYC, 1) EXCEPT !.single = FALSE]>>,
               <<DatedFact(SF, 1)>> }

AddsAndForgets == {"add", "forget"}
AllKinds == {"add", "forget", "forgetContent", "edit"}

-----------------------------------------------------------------------------

Issued == Cardinality({ r \in Writer \X (1 .. MaxOps) : r[2] <= tx[r[1]].op })

\* What w has just submitted is a request of this scene: any call about one fact,
\* one of three adds of two facts, or one of three calls.
InScene(w) ==
  \/ scene = "calls" /\ Len(tx'[w].cands) <= 1
  \/ scene = "pairs" /\ Len(tx'[w].cands) = 2 /\ tx'[w].kind = "add" /\ Issued < 3
  \/ scene = "dated" /\ Issued < 3

MCNext ==
  /\ \E w \in Writer : (Submit(w) /\ InScene(w)) \/ Step(w) \/ Drop(w)
  /\ UNCHANGED scene

MCInit == Init /\ scene \in Scenes

MCSpec == MCInit /\ [][MCNext]_<<vars, scene>>

MCFairSpec == MCSpec /\ \A w \in Writer : WF_vars(Step(w))
=============================================================================
