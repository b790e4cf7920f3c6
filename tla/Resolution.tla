----------------------------- MODULE Resolution -----------------------------
(***************************************************************************)
(* The pure part of the write path: what a candidate fact is, which        *)
(* validity interval it gets, what the resolver decides about it given the *)
(* latest rows of its key, and when two rows contradict the single-valued  *)
(* EXCLUDE constraint.  One key (tenant, actor, subject, attribute) is     *)
(* considered; rows of different keys never interact in this code.         *)
(*                                                                         *)
(* Time is discrete and bounded; Forever is the open upper bound of a      *)
(* tstzrange, larger than every instant.                                   *)
(***************************************************************************)
EXTENDS Integers, FiniteSetsExt

CONSTANTS
  Value,      \* the values a fact about the key may carry
  MaxTime     \* bound of the modelled time line

ASSUME TimeAssumption == MaxTime \in Nat

Time    == 0 .. MaxTime
Forever == MaxTime + 1
Bound   == Time \union {Forever}

\* A candidate that pins no time: Temporal::None and no as_of.
Unset == -1

\* The value of a candidate or a row whose `value` column is NULL.
NoValue == "null"

(***************************************************************************)
(* A candidate: the extractor's fields the resolver reads.  `from` is the  *)
(* extracted time or else the caller's as_of, Unset when there is neither; *)
(* `until` is Forever when the extractor gave no upper bound.              *)
(***************************************************************************)
Candidate == [ value  : Value \union {NoValue},
               single : BOOLEAN,
               from   : Time \union {Unset},
               until  : Bound ]

\* Faulty variants: a time nobody gave stays unset; a fact without an end holds
\* for the instant it was written only.
IntervalUnset(c, now) == [ from |-> c.from, until |-> c.until ]

IntervalBrief(c, now) ==
  LET from == IF c.from = Unset THEN now ELSE c.from
  IN  [ from |-> from, until |-> IF c.until = Forever THEN from + 1 ELSE c.until ]

\* MemoryWrite::interval: extracted time, as_of, or write time; an upper
\* bound at or before the lower one is dropped to open-ended.
Interval(c, now) ==
  LET from == IF c.from = Unset THEN now ELSE c.from
  IN  [ from |-> from, until |-> IF c.until > from THEN c.until ELSE Forever ]

(***************************************************************************)
(* decide: `rows` are the latest active rows of the key, by id.            *)
(***************************************************************************)
\* Matches with the candidate's own value: the candidate is a duplicate.
Duplicates(c, rows) ==
  { i \in DOMAIN rows : c.value # NoValue /\ rows[i].value = c.value }

\* Matches a single-valued candidate contradicts: all of them are superseded.
Contradicted(c, rows) ==
  { i \in DOMAIN rows : c.single /\ rows[i].value # c.value }

\* decide's result, as the name of the branch persist_candidates takes.
Decide(c, rows) ==
  IF Duplicates(c, rows) # {} THEN "dedup"
  ELSE IF Contradicted(c, rows) # {} THEN "supersede"
  ELSE "insert"

\* apply_supersede: the candidate is newer than every prior it contradicts.
IsNewer(from, priors) == \A i \in DOMAIN priors : from > priors[i].from

\* apply_supersede, late fact: the upper bound of the history row, capped at
\* the nearest later segment start.
HistoryUntil(iv, starts) ==
  Min({iv.until} \union { s \in starts : s > iv.from })

-----------------------------------------------------------------------------
(* The EXCLUDE constraint no_overlap_single_valued. *)

Overlap(r, s) == r.from < s.until /\ s.from < r.until

\* The rows the partial constraint covers.
Guarded(r) == r.status = "active" /\ r.single /\ r.keyed

Excludes(r, s) == Guarded(r) /\ Guarded(s) /\ Overlap(r, s)
=============================================================================
