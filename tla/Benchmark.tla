------------------------------ MODULE Benchmark ------------------------------
(***************************************************************************)
(* The head-to-head comparison of memory backends (compare): for each      *)
(* backend in turn every case is ingested, then every question of the      *)
(* cases that were is recalled, answered and judged; at the end the        *)
(* results are put side by side, question by question.  Any call to a      *)
(* backend or a model may fail, and the run goes on.                       *)
(*                                                                         *)
(* A case is its position in the dataset; ids are taken to be distinct.    *)
(***************************************************************************)
EXTENDS Naturals, Sequences, FiniteSets

CONSTANTS
  Backends,   \* how many backends are compared
  Questions,  \* of each case, the bucket of each question: its category, or
              \* the one of abstentions
  Bucket      \* the buckets

ASSUME BenchmarkAssumption ==
  /\ Backends \in Nat \ {0}
  /\ Questions \in Seq(Seq(Bucket))

VARIABLES
  phase,    \* "ingest", "evaluate", "assemble" or "finished"
  backend,  \* the backend at work
  at,       \* the place in the dataset: the case, and the question of it
  unfit,    \* cases this backend has failed to ingest
  keyed,    \* each backend's results under their keys, in order
  lines,    \* error lines: the backend and the question of each, or 0 where it
            \* is the case that was not ingested
  table,    \* the finished rows of the side-by-side
  got       \* what really came of each backend's questions (read by the
            \* property only)

benchmark == <<phase, backend, at, unfit, keyed, lines, table, got>>

Backend == 1 .. Backends
CaseIndex == DOMAIN Questions

\* The questions, each with its place: cases in turn, each one's from the first.
Asked == UNION { {c} \X DOMAIN Questions[c] : c \in CaseIndex }

Start == <<1, 1>>
Case == at[1]
NextCase == <<Case + 1, 1>>
NextQuestion == <<Case, at[2] + 1>>

BenchmarkInit ==
  /\ phase = "ingest" /\ backend = 1 /\ at = Start
  /\ unfit = {}
  /\ keyed = [b \in Backend |-> <<>>]
  /\ lines = {}
  /\ table = <<>>
  /\ got = [b \in Backend |-> [k \in Asked |-> "skipped"]]

-----------------------------------------------------------------------------

\* ingest_cases: the sessions of one case, up to the first that fails.
IngestCase ==
  /\ phase = "ingest" /\ Case \in CaseIndex
  /\ at' = NextCase
  /\ \/ UNCHANGED <<unfit, lines>>
     \/ /\ unfit' = unfit \cup {Case}
        /\ lines' = lines \cup {<<backend, <<Case, 0>>>>}
  /\ UNCHANGED <<phase, backend, keyed, table, got>>

Ingested ==
  /\ phase = "ingest" /\ Case \notin CaseIndex
  /\ phase' = "evaluate" /\ at' = Start
  /\ UNCHANGED <<backend, unfit, keyed, lines, table, got>>

\* Faulty variant: results are numbered as they come.
KeyCounted(k) ==
  <<k[1], Cardinality({ i \in DOMAIN keyed[backend] :
                          keyed[backend][i].key[1] = k[1] }) + 1>>

\* Key each result by (case_id, question index).
KeyOf(k) == k

\* Nothing is asked of a case that was not ingested.
SkipCase ==
  /\ phase = "evaluate" /\ Case \in unfit
  /\ at' = NextCase
  /\ UNCHANGED <<phase, backend, unfit, keyed, lines, table, got>>

\* score_one: recall, answer and judge; the first of them to fail ends it.
Outcomes == {"right", "wrong", "error"}

ScoreQuestion ==
  /\ phase = "evaluate" /\ at \in Asked
  /\ Case \notin unfit
  /\ at' = NextQuestion
  /\ \E outcome \in Outcomes :
       /\ got' = [got EXCEPT ![backend][at] = outcome]
       /\ IF outcome = "error"
          THEN lines' = lines \cup {<<backend, at>>} /\ UNCHANGED keyed
          ELSE /\ keyed' = [keyed EXCEPT ![backend] =
                     Append(@, [key |-> KeyOf(at), bucket |-> Questions[Case][at[2]],
                                correct |-> outcome = "right"])]
               /\ UNCHANGED lines
  /\ UNCHANGED <<phase, backend, unfit, table>>

\* All questions of a case are dealt with.
CaseDone ==
  /\ phase \in {"evaluate", "assemble"}
  /\ Case \in CaseIndex /\ at \notin Asked
  /\ phase = "evaluate" => Case \notin unfit
  /\ at' = NextCase
  /\ UNCHANGED <<phase, backend, unfit, keyed, lines, table, got>>

\* The backend's report is made, and the next backend starts from nothing.
NextBackend ==
  /\ phase = "evaluate" /\ Case \notin CaseIndex
  /\ at' = Start
  /\ IF backend < Backends
     THEN phase' = "ingest" /\ backend' = backend + 1 /\ unfit' = {}
     ELSE phase' = "assemble" /\ UNCHANGED <<backend, unfit>>
  /\ UNCHANGED <<keyed, lines, table, got>>

-----------------------------------------------------------------------------
(* assemble_rows. *)

\* The first result a backend has under a key: none, or one.
Found(b, k) ==
  LET hits == { i \in DOMAIN keyed[b] : keyed[b][i].key = k }
  IN  { keyed[b][i] : i \in { j \in hits : \A h \in hits : j <= h } }

Missing(k) == { b \in Backend : Found(b, k) = {} }

AssembleRow ==
  /\ phase = "assemble" /\ at \in Asked
  /\ at' = NextQuestion
  /\ lines' = lines \cup { <<b, at>> : b \in Missing(at) }
  /\ table' = IF Missing(at) = {}
              THEN Append(table, [key |-> at, answers |->
                     [b \in Backend |-> (CHOOSE r \in Found(b, at) : TRUE).correct]])
              ELSE table
  /\ UNCHANGED <<phase, backend, unfit, keyed, got>>

Report ==
  /\ phase = "assemble" /\ Case \notin CaseIndex
  /\ phase' = "finished"
  /\ UNCHANGED <<backend, at, unfit, keyed, lines, table, got>>

\* MemScore::from_results: how many results, how many of them correct.
Tally(b, results) ==
  [ n |-> Cardinality(results),
    correct |-> Cardinality({ i \in results : keyed[b][i].correct }) ]

\* The results that are pooled: all of them, or those of one bucket.
Pools == { {u} : u \in Bucket } \cup { Bucket }
Pooled(b, pool) == { i \in DOMAIN keyed[b] : keyed[b][i].bucket \in pool }

\* ComparisonReport::disagreements.
Disagreements ==
  { table[i].key : i \in { j \in DOMAIN table :
      \E b \in Backend : table[j].answers[b] # table[j].answers[1] } }

BenchmarkNext ==
  \/ IngestCase \/ Ingested \/ SkipCase \/ ScoreQuestion \/ CaseDone
  \/ NextBackend \/ AssembleRow \/ Report

BenchmarkSpec == BenchmarkInit /\ [][BenchmarkNext]_benchmark

-----------------------------------------------------------------------------

\* What b did with the questions ks, counted.
Count(b, ks, outcomes) == Cardinality({ k \in ks : got[b][k] \in outcomes })

\* Calls that fail never shift a column or count as an answer: a row shows what
\* each backend got for that very question, every question is a row or has an
\* error line naming who missed it, and the scores, overall and by bucket, are
\* over the questions that were judged.
ComparisonHonest ==
  phase = "finished" =>
    /\ \A i \in DOMAIN table : \A b \in Backend :
         got[b][table[i].key] = IF table[i].answers[b] THEN "right" ELSE "wrong"
    /\ \A k \in Asked : \/ \E i \in DOMAIN table : table[i].key = k
                        \/ \E b \in Backend : <<b, k>> \in lines
    /\ \A b \in Backend, k \in Asked :
         <<b, k>> \in lines <=> got[b][k] \in {"error", "skipped"}
    /\ \A b \in Backend, pool \in Pools :
         LET ks == { k \in Asked : Questions[k[1]][k[2]] \in pool }
         IN  Tally(b, Pooled(b, pool)) = [ n |-> Count(b, ks, {"right", "wrong"}),
                                           correct |-> Count(b, ks, {"right"}) ]
    /\ \A k \in Disagreements : \E b, c \in Backend : got[b][k] # got[c][k]
=============================================================================
