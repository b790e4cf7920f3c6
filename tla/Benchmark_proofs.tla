--------------------------- MODULE Benchmark_proofs ---------------------------
(***************************************************************************)
(* The comparison's report is about the questions that were judged, for    *)
(* any number of backends, cases and questions, whatever calls fail.       *)
(***************************************************************************)
EXTENDS Benchmark, FiniteSetTheorems, TLAPS

-----------------------------------------------------------------------------
(* The invariant. *)

\* What a backend may keep of a question, and the rows of the side-by-side.
Result == [key : Asked, bucket : Bucket, correct : BOOLEAN]
ResultRow == [key : Asked, answers : [Backend -> BOOLEAN]]
Judged == {"right", "wrong"}

Verdict(correct) == IF correct THEN "right" ELSE "wrong"

BenchmarkTypeOK ==
  /\ phase \in {"ingest", "evaluate", "assemble", "finished"}
  /\ backend \in Backend
  /\ at \in (Nat \ {0}) \X (Nat \ {0})
  /\ keyed \in [Backend -> Seq(Result)]
  /\ table \in Seq(ResultRow)
  /\ got \in [Backend -> [Asked -> Outcomes \cup {"skipped"}]]

\* The questions the walk has come past.
Past == { k \in Asked : k[1] < Case \/ (k[1] = Case /\ k[2] < at[2]) }

\* The questions that are behind backend b, and behind the side-by-side.
Behind(b) ==
  IF b < backend \/ phase \in {"assemble", "finished"} THEN Asked
  ELSE IF b = backend /\ phase = "evaluate" THEN Past ELSE {}

Assembled ==
  IF phase = "finished" THEN Asked ELSE IF phase = "assemble" THEN Past ELSE {}

\* Backend b's results are those of the questions it was judged on, one for each.
ResultsRight(b) ==
  /\ \A i \in DOMAIN keyed[b] :
       LET r == keyed[b][i] IN
       /\ got[b][r.key] = Verdict(r.correct)
       /\ r.bucket = Questions[r.key[1]][r.key[2]]
  /\ \A i, j \in DOMAIN keyed[b] : keyed[b][i].key = keyed[b][j].key => i = j
  /\ \A k \in Asked : got[b][k] \in Judged =>
       \E i \in DOMAIN keyed[b] : keyed[b][i].key = k
  /\ \A k \in Asked : got[b][k] # "skipped" => k \in Behind(b)

\* An error line names a question that is behind and was not judged.
LinesRight(b) ==
  \A k \in Asked :
    /\ <<b, k>> \in lines => k \in Behind(b) /\ got[b][k] \notin Judged
    /\ got[b][k] = "error" => <<b, k>> \in lines
    /\ k \in Assembled /\ got[b][k] \notin Judged => <<b, k>> \in lines

TableRight ==
  /\ table # <<>> => phase \in {"assemble", "finished"}
  /\ \A i \in DOMAIN table : \A b \in Backend :
       got[b][table[i].key] = Verdict(table[i].answers[b])
  /\ \A k \in Assembled : (\A b \in Backend : got[b][k] \in Judged) =>
       \E i \in DOMAIN table : table[i].key = k

\* The inductive invariant.
BInv ==
  /\ BenchmarkTypeOK
  /\ \A b \in Backend : ResultsRight(b) /\ LinesRight(b)
  /\ TableRight

-----------------------------------------------------------------------------
(* Places in the dataset. *)

\* A question is a case and the number of one of its questions, from 1.
LEMMA Places ==
  ASSUME NEW k \in Asked
  PROVE  /\ k = <<k[1], k[2]>>
         /\ k[1] \in CaseIndex /\ k[2] \in DOMAIN Questions[k[1]]
         /\ k[1] \in Nat \ {0} /\ k[2] \in Nat \ {0}
         /\ Questions[k[1]][k[2]] \in Bucket
<1>1. PICK c \in CaseIndex : k \in {c} \X DOMAIN Questions[c]
  BY DEF Asked
<1>2. k = <<k[1], k[2]>> /\ k[1] = c /\ k[2] \in DOMAIN Questions[c]
  BY <1>1
<1>3. c \in 1 .. Len(Questions) /\ Questions[c] \in Seq(Bucket)
  BY BenchmarkAssumption DEF CaseIndex
<1>4. k[2] \in 1 .. Len(Questions[c]) /\ Len(Questions[c]) \in Nat
  BY <1>2, <1>3
<1>5. Len(Questions) \in Nat
  BY BenchmarkAssumption
<1> QED BY <1>2, <1>3, <1>4, <1>5

\* What the loops come past: a question at a time, or what is left of a case, and
\* everything when there is no case left.
LEMMA Walk ==
  ASSUME BenchmarkTypeOK
  PROVE  /\ at' = Start => Past' = {}
         /\ at' = NextCase => Past \subseteq Past'
         /\ at' = NextCase /\ Case \in CaseIndex /\ at \notin Asked => Past' = Past
         /\ at \in Asked => at \notin Past
         /\ at \in Asked /\ at' = NextQuestion => Past' = Past \cup {at}
         /\ Case \notin CaseIndex => Past = Asked
<1>1. /\ at = <<at[1], at[2]>> /\ at[1] \in Nat \ {0} /\ at[2] \in Nat \ {0}
      /\ Len(Questions) \in Nat /\ CaseIndex = 1 .. Len(Questions)
  BY BenchmarkAssumption DEF BenchmarkTypeOK, CaseIndex
<1>2. at' = Start => Past' = {}
  BY Places DEF Past, Start, Case, Asked
<1>3. at' = NextCase => Past \subseteq Past'
  BY <1>1, Places DEF Past, NextCase, Case, Asked
<1>4. ASSUME at' = NextCase, Case \in CaseIndex, at \notin Asked
      PROVE  Past' = Past
  <2>1. \A k \in Asked : k[1] = Case => k[2] < at[2]
    <3> SUFFICES ASSUME NEW k \in Asked, k[1] = Case PROVE k[2] < at[2]
      OBVIOUS
    <3>1. at[2] \notin DOMAIN Questions[Case]
      BY <1>1, <1>4 DEF Asked, Case
    <3>2. DOMAIN Questions[Case] = 1 .. Len(Questions[Case])
            /\ Len(Questions[Case]) \in Nat
      BY <1>1, <1>4, BenchmarkAssumption DEF Case
    <3> QED BY <1>1, <3>1, <3>2, Places
  <2>2. at'[1] = Case + 1 /\ at'[2] = 1
    BY <1>4 DEF NextCase
  <2> QED BY <1>1, <2>1, <2>2, Places DEF Past, Case, Asked
<1>5. at \in Asked => at \notin Past
  BY <1>1 DEF Past, Case
<1>6. ASSUME at \in Asked, at' = NextQuestion
      PROVE  Past' = Past \cup {at}
  <2>1. at'[1] = at[1] /\ at'[2] = at[2] + 1
    BY <1>6 DEF NextQuestion, Case
  <2>2. \A k \in Asked : k[1] = at[1] /\ k[2] = at[2] => k = at
    BY <1>1, Places
  <2> QED BY <1>1, <1>6, <2>1, <2>2, Places DEF Past, Case, Asked
<1>7. ASSUME Case \notin CaseIndex PROVE Past = Asked
  <2>1. \A k \in Asked : k[1] < Case
    BY <1>1, <1>7, Places DEF Case
  <2> QED BY <2>1 DEF Past
<1> QED BY <1>2, <1>3, <1>4, <1>5, <1>6, <1>7

-----------------------------------------------------------------------------
(* Steps. *)

\* assemble_rows finds what a backend was judged on, under its key.
LEMMA Finds ==
  ASSUME BenchmarkTypeOK, NEW b \in Backend, ResultsRight(b), NEW k \in Asked
  PROVE  /\ Found(b, k) = {} <=> got[b][k] \notin Judged
         /\ got[b][k] \in Judged =>
              LET r == CHOOSE q \in Found(b, k) : TRUE
              IN  r.correct \in BOOLEAN /\ got[b][k] = Verdict(r.correct)
<1>1. keyed[b] \in Seq(Result)
  BY DEF BenchmarkTypeOK
<1>2. CASE \A i \in DOMAIN keyed[b] : keyed[b][i].key # k
  <2>1. Found(b, k) = {}
    BY <1>2 DEF Found
  <2>2. got[b][k] \notin Judged
    BY <1>2 DEF ResultsRight
  <2> QED BY <2>1, <2>2
<1>3. ASSUME NEW i \in DOMAIN keyed[b], keyed[b][i].key = k
      PROVE  /\ Found(b, k) # {} /\ got[b][k] \in Judged
             /\ LET r == CHOOSE q \in Found(b, k) : TRUE
                IN  r.correct \in BOOLEAN /\ got[b][k] = Verdict(r.correct)
  <2>1. \A j \in DOMAIN keyed[b] : keyed[b][j].key = k => j = i
    BY <1>3 DEF ResultsRight
  <2>2. i \in Nat
    BY <1>1, <1>3
  <2>3. Found(b, k) = {keyed[b][i]}
    <3> DEFINE hits == { j \in DOMAIN keyed[b] : keyed[b][j].key = k }
    <3>1. hits = {i}
      BY <1>3, <2>1
    <3>2. { j \in hits : \A h \in hits : j <= h } = {i}
      BY <2>2, <3>1
    <3>3. Found(b, k) = { keyed[b][j] : j \in { j \in hits : \A h \in hits : j <= h } }
      BY DEF Found
    <3> QED BY <3>2, <3>3
  <2>4. (CHOOSE q \in Found(b, k) : TRUE) = keyed[b][i]
    BY <2>3
  <2>5. keyed[b][i] \in Result
    BY <1>1, <1>3
  <2>6. got[b][k] = Verdict(keyed[b][i].correct)
    BY <1>3 DEF ResultsRight
  <2> QED BY <2>3, <2>4, <2>5, <2>6 DEF Result, Verdict, Judged
<1> QED BY <1>2, <1>3

\* Steps that judge nothing and leave the lines of all questions alone.
LEMMA Moves ==
  ASSUME BInv, BenchmarkTypeOK', UNCHANGED <<keyed, table, got>>,
         \A b \in Backend, k \in Asked : <<b, k>> \in lines' <=> <<b, k>> \in lines,
         \A b \in Backend : Behind(b) \subseteq Behind(b)',
         Assembled' \subseteq Assembled,
         phase \in {"assemble", "finished"} => phase' \in {"assemble", "finished"}
  PROVE  BInv'
<1>1. ASSUME NEW b \in Backend PROVE ResultsRight(b)'
  BY DEF BInv, ResultsRight, Asked
<1>2. ASSUME NEW b \in Backend PROVE LinesRight(b)'
  BY DEF BInv, LinesRight, Asked
<1>3. TableRight'
  BY DEF BInv, TableRight
<1> QED BY <1>1, <1>2, <1>3 DEF BInv, Backend

LEMMA Starts == BenchmarkInit => BInv
<1> SUFFICES ASSUME BenchmarkInit PROVE BInv
  OBVIOUS
<1>1. Backends \in Nat \ {0}
  BY BenchmarkAssumption
<1>2. BenchmarkTypeOK
  BY <1>1 DEF BenchmarkInit, BenchmarkTypeOK, Backend, Start
<1>3. ASSUME NEW b \in Backend PROVE Behind(b) = {}
  BY <1>3, <1>1 DEF BenchmarkInit, Behind, Backend
<1>4. ASSUME NEW b \in Backend PROVE ResultsRight(b)
  BY <1>4 DEF BenchmarkInit, ResultsRight, Judged
<1>5. Assembled = {}
  BY DEF Assembled, BenchmarkInit
<1>6. ASSUME NEW b \in Backend PROVE LinesRight(b)
  BY <1>5, <1>6 DEF BenchmarkInit, LinesRight, Judged
<1>7. TableRight
  BY <1>5 DEF BenchmarkInit, TableRight
<1> QED BY <1>2, <1>4, <1>6, <1>7 DEF BInv

\* Ingestion and the turns of the loops, from one backend to the next and to the
\* report.
LEMMA QuietSteps ==
  ASSUME BInv,
         IngestCase \/ Ingested \/ SkipCase \/ CaseDone \/ NextBackend \/ Report
  PROVE  BInv'
<1> USE DEF BInv
<1>0. /\ backend \in Nat /\ Backends \in Nat \ {0}
      /\ \A b \in Backend : b \in Nat
      /\ at[1] \in Nat \ {0} /\ at[2] \in Nat \ {0}
  BY BenchmarkAssumption DEF BenchmarkTypeOK, Backend
<1>1. CASE IngestCase
  <2>1. BenchmarkTypeOK'
    BY <1>0, <1>1 DEF IngestCase, BenchmarkTypeOK, NextCase, Case
  <2>2. ASSUME NEW b \in Backend, NEW k \in Asked
        PROVE  <<b, k>> \in lines' <=> <<b, k>> \in lines
    <3>1. k # <<Case, 0>>
      BY Places
    <3> QED BY <1>1, <3>1 DEF IngestCase
  <2>3. \A b \in Backend : Behind(b)' = Behind(b)
    BY <1>1 DEF IngestCase, Behind, Asked
  <2>4. Assembled' = Assembled
    BY <1>1 DEF IngestCase, Assembled
  <2> QED BY <1>1, <2>1, <2>2, <2>3, <2>4, Moves DEF IngestCase
<1>2. CASE Ingested
  <2>1. BenchmarkTypeOK'
    BY <1>2 DEF Ingested, BenchmarkTypeOK, Start
  <2>2. \A b \in Backend : Behind(b) \subseteq Behind(b)'
    BY <1>2 DEF Ingested, Behind, Asked
  <2>3. Assembled' = {}
    BY <1>2 DEF Ingested, Assembled
  <2> QED BY <1>2, <2>1, <2>2, <2>3, Moves DEF Ingested
<1>3. CASE SkipCase
  <2>1. BenchmarkTypeOK'
    BY <1>0, <1>3 DEF SkipCase, BenchmarkTypeOK, NextCase, Case
  <2>2. Past \subseteq Past'
    BY <1>3, Walk DEF SkipCase
  <2>3. \A b \in Backend : Behind(b) \subseteq Behind(b)'
    BY <1>3, <2>2 DEF SkipCase, Behind, Asked
  <2>4. Assembled' = {}
    BY <1>3 DEF SkipCase, Assembled
  <2> QED BY <1>3, <2>1, <2>3, <2>4, Moves DEF SkipCase
<1>4. CASE CaseDone
  <2>1. BenchmarkTypeOK'
    BY <1>0, <1>4 DEF CaseDone, BenchmarkTypeOK, NextCase, Case
  <2>2. Past = Past'
    BY <1>4, Walk DEF CaseDone
  <2>3. \A b \in Backend : Behind(b) = Behind(b)'
    BY <1>4, <2>2 DEF CaseDone, Behind, Asked
  <2>4. Assembled' = Assembled
    BY <1>4, <2>2 DEF CaseDone, Assembled, Asked
  <2> QED BY <1>4, <2>1, <2>3, <2>4, Moves DEF CaseDone
<1>5. CASE NextBackend
  <2>1. BenchmarkTypeOK'
    BY <1>0, <1>5 DEF NextBackend, BenchmarkTypeOK, Backend, Start
  <2>2. Past' = {} /\ Past = Asked
    BY <1>5, Walk DEF NextBackend
  <2>3. \A b \in Backend : Behind(b) \subseteq Behind(b)'
    BY <1>0, <1>5, <2>2 DEF NextBackend, Behind, Backend, Asked
  <2>4. Assembled' = {}
    BY <1>5, <2>2 DEF NextBackend, Assembled
  <2> QED BY <1>5, <2>1, <2>3, <2>4, Moves DEF NextBackend
<1>6. CASE Report
  <2>1. BenchmarkTypeOK'
    BY <1>6 DEF Report, BenchmarkTypeOK
  <2>2. Past = Asked
    BY <1>6, Walk DEF Report
  <2>3. \A b \in Backend : Behind(b) = Behind(b)'
    BY <1>6 DEF Report, Behind, Asked
  <2>4. Assembled' = Assembled
    BY <1>6, <2>2 DEF Report, Assembled, Asked
  <2> QED BY <1>6, <2>1, <2>3, <2>4, Moves DEF Report
<1> QED BY <1>1, <1>2, <1>3, <1>4, <1>5, <1>6

\* score_one and what is kept of its outcome.
LEMMA Scores == ASSUME BInv, ScoreQuestion PROVE BInv'
<1> USE DEF BInv
<1>0. /\ backend \in Backend /\ at \in Asked
      /\ at[1] \in Nat \ {0} /\ at[2] \in Nat \ {0}
      /\ \A b \in Backend : b \in Nat
  BY BenchmarkAssumption DEF BenchmarkTypeOK, Backend, ScoreQuestion
<1>1. PICK outcome \in Outcomes :
        /\ got' = [got EXCEPT ![backend][at] = outcome]
        /\ IF outcome = "error"
           THEN lines' = lines \cup {<<backend, at>>} /\ UNCHANGED keyed
           ELSE /\ keyed' = [keyed EXCEPT ![backend] =
                      Append(@, [key |-> KeyOf(at), bucket |-> Questions[Case][at[2]],
                                 correct |-> outcome = "right"])]
                /\ UNCHANGED lines
  BY DEF ScoreQuestion
<1>2. UNCHANGED <<phase, backend, unfit, table>> /\ phase = "evaluate" /\ at' = NextQuestion
  BY DEF ScoreQuestion
<1>3. Past' = Past \cup {at} /\ at \notin Past
  BY <1>0, <1>2, Walk
<1>4. /\ Behind(backend) = Past /\ Behind(backend)' = Past \cup {at}
      /\ \A b \in Backend : Behind(b) \subseteq Behind(b)'
      /\ Assembled = {} /\ Assembled' = {}
  BY <1>0, <1>2, <1>3 DEF Behind, Assembled, Asked
<1>5. /\ \A b \in Backend, k \in Asked :
           got'[b][k] = IF b = backend /\ k = at THEN outcome ELSE got[b][k]
      /\ got' \in [Backend -> [Asked -> Outcomes \cup {"skipped"}]]
  BY <1>0, <1>1 DEF BenchmarkTypeOK
<1>6. got[backend][at] = "skipped" /\ <<backend, at>> \notin lines
  BY <1>0, <1>3, <1>4 DEF ResultsRight, LinesRight
<1>7. \A b \in Backend \ {backend} : keyed'[b] = keyed[b]
  BY <1>1 DEF BenchmarkTypeOK
<1>8. Result' = Result /\ Asked' = Asked /\ ResultRow' = ResultRow
  BY DEF Result, ResultRow, Asked, Backend
<1>9. TableRight'
  BY <1>2, <1>4 DEF TableRight
<1>10. CASE outcome = "error"
  <2>1. keyed' = keyed /\ lines' = lines \cup {<<backend, at>>}
    BY <1>1, <1>10
  <2>2. BenchmarkTypeOK'
    BY <1>0, <1>2, <1>5, <1>8, <2>1 DEF BenchmarkTypeOK, NextQuestion, Case
  <2>3. ASSUME NEW b \in Backend PROVE ResultsRight(b)'
    <3>1. ASSUME NEW i \in DOMAIN keyed[b]
          PROVE  /\ keyed[b][i].key \in Asked
                 /\ got'[b][keyed[b][i].key] = got[b][keyed[b][i].key]
      <4>1. keyed[b][i] \in Result
        BY <2>3, <3>1 DEF BenchmarkTypeOK
      <4>2. got[b][keyed[b][i].key] # "skipped"
        BY <2>3, <3>1 DEF ResultsRight, Verdict
      <4> QED BY <1>5, <1>6, <2>3, <4>1, <4>2 DEF Result
    <3>2. \A k \in Asked : got'[b][k] \in Judged => got[b][k] \in Judged
      BY <1>5, <1>10, <2>3 DEF Judged
    <3>3. ASSUME NEW k \in Asked, got'[b][k] # "skipped" PROVE k \in Behind(b)'
      <4>1. CASE b = backend /\ k = at
        BY <1>2, <1>4, <4>1
      <4>2. CASE ~(b = backend /\ k = at)
        BY <1>4, <1>5, <2>3, <3>3, <4>2 DEF ResultsRight
      <4> QED BY <4>1, <4>2
    <3> QED BY <1>8, <2>1, <2>3, <3>1, <3>2, <3>3 DEF ResultsRight
  <2>4. ASSUME NEW b \in Backend PROVE LinesRight(b)'
    <3> SUFFICES ASSUME NEW k \in Asked
                 PROVE  /\ <<b, k>> \in lines' => k \in Behind(b)' /\ got'[b][k] \notin Judged
                        /\ got'[b][k] = "error" => <<b, k>> \in lines'
      BY <1>4, <1>8 DEF LinesRight
    <3>1. CASE b = backend /\ k = at
      BY <1>2, <1>4, <1>5, <1>10, <2>1, <3>1 DEF Judged
    <3>2. CASE ~(b = backend /\ k = at)
      <4>1. got'[b][k] = got[b][k] /\ (<<b, k>> \in lines' <=> <<b, k>> \in lines)
        BY <1>5, <2>1, <3>2
      <4> QED BY <1>4, <4>1 DEF LinesRight
    <3> QED BY <3>1, <3>2
  <2> QED BY <1>9, <2>2, <2>3, <2>4 DEF Backend
<1>11. CASE outcome # "error"
  <2> DEFINE r == [key |-> at, bucket |-> Questions[Case][at[2]],
                   correct |-> outcome = "right"]
             old == keyed[backend]
  <2>0. outcome \in Judged /\ Verdict(r.correct) = outcome /\ r \in Result
    BY <1>0, <1>11, Places DEF Outcomes, Judged, Verdict, Result, Case
  <2>1. old \in Seq(Result) /\ lines' = lines
    BY <1>0, <1>1, <1>11 DEF BenchmarkTypeOK
  <2>2. keyed' = [keyed EXCEPT ![backend] = Append(old, r)]
    BY <1>1, <1>11 DEF KeyOf
  <2>3. keyed'[backend] = Append(old, r) /\ keyed' \in [Backend -> Seq(Result)]
    <3>1. Append(old, r) \in Seq(Result)
      BY <2>0, <2>1
    <3> QED BY <1>0, <2>2, <3>1 DEF BenchmarkTypeOK
  <2>4. BenchmarkTypeOK'
    BY <1>0, <1>2, <1>5, <1>8, <2>3 DEF BenchmarkTypeOK, NextQuestion, Case
  <2>5. ASSUME NEW b \in Backend, NEW i \in DOMAIN keyed[b]
        PROVE  /\ keyed[b][i].key \in Asked
               /\ b = backend => keyed[b][i].key # at
               /\ got'[b][keyed[b][i].key] = got[b][keyed[b][i].key]
    <3>1. keyed[b][i] \in Result
      BY <2>5 DEF BenchmarkTypeOK
    <3>2. got[b][keyed[b][i].key] # "skipped"
      BY <2>5 DEF ResultsRight, Verdict
    <3> QED BY <1>5, <1>6, <2>5, <3>1, <3>2 DEF Result
  <2>6. ResultsRight(backend)'
    <3>1. /\ DOMAIN Append(old, r) = DOMAIN old \cup {Len(old) + 1}
          /\ Len(old) + 1 \notin DOMAIN old
          /\ Append(old, r)[Len(old) + 1] = r
          /\ \A i \in DOMAIN old : Append(old, r)[i] = old[i]
      BY <2>0, <2>1
    <3>2. got'[backend][at] = outcome
      BY <1>0, <1>5
    <3>3. ASSUME NEW i \in DOMAIN Append(old, r)
          PROVE  LET q == Append(old, r)[i]
                 IN  /\ got'[backend][q.key] = Verdict(q.correct)
                     /\ q.bucket = Questions[q.key[1]][q.key[2]]
      <4>1. CASE i \in DOMAIN old
        <5>1. Append(old, r)[i] = keyed[backend][i]
          BY <3>1, <4>1
        <5>2. /\ got[backend][keyed[backend][i].key] = Verdict(keyed[backend][i].correct)
              /\ keyed[backend][i].bucket =
                   Questions[keyed[backend][i].key[1]][keyed[backend][i].key[2]]
          BY <1>0, <4>1 DEF ResultsRight
        <5>3. got'[backend][keyed[backend][i].key] = got[backend][keyed[backend][i].key]
          BY <1>0, <2>5, <4>1
        <5> QED BY <5>1, <5>2, <5>3
      <4>2. CASE i = Len(old) + 1
        BY <2>0, <3>1, <3>2, <4>2 DEF Case
      <4> QED BY <3>1, <4>1, <4>2
    <3>4. ASSUME NEW i \in DOMAIN Append(old, r), NEW j \in DOMAIN Append(old, r),
                 Append(old, r)[i].key = Append(old, r)[j].key
          PROVE  i = j
      BY <1>0, <2>5, <3>1, <3>4 DEF ResultsRight
    <3>5. ASSUME NEW k \in Asked, got'[backend][k] \in Judged
          PROVE  \E i \in DOMAIN Append(old, r) : Append(old, r)[i].key = k
      <4>1. CASE k = at
        BY <3>1, <4>1
      <4>2. CASE k # at
        BY <1>0, <1>5, <3>1, <3>5, <4>2 DEF ResultsRight
      <4> QED BY <4>1, <4>2
    <3>6. \A k \in Asked : got'[backend][k] # "skipped" => k \in Behind(backend)'
      BY <1>0, <1>4, <1>5 DEF ResultsRight
    <3> HIDE DEF old, r
    <3> QED BY <1>2, <1>8, <2>3, <3>3, <3>4, <3>5, <3>6 DEF ResultsRight
  <2>7. ASSUME NEW b \in Backend \ {backend} PROVE ResultsRight(b)'
    <3>1. \A k \in Asked : got'[b][k] = got[b][k]
      BY <1>5
    <3> QED BY <1>4, <1>7, <1>8, <2>5, <3>1 DEF ResultsRight
  <2>8. ASSUME NEW b \in Backend PROVE LinesRight(b)'
    <3> SUFFICES ASSUME NEW k \in Asked
                 PROVE  /\ <<b, k>> \in lines' => k \in Behind(b)' /\ got'[b][k] \notin Judged
                        /\ got'[b][k] = "error" => <<b, k>> \in lines'
      BY <1>4, <1>8 DEF LinesRight
    <3>1. CASE b = backend /\ k = at
      BY <1>5, <1>6, <1>11, <2>1, <3>1
    <3>2. CASE ~(b = backend /\ k = at)
      <4>1. got'[b][k] = got[b][k]
        BY <1>5, <3>2
      <4> QED BY <1>4, <2>1, <4>1 DEF LinesRight
    <3> QED BY <3>1, <3>2
  <2>9. \A b \in Backend : ResultsRight(b)'
    BY <1>2, <2>6, <2>7
  <2> QED BY <1>9, <2>4, <2>8, <2>9 DEF Backend
<1> QED BY <1>10, <1>11

\* A question of the canonical order, put side by side or missed by somebody.
LEMMA Assembles == ASSUME BInv, AssembleRow PROVE BInv'
<1> USE DEF BInv
<1>0. /\ at \in Asked /\ at[1] \in Nat \ {0} /\ at[2] \in Nat \ {0}
      /\ phase = "assemble" /\ at' = NextQuestion
      /\ UNCHANGED <<phase, backend, unfit, keyed, got>>
      /\ lines' = lines \cup { <<b, at>> : b \in Missing(at) }
  BY DEF BenchmarkTypeOK, AssembleRow
<1>1. Past' = Past \cup {at}
  BY <1>0, Walk
<1>2. /\ \A b \in Backend : Behind(b) = Asked /\ Behind(b)' = Asked
      /\ Assembled = Past /\ Assembled' = Past \cup {at}
  BY <1>0, <1>1 DEF Behind, Assembled, Asked
<1>3. \A b \in Backend : Found(b, at) = {} <=> got[b][at] \notin Judged
  BY <1>0, Finds
<1>4. Missing(at) = { b \in Backend : got[b][at] \notin Judged }
  BY <1>3 DEF Missing
<1>5. Result' = Result /\ Asked' = Asked /\ ResultRow' = ResultRow
  BY DEF Result, ResultRow, Asked, Backend
<1>6. ASSUME NEW b \in Backend PROVE ResultsRight(b)'
  BY <1>0, <1>2, <1>5, <1>6 DEF ResultsRight
<1>7. ASSUME NEW b \in Backend PROVE LinesRight(b)'
  <2> SUFFICES ASSUME NEW k \in Asked
               PROVE  /\ <<b, k>> \in lines' => k \in Behind(b)' /\ got[b][k] \notin Judged
                      /\ got[b][k] = "error" => <<b, k>> \in lines'
                      /\ k \in Past \cup {at} /\ got[b][k] \notin Judged =>
                           <<b, k>> \in lines'
    BY <1>0, <1>2, <1>5 DEF LinesRight
  <2>1. <<b, k>> \in lines' => <<b, k>> \in lines \/ (k = at /\ b \in Missing(at))
    BY <1>0
  <2>2. k = at /\ b \in Missing(at) => <<b, k>> \in lines'
    BY <1>0
  <2>3. <<b, k>> \in lines => <<b, k>> \in lines'
    BY <1>0
  <2>4. /\ <<b, k>> \in lines => got[b][k] \notin Judged
        /\ got[b][k] = "error" => <<b, k>> \in lines
        /\ k \in Past /\ got[b][k] \notin Judged => <<b, k>> \in lines
    BY <1>2, <1>7 DEF LinesRight
  <2> QED BY <1>2, <1>4, <1>7, <2>1, <2>2, <2>3, <2>4
<1>8. CASE Missing(at) = {}
  <2> DEFINE row == [key |-> at, answers |->
                       [b \in Backend |-> (CHOOSE r \in Found(b, at) : TRUE).correct]]
  <2>1. table' = Append(table, row)
    BY <1>8 DEF AssembleRow
  <2>2. ASSUME NEW b \in Backend
        PROVE  row.answers[b] \in BOOLEAN /\ got[b][at] = Verdict(row.answers[b])
    <3>1. got[b][at] \in Judged
      BY <1>4, <1>8, <2>2
    <3> QED BY <1>0, <2>2, <3>1, Finds
  <2>3. row \in ResultRow /\ row.key = at
    BY <1>0, <2>2 DEF ResultRow
  <2> HIDE DEF row
  <2>4. table \in Seq(ResultRow)
    BY DEF BenchmarkTypeOK
  <2>5. /\ table' \in Seq(ResultRow)
        /\ DOMAIN table' = DOMAIN table \cup {Len(table) + 1}
        /\ table'[Len(table) + 1] = row
        /\ \A i \in DOMAIN table : table'[i] = table[i]
    BY <2>1, <2>3, <2>4
  <2>6. BenchmarkTypeOK'
    BY <1>0, <1>5, <2>5 DEF BenchmarkTypeOK, NextQuestion, Case
  <2>7. ASSUME NEW i \in DOMAIN table', NEW b \in Backend
        PROVE  got[b][table'[i].key] = Verdict(table'[i].answers[b])
    <3>1. CASE i \in DOMAIN table
      BY <2>5, <2>7, <3>1 DEF TableRight
    <3>2. CASE i = Len(table) + 1
      BY <2>2, <2>3, <2>5, <2>7, <3>2
    <3> QED BY <2>5, <3>1, <3>2
  <2>8. ASSUME NEW k \in Past \cup {at}, \A b \in Backend : got[b][k] \in Judged
        PROVE  \E i \in DOMAIN table' : table'[i].key = k
    <3>1. CASE k = at
      BY <2>3, <2>5, <3>1
    <3>2. CASE k \in Past
      BY <1>2, <2>5, <2>8, <3>2 DEF TableRight
    <3> QED BY <3>1, <3>2
  <2>9. TableRight'
    BY <1>0, <1>2, <2>7, <2>8 DEF TableRight, Backend
  <2> QED BY <1>6, <1>7, <2>6, <2>9 DEF Backend
<1>9. CASE Missing(at) # {}
  <2>1. table' = table
    BY <1>9 DEF AssembleRow
  <2>2. BenchmarkTypeOK'
    BY <1>0, <1>5, <2>1 DEF BenchmarkTypeOK, NextQuestion, Case
  <2>3. ~(\A b \in Backend : got[b][at] \in Judged)
    BY <1>4, <1>9
  <2>4. TableRight'
    BY <1>0, <1>2, <2>1, <2>3 DEF TableRight, Backend
  <2> QED BY <1>6, <1>7, <2>2, <2>4 DEF Backend
<1> QED BY <1>8, <1>9

LEMMA ReportInvariant == BenchmarkSpec => []BInv
<1>1. BInv /\ [BenchmarkNext]_benchmark => BInv'
  <2> SUFFICES ASSUME BInv, [BenchmarkNext]_benchmark PROVE BInv'
    OBVIOUS
  <2>1. CASE ScoreQuestion
    BY <2>1, Scores
  <2>2. CASE AssembleRow
    BY <2>2, Assembles
  <2>3. CASE IngestCase \/ Ingested \/ SkipCase \/ CaseDone \/ NextBackend \/ Report
    BY <2>3, QuietSteps
  <2>4. CASE UNCHANGED benchmark
    <3>1. BenchmarkTypeOK'
      BY <2>4 DEF BInv, benchmark, BenchmarkTypeOK
    <3>2. (\A b \in Backend : Behind(b)' = Behind(b)) /\ Assembled' = Assembled
      BY <2>4 DEF benchmark, Behind, Assembled, Past, Case, Asked
    <3> QED BY <2>4, <3>1, <3>2, Moves DEF benchmark
  <2> QED BY <2>1, <2>2, <2>3, <2>4 DEF BenchmarkNext
<1> QED BY <1>1, Starts, PTL DEF BenchmarkSpec

-----------------------------------------------------------------------------
(* The report. *)

\* As many results as questions, where each result is of one of the questions and
\* each of the questions has a result.
LEMMA OneResultEach ==
  ASSUME BInv, NEW b \in Backend, NEW rs \in SUBSET (DOMAIN keyed[b]), NEW ks,
         \A i \in rs : keyed[b][i].key \in ks,
         \A k \in ks : \E i \in rs : keyed[b][i].key = k
  PROVE  Cardinality(rs) = Cardinality(ks)
<1>1. keyed[b] \in Seq(Result)
  BY DEF BInv, BenchmarkTypeOK
<1>2. IsFiniteSet(rs)
  <2>1. DOMAIN keyed[b] = 1 .. Len(keyed[b]) /\ Len(keyed[b]) \in Nat
    BY <1>1
  <2>2. IsFiniteSet(DOMAIN keyed[b])
    BY <2>1, FS_Interval
  <2> QED BY <2>2, FS_Subset
<1>3. ExistsBijection(rs, ks)
  <2> DEFINE keyOf == [i \in rs |-> keyed[b][i].key]
  <2>1. \A i, j \in rs : keyed[b][i].key = keyed[b][j].key => i = j
    BY DEF BInv, ResultsRight
  <2>2. keyOf \in [rs -> ks] /\ \A i, j \in rs : keyOf[i] = keyOf[j] => i = j
    BY <2>1
  <2>3. \A k \in ks : \E i \in rs : keyOf[i] = k
    OBVIOUS
  <2> HIDE DEF keyOf
  <2> QED BY <2>2, <2>3
         DEF ExistsBijection, Bijection, Injection, Surjection, IsInjective
<1> QED BY <1>2, <1>3, FS_Bijection

\* MemScore is over the questions the backend was judged on, overall and in each
\* bucket.
LEMMA ScoresRight ==
  ASSUME BInv, NEW b \in Backend, NEW pool,
         NEW ks, ks = { k \in Asked : Questions[k[1]][k[2]] \in pool }
  PROVE  Tally(b, Pooled(b, pool)) = [ n |-> Count(b, ks, {"right", "wrong"}),
                                       correct |-> Count(b, ks, {"right"}) ]
<1> DEFINE rs == Pooled(b, pool)
           correct == { i \in rs : keyed[b][i].correct }
<1>1. \A i \in DOMAIN keyed[b] : keyed[b][i].key \in Asked /\ keyed[b][i].correct \in BOOLEAN
  <2>1. keyed[b] \in Seq(Result)
    BY DEF BInv, BenchmarkTypeOK
  <2>2. \A i \in DOMAIN keyed[b] : keyed[b][i] \in Result
    BY <2>1
  <2> QED BY <2>2 DEF Result
<1>2. \A i \in DOMAIN keyed[b] :
        LET r == keyed[b][i] IN
        /\ got[b][r.key] = IF r.correct THEN "right" ELSE "wrong"
        /\ r.bucket = Questions[r.key[1]][r.key[2]]
  BY DEF BInv, ResultsRight, Verdict
<1>3. \A k \in Asked : got[b][k] \in {"right", "wrong"} =>
        \E i \in DOMAIN keyed[b] : keyed[b][i].key = k
  BY DEF BInv, ResultsRight, Judged
<1>4. Cardinality(rs) = Cardinality({ k \in ks : got[b][k] \in {"right", "wrong"} })
  <2> DEFINE judged == { k \in ks : got[b][k] \in {"right", "wrong"} }
  <2>1. \A i \in rs : keyed[b][i].key \in judged
    BY <1>1, <1>2 DEF Pooled
  <2>2. \A k \in judged : \E i \in rs : keyed[b][i].key = k
    BY <1>2, <1>3 DEF Pooled
  <2>3. rs \in SUBSET (DOMAIN keyed[b])
    BY DEF Pooled
  <2> HIDE DEF rs, judged
  <2>4. Cardinality(rs) = Cardinality(judged)
    BY <2>1, <2>2, <2>3, OneResultEach
  <2> QED BY <2>4 DEF judged
<1>5. Cardinality(correct) = Cardinality({ k \in ks : got[b][k] \in {"right"} })
  <2> DEFINE right == { k \in ks : got[b][k] \in {"right"} }
  <2>1. \A i \in correct : keyed[b][i].key \in right
    BY <1>1, <1>2 DEF Pooled
  <2>2. \A k \in right : \E i \in correct : keyed[b][i].key = k
    BY <1>1, <1>2, <1>3 DEF Pooled
  <2>3. correct \in SUBSET (DOMAIN keyed[b])
    BY DEF Pooled
  <2> HIDE DEF correct, right
  <2>4. Cardinality(correct) = Cardinality(right)
    BY <2>1, <2>2, <2>3, OneResultEach
  <2> QED BY <2>4 DEF right
<1> QED BY <1>4, <1>5 DEF Tally, Count

\* What compare reports is about the questions that were judged, in every column,
\* error line and score, whatever calls failed: columns do not slide under other
\* questions and failures do not count as answers (assemble_rows, from_results).
THEOREM ReportIsHonest == BenchmarkSpec => []ComparisonHonest
<1>1. BInv => ComparisonHonest
  <2> SUFFICES ASSUME BInv, phase = "finished"
               PROVE  ComparisonHonest
    BY DEF ComparisonHonest
  <2>0. Assembled = Asked
    BY DEF Assembled
  <2>1. \A i \in DOMAIN table : \A b \in Backend :
          got[b][table[i].key] = IF table[i].answers[b] THEN "right" ELSE "wrong"
    BY DEF BInv, TableRight, Verdict
  <2>2. ASSUME NEW b \in Backend, NEW k \in Asked
        PROVE  <<b, k>> \in lines <=> got[b][k] \in {"error", "skipped"}
    <3>1. got[b][k] \in {"right", "wrong", "error", "skipped"}
      BY <2>2 DEF BInv, BenchmarkTypeOK, Outcomes
    <3>2. <<b, k>> \in lines <=> got[b][k] \notin Judged
      BY <2>0, <2>2 DEF BInv, LinesRight
    <3> QED BY <3>1, <3>2 DEF Judged
  <2>3. ASSUME NEW k \in Asked
        PROVE  (\E i \in DOMAIN table : table[i].key = k) \/ \E b \in Backend : <<b, k>> \in lines
    <3>1. CASE \A b \in Backend : got[b][k] \in Judged
      BY <2>0, <2>3, <3>1 DEF BInv, TableRight
    <3>2. ASSUME NEW b \in Backend, got[b][k] \notin Judged
          PROVE  <<b, k>> \in lines
      BY <2>0, <2>3, <3>2 DEF BInv, LinesRight
    <3> QED BY <3>1, <3>2
  <2>4. ASSUME NEW k \in Disagreements
        PROVE  \E b, c \in Backend : got[b][k] # got[c][k]
    <3>1. PICK i \in DOMAIN table :
            k = table[i].key /\ \E b \in Backend : table[i].answers[b] # table[i].answers[1]
      BY <2>4 DEF Disagreements
    <3>2. PICK b \in Backend : table[i].answers[b] # table[i].answers[1]
      BY <3>1
    <3>3. 1 \in Backend
      BY BenchmarkAssumption DEF Backend
    <3>4. table[i].answers[b] \in BOOLEAN /\ table[i].answers[1] \in BOOLEAN
      <4>1. table \in Seq(ResultRow)
        BY DEF BInv, BenchmarkTypeOK
      <4>2. table[i] \in ResultRow
        BY <4>1
      <4> QED BY <3>3, <4>2 DEF ResultRow
    <3>5. got[b][k] # got[1][k]
      BY <2>1, <3>1, <3>2, <3>3, <3>4
    <3> QED BY <3>3, <3>5
  <2>5. ASSUME NEW b \in Backend, NEW pool \in Pools
        PROVE  LET ks == { k \in Asked : Questions[k[1]][k[2]] \in pool }
               IN  Tally(b, Pooled(b, pool)) = [ n |-> Count(b, ks, {"right", "wrong"}),
                                                 correct |-> Count(b, ks, {"right"}) ]
    BY <2>5, ScoresRight
  <2> QED BY <2>1, <2>2, <2>3, <2>4, <2>5 DEF ComparisonHonest
<1> QED BY <1>1, ReportInvariant, PTL
=============================================================================
