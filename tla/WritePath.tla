------------------------------ MODULE WritePath ------------------------------
(***************************************************************************)
(* The transactional write path on one key: Engine::add_at, forget,        *)
(* forget_by_id, forget_by_content and update_memory running concurrently  *)
(* against mnestic_memory.  Every SQL statement is one step, the isolation *)
(* level is READ COMMITTED, and a transaction's uncommitted row versions   *)
(* live in writes[w], which is also the set of row locks it holds: a       *)
(* statement that needs a row another transaction has written waits.       *)
(* PostgreSQL checks the EXCLUDE constraint after it has written a row     *)
(* version, so that the version is in other transactions' way while its    *)
(* own check is still to come: the write and the check are two steps.      *)
(*                                                                         *)
(* One request is one call of the engine API by one writer (a server task, *)
(* a worker, a library caller).  An `add` carries the candidates one       *)
(* extraction produced for the key, in order.                              *)
(***************************************************************************)
EXTENDS Resolution, Sequences, FiniteSets

CONSTANTS
  Writer,      \* concurrent callers
  AddRequest,  \* the candidate lists an add may carry, sequences of Candidate
  MaxOps,      \* requests each writer issues
  MaxRetries,  \* MAX_CONFLICT_RETRIES
  Kinds        \* the API calls in play, a subset of {"add", "forget",
               \* "forgetContent", "edit"}

ASSUME WriteAssumption ==
  /\ MaxOps \in Nat /\ MaxRetries \in Nat \ {0}
  /\ AddRequest \subseteq Seq(Candidate) \ {<<>>}
  /\ Kinds \subseteq {"add", "forget", "forgetContent", "edit"}

VARIABLES
  db,      \* committed rows of the key, by id
  clock,   \* the last instant read by anyone: the database's now() and every
           \* process's Utc::now() are taken to agree
  pc,      \* the statement each writer executes next
  tx,      \* each writer's request and the locals of its current attempt
  writes,  \* uncommitted row versions of each writer's transaction
  result   \* how each writer's latest request ended

vars == <<db, clock, pc, tx, writes, result>>

Status == {"active", "superseded", "forgotten"}
Result == {"none", "ok", "nothing", "conflict", "deadlock", "error", "dropped"}

\* A row is named by the writer, the request and the candidate that made it.
RowId == Writer \X (1 .. MaxOps) \X Nat
NoRow == <<>>

\* Rows made by update_memory carry no key (keyed = FALSE): they are off the
\* EXCLUDE and invisible to resolution.
Row == [ from : Time, until : Bound, value : Value \union {NoValue},
         single : BOOLEAN, keyed : BOOLEAN, latest : BOOLEAN,
         status : Status, supersedes : RowId \union {NoRow},
         version : Nat \ {0}, root : RowId \union {NoRow},
         since  : Time, upto : Bound ]

Idle == [ kind |-> "none", cands |-> <<>>, target |-> {}, op |-> 0,
          attempt |-> 0, k |-> 0, now |-> 0, seen |-> {}, matches |-> {},
          closing |-> {}, draft |-> [from |-> 0, until |-> Forever],
          latest |-> FALSE, supersedes |-> NoRow ]

Init ==
  /\ db = <<>>
  /\ clock = 0
  /\ pc = [w \in Writer |-> "idle"]
  /\ tx = [w \in Writer |-> Idle]
  /\ writes = [w \in Writer |-> <<>>]
  /\ result = [w \in Writer |-> "none"]

-----------------------------------------------------------------------------
(* What a statement of w's transaction sees and may touch. *)

View(w) ==
  [ i \in DOMAIN writes[w] \union DOMAIN db |->
      IF i \in DOMAIN writes[w] THEN writes[w][i] ELSE db[i] ]

Free(w, i) == \A u \in Writer \ {w} : i \notin DOMAIN writes[u]

\* A statement of w writes a version of row i.
Put(w, i, row) ==
  writes' = [writes EXCEPT ![w] =
               [ j \in DOMAIN @ \union {i} |-> IF j = i THEN row ELSE @[j] ]]

\* Faulty variant: closed and forgotten rows of the key match too.
AllMatches(w) == { i \in DOMAIN View(w) : View(w)[i].keyed }

\* latest_matches_tx: the latest active rows of the key.
LatestMatches(w) ==
  { i \in DOMAIN View(w) : /\ View(w)[i].keyed
                           /\ View(w)[i].latest
                           /\ View(w)[i].status = "active" }

\* segment_starts_tx: starts of every segment of the key, whatever its status.
SegmentStarts(w) ==
  { View(w)[i].from : i \in { j \in DOMAIN View(w) : View(w)[j].keyed } }

Rows(w, ids) == [ i \in ids |-> View(w)[i] ]

Cand(w) == tx[w].cands[tx[w].k]

NewId(w) == <<w, tx[w].op, tx[w].k>>

-----------------------------------------------------------------------------
(* Leaving a transaction. *)

\* The call returns to its caller with outcome `out`.
Return(w, out) ==
  /\ pc' = [pc EXCEPT ![w] = "idle"]
  /\ tx' = [tx EXCEPT ![w] = [Idle EXCEPT !.op = tx[w].op]]
  /\ result' = [result EXCEPT ![w] = out]

Rollback(w) == writes' = [writes EXCEPT ![w] = <<>>]

\* Faulty variants of the retry loop: the conflict is swallowed and the rest
\* of the transaction committed; the loop does not count its attempts.
RetrySwallows(w, failure) ==
  /\ pc' = [pc EXCEPT ![w] = "commit"]
  /\ UNCHANGED <<tx, writes, result>>

RetryUncounted(w, failure) ==
  /\ Rollback(w)
  /\ pc' = [pc EXCEPT ![w] = "match"]
  /\ UNCHANGED <<tx, result>>

\* add_at's retry loop after a transient conflict: another attempt re-reads
\* everything; the last attempt's failure is returned.
Retry(w, failure) ==
  /\ Rollback(w)
  /\ IF tx[w].attempt + 1 < MaxRetries
     THEN /\ pc' = [pc EXCEPT ![w] = "begin"]
          /\ tx' = [tx EXCEPT ![w].attempt = @ + 1]
          /\ UNCHANGED result
     ELSE Return(w, failure)

-----------------------------------------------------------------------------
(* Requests. *)

\* forget_memory and update_memory name a row by its id; the other calls name
\* the key through what extraction makes of their text.
ById(kind) == kind \in {"forget", "edit"}

\* A caller issues its next request.  Extraction and embedding run here,
\* outside any transaction.
Submit(w) ==
  /\ pc[w] = "idle"
  /\ tx[w].op < MaxOps
  /\ \E kind \in Kinds :
       \E cands  \in IF ById(kind) THEN {<<>>} ELSE AddRequest,
          target \in IF ById(kind) THEN { {i} : i \in DOMAIN db } ELSE {{}} :
         tx' = [tx EXCEPT ![w] =
                  [Idle EXCEPT !.kind = kind, !.cands = cands,
                               !.target = target, !.op = tx[w].op + 1]]
  /\ pc' = [pc EXCEPT ![w] = "begin"]
  /\ result' = [result EXCEPT ![w] = "none"]
  /\ UNCHANGED <<db, clock, writes>>

\* begin_tenant: now() is fixed for the whole transaction.
Begin(w) ==
  /\ pc[w] = "begin"
  /\ clock < MaxTime
  /\ clock' = clock + 1
  /\ tx' = [tx EXCEPT ![w].now = clock + 1, ![w].k = 1]
  /\ pc' = [pc EXCEPT ![w] =
              CASE tx[w].kind \in {"add", "forgetContent"} -> "match"
                [] tx[w].kind = "forget" -> "tombstone"
                [] tx[w].kind = "edit" -> "edit"]
  /\ UNCHANGED <<db, writes, result>>

\* The transaction has no more candidates once `k` passes the last one.
NextCandidate(w) ==
  IF tx[w].k < Len(tx[w].cands)
  THEN /\ pc' = [pc EXCEPT ![w] = "match"]
       /\ tx' = [tx EXCEPT ![w].k = @ + 1]
  ELSE /\ pc' = [pc EXCEPT ![w] = "commit"]
       /\ UNCHANGED tx

-----------------------------------------------------------------------------
(* add: persist_candidates, one candidate at a time. *)

\* Faulty variant: the matches are read once and kept across retries.
ReadMatchesOnce(w) ==
  /\ pc[w] = "match"
  /\ tx[w].kind = "add"
  /\ tx' = [tx EXCEPT ![w].matches = IF tx[w].attempt = 0
                                     THEN LatestMatches(w) ELSE @,
                      ![w].seen = DOMAIN View(w)]
  /\ pc' = [pc EXCEPT ![w] = "resolve"]
  /\ UNCHANGED <<db, clock, writes, result>>

\* Faulty variant: one read of the matches serves all candidates of the request.
ReadMatchesForAll(w) ==
  /\ pc[w] = "match"
  /\ tx[w].kind = "add"
  /\ tx' = [tx EXCEPT ![w].matches = IF tx[w].k = 1 THEN LatestMatches(w) ELSE @,
                      ![w].seen = DOMAIN View(w)]
  /\ pc' = [pc EXCEPT ![w] = "resolve"]
  /\ UNCHANGED <<db, clock, writes, result>>

ReadMatches(w) ==
  /\ pc[w] = "match"
  /\ tx[w].kind = "add"
  /\ tx' = [tx EXCEPT ![w].matches = LatestMatches(w),
                      ![w].seen = DOMAIN View(w)]
  /\ pc' = [pc EXCEPT ![w] = "resolve"]
  /\ UNCHANGED <<db, clock, writes, result>>

\* decide, then the branch it selects.  The rows it reads were fetched by
\* ReadMatches; only value and start are used, which no statement changes.  A
\* candidate without a time is dated by Utc::now() of the caller's process.
Resolve(w) ==
  LET matches == Rows(w, tx[w].matches)
      priors  == Rows(w, Contradicted(Cand(w), matches))
      iv      == Interval(Cand(w), clock + 1)
      newer   == IsNewer(iv.from, priors)
  IN  /\ pc[w] = "resolve"
      /\ \/ /\ Decide(Cand(w), matches) = "dedup"
            /\ pc' = [pc EXCEPT ![w] = "bump"]
            /\ UNCHANGED <<clock, tx>>
         \/ /\ Decide(Cand(w), matches) # "dedup"
            /\ clock < MaxTime
            /\ clock' = IF Cand(w).from = Unset THEN clock + 1 ELSE clock
            /\ pc' = [pc EXCEPT ![w] =
                        CASE Decide(Cand(w), matches) = "insert" -> "insert"
                          [] newer -> "close"
                          [] OTHER -> "starts"]
            /\ tx' = [tx EXCEPT ![w].draft = iv,
                                ![w].latest = newer,
                                ![w].supersedes = NoRow,
                                ![w].closing = DOMAIN priors]
      /\ UNCHANGED <<db, writes, result>>

\* close_prior_tx: by id, with no look at the status the row has by now.
CloseRow(row, at, now) ==
  [row EXCEPT !.until = at, !.upto = now, !.status = "superseded",
              !.latest = FALSE]

\* Closing the priors one by one.  The range recorded_time is closed at this
\* transaction's now(); a prior recorded later makes that range inverted,
\* which PostgreSQL refuses (22000, not a transient conflict).
ClosePrior(w) ==
  /\ pc[w] = "close"
  /\ \E i \in tx[w].closing :
       /\ Free(w, i)
       /\ IF \/ View(w)[i].from >= tx[w].draft.from
             \/ View(w)[i].since > tx[w].now
          THEN Rollback(w) /\ Return(w, "error")
          ELSE /\ Put(w, i, CloseRow(View(w)[i], tx[w].draft.from, tx[w].now))
               /\ tx' = [tx EXCEPT ![w].closing = @ \ {i},
                           ![w].supersedes =
                             IF @ = NoRow \/ View(w)[i].from > View(w)[@].from
                             THEN i ELSE @]
               /\ pc' = [pc EXCEPT ![w] =
                           IF tx[w].closing = {i} THEN "insert" ELSE "close"]
               /\ UNCHANGED result
  /\ UNCHANGED <<db, clock>>

\* apply_supersede, late fact: cap the history row.
ReadStarts(w) ==
  /\ pc[w] = "starts"
  /\ tx' = [tx EXCEPT ![w].draft.until =
                HistoryUntil(tx[w].draft, SegmentStarts(w))]
  /\ pc' = [pc EXCEPT ![w] = "insert"]
  /\ UNCHANGED <<db, clock, writes, result>>

\* Faulty variant: a late row is stored as the latest one too.
NewRowAlwaysLatest(w) ==
  [ from |-> tx[w].draft.from, until |-> tx[w].draft.until,
    value |-> Cand(w).value, single |-> Cand(w).single, keyed |-> TRUE,
    latest |-> TRUE, status |-> "active",
    supersedes |-> tx[w].supersedes, version |-> 1, root |-> NoRow,
    since |-> tx[w].now, upto |-> Forever ]

\* Faulty variant: a late row claims to supersede the rows newer than it.
NewRowLinksNewer(w) ==
  [ from |-> tx[w].draft.from, until |-> tx[w].draft.until,
    value |-> Cand(w).value, single |-> Cand(w).single, keyed |-> TRUE,
    latest |-> tx[w].latest, status |-> "active",
    supersedes |-> IF tx[w].latest \/ tx[w].closing = {} THEN tx[w].supersedes
                   ELSE CHOOSE i \in tx[w].closing : TRUE,
    version |-> 1, root |-> NoRow, since |-> tx[w].now, upto |-> Forever ]

\* The row insert_memory_full_tx writes.
NewRow(w) ==
  [ from |-> tx[w].draft.from, until |-> tx[w].draft.until,
    value |-> Cand(w).value, single |-> Cand(w).single, keyed |-> TRUE,
    latest |-> tx[w].latest, status |-> "active",
    supersedes |-> tx[w].supersedes, version |-> 1, root |-> NoRow,
    since |-> tx[w].now, upto |-> Forever ]

\* insert_memory_full_tx, until the EXCLUDE check: the row and its index entry
\* are written, and the checks of other transactions meet them.  The row joins
\* writes[w] when its own check is through; no other statement sees it before.
InsertRow(w) ==
  /\ pc[w] = "insert"
  /\ pc' = [pc EXCEPT ![w] = "check"]
  /\ UNCHANGED <<db, clock, tx, writes, result>>

\* Committed rows, and rows of its own, the check of w's new row conflicts with.
Rivals(w) ==
  { i \in DOMAIN View(w) : Free(w, i) /\ Excludes(NewRow(w), View(w)[i]) }

\* u's transaction decides whether the check of `row` finds a conflict: it has
\* written a row in conflict, checked by now or not, or locked one.
InTheWay(u, row) ==
  \/ pc[u] = "check" /\ Excludes(row, NewRow(u))
  \/ \E i \in DOMAIN writes[u] :
       \/ Excludes(row, writes[u][i])
       \/ i \in DOMAIN db /\ Excludes(row, db[i])

Undecided(w) == \E u \in Writer \ {w} : InTheWay(u, NewRow(w))

\* The EXCLUDE check of a new row.
CheckRow(w) ==
  /\ pc[w] = "check"
  /\ \/ /\ Rivals(w) # {}                       \* 23P01
        /\ Retry(w, "conflict")
     \/ /\ Rivals(w) = {}
        /\ ~Undecided(w)                        \* otherwise wait
        /\ Put(w, NewId(w), NewRow(w))
        /\ NextCandidate(w)
        /\ UNCHANGED result
  /\ UNCHANGED <<db, clock>>

\* bump_confidence_tx: touches the matched row by id, whatever became of it.
\* The new version goes on the old one's page if there is room (a heap-only
\* update, `confidence` being in no index); otherwise it gets index entries of
\* its own and is checked like a new row.
Bump(w) ==
  /\ pc[w] = "bump"
  /\ \E i \in Duplicates(Cand(w), Rows(w, tx[w].matches)) :
       /\ Free(w, i)
       /\ Put(w, i, View(w)[i])
  /\ \/ NextCandidate(w)
     \/ pc' = [pc EXCEPT ![w] = "recheck"] /\ UNCHANGED tx
  /\ UNCHANGED <<db, clock, result>>

\* The row whose confidence w has raised.
Bumped(w) == Duplicates(Cand(w), Rows(w, tx[w].matches)) \cap DOMAIN writes[w]

\* The EXCLUDE check of a bumped row's new version.  No committed row is in
\* conflict with an active one, so it only ever waits.
Recheck(w) ==
  /\ pc[w] = "recheck"
  /\ \A i \in Bumped(w), u \in Writer \ {w} : ~InTheWay(u, View(w)[i])
  /\ NextCandidate(w)
  /\ UNCHANGED <<db, clock, writes, result>>

-----------------------------------------------------------------------------
(* forget, forget_by_id, forget_by_content. *)

\* forget_by_content: the latest matches, or those carrying the named value.
ReadForgetTargets(w) ==
  /\ pc[w] = "match"
  /\ tx[w].kind = "forgetContent"
  /\ tx' = [tx EXCEPT ![w].target =
              { i \in LatestMatches(w) :
                  Cand(w).value \in {NoValue, View(w)[i].value} }]
  /\ pc' = [pc EXCEPT ![w] = "tombstone"]
  /\ UNCHANGED <<db, clock, writes, result>>

ForgetRow(row, now) ==
  [row EXCEPT !.status = "forgotten", !.latest = FALSE,
              !.upto = IF now > row.since THEN now ELSE @]

\* forget_memory_by_id_tx / forget_source_memories_tx on one row; the status
\* is re-checked on the version the statement locks.
Tombstone(w) ==
  /\ pc[w] = "tombstone"
  /\ \E i \in tx[w].target :
       /\ Free(w, i)
       /\ tx' = [tx EXCEPT ![w].target = @ \ {i}]
       /\ IF View(w)[i].status = "active"
          THEN Put(w, i, ForgetRow(View(w)[i], tx[w].now))
          ELSE UNCHANGED writes
  /\ UNCHANGED <<db, clock, pc, result>>

\* Every target of the current candidate, if there was any, is tombstoned.
TombstonesDone(w) ==
  /\ pc[w] = "tombstone"
  /\ tx[w].target = {}
  /\ NextCandidate(w)
  /\ UNCHANGED <<db, clock, writes, result>>

-----------------------------------------------------------------------------
(* update_memory: SELECT ... FOR UPDATE, insert the version, close the prior. *)

\* The first version of i's chain: its root, or i itself when it has none.
RootOf(rows, i) == IF rows[i].root = NoRow THEN i ELSE rows[i].root

\* Faulty variant: a version is rooted at the one before it.
EditedRowUnrooted(w, i) ==
  [ from |-> tx[w].now, until |-> Forever, value |-> NoValue, single |-> FALSE,
    keyed |-> FALSE, latest |-> TRUE, status |-> "active", supersedes |-> i,
    version |-> View(w)[i].version + 1, root |-> i,
    since |-> tx[w].now, upto |-> Forever ]

EditedRow(w, i) ==
  [ from |-> tx[w].now, until |-> Forever, value |-> NoValue, single |-> FALSE,
    keyed |-> FALSE, latest |-> TRUE, status |-> "active", supersedes |-> i,
    version |-> View(w)[i].version + 1, root |-> RootOf(View(w), i),
    since |-> tx[w].now, upto |-> Forever ]

EditClosed(w, i) ==
  [View(w)[i] EXCEPT !.latest = FALSE, !.status = "superseded",
                     !.upto = IF tx[w].now > View(w)[i].since
                              THEN tx[w].now ELSE @]

\* Faulty variant: the version to edit is chosen by a read that takes no lock.
EditableOnce(w, i) == i \in DOMAIN db

\* Only the latest active version, as it is once its lock is granted.
Editable(w, i) == View(w)[i].latest /\ View(w)[i].status = "active"

\* The three statements are one step: the first waits for the row lock, the
\* others touch only that row and a fresh row no constraint covers.
Edit(w) ==
  /\ pc[w] = "edit"
  /\ \E i \in tx[w].target :
       /\ Free(w, i)
       /\ writes' = IF Editable(w, i)
                    THEN [writes EXCEPT ![w] =
                            [ j \in {i, NewId(w)} |->
                                IF j = i THEN EditClosed(w, i) ELSE EditedRow(w, i) ]]
                    ELSE writes
  /\ pc' = [pc EXCEPT ![w] = "commit"]
  /\ UNCHANGED <<db, clock, tx, result>>

-----------------------------------------------------------------------------
(* version_chain: the other versions of a committed memory, and how the search *)
(* handler splits them.                                                        *)

VersionChain(i) ==
  LET root == RootOf(db, i)
  IN  { j \in DOMAIN db \ {i} : db[j].root = root \/ j = root }

Parents(i)  == { j \in VersionChain(i) : db[j].version < db[i].version }
Children(i) == VersionChain(i) \ Parents(i)

-----------------------------------------------------------------------------

Commit(w) ==
  /\ pc[w] = "commit"
  /\ db' = View(w)
  /\ Rollback(w)
  /\ Return(w, IF writes[w] = <<>> THEN "nothing" ELSE "ok")
  /\ UNCHANGED clock

\* The connection is lost, the task is cancelled or the process dies:
\* PostgreSQL aborts the transaction and the caller has no answer.
Drop(w) ==
  /\ pc[w] # "idle"
  /\ Rollback(w)
  /\ Return(w, "dropped")
  /\ UNCHANGED <<db, clock>>

\* PostgreSQL breaks a cycle of waiting transactions by failing one (40P01).
WaitsFor(w, u) ==
  /\ u # w
  /\ \/ /\ pc[w] = "close"
        /\ \A i \in tx[w].closing : ~Free(w, i)
        /\ tx[w].closing \cap DOMAIN writes[u] # {}
     \/ pc[w] = "check" /\ InTheWay(u, NewRow(w))
     \/ /\ pc[w] = "recheck"
        /\ \E i \in Bumped(w) : InTheWay(u, View(w)[i])
     \/ /\ pc[w] \in {"tombstone", "edit"}
        /\ \A i \in tx[w].target : ~Free(w, i)
        /\ tx[w].target \cap DOMAIN writes[u] # {}
     \/ /\ pc[w] = "bump"
        /\ \A i \in Duplicates(Cand(w), Rows(w, tx[w].matches)) :
             i \in DOMAIN writes[u]

\* Every transaction of S waits for one of S, and is waited for.
Ring(S) ==
  \A u \in S : /\ \E v \in S : WaitsFor(u, v)
               /\ \E v \in S : WaitsFor(v, u)

DeadlockVictim(w) ==
  /\ \E S \in SUBSET Writer : w \in S /\ Ring(S)
  /\ IF tx[w].kind = "add"
     THEN Retry(w, "deadlock")
     ELSE Rollback(w) /\ Return(w, "error")
  /\ UNCHANGED <<db, clock>>

Step(w) ==
  \/ Begin(w) \/ ReadMatches(w) \/ Resolve(w) \/ Bump(w) \/ ClosePrior(w)
  \/ ReadStarts(w) \/ InsertRow(w) \/ CheckRow(w) \/ Recheck(w)
  \/ ReadForgetTargets(w) \/ Tombstone(w) \/ TombstonesDone(w) \/ Edit(w)
  \/ Commit(w) \/ DeadlockVictim(w)

Next == \E w \in Writer : Submit(w) \/ Step(w) \/ Drop(w)

Spec == Init /\ [][Next]_vars

\* Every transaction PostgreSQL can advance is advanced; callers need not
\* issue requests and connections need not break.
FairSpec == Spec /\ \A w \in Writer : WF_vars(Step(w))
-----------------------------------------------------------------------------
(* Properties. *)

TypeOK ==
  /\ DOMAIN db \subseteq RowId /\ \A i \in DOMAIN db : db[i] \in Row
  /\ clock \in Time
  /\ pc \in [Writer -> {"idle", "begin", "match", "resolve", "bump", "close",
                        "starts", "insert", "check", "recheck", "tombstone",
                        "edit", "commit"}]
  /\ result \in [Writer -> Result]
  /\ \A w \in Writer :
       /\ DOMAIN writes[w] \subseteq RowId
       /\ \A i \in DOMAIN writes[w] : writes[w][i] \in Row
       /\ pc[w] = "idle" => writes[w] = <<>>
       /\ tx[w].op \in 0 .. MaxOps /\ tx[w].attempt \in 0 .. MaxRetries - 1

ActiveFact(r) == r.keyed /\ r.single /\ r.status = "active"
Current(r)    == ActiveFact(r) /\ r.latest

\* A supersession is all or nothing: a row is committed as superseded only
\* together with a row that replaces it, whatever conflicts, retries and lost
\* connections happened on the way (persist, apply_supersede).
ClosedHasSuccessor ==
  \A i \in DOMAIN db : db[i].status = "superseded" =>
    \E j \in DOMAIN db : \/ db[j].supersedes = i
                         \/ db[j].keyed /\ db[j].from = db[i].until

\* The supersession lineage runs forward in event time, so it cannot loop and
\* walking it visits a key's beliefs in the order they became true.
LineageForward ==
  \A i \in DOMAIN db : db[i].keyed /\ db[i].supersedes # NoRow =>
    /\ db[i].supersedes \in DOMAIN db
    /\ db[db[i].supersedes].from < db[i].from

\* "two active single-valued facts never coexist" (resolve.rs) as current
\* beliefs: however adds, edits and forgets race, one row at most is the latest.
OneCurrentFact ==
  \A i, j \in DOMAIN db : Current(db[i]) /\ Current(db[j]) => i = j

\* Two PATCHes of one memory never both succeed: an edited memory has a single
\* next version, and the history of its text does not branch.
EditsDoNotBranch ==
  \A i, j \in DOMAIN db :
    /\ ~db[i].keyed /\ ~db[j].keyed
    /\ db[i].supersedes = db[j].supersedes
    => i = j

\* The context a search hit carries is the memory's whole edit history, seen
\* from where it stands: one parent for each earlier version, the edited one
\* among them, and it is a child of exactly its parents (version_chain).
ChainIsHistory ==
  \A i \in DOMAIN db :
    /\ Cardinality(Parents(i)) = db[i].version - 1
    /\ ~db[i].keyed => db[i].supersedes \in Parents(i)
    /\ Children(i) = { j \in DOMAIN db : i \in Parents(j) }

\* Arrival order does not decide what is current: no active fact about the key
\* starts after the latest one.
LatestIsNewest ==
  \A i, j \in DOMAIN db :
    Current(db[i]) /\ ActiveFact(db[j]) => db[j].from <= db[i].from

\* An attempt is denied by the exclusion constraint only because some other
\* transaction committed a row after the attempt read its matches, so every
\* retry reads something new.
Conflicted(w) ==
  /\ pc[w] = "check" /\ Rivals(w) # {}
  /\ pc'[w] \in {"begin", "idle"} /\ result'[w] # "dropped"

ConflictMeansProgress ==
  [][\A w \in Writer : Conflicted(w) =>
       \E i \in Rivals(w) : i \notin tx[w].seen]_vars

\* With dated facts a retry may be pointless, but only for a late one: a row that
\* was current when the attempt read its matches denies nothing, since what is
\* newer closes it and what is older stops short of it, unless both start at the
\* very same instant.
DeniedByHistoryOnly ==
  [][\A w \in Writer : Conflicted(w) =>
       \E i \in Rivals(w) :
         \/ i \notin tx[w].seen
         \/ ~View(w)[i].latest
         \/ View(w)[i].from = tx[w].draft.from]_vars

\* Where facts hold from when they are written, no order of locks can deadlock:
\* the transactions of a ring all wait in an EXCLUDE check, for rows that are
\* being written side by side.
OnlyChecksDeadlock ==
  \A S \in SUBSET Writer : Ring(S) => \A w \in S : pc[w] \in {"check", "recheck"}

\* A race of one add each is won by somebody, whatever attempts its rings and
\* conflicts cost: who is refused has been outrun by one who is not.
Refused(w) == result[w] \in {"conflict", "deadlock"}

RaceIsWon ==
  (\A u \in Writer : tx[u].op <= 1) =>
    \A w \in Writer : Refused(w) => \E u \in Writer : ~Refused(u)

\* Every request is answered: no wait, retry or deadlock lasts for ever.
EveryRequestReturns == \A w \in Writer : pc[w] # "idle" ~> pc[w] = "idle"

-----------------------------------------------------------------------------
(* What comments of the code say and racing calls refute. *)

\* engine/src/lib.rs:292: "two concurrent writers for the same fact converge".
ConcurrentAddsSucceed ==
  \A w \in Writer : result[w] \notin {"conflict", "error"}

\* store/src/lib.rs:1033: forgetting leaves valid_time intact; nothing rewrites
\* a tombstone later.
TombstoneIsFinal ==
  [][\A i \in DOMAIN db :
       db[i].status = "forgotten" =>
         /\ db'[i].status = "forgotten"
         /\ db'[i].from = db[i].from /\ db'[i].until = db[i].until]_vars
=============================================================================
