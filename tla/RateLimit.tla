------------------------------ MODULE RateLimit ------------------------------
(***************************************************************************)
(* RateLimiter::allow: a token bucket per API key in one server process,   *)
(* called by concurrent handler threads.  The clock is read before the     *)
(* lock on the buckets is taken, so the two are separate steps and answers *)
(* may be computed in another order than the instants they use.            *)
(*                                                                         *)
(* Time is a counter of ticks; Period ticks earn one token, and a credit   *)
(* is one Period-th of a token, so refills are exact.                      *)
(***************************************************************************)
EXTENDS Integers

CONSTANTS
  Key,       \* API keys, as the digests buckets are kept by
  Thread,    \* handler threads of the process
  Capacity,  \* requests a full bucket pays for; 0 disables the limiter
  Period,    \* ticks that earn one request
  MaxTime,   \* bound of the clock
  Nobody     \* no call in progress

ASSUME LimitAssumption ==
  Capacity \in Nat /\ Period \in Nat \ {0} /\ MaxTime \in Nat

VARIABLES
  clock,    \* Instant::now(), monotone
  buckets,  \* credits and last refill of every key that was ever answered
  asking,   \* the call of allow each thread is in: its key and its instant
  ledger    \* history: what each key was granted since someone last looked

limitVars == <<clock, buckets, asking, ledger>>

Full == Capacity * Period

Bucket == [credit : 0 .. Full, last : 0 .. MaxTime]

NewLedger == [k \in Key |-> [admitted |-> 0, born |-> 0, latest |-> 0, setBack |-> 0]]

LimitInit ==
  /\ clock = 0
  /\ buckets = <<>>
  /\ asking = [t \in Thread |-> Nobody]
  /\ ledger = NewLedger

Tick ==
  /\ clock < MaxTime
  /\ clock' = clock + 1
  /\ UNCHANGED <<buckets, asking, ledger>>

\* allow is entered and reads the clock.
Ask(t, k) ==
  /\ asking[t] = Nobody
  /\ asking' = [asking EXCEPT ![t] = [key |-> k, at |-> clock]]
  /\ UNCHANGED <<clock, buckets, ledger>>

\* Faulty variant: credits are not capped at a full bucket.
RefillUncapped(b, at) == b.credit + IF at > b.last THEN at - b.last ELSE 0

\* duration_since saturates at zero when `at` is before the last refill.
Refill(b, at) ==
  LET credit == b.credit + IF at > b.last THEN at - b.last ELSE 0
  IN  IF credit < Full THEN credit ELSE Full

\* Faulty variant: the last token is never spent.
PaysStrictly(credit) == credit > Period

Pays(credit) == credit >= Period

\* Faulty variant: the token is spent before it is known to be there.
RefilledOverdrawn(b, at) == [credit |-> Refill(b, at) - Period, last |-> at]

\* An existing bucket after a call: `last` moves to `at` even if that is older.
Refilled(b, at) ==
  LET credit == Refill(b, at)
  IN  [credit |-> IF Pays(credit) THEN credit - Period ELSE credit, last |-> at]

Allowed(k, at) ==
  \/ Capacity = 0
  \/ k \notin DOMAIN buckets
  \/ Pays(Refill(buckets[k], at))

BucketAfter(k, at) ==
  IF k \in DOMAIN buckets THEN Refilled(buckets[k], at)
  ELSE [credit |-> Full - Period, last |-> at]

\* The history of k with a call at `at`: requests admitted at instants since
\* `born`, how far `last` was moved back meanwhile, the latest instant seen.
LedgerAfter(k, at) ==
  LET old == ledger[k]
      new == k \notin DOMAIN buckets
  IN  [ admitted |-> old.admitted + IF Allowed(k, at) /\ at >= old.born THEN 1 ELSE 0,
        born     |-> old.born,
        latest   |-> IF new \/ at > old.latest THEN at ELSE old.latest,
        setBack  |-> old.setBack + IF ~new /\ at < buckets[k].last
                                   THEN buckets[k].last - at ELSE 0 ]

\* allow holds the lock: it refills, spends or refuses, and returns.
Answer(t) ==
  /\ asking[t] # Nobody
  /\ LET k  == asking[t].key
         at == asking[t].at
     IN  IF Capacity = 0
         THEN UNCHANGED <<buckets, ledger>>
         ELSE /\ buckets' = [ j \in DOMAIN buckets \union {k} |->
                              IF j = k THEN BucketAfter(k, at) ELSE buckets[j] ]
              /\ ledger' = [ledger EXCEPT ![k] = LedgerAfter(k, at)]
  /\ asking' = [asking EXCEPT ![t] = Nobody]
  /\ UNCHANGED clock

\* History only: at any one moment somebody starts counting what a key is granted.
Observe(k) ==
  /\ k \in DOMAIN buckets
  /\ ledger[k].born = 0
  /\ ledger' = [ledger EXCEPT ![k].admitted = 0, ![k].born = clock, ![k].setBack = 0]
  /\ UNCHANGED <<clock, buckets, asking>>

\* The process restarts: buckets are kept in its memory only.
Restart ==
  /\ buckets' = <<>>
  /\ asking' = [t \in Thread |-> Nobody]
  /\ ledger' = NewLedger
  /\ UNCHANGED clock

LimitNext ==
  \/ Tick
  \/ Restart
  \/ \E k \in Key : Observe(k)
  \/ \E t \in Thread : Answer(t) \/ \E k \in Key : Ask(t, k)

LimitSpec == LimitInit /\ [][LimitNext]_limitVars
-----------------------------------------------------------------------------
LimitTypeOK ==
  /\ clock \in 0 .. MaxTime
  /\ DOMAIN buckets \subseteq Key /\ \A k \in DOMAIN buckets : buckets[k] \in Bucket
  /\ asking \in [Thread -> [key : Key, at : 0 .. MaxTime] \union {Nobody}]
  /\ ledger \in [Key -> [admitted : Nat, born : Nat, latest : Nat, setBack : Nat]]

\* Counted from any moment, a key is admitted no more than a full bucket and
\* the time since then pay for ("per_minute requests sustained, bursting up to
\* per_minute"), except for the time by which threads that were overtaken
\* between reading the clock and taking the lock moved the last refill back.
RateHeld ==
  \A k \in DOMAIN buckets : ledger[k].admitted > 0 =>
    Period * ledger[k].admitted
      <= Full + (clock - ledger[k].born) + ledger[k].setBack

\* A key that keeps one Period away from all its earlier requests is never
\* refused, whatever other keys do and however its calls overtake each other.
Refused(t) ==
  /\ asking[t] # Nobody /\ asking'[t] = Nobody
  /\ asking[t].key \in DOMAIN buckets'
  /\ ~Allowed(asking[t].key, asking[t].at)

SpacedNeverRefused ==
  [][\A t \in Thread : Refused(t) =>
       asking[t].at < ledger[asking[t].key].latest + Period]_limitVars
=============================================================================
