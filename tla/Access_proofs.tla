---------------------------- MODULE Access_proofs ----------------------------
(***************************************************************************)
(* Proofs about the rate limiter, for any sets of keys and threads, any    *)
(* capacity and any refill period, and about API keys and authentication   *)
(* on top of it, for any numbers of operators, tenants and keys; and that  *)
(* row-level security keeps tenants apart, for any number of processes.    *)
(***************************************************************************)
EXTENDS Access, Tenancy, TLAPS

-----------------------------------------------------------------------------
(* The rate limiter. *)


\* A bucket and the history of its key agree: what was granted and what is
\* left is at most what the key started with, earned, and was credited twice.
Balanced(k) ==
  ledger[k].admitted > 0 =>
  Period * ledger[k].admitted + buckets[k].credit
    <= Full + (buckets[k].last - ledger[k].born) + ledger[k].setBack

\* The strengthening that is inductive.
IInv ==
  /\ LimitTypeOK
  /\ \A t \in Thread : asking[t] # Nobody => asking[t].at <= clock
  /\ \A k \in Key \ DOMAIN buckets :
       ledger[k].admitted = 0 /\ ledger[k].setBack = 0
  /\ \A k \in DOMAIN buckets :
       /\ Capacity > 0
       /\ Balanced(k)
       /\ buckets[k].last <= ledger[k].latest
       /\ buckets[k].last <= clock

\* A full bucket pays for at least one request.
LEMMA FullPays == Capacity > 0 => Full \in Nat /\ Full >= Period
  <1>1. ASSUME NEW C \in Nat, NEW P \in Nat, C > 0
        PROVE  C * P \in Nat /\ C * P >= P
    <2>1. PICK d \in Nat : C = d + 1
      BY <1>1
    <2>2. (d + 1) * P = d * P + P /\ d * P \in Nat
      OBVIOUS
    <2> QED BY <2>1, <2>2
  <1> QED BY <1>1, LimitAssumption DEF Full

\* A refill stays within the bucket and adds no more than the time elapsed.
LEMMA RefillBounds ==
  ASSUME NEW b \in Bucket, NEW at \in 0 .. MaxTime, Capacity > 0
  PROVE  /\ Refill(b, at) \in 0 .. Full
         /\ at > b.last => Refill(b, at) <= b.credit + (at - b.last)
         /\ at <= b.last => Refill(b, at) <= b.credit
         /\ at >= b.last + Period => Refill(b, at) >= Period
  BY FullPays, LimitAssumption DEF Bucket, Refill

\* The whole of Answer's effect on the bucket and the history of a key.
LEMMA BalanceKept ==
  ASSUME NEW k \in Key, NEW at \in 0 .. MaxTime, IInv, at <= clock, Capacity > 0
  PROVE  /\ BucketAfter(k, at) \in Bucket
         /\ LedgerAfter(k, at) \in
              [admitted : Nat, born : Nat, latest : Nat, setBack : Nat]
         /\ BucketAfter(k, at).last = at
         /\ at <= LedgerAfter(k, at).latest
         /\ LedgerAfter(k, at).admitted > 0 =>
            Period * LedgerAfter(k, at).admitted + BucketAfter(k, at).credit
              <= Full + (at - LedgerAfter(k, at).born) + LedgerAfter(k, at).setBack
  <1> DEFINE old == ledger[k]
             new == LedgerAfter(k, at)
             b   == buckets[k]
  <1>1. /\ Full \in Nat /\ Full >= Period
        /\ Period \in Nat \ {0} /\ MaxTime \in Nat
    BY FullPays, LimitAssumption
  <1>2. /\ old.admitted \in Nat /\ old.born \in Nat
        /\ old.latest \in Nat /\ old.setBack \in Nat
    BY DEF IInv, LimitTypeOK
  <1>3. /\ Period * (old.admitted + 1) = Period * old.admitted + Period
        /\ Period * old.admitted \in Int
    BY <1>1, <1>2
  <1>4. CASE k \notin DOMAIN buckets
    <2>1. BucketAfter(k, at) = [credit |-> Full - Period, last |-> at]
      BY <1>4 DEF BucketAfter
    <2>2. new = [ admitted |-> old.admitted + IF at >= old.born THEN 1 ELSE 0,
                  born |-> old.born, latest |-> at, setBack |-> old.setBack ]
      BY <1>2, <1>4 DEF LedgerAfter, Allowed
    <2>3. old.admitted = 0
      BY <1>4 DEF IInv
    <2> QED BY <1>1, <1>2, <2>1, <2>2, <2>3 DEF Bucket
  <1>5. CASE k \in DOMAIN buckets
    <2> DEFINE credit == Refill(b, at)
    <2>1. b \in Bucket /\ Balanced(k) /\ b.last <= old.latest
      BY <1>5 DEF IInv, LimitTypeOK
    <2>2. /\ credit \in 0 .. Full
          /\ at > b.last => credit <= b.credit + (at - b.last)
          /\ at <= b.last => credit <= b.credit
      BY <2>1, RefillBounds
    <2>3. BucketAfter(k, at) =
            [credit |-> IF Pays(credit) THEN credit - Period ELSE credit, last |-> at]
      BY <1>5 DEF BucketAfter, Refilled
    <2>4. new = [ admitted |-> old.admitted
                                 + IF Pays(credit) /\ at >= old.born THEN 1 ELSE 0,
                  born     |-> old.born,
                  latest   |-> IF at > old.latest THEN at ELSE old.latest,
                  setBack  |-> old.setBack + IF at < b.last THEN b.last - at ELSE 0 ]
      BY <1>5 DEF LedgerAfter, Allowed
    <2>5. /\ b.credit \in Nat /\ b.last \in Nat /\ at \in Nat
          /\ old.admitted > 0 =>
             Period * old.admitted + b.credit
               <= Full + (b.last - old.born) + old.setBack
      BY <2>1 DEF Bucket, Balanced
    <2> HIDE DEF credit, old, b, new
    <2>6. CASE Pays(credit)
      <3>1. credit >= Period /\ credit - Period \in 0 .. Full
        BY <1>1, <2>2, <2>6 DEF Pays
      <3> QED BY <1>1, <1>2, <1>3, <2>2, <2>3, <2>4, <2>5, <2>6, <3>1 DEF Bucket, new
    <2>7. CASE ~Pays(credit)
      <3>1. new = [ admitted |-> old.admitted, born |-> old.born,
                    latest   |-> IF at > old.latest THEN at ELSE old.latest,
                    setBack  |-> old.setBack + IF at < b.last THEN b.last - at ELSE 0 ]
        BY <1>2, <2>4, <2>7
      <3>2. BucketAfter(k, at) = [credit |-> credit, last |-> at]
        BY <2>3, <2>7
      <3> QED BY <1>1, <1>2, <1>3, <2>2, <2>5, <3>1, <3>2 DEF Bucket, new
    <2> QED BY <2>6, <2>7
  <1> QED BY <1>4, <1>5

-----------------------------------------------------------------------------
\* The limiter starts in the invariant.
LEMMA LimitInitInv == LimitInit => IInv
  BY LimitAssumption DEF LimitInit, IInv, LimitTypeOK, NewLedger

\* Answer is the only step that changes a bucket.
LEMMA AnswerInv == ASSUME IInv, NEW t \in Thread, Answer(t) PROVE IInv'
  <1> DEFINE k  == asking[t].key
             at == asking[t].at
  <1>1. k \in Key /\ at \in 0 .. MaxTime /\ at <= clock /\ asking[t] # Nobody
    BY DEF IInv, LimitTypeOK, Answer
  <1>2. /\ asking' = [asking EXCEPT ![t] = Nobody]
        /\ clock' = clock
    BY DEF Answer
  <1>3. /\ asking' \in [Thread -> [key : Key, at : 0 .. MaxTime] \union {Nobody}]
        /\ \A u \in Thread : asking'[u] # Nobody => asking'[u].at <= clock'
    BY <1>2 DEF IInv, LimitTypeOK
  <1>4. CASE Capacity = 0
    <2>1. buckets' = buckets /\ ledger' = ledger
      BY <1>4 DEF Answer
    <2> QED BY <1>2, <1>3, <1>4, <2>1 DEF IInv, LimitTypeOK, Balanced
  <1>5. CASE Capacity # 0
    <2>1. Capacity > 0
      BY <1>5, LimitAssumption
    <2>2. /\ buckets' = [ j \in DOMAIN buckets \union {k} |->
                           IF j = k THEN BucketAfter(k, at) ELSE buckets[j] ]
          /\ ledger' = [ledger EXCEPT ![k] = LedgerAfter(k, at)]
      BY <1>5 DEF Answer
    <2> HIDE DEF k, at
    <2>3. /\ DOMAIN buckets' = DOMAIN buckets \union {k}
          /\ buckets'[k] = BucketAfter(k, at)
          /\ \A j \in DOMAIN buckets \ {k} : buckets'[j] = buckets[j]
      BY <2>2
    <2>4. /\ ledger'[k] = LedgerAfter(k, at)
          /\ \A j \in Key \ {k} : ledger'[j] = ledger[j]
      BY <1>1, <2>2 DEF IInv, LimitTypeOK
    <2>5. /\ buckets'[k] \in Bucket
          /\ ledger'[k] \in [admitted : Nat, born : Nat, latest : Nat, setBack : Nat]
          /\ buckets'[k].last = at
          /\ at <= ledger'[k].latest
          /\ ledger'[k].admitted > 0 =>
             Period * ledger'[k].admitted + buckets'[k].credit
               <= Full + (at - ledger'[k].born) + ledger'[k].setBack
      BY <1>1, <2>1, <2>3, <2>4, BalanceKept
    <2>6. LimitTypeOK'
      <3>1. ledger' \in [Key -> [admitted : Nat, born : Nat, latest : Nat, setBack : Nat]]
        BY <2>2, <2>4, <2>5 DEF IInv, LimitTypeOK
      <3>2. /\ DOMAIN buckets' \subseteq Key
            /\ \A j \in DOMAIN buckets' : buckets'[j] \in Bucket
        BY <1>1, <2>3, <2>5 DEF IInv, LimitTypeOK
      <3> QED BY <1>2, <1>3, <3>1, <3>2 DEF IInv, LimitTypeOK, Bucket, Full
    <2>7. ASSUME NEW j \in Key \ DOMAIN buckets'
          PROVE  ledger'[j].admitted = 0 /\ ledger'[j].setBack = 0
      BY <2>3, <2>4 DEF IInv
    <2>8. ASSUME NEW j \in DOMAIN buckets'
          PROVE  /\ Balanced(j)'
                 /\ buckets'[j].last <= ledger'[j].latest
                 /\ buckets'[j].last <= clock'
      <3>1. CASE j = k
        BY <1>1, <1>2, <2>5, <3>1 DEF Balanced, Full
      <3>2. CASE j # k
        <4>1. /\ j \in DOMAIN buckets /\ j \in Key
              /\ buckets'[j] = buckets[j] /\ ledger'[j] = ledger[j]
          BY <2>3, <2>4, <3>2 DEF IInv, LimitTypeOK
        <4> QED BY <1>2, <4>1 DEF IInv, Balanced, Full
      <3> QED BY <3>1, <3>2
    <2> QED BY <1>3, <2>1, <2>6, <2>7, <2>8 DEF IInv
  <1> QED BY <1>4, <1>5, LimitAssumption

\* Every step keeps the invariant.
LEMMA LimitStepInv == IInv /\ [LimitNext]_limitVars => IInv'
  <1> SUFFICES ASSUME IInv, [LimitNext]_limitVars PROVE IInv'
    OBVIOUS
  <1>1. CASE UNCHANGED limitVars
    BY <1>1 DEF limitVars, IInv, LimitTypeOK, Balanced, Bucket, Full
  <1>2. CASE Tick
    BY <1>2, LimitAssumption
    DEF Tick, IInv, LimitTypeOK, Balanced, Bucket, Full
  <1>3. CASE Restart
    BY <1>3 DEF Restart, IInv, LimitTypeOK, NewLedger
  <1>4. ASSUME NEW t \in Thread, NEW k \in Key, Ask(t, k) PROVE IInv'
    <2>1. clock \in Int /\ clock <= clock
      BY DEF IInv, LimitTypeOK
    <2>2. \A u \in Thread : asking'[u] # Nobody => asking'[u].at <= clock
      BY <1>4, <2>1 DEF Ask, IInv, LimitTypeOK
    <2>3. asking' \in [Thread -> [key : Key, at : 0 .. MaxTime] \union {Nobody}]
      BY <1>4 DEF Ask, IInv, LimitTypeOK
    <2> QED BY <1>4, <2>2, <2>3 DEF Ask, IInv, LimitTypeOK, Balanced, Bucket, Full
  <1>5. ASSUME NEW k \in Key, Observe(k) PROVE IInv'
    <2>1. /\ ledger' = [ledger EXCEPT ![k].admitted = 0, ![k].born = clock,
                                      ![k].setBack = 0]
          /\ UNCHANGED <<clock, buckets, asking>> /\ clock \in Nat
          /\ ledger \in [Key -> [admitted : Nat, born : Nat, latest : Nat, setBack : Nat]]
      BY <1>5, LimitAssumption DEF Observe, IInv, LimitTypeOK
    <2>2. /\ ledger'[k] = [admitted |-> 0, born |-> clock, latest |-> ledger[k].latest,
                           setBack |-> 0]
          /\ \A j \in Key \ {k} : ledger'[j] = ledger[j]
      BY <2>1
    <2>3. ledger' \in [Key -> [admitted : Nat, born : Nat, latest : Nat, setBack : Nat]]
      BY <2>1, <2>2
    <2>4. LimitTypeOK'
      BY <2>1, <2>3 DEF IInv, LimitTypeOK, Bucket, Full
    <2>5. ASSUME NEW j \in DOMAIN buckets'
          PROVE  /\ Capacity > 0
                 /\ Balanced(j)'
                 /\ buckets'[j].last <= ledger'[j].latest
                 /\ buckets'[j].last <= clock'
      <3>1. j \in Key /\ j \in DOMAIN buckets
        BY <2>1 DEF IInv, LimitTypeOK
      <3>2. CASE j = k
        BY <2>1, <2>2, <3>1, <3>2 DEF IInv, Balanced
      <3>3. CASE j # k
        BY <2>1, <2>2, <3>1, <3>3 DEF IInv, Balanced, Full
      <3> QED BY <3>2, <3>3
    <2>6. ASSUME NEW j \in Key \ DOMAIN buckets'
          PROVE  ledger'[j].admitted = 0 /\ ledger'[j].setBack = 0
      BY <1>5, <2>1, <2>2 DEF IInv, Observe
    <2>7. \A u \in Thread : asking'[u] # Nobody => asking'[u].at <= clock'
      BY <2>1 DEF IInv
    <2> QED BY <2>4, <2>5, <2>6, <2>7 DEF IInv
  <1>6. ASSUME NEW t \in Thread, Answer(t) PROVE IInv'
    BY <1>6, AnswerInv
  <1> QED BY <1>1, <1>2, <1>3, <1>4, <1>5, <1>6 DEF LimitNext

\* The invariant holds throughout.
LEMMA LimitInvariance == LimitSpec => []IInv
  BY LimitInitInv, LimitStepInv, PTL DEF LimitSpec

\* A key is never granted more than its bucket and the time elapsed pay for,
\* but for the time overtaken threads set the refill back (RateLimiter::allow).
THEOREM RateIsHeld == LimitSpec => []RateHeld
  <1>1. IInv => RateHeld
    <2> SUFFICES ASSUME IInv, NEW k \in DOMAIN buckets
                 PROVE  ledger[k].admitted > 0 => Period * ledger[k].admitted
                          <= Full + (clock - ledger[k].born) + ledger[k].setBack
      BY DEF RateHeld
    <2>1. /\ buckets[k] \in Bucket /\ Balanced(k) /\ buckets[k].last <= clock
          /\ clock \in Int /\ k \in Key /\ Capacity > 0
      BY DEF IInv, LimitTypeOK
    <2>2. ledger[k] \in [admitted : Nat, born : Nat, latest : Nat, setBack : Nat]
      BY <2>1 DEF IInv, LimitTypeOK
    <2>3. Full \in Nat /\ Period * ledger[k].admitted \in Int
      BY <2>1, <2>2, FullPays, LimitAssumption
    <2> QED BY <2>1, <2>2, <2>3 DEF Bucket, Balanced
  <1> QED BY <1>1, LimitInvariance, PTL

\* A key whose requests stay one Period apart is never refused, whatever other
\* keys do (RateLimiter::allow).
THEOREM SpacedIsServed == LimitSpec => SpacedNeverRefused
  <1>1. ASSUME IInv, NEW t \in Thread, Refused(t)
        PROVE  asking[t].at < ledger[asking[t].key].latest + Period
    <2> DEFINE k  == asking[t].key
               at == asking[t].at
    <2>1. k \in Key /\ at \in 0 .. MaxTime
      BY <1>1 DEF IInv, LimitTypeOK, Refused
    <2>2. ledger[k] \in [admitted : Nat, born : Nat, latest : Nat, setBack : Nat]
      BY <1>1, <2>1 DEF IInv, LimitTypeOK
    <2>3. k \in DOMAIN buckets /\ ~Pays(Refill(buckets[k], at)) /\ Capacity > 0
      BY <1>1, LimitAssumption DEF Refused, Allowed
    <2>4. buckets[k] \in Bucket /\ buckets[k].last <= ledger[k].latest
      BY <1>1, <2>3 DEF IInv, LimitTypeOK
    <2>5. ~(at >= buckets[k].last + Period)
      <3>1. /\ Refill(buckets[k], at) \in 0 .. Full
            /\ at >= buckets[k].last + Period => Refill(buckets[k], at) >= Period
        BY <2>1, <2>3, <2>4, RefillBounds
      <3> QED BY <2>3, <3>1 DEF Pays
    <2> QED BY <2>1, <2>2, <2>4, <2>5, LimitAssumption DEF Bucket
  <1>2. IInv => [\A t \in Thread : Refused(t) =>
                asking[t].at < ledger[asking[t].key].latest + Period]_limitVars
    BY <1>1
  <1> QED BY <1>2, LimitInvariance, PTL DEF LimitSpec, SpacedNeverRefused

-----------------------------------------------------------------------------
(* Keys and authentication. *)


\* Commands that hold a token hold different ones, none of them stored yet.
TokensUnique ==
  \A o \in Operator : issue[o].pc # "idle" =>
    /\ issue[o].token \notin DOMAIN keys
    /\ \A p \in Operator : issue[p].pc # "idle" /\ issue[p].token = issue[o].token
                             => p = o

\* What a command or a key says of its tenant is what the tenant's row says.
TenantsRight ==
  /\ \A r, s \in tenants : r.external = s.external => r = s
  /\ \A k \in DOMAIN keys : /\ keys[k].tenant \in tenants
                            /\ keys[k].tenant.external = keys[k].issuedTo
  /\ \A o \in Operator :
       /\ issue[o].pc = "resolve" =>
            \A r \in issue[o].seen : r \in tenants /\ r.external = issue[o].external
       /\ issue[o].pc = "store" => /\ issue[o].tenant \in tenants
                                   /\ issue[o].tenant.external = issue[o].external

\* A request past authentication holds a stored key and did not come late.
RequestsRight ==
  \A t \in Thread :
    /\ req[t].pc = "authenticate" /\ req[t].late =>
         req[t].token \in DOMAIN keys /\ keys[req[t].token].revoked
    /\ req[t].pc = "authenticate" => req[t].out = "none"
    /\ req[t].pc \in {"limit", "allow"} => /\ req[t].token \in DOMAIN keys
                                           /\ req[t].token \in Key
                                           /\ ~req[t].late /\ req[t].out = "none"
    /\ req[t].pc = "allow" /\ asking[t] # Nobody => asking[t].key = req[t].token
    /\ req[t].out = "passed" => ~req[t].late

StoreTypeOK ==
  /\ tenants \subseteq Tenant
  /\ DOMAIN keys \subseteq Key
  /\ \A k \in DOMAIN keys :
       keys[k] \in [tenant : Tenant, issuedTo : External, revoked : BOOLEAN]
  /\ issue \in [Operator -> Issue]
  /\ req \in [Thread -> Request]

AInv ==
  /\ StoreTypeOK
  /\ TokensUnique
  /\ TenantsRight
  /\ RequestsRight
  /\ DOMAIN buckets \subseteq DOMAIN keys

-----------------------------------------------------------------------------
\* The server starts in the invariant.
LEMMA AccessInitInv == Init => AInv
  <1> SUFFICES ASSUME Init PROVE AInv
    OBVIOUS
  <1>1. DOMAIN keys = {} /\ DOMAIN buckets = {} /\ tenants = {}
    BY DEF Init, LimitInit
  <1>2. NoReq \in Request /\ NoIssue \in Issue
    BY AccessAssumption DEF NoReq, Request, Issue
  <1>3. StoreTypeOK
    BY <1>1, <1>2 DEF Init, StoreTypeOK
  <1>4. TokensUnique /\ TenantsRight
    BY <1>1 DEF Init, TokensUnique, TenantsRight, NoIssue
  <1>5. RequestsRight
    BY DEF Init, RequestsRight, NoReq
  <1> QED BY <1>1, <1>3, <1>4, <1>5 DEF AInv

\* A step of one handler thread keeps the invariant: it changes nothing but
\* its request and the limiter.
LEMMA ThreadInv ==
  ASSUME AInv, IInv, NEW t \in Thread,
         Receive(t) \/ Authenticate(t) \/ EnterLimiter(t) \/ LeaveLimiter(t)
  PROVE  AInv'
  <1>1. UNCHANGED storeVars
    BY DEF Receive, Authenticate, EnterLimiter, LeaveLimiter
  <1>2. TokensUnique' /\ TenantsRight'
    BY <1>1 DEF storeVars, AInv, TokensUnique, TenantsRight, Named
  <1>3. /\ req \in [Thread -> Request] /\ req[t] \in Request
        /\ asking \in [Thread -> [key : Key, at : 0 .. MaxTime] \union {Nobody}]
    BY DEF AInv, StoreTypeOK, IInv, LimitTypeOK
  \* What the step does to the thread's own request and call of the limiter.
  <1>4. /\ req'[t] \in Request
        /\ req'[t].pc = "authenticate" /\ req'[t].late =>
             req'[t].token \in DOMAIN keys /\ keys[req'[t].token].revoked
        /\ req'[t].pc = "authenticate" => req'[t].out = "none"
        /\ req'[t].pc \in {"limit", "allow"} =>
             /\ req'[t].token \in DOMAIN keys /\ req'[t].token \in Key
             /\ ~req'[t].late /\ req'[t].out = "none"
        /\ req'[t].pc = "allow" /\ asking'[t] # Nobody =>
             asking'[t].key = req'[t].token
        /\ req'[t].out = "passed" => ~req'[t].late
        /\ \A u \in Thread \ {t} : req'[u] = req[u] /\ asking'[u] = asking[u]
        /\ req' = [req EXCEPT ![t] = req'[t]]
        /\ DOMAIN buckets' \subseteq DOMAIN keys
    <2> DEFINE r == req[t]
    <2>0. /\ r.pc = "authenticate" /\ r.late =>
               r.token \in DOMAIN keys /\ keys[r.token].revoked
          /\ r.pc = "authenticate" => r.out = "none"
          /\ r.pc \in {"limit", "allow"} =>
               /\ r.token \in DOMAIN keys /\ r.token \in Key
               /\ ~r.late /\ r.out = "none"
          /\ r.pc = "allow" /\ asking[t] # Nobody => asking[t].key = r.token
          /\ r.out = "passed" => ~r.late
          /\ DOMAIN buckets \subseteq DOMAIN keys
      BY DEF AInv, RequestsRight
    <2>1. CASE Receive(t)
      <3>1. PICK k \in Key :
              req' = [req EXCEPT ![t] =
                 [pc |-> "authenticate", token |-> k, served |-> @.served + 1,
                  out |-> "none",
                  late |-> k \in DOMAIN keys /\ keys[k].revoked]]
        BY <2>1 DEF Receive
      <3>2. req'[t] = [pc |-> "authenticate", token |-> k, served |-> r.served + 1,
                       out |-> "none", late |-> k \in DOMAIN keys /\ keys[k].revoked]
        BY <1>3, <3>1
      <3>3. r.served + 1 \in 0 .. MaxRequests
        BY <1>3, <2>1, AccessAssumption DEF Receive, Request
      <3>4. UNCHANGED <<asking, buckets>>
        BY <2>1 DEF Receive, limitVars
      <3>5. (k \in DOMAIN keys /\ keys[k].revoked) \in BOOLEAN
        OBVIOUS
      <3>6. req'[t] \in Request
        BY <3>2, <3>3, <3>5 DEF Request
      <3> QED BY <1>3, <2>0, <3>1, <3>2, <3>4, <3>6
    <2>2. CASE Authenticate(t)
      <3>1. UNCHANGED <<asking, buckets>>
        BY <2>2 DEF Authenticate, limitVars
      <3>2. CASE Valid(r.token)
        <4>1. req' = [req EXCEPT ![t].pc = "limit"]
          BY <2>2, <3>2 DEF Authenticate
        <4>2. req'[t] = [r EXCEPT !.pc = "limit"]
          BY <1>3, <4>1
        <4>3. /\ req'[t] \in Request /\ req'[t].pc = "limit"
              /\ req'[t].token = r.token /\ req'[t].late = r.late
              /\ req'[t].out = r.out
          BY <1>3, <4>2 DEF Request
        <4>4. r.token \in DOMAIN keys /\ r.token \in Key /\ ~r.late
          BY <2>0, <2>2, <3>2 DEF Authenticate, Valid, AInv, StoreTypeOK
        <4>5. r.out = "none"
          BY <2>0, <2>2 DEF Authenticate
        <4> QED BY <1>3, <2>0, <3>1, <4>1, <4>3, <4>4, <4>5
      <3>3. CASE ~Valid(r.token)
        <4>1. req' = [req EXCEPT ![t].pc = "idle", ![t].token = Nobody, ![t].out = "unauthorized"]
          BY <2>2, <3>3 DEF Authenticate, Respond
        <4>2. req'[t] = [r EXCEPT !.pc = "idle", !.token = Nobody, !.out = "unauthorized"]
          BY <1>3, <4>1
        <4>3. /\ req'[t] \in Request /\ req'[t].pc = "idle"
              /\ req'[t].late = r.late
              /\ req'[t].out = "unauthorized"
          BY <1>3, <4>2 DEF Request
        <4> QED BY <1>3, <2>0, <3>1, <4>1, <4>3
      <3> QED BY <3>2, <3>3
    <2>3. CASE EnterLimiter(t)
      <3>1. req' = [req EXCEPT ![t].pc = "allow"] /\ r.pc = "limit"
        BY <2>3 DEF EnterLimiter
      <3>2. req'[t] = [r EXCEPT !.pc = "allow"]
        BY <1>3, <3>1
      <3>3. /\ req'[t] \in Request /\ req'[t].pc = "allow"
            /\ req'[t].token = r.token /\ req'[t].late = r.late
            /\ req'[t].out = r.out
        BY <1>3, <3>2 DEF Request
      <3>4. /\ asking' = [asking EXCEPT ![t] = [key |-> r.token, at |-> clock]]
            /\ buckets' = buckets
        BY <2>3 DEF EnterLimiter, Ask
      <3> QED BY <1>3, <2>0, <3>1, <3>3, <3>4
    <2>4. CASE LeaveLimiter(t)
      <3>1. PICK out \in {"passed", "limited"} :
              req' = [req EXCEPT ![t].pc = "idle", ![t].token = Nobody, ![t].out = out]
        BY <2>4 DEF LeaveLimiter, Respond
      <3>2. req'[t] = [r EXCEPT !.pc = "idle", !.token = Nobody, !.out = out]
        BY <1>3, <3>1
      <3>3. /\ req'[t] \in Request /\ req'[t].pc = "idle"
            /\ req'[t].late = r.late
            /\ req'[t].out = out
        BY <1>3, <3>2 DEF Request
      <3>4. r.pc = "allow" /\ Answer(t)
        BY <2>4 DEF LeaveLimiter
      <3>5. /\ asking' = [asking EXCEPT ![t] = Nobody]
            /\ DOMAIN buckets' \subseteq DOMAIN buckets \union {asking[t].key}
            /\ asking[t] # Nobody
        BY <3>4 DEF Answer
      <3> QED BY <1>3, <2>0, <3>1, <3>3, <3>4, <3>5
    <2> QED BY <2>1, <2>2, <2>3, <2>4
  <1>5. req' \in [Thread -> Request]
    BY <1>3, <1>4
  <1>6. StoreTypeOK'
    BY <1>1, <1>5 DEF storeVars, AInv, StoreTypeOK
  <1>7. RequestsRight'
    BY <1>1, <1>4 DEF storeVars, AInv, RequestsRight
  <1>8. (DOMAIN buckets \subseteq DOMAIN keys)'
    BY <1>1, <1>4 DEF storeVars
  <1> QED BY <1>2, <1>6, <1>7, <1>8 DEF AInv
\* A step of issue_key keeps the invariant: it leaves the requests and the
\* limiter alone and no stored key is lost or revived.
LEMMA OperatorInv ==
  ASSUME AInv, NEW o \in Operator,
         IssueKey(o) \/ ResolveTenant(o) \/ StoreKey(o) \/ AbandonIssue(o)
  PROVE  AInv'
  <1>1. UNCHANGED <<req, asking, buckets>>
    BY DEF IssueKey, ResolveTenant, StoreKey, AbandonIssue, limitVars
  <1>2. /\ tenants \subseteq Tenant
        /\ DOMAIN keys \subseteq Key
        /\ \A k \in DOMAIN keys :
             keys[k] \in [tenant : Tenant, issuedTo : External, revoked : BOOLEAN]
        /\ issue \in [Operator -> Issue] /\ issue[o] \in Issue
        /\ req \in [Thread -> Request]
    BY DEF AInv, StoreTypeOK
  \* It is enough to look at tenants, keys and the command.
  <1>3. ASSUME /\ DOMAIN keys \subseteq DOMAIN keys'
               /\ \A k \in DOMAIN keys : keys[k].revoked => keys'[k].revoked
        PROVE  RequestsRight' /\ DOMAIN buckets' \subseteq DOMAIN keys'
    BY <1>1, <1>3 DEF AInv, RequestsRight
  <1>4. CASE IssueKey(o)
    <2>1. PICK e \in External, k \in Fresh :
            issue' = [issue EXCEPT ![o] =
                        [pc |-> "resolve", external |-> e, token |-> k,
                         seen |-> Named(e)]]
      BY <1>4 DEF IssueKey
    <2>2. /\ issue'[o] = [pc |-> "resolve", external |-> e, token |-> k,
                          seen |-> Named(e)]
          /\ \A p \in Operator \ {o} : issue'[p] = issue[p]
      BY <1>2, <2>1
    <2>3. UNCHANGED <<tenants, keys>>
      BY <1>4 DEF IssueKey
    <2>4. /\ k \in Key /\ k \notin DOMAIN keys
          /\ \A p \in Operator : issue[p].pc # "idle" => issue[p].token # k
      BY DEF Fresh
    <2>5. issue'[o] \in Issue
      BY <1>2, <2>2, <2>4 DEF Issue, Named
    <2>6. StoreTypeOK'
      BY <1>1, <1>2, <2>1, <2>3, <2>5 DEF StoreTypeOK
    <2>7. TokensUnique'
      BY <2>2, <2>3, <2>4 DEF AInv, TokensUnique
    <2>8. TenantsRight'
      BY <2>2, <2>3 DEF AInv, TenantsRight, Named
    <2> QED BY <1>3, <2>3, <2>6, <2>7, <2>8 DEF AInv
  <1>5. CASE ResolveTenant(o)
    <2> DEFINE e     == issue[o].external
               made  == [external |-> e, maker |-> issue[o].token]
               found == IF MustInsert(o) THEN {made} ELSE issue[o].seen
    <2>1. issue[o] \in [pc : {"resolve"}, external : External, token : Key,
                        seen : SUBSET Tenant]
      BY <1>2, <1>5 DEF ResolveTenant, Issue, NoIssue
    <2>2. /\ tenants' = IF MustInsert(o) THEN tenants \union {made} ELSE tenants
          /\ keys' = keys
          /\ issue' = [issue EXCEPT ![o] =
               IF found = {} THEN NoIssue
               ELSE [pc |-> "store", external |-> @.external, token |-> @.token,
                     tenant |-> CHOOSE r \in found : TRUE]]
      BY <1>5 DEF ResolveTenant
    <2>3. /\ issue'[o] = IF found = {} THEN NoIssue
                         ELSE [pc |-> "store", external |-> e,
                               token |-> issue[o].token,
                               tenant |-> CHOOSE r \in found : TRUE]
          /\ \A p \in Operator \ {o} : issue'[p] = issue[p]
      BY <1>2, <2>2
    <2>4. made \in Tenant /\ made.external = e
      BY <2>1 DEF Tenant
    <2>5. /\ found \subseteq tenants' /\ found \subseteq Tenant
          /\ \A r \in found : r.external = e
      BY <1>5, <2>1, <2>2, <2>4 DEF AInv, TenantsRight, Named, ResolveTenant
    <2>6. found # {} => (CHOOSE r \in found : TRUE) \in found
      OBVIOUS
    <2>7. issue'[o] \in Issue
      BY <2>1, <2>3, <2>5, <2>6 DEF Issue
    <2>8. StoreTypeOK'
      BY <1>1, <1>2, <2>2, <2>4, <2>7 DEF StoreTypeOK
    <2>9. TokensUnique'
      BY <1>5, <2>2, <2>3 DEF AInv, TokensUnique, NoIssue, ResolveTenant
    <2>10. TenantsRight'
      <3>1. \A r, s \in tenants' : r.external = s.external => r = s
        BY <2>2, <2>4 DEF AInv, TenantsRight, MustInsert, Named
      <3>2. tenants \subseteq tenants'
        BY <2>2
      <3>3. issue'[o].pc = "store" => /\ issue'[o].tenant \in tenants'
                                      /\ issue'[o].tenant.external = issue'[o].external
        BY <2>3, <2>5, <2>6 DEF NoIssue
      <3>4. issue'[o].pc # "resolve"
        BY <2>3 DEF NoIssue
      <3> HIDE DEF made, found, e
      <3>5. \A k \in DOMAIN keys' : /\ keys'[k].tenant \in tenants'
                                    /\ keys'[k].tenant.external = keys'[k].issuedTo
        BY <2>2, <3>2 DEF AInv, TenantsRight
      <3>6. ASSUME NEW p \in Operator
            PROVE  /\ issue'[p].pc = "resolve" =>
                        \A r \in issue'[p].seen :
                          r \in tenants' /\ r.external = issue'[p].external
                   /\ issue'[p].pc = "store" =>
                        /\ issue'[p].tenant \in tenants'
                        /\ issue'[p].tenant.external = issue'[p].external
        <4>1. CASE p = o
          BY <3>3, <3>4, <4>1
        <4>2. CASE p # o
          <5>1. issue'[p] = issue[p]
            BY <2>3, <4>2
          <5> QED BY <3>2, <5>1 DEF AInv, TenantsRight, Named
        <4> QED BY <4>1, <4>2
      <3> QED BY <3>1, <3>5, <3>6 DEF TenantsRight, Named
    <2> QED BY <1>3, <2>2, <2>8, <2>9, <2>10 DEF AInv
  <1>6. CASE StoreKey(o)
    <2> DEFINE k == issue[o].token
    <2>1. issue[o] \in [pc : {"store"}, external : External, token : Key,
                        tenant : Tenant]
      BY <1>2, <1>6 DEF StoreKey, Issue, NoIssue
    <2>2. /\ tenants' = tenants
          /\ issue' = [issue EXCEPT ![o] = NoIssue]
          /\ k \notin DOMAIN keys
      BY <1>6 DEF StoreKey, AInv, TokensUnique
    <2>3. /\ DOMAIN keys' = DOMAIN keys \union {k}
          /\ keys'[k] = [tenant |-> issue[o].tenant, issuedTo |-> issue[o].external,
                         revoked |-> FALSE]
          /\ \A j \in DOMAIN keys : keys'[j] = keys[j]
      BY <1>6, <2>2 DEF StoreKey
    <2>4. /\ issue'[o] = NoIssue
          /\ \A p \in Operator \ {o} : issue'[p] = issue[p]
      BY <1>2, <2>2
    <2>5. StoreTypeOK'
      <3>1. issue' \in [Operator -> Issue]
        BY <1>2, <2>2 DEF Issue
      <3>2. keys'[k] \in [tenant : Tenant, issuedTo : External, revoked : BOOLEAN]
        BY <2>1, <2>3
      <3>3. DOMAIN keys' \subseteq Key
        BY <1>2, <2>1, <2>3
      <3> QED BY <1>1, <1>2, <2>2, <2>3, <3>1, <3>2, <3>3 DEF StoreTypeOK
    <2>6. TokensUnique'
      BY <1>6, <2>3, <2>4 DEF AInv, TokensUnique, NoIssue, StoreKey
    <2>7. TenantsRight'
      BY <1>6, <2>1, <2>2, <2>3, <2>4 DEF AInv, TenantsRight, Named, NoIssue, StoreKey
    <2> QED BY <1>3, <2>3, <2>5, <2>6, <2>7 DEF AInv
  <1>7. CASE AbandonIssue(o)
    <2>1. /\ UNCHANGED <<tenants, keys>>
          /\ issue' = [issue EXCEPT ![o] = NoIssue]
      BY <1>7 DEF AbandonIssue
    <2>2. /\ issue'[o] = NoIssue
          /\ \A p \in Operator \ {o} : issue'[p] = issue[p]
      BY <1>2, <2>1
    <2>3. StoreTypeOK' /\ TokensUnique' /\ TenantsRight'
      BY <1>1, <1>2, <2>1, <2>2
      DEF AInv, StoreTypeOK, TokensUnique, TenantsRight, Named, NoIssue, Issue
    <2> QED BY <1>3, <2>1, <2>3 DEF AInv
  <1> QED BY <1>4, <1>5, <1>6, <1>7
\* Revoking a key keeps the invariant.
LEMMA RevokeInv == ASSUME AInv, RevokeKey PROVE AInv'
  <1>1. PICK k \in DOMAIN keys : keys' = [keys EXCEPT ![k].revoked = TRUE]
    BY DEF RevokeKey
  <1>2. UNCHANGED <<tenants, issue>>
    BY DEF RevokeKey
  <1>3. /\ DOMAIN keys' = DOMAIN keys
        /\ \A j \in DOMAIN keys : /\ keys'[j].tenant = keys[j].tenant
                                  /\ keys'[j].issuedTo = keys[j].issuedTo
                                  /\ keys[j].revoked => keys'[j].revoked
                                  /\ keys'[j] \in [tenant : Tenant, issuedTo : External,
                                                   revoked : BOOLEAN]
    <2>1. DOMAIN keys' = DOMAIN keys
      BY <1>1
    <2>2. ASSUME NEW j \in DOMAIN keys
          PROVE  /\ keys'[j].tenant = keys[j].tenant
                 /\ keys'[j].issuedTo = keys[j].issuedTo
                 /\ keys[j].revoked => keys'[j].revoked
                 /\ keys'[j] \in [tenant : Tenant, issuedTo : External,
                                  revoked : BOOLEAN]
      <3>1. keys[j] \in [tenant : Tenant, issuedTo : External, revoked : BOOLEAN]
        BY DEF AInv, StoreTypeOK
      <3>2. CASE j = k
        <4>1. keys'[j] = [keys[j] EXCEPT !.revoked = TRUE]
          BY <1>1, <3>2
        <4> QED BY <3>1, <4>1
      <3>3. CASE j # k
        <4>1. keys'[j] = keys[j]
          BY <1>1, <3>3
        <4> QED BY <3>1, <4>1
      <3> QED BY <3>2, <3>3
    <2> QED BY <2>1, <2>2
  <1>4. UNCHANGED <<req, asking, buckets>>
    BY DEF RevokeKey, limitVars
  <1>5. StoreTypeOK' /\ TokensUnique' /\ TenantsRight'
    BY <1>2, <1>3, <1>4 DEF AInv, StoreTypeOK, TokensUnique, TenantsRight
  <1>6. RequestsRight'
    BY <1>3, <1>4 DEF AInv, RequestsRight
  <1> QED BY <1>3, <1>5, <1>4, <1>6 DEF AInv

\* Requests use the limiter as RateLimit describes it: a step of the server is
\* a step of the limiter or leaves it alone.
LEMMA StepUsesLimiter == AInv /\ [Next]_accessVars => [LimitNext]_limitVars
  <1> SUFFICES ASSUME AInv, [Next]_accessVars PROVE [LimitNext]_limitVars
    OBVIOUS
  <1>1. CASE UNCHANGED accessVars
    BY <1>1 DEF accessVars, limitVars
  <1>2. CASE AdvanceClock \/ Look \/ RestartServer \/ RevokeKey
    BY <1>2 DEF AdvanceClock, Look, RestartServer, RevokeKey, LimitNext
  <1>3. ASSUME NEW o \in Operator,
               IssueKey(o) \/ ResolveTenant(o) \/ StoreKey(o) \/ AbandonIssue(o)
        PROVE  UNCHANGED limitVars
    BY <1>3 DEF IssueKey, ResolveTenant, StoreKey, AbandonIssue
  <1>4. ASSUME NEW t \in Thread,
               Receive(t) \/ Authenticate(t) \/ EnterLimiter(t) \/ LeaveLimiter(t)
        PROVE  [LimitNext]_limitVars
    <2>1. CASE Receive(t) \/ Authenticate(t)
      BY <2>1 DEF Receive, Authenticate
    <2>2. CASE EnterLimiter(t)
      BY <2>2 DEF EnterLimiter, LimitNext, AInv, RequestsRight
    <2>3. CASE LeaveLimiter(t)
      BY <2>3 DEF LeaveLimiter, LimitNext
    <2> QED BY <1>4, <2>1, <2>2, <2>3
  <1> QED BY <1>1, <1>2, <1>3, <1>4 DEF Next

\* Every step keeps the invariant.
LEMMA AccessStepInv == AInv /\ IInv /\ [Next]_accessVars => AInv'
  <1> SUFFICES ASSUME AInv, IInv, [Next]_accessVars PROVE AInv'
    OBVIOUS
  <1> USE DEF AInv, StoreTypeOK, TokensUnique, TenantsRight, RequestsRight
  <1>1. CASE UNCHANGED accessVars
    BY <1>1 DEF accessVars
  <1>2. CASE AdvanceClock \/ Look
    <2>1. UNCHANGED <<tenants, keys, issue, req, asking, buckets>>
      BY <1>2 DEF AdvanceClock, Tick, Look, Observe, storeVars
    <2> QED BY <2>1
  <1>3. CASE RestartServer
    <2>1. /\ UNCHANGED <<tenants, keys, issue>> /\ DOMAIN buckets' = {}
          /\ req' = [t \in Thread |-> [NoReq EXCEPT !.served = req[t].served]]
      BY <1>3 DEF RestartServer, Restart, storeVars
    <2>2. ASSUME NEW t \in Thread
          PROVE  /\ req'[t] \in Request /\ req'[t].pc = "idle"
                 /\ ~req'[t].late /\ req'[t].out = "none"
      BY <2>1 DEF NoReq, Request
    <2>3. req' \in [Thread -> Request]
      BY <2>1, <2>2
    <2> QED BY <2>1, <2>2, <2>3
  <1> USE DEF Next
  <1>4. CASE RevokeKey
    BY <1>4, RevokeInv
  <1>5. ASSUME NEW o \in Operator,
               IssueKey(o) \/ ResolveTenant(o) \/ StoreKey(o) \/ AbandonIssue(o)
        PROVE  AInv'
    BY <1>5, OperatorInv
  <1>6. ASSUME NEW t \in Thread,
               Receive(t) \/ Authenticate(t) \/ EnterLimiter(t) \/ LeaveLimiter(t)
        PROVE  AInv'
    BY <1>6, ThreadInv
  <1> QED BY <1>1, <1>2, <1>3, <1>4, <1>5, <1>6

\* Both invariants hold throughout.
LEMMA AccessInvariance == Spec => [](AInv /\ IInv)
  <1>1. Init => AInv /\ IInv
    BY AccessInitInv, LimitInitInv DEF Init
  <1>2. AInv /\ IInv /\ [Next]_accessVars => (AInv /\ IInv)'
    BY AccessStepInv, StepUsesLimiter, LimitStepInv
  <1> QED BY <1>1, <1>2, PTL DEF Spec

\* The server implements the limiter's specification.
THEOREM UsesLimiter == Spec => LimitSpec
  <1>1. Init => LimitInit
    BY DEF Init
  <1> QED BY <1>1, StepUsesLimiter, AccessInvariance, PTL DEF Spec, LimitSpec

\* Type correctness of keys, commands, requests and the limiter.
THEOREM AccessTypeCorrect == Spec => []TypeOK
  <1>1. AInv /\ IInv => TypeOK
    BY DEF AInv, IInv, StoreTypeOK, TypeOK
  <1> QED BY <1>1, AccessInvariance, PTL

\* Keys issued for one external id open one tenant, however first issues race
\* and fail (issue_key).
THEOREM OneTenantPerExternal == Spec => []KeysShareTenant
  <1>1. AInv => KeysShareTenant
    BY DEF AInv, TenantsRight, KeysShareTenant
  <1> QED BY <1>1, AccessInvariance, PTL

\* No request that came after its key's revocation is served, and a token that
\* was never issued leaves no bucket (authenticate_request).
THEOREM RevokedStaysOut == Spec => []OnlyLiveKeysPass
  <1>1. AInv => OnlyLiveKeysPass
    BY DEF AInv, RequestsRight, OnlyLiveKeysPass
  <1> QED BY <1>1, AccessInvariance, PTL

\* What is proved of the limiter alone holds of the server that uses it.
THEOREM ServedWithinRate == Spec => []RateHeld /\ SpacedNeverRefused
  BY UsesLimiter, RateIsHeld, SpacedIsServed, PTL

-----------------------------------------------------------------------------
(* Row-level security isolates tenants for any number of processes and     *)
(* tenants.  The inductive invariant says what a process that has come so  *)
(* far may rely on (Booted), and that a connection's setting is the tenant *)
(* of its open transaction and nobody's otherwise (Settled).               *)

\* From ALTER ROLE on the role cannot bypass the policies, and from the last
\* GRANT on it has its rights: no step of any process takes either away.
Booted ==
  \A p \in Server :
    /\ boot[p] \in {"look", "create", "alter", "grant"} => split
    /\ split /\ boot[p] \in {"grant", "connect", "serving"} => role \in {"plain", "super"}
    /\ boot[p] \in {"connect", "serving"} => granted

\* p's connection as its open transaction, or none, has set it.
Settled(p) ==
  IF p \in open
  THEN /\ boot[p] = "serving"
       /\ \/ asked[p] = {} /\ guc[p] \in {Undefined, Blank}
          \/ guc[p] \in TenantId /\ asked[p] = {guc[p]}
       /\ wrote[p] \subseteq asked[p]
  ELSE /\ guc[p] \in {Undefined, Blank}
       /\ asked[p] = {} /\ wrote[p] = {} /\ saw[p] = {} /\ p \notin failed

TenancyInv ==
  /\ TenancyTypeOK
  /\ ~split => granted
  /\ Booted
  /\ \A p \in Server : Settled(p)
  /\ TenantsApart

LEMMA TenancyInitInv == TenancyInit => TenancyInv
BY DEF TenancyInit, TenancyInv, TenancyTypeOK, Booted, Settled, TenantsApart

-----------------------------------------------------------------------------

\* Steps of the start leave connections alone.
LEMMA BootKeeps ==
  ASSUME TenancyInv, NEW p \in Server, Boot(p)
  PROVE  TenancyInv'
<1> USE DEF TenancyInv, TenancyTypeOK, Booted, Settled, TenantsApart
<1>1. CASE Migrate(p)
  BY <1>1 DEF Migrate, At, traffic
<1>2. CASE LookForRole(p)
  BY <1>2 DEF LookForRole, At, traffic
<1>3. CASE CreateRole(p)
  BY <1>3 DEF CreateRole, At, traffic
<1>4. CASE AlterRole(p)
  BY <1>4 DEF AlterRole, At, traffic
<1>5. CASE GrantRole(p)
  BY <1>5 DEF GrantRole, At, traffic
<1>6. CASE ConnectPool(p)
  BY <1>6 DEF ConnectPool, At, traffic
<1>7. CASE Stop(p)
  BY <1>7 DEF Stop
<1> QED BY <1>1, <1>2, <1>3, <1>4, <1>5, <1>6, <1>7 DEF Boot

\* A statement sees the rows of its own tenant: the setting is that tenant, or
\* one that equals no tenant's id.
LEMMA VisibleIsOwn ==
  ASSUME TenancyInv, NEW p \in Server, p \in open, ~Bypasses
  PROVE  Visible(p) \subseteq asked[p]
<1>1. Visible(p) = (stored \cup wrote[p]) \cap {guc[p]}
  BY DEF Visible
<1>2. stored \cup wrote[p] \subseteq TenantId
  BY DEF TenancyInv, TenancyTypeOK
<1>3. CASE asked[p] = {} /\ guc[p] \in {Undefined, Blank}
  <2>1. guc[p] \notin TenantId
    BY <1>3, TenancyAssumption
  <2> QED BY <1>1, <1>2, <2>1
<1>4. CASE asked[p] = {guc[p]}
  BY <1>1, <1>4
<1> QED BY <1>3, <1>4 DEF TenancyInv, Settled

LEMMA ServeKeeps ==
  ASSUME TenancyInv, NEW p \in Server, Serve(p)
  PROVE  TenancyInv'
<1> USE DEF TenancyInv
<1>1. ASSUME NEW t \in TenantId, BeginTenant(p, t)
      PROVE  TenancyInv'
  BY <1>1 DEF BeginTenant, setup, TenancyTypeOK, Booted, Settled, TenantsApart
<1>2. CASE BeginBare(p)
  BY <1>2 DEF BeginBare, setup, TenancyTypeOK, Booted, Settled, TenantsApart
<1>3. CASE CountVisible(p)
  <2>1. granted /\ PolicyEvaluates(p)
    BY <1>3 DEF CountVisible, PolicyEvaluates, TenancyTypeOK, Booted, Settled
  <2>2. /\ saw' = [saw EXCEPT ![p] = Visible(p)]
        /\ failed' = failed \ {p}
        /\ p \in open
        /\ UNCHANGED <<setup, guc, open, asked, stored, wrote>>
    BY <1>3, <2>1 DEF CountVisible
  <2>3. Visible(p) \subseteq TenantId
    BY DEF Visible, TenancyTypeOK
  <2>4. TenancyTypeOK' /\ (~split => granted)' /\ Booted'
    BY <2>2, <2>3 DEF setup, TenancyTypeOK, Booted
  <2>5. \A q \in Server : Settled(q)'
    BY <2>2 DEF setup, Settled
  <2>6. ASSUME role # "super", split \/ role # "bypass"
        PROVE  Visible(p) \subseteq asked[p]
    <3>1. ~Bypasses
      BY <2>2, <2>6 DEF Bypasses, Booted, Settled
    <3> QED BY <2>2, <3>1, VisibleIsOwn
  <2>7. TenantsApart'
    BY <2>2, <2>6 DEF setup, TenantsApart, TenancyTypeOK
  <2> QED BY <2>4, <2>5, <2>7
<1>4. CASE InsertMemory(p)
  BY <1>4 DEF InsertMemory, setup, TenancyTypeOK, Booted, Settled, TenantsApart
<1>5. CASE EndTenant(p)
  <2>1. SettingAfter(p) \in {Undefined, Blank}
    BY DEF SettingAfter
  <2>2. ASSUME NEW rows \in SUBSET TenantId, EndWith(p, rows, SettingAfter(p))
        PROVE  TenancyInv'
    BY <2>1, <2>2 DEF EndWith, setup, TenancyTypeOK, Booted, Settled, TenantsApart
  <2>3. wrote[p] \in SUBSET TenantId /\ {} \in SUBSET TenantId
    BY DEF TenancyTypeOK
  <2> QED BY <1>5, <2>2, <2>3 DEF EndTenant
<1> QED BY <1>1, <1>2, <1>3, <1>4, <1>5 DEF Serve

LEMMA NextKeeps == TenancyInv /\ [TenancyNext]_<<setup, traffic>> => TenancyInv'
<1> SUFFICES ASSUME TenancyInv, [TenancyNext]_<<setup, traffic>> PROVE TenancyInv'
  OBVIOUS
<1>1. ASSUME NEW p \in Server, Boot(p) \/ Serve(p) PROVE TenancyInv'
  BY <1>1, BootKeeps, ServeKeeps
<1>2. CASE UNCHANGED <<setup, traffic>>
  BY <1>2 DEF setup, traffic, TenancyInv, TenancyTypeOK, Booted, Settled, TenantsApart
<1> QED BY <1>1, <1>2 DEF TenancyNext

\* Every variable keeps its type.
THEOREM TenancyTypeCorrect == TenancySpec => []TenancyTypeOK
<1>1. TenancySpec => []TenancyInv
  BY TenancyInitInv, NextKeeps, PTL DEF TenancySpec
<1>2. TenancyInv => TenancyTypeOK
  BY DEF TenancyInv
<1> QED BY <1>1, <1>2, PTL

\* set_tenant, the policies and the provisioned role: whatever order processes
\* start, crash and serve in, a statement returns its own tenant's rows only and
\* does not fail.
THEOREM TenantsStayApart == TenancySpec => []TenantsApart
<1>1. TenancySpec => []TenancyInv
  BY TenancyInitInv, NextKeeps, PTL DEF TenancySpec
<1>2. TenancyInv => TenantsApart
  BY DEF TenancyInv
<1> QED BY <1>1, <1>2, PTL
=============================================================================
