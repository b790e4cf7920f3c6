-------------------------------- MODULE Access --------------------------------
(***************************************************************************)
(* API keys and the requests that use them: operators issue and revoke     *)
(* keys (the issue-key and revoke-key commands), handler threads           *)
(* authenticate a request's bearer token and then ask the rate limiter.    *)
(* Statements run on the pool outside any explicit transaction, so each    *)
(* commits by itself.                                                      *)
(***************************************************************************)
EXTENDS RateLimit

CONSTANTS
  Operator,    \* concurrently running commands
  External,    \* external tenant ids
  MaxRequests  \* requests each handler thread serves

ASSUME AccessAssumption == MaxRequests \in Nat

VARIABLES
  tenants,  \* rows of mnestic_tenant
  keys,     \* rows of mnestic_api_key, by token digest
  issue,    \* each operator's issue_key call
  req       \* each thread's current or last request

accessVars == <<clock, buckets, asking, ledger, tenants, keys, issue, req>>
storeVars  == <<tenants, keys, issue>>

\* A tenant row is told from others by the token of the call that made it.
Tenant == [external : External, maker : Key]

NoIssue == [pc |-> "idle"]
Issue ==
  {NoIssue}
  \union [pc : {"resolve"}, external : External, token : Key, seen : SUBSET Tenant]
  \union [pc : {"store"}, external : External, token : Key, tenant : Tenant]

NoReq == [pc |-> "idle", token |-> Nobody, served |-> 0, out |-> "none",
          late |-> FALSE]
Request ==
  [ pc : {"idle", "authenticate", "limit", "allow"}, token : Key \union {Nobody},
    served : 0 .. MaxRequests, late : BOOLEAN,
    out : {"none", "unauthorized", "limited", "passed"} ]

Init ==
  /\ LimitInit
  /\ tenants = {}
  /\ keys = <<>>
  /\ issue = [o \in Operator |-> NoIssue]
  /\ req = [t \in Thread |-> NoReq]

Named(e) == { r \in tenants : r.external = e }

-----------------------------------------------------------------------------
(* issue_key *)

\* Tokens carry 192 random bits: a call's token is nobody else's.
Fresh == Key \ (DOMAIN keys \union
                { issue[o].token : o \in { p \in Operator : issue[p].pc # "idle" } })

\* The token is generated and the upsert takes its snapshot.
IssueKey(o) ==
  /\ issue[o].pc = "idle"
  /\ \E e \in External, k \in Fresh :
       issue' = [issue EXCEPT ![o] =
                   [pc |-> "resolve", external |-> e, token |-> k, seen |-> Named(e)]]
  /\ UNCHANGED <<limitVars, tenants, keys, req>>

\* Faulty variant: whether to insert is decided by the snapshot.
MustInsertUnseen(o) == issue[o].seen = {}

\* ON CONFLICT: whether to insert is decided by the rows committed by now.
MustInsert(o) == Named(issue[o].external) = {}

\* The statement ends: the new row, or the row its snapshot shows, or no row
\* at all (RowNotFound) when the insert lost to a row the snapshot lacks.
ResolveTenant(o) ==
  /\ issue[o].pc = "resolve"
  /\ LET made  == [external |-> issue[o].external, maker |-> issue[o].token]
         found == IF MustInsert(o) THEN {made} ELSE issue[o].seen
     IN  /\ tenants' = IF MustInsert(o) THEN tenants \union {made} ELSE tenants
         /\ issue' = [issue EXCEPT ![o] =
              IF found = {} THEN NoIssue
              ELSE [pc |-> "store", external |-> @.external, token |-> @.token,
                    tenant |-> CHOOSE r \in found : TRUE]]
  /\ UNCHANGED <<limitVars, keys, req>>

StoreKey(o) ==
  /\ issue[o].pc = "store"
  /\ LET stored == [tenant |-> issue[o].tenant, issuedTo |-> issue[o].external,
                    revoked |-> FALSE]
     IN  keys' = [ k \in DOMAIN keys \union {issue[o].token} |->
                     IF k = issue[o].token THEN stored ELSE keys[k] ]
  /\ issue' = [issue EXCEPT ![o] = NoIssue]
  /\ UNCHANGED <<limitVars, tenants, req>>

\* The command is interrupted: what its first statement did stays.
AbandonIssue(o) ==
  /\ issue[o].pc # "idle"
  /\ issue' = [issue EXCEPT ![o] = NoIssue]
  /\ UNCHANGED <<limitVars, tenants, keys, req>>

\* revoke_key_by_digest, revoke_key_by_token: a no-op unless the key is active.
RevokeKey ==
  /\ \E k \in DOMAIN keys : /\ ~keys[k].revoked
                            /\ keys' = [keys EXCEPT ![k].revoked = TRUE]
  /\ UNCHANGED <<limitVars, tenants, issue, req>>

-----------------------------------------------------------------------------
(* authenticate_request *)

\* A request arrives with some bearer token.  Whether that key was revoked by
\* now is kept as history.
Receive(t) ==
  /\ req[t].pc = "idle"
  /\ req[t].served < MaxRequests
  /\ \E k \in Key :
       req' = [req EXCEPT ![t] =
                 [pc |-> "authenticate", token |-> k, served |-> @.served + 1,
                  out |-> "none",
                  late |-> k \in DOMAIN keys /\ keys[k].revoked]]
  /\ UNCHANGED <<limitVars, storeVars>>

\* Faulty variants: a key with a bucket is taken for valid without a look at
\* the table; the limiter is asked before the key is looked up.
ValidOnceSeen(k) == k \in DOMAIN buckets \union { j \in DOMAIN keys : ~keys[j].revoked }

\* The row authenticate selects.
Valid(k) == k \in DOMAIN keys /\ ~keys[k].revoked

Respond(t, out) ==
  req' = [req EXCEPT ![t].pc = "idle", ![t].token = Nobody, ![t].out = out]

\* authenticate: one SELECT; no row is a 401.
Authenticate(t) ==
  /\ req[t].pc = "authenticate"
  /\ IF Valid(req[t].token)
     THEN req' = [req EXCEPT ![t].pc = "limit"]
     ELSE Respond(t, "unauthorized")
  /\ UNCHANGED <<limitVars, storeVars>>

EnterLimiter(t) ==
  /\ req[t].pc = "limit"
  /\ Ask(t, req[t].token)
  /\ req' = [req EXCEPT ![t].pc = "allow"]
  /\ UNCHANGED storeVars

LeaveLimiter(t) ==
  /\ req[t].pc = "allow"
  /\ Answer(t)
  /\ Respond(t, IF Allowed(asking[t].key, asking[t].at) THEN "passed" ELSE "limited")
  /\ UNCHANGED storeVars

\* The server process restarts and its requests are lost.
RestartServer ==
  /\ Restart
  /\ req' = [t \in Thread |-> [NoReq EXCEPT !.served = req[t].served]]
  /\ UNCHANGED storeVars

Look == (\E k \in Key : Observe(k)) /\ UNCHANGED <<storeVars, req>>

AdvanceClock == Tick /\ UNCHANGED <<storeVars, req>>

Next ==
  \/ AdvanceClock \/ Look \/ RestartServer \/ RevokeKey
  \/ \E o \in Operator :
       IssueKey(o) \/ ResolveTenant(o) \/ StoreKey(o) \/ AbandonIssue(o)
  \/ \E t \in Thread :
       Receive(t) \/ Authenticate(t) \/ EnterLimiter(t) \/ LeaveLimiter(t)

Spec == Init /\ [][Next]_accessVars
-----------------------------------------------------------------------------
TypeOK ==
  /\ LimitTypeOK
  /\ tenants \subseteq Tenant
  /\ DOMAIN keys \subseteq Key
  /\ \A k \in DOMAIN keys :
       keys[k] \in [tenant : Tenant, issuedTo : External, revoked : BOOLEAN]
  /\ issue \in [Operator -> Issue]
  /\ req \in [Thread -> Request]

\* "Re-running for the same external id reuses the tenant" (issue_key): keys
\* issued for the same external id open the same tenant, also when the first
\* issues for one id race and when one of them is interrupted.
KeysShareTenant ==
  \A j, k \in DOMAIN keys :
    keys[j].issuedTo = keys[k].issuedTo => keys[j].tenant = keys[k].tenant

\* A request that arrives after its key was revoked is not served, whatever
\* the process remembers of the key, and a token that was never issued leaves
\* nothing behind in the limiter.
OnlyLiveKeysPass ==
  /\ \A t \in Thread : req[t].out = "passed" => ~req[t].late
  /\ DOMAIN buckets \subseteq DOMAIN keys
=============================================================================
