------------------------------- MODULE MCAccess -------------------------------
(***************************************************************************)
(* Small instances of Access and Tenancy for TLC.  Keys and sessions share *)
(* no rows with the roles and connections, so each behaviour runs one of   *)
(* the two while the other is at rest, and the state spaces add.           *)
(***************************************************************************)
EXTENDS Access, Tenancy, TLC

CONSTANTS k1, k2, t1, t2, o1, o2, s1, s2, acme, umbrella

AccessSymmetry ==
  Permutations(Key) \union Permutations(Thread) \union Permutations(Operator)

AccessRests == UNCHANGED accessVars
TenancyRests == UNCHANGED <<setup, traffic>>

\* A deployment that has never been started: keys and sessions run beside it.
NeverStarted == TenancyInit /\ split /\ role = "absent"

Keys(action) == NeverStarted /\ action /\ TenancyRests
Roles(action) == Init /\ action /\ AccessRests

MCInit == Init /\ TenancyInit

MCNext ==
  \/ Keys(AdvanceClock) \/ Keys(Look) \/ Keys(RestartServer) \/ Keys(RevokeKey)
  \/ \E o \in Operator :
       \/ Keys(IssueKey(o)) \/ Keys(ResolveTenant(o)) \/ Keys(StoreKey(o))
       \/ Keys(AbandonIssue(o))
  \/ \E t \in Thread :
       \/ Keys(Receive(t)) \/ Keys(Authenticate(t)) \/ Keys(EnterLimiter(t))
       \/ Keys(LeaveLimiter(t))
  \/ \E p \in Server :
       \/ Roles(Migrate(p)) \/ Roles(LookForRole(p)) \/ Roles(CreateRole(p))
       \/ Roles(AlterRole(p)) \/ Roles(GrantRole(p)) \/ Roles(ConnectPool(p))
       \/ Roles(Stop(p)) \/ Roles(BeginBare(p)) \/ Roles(CountVisible(p))
       \/ Roles(InsertMemory(p)) \/ Roles(EndTenant(p))
       \/ \E t \in TenantId : Roles(BeginTenant(p, t))

MCSpec == MCInit /\ [][MCNext]_<<accessVars, setup, traffic>>
=============================================================================
