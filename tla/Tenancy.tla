------------------------------- MODULE Tenancy -------------------------------
(***************************************************************************)
(* How the server and worker processes come to serve on a role that row-   *)
(* level security binds, and what a transaction on a pooled connection     *)
(* sees.  Several processes start, crash and start again at any moment;    *)
(* each runs prepare_database, then opens its pool.  A pool is one         *)
(* connection here: transactions on different connections share only       *)
(* committed rows.                                                         *)
(***************************************************************************)
CONSTANTS
  Server,    \* processes of the server and worker binaries
  TenantId,  \* ids of mnestic_tenant
  Undefined, \* mnestic.tenant_id was never set on the connection
  Blank      \* it was, by a transaction that has ended: it reads ''

ASSUME TenancyAssumption ==
  /\ Undefined \notin TenantId /\ Blank \notin TenantId
  /\ Undefined # Blank

VARIABLES
  split,    \* MNESTIC_MIGRATION_DATABASE_URL is set
  role,     \* the serving role: "absent", "plain", "bypass" (BYPASSRLS), "super"
  granted,  \* it has every grant the engine and the worker need
  boot,     \* how far each process has come
  guc,      \* mnestic.tenant_id on each process's pooled connection
  open,     \* processes with a transaction open
  asked,    \* the tenant that transaction is for: none or one
  stored,   \* tenants with committed memories
  wrote,    \* tenants each open transaction has inserted a memory for
  saw,      \* tenants whose memories its latest statement returned
  failed    \* processes whose latest statement was an error

setup == <<split, role, granted, boot>>
traffic == <<guc, open, asked, stored, wrote, saw, failed>>

TenancyInit ==
  /\ split \in BOOLEAN
  /\ role \in {"plain", "bypass", "super"} \cup (IF split THEN {"absent"} ELSE {})
  /\ granted \in IF ~split \/ role = "super" THEN {TRUE}
                ELSE IF role = "absent" THEN {FALSE} ELSE BOOLEAN
  /\ boot = [p \in Server |-> "down"]
  /\ guc = [p \in Server |-> Undefined]
  /\ open = {}
  /\ asked = [p \in Server |-> {}]
  /\ stored = {}
  /\ wrote = [p \in Server |-> {}]
  /\ saw = [p \in Server |-> {}]
  /\ failed = {}

-----------------------------------------------------------------------------
(* prepare_database. *)

At(p, from, to) ==
  /\ boot[p] = from
  /\ boot' = [boot EXCEPT ![p] = to]
  /\ UNCHANGED <<split, traffic>>

\* run_migrations, over the migration connection or, on the single-role path,
\* over the serving one.
Migrate(p) ==
  /\ At(p, "down", IF split THEN "look" ELSE "connect")
  /\ UNCHANGED <<role, granted>>

\* IF NOT EXISTS (SELECT ... FROM pg_roles).
LookForRole(p) ==
  /\ At(p, "look", IF role = "absent" THEN "create" ELSE "alter")
  /\ UNCHANGED <<role, granted>>

\* CREATE ROLE: an error, and the end of this start, when another process has
\* created it since.
CreateRole(p) ==
  /\ At(p, "create", IF role = "absent" THEN "alter" ELSE "down")
  /\ role' = IF role = "absent" THEN "plain" ELSE role
  /\ UNCHANGED granted

\* ALTER ROLE ... NOBYPASSRLS, whether or not the role was there before.  It does
\* not take SUPERUSER away.
AlterRole(p) ==
  /\ At(p, "alter", "grant")
  /\ role' = IF role = "super" THEN role ELSE "plain"
  /\ UNCHANGED granted

\* The GRANTs and ALTER DEFAULT PRIVILEGES.
GrantRole(p) ==
  /\ At(p, "grant", "connect")
  /\ granted' = TRUE
  /\ UNCHANGED role

ConnectPool(p) ==
  /\ At(p, "connect", "serving")
  /\ UNCHANGED <<role, granted>>

\* A failed statement of the start, a crash or a stop: the connection is gone
\* and its transaction undone; the orchestrator may start the process again.
Stop(p) ==
  /\ boot[p] # "down"
  /\ boot' = [boot EXCEPT ![p] = "down"]
  /\ guc' = [guc EXCEPT ![p] = Undefined]
  /\ open' = open \ {p}
  /\ asked' = [asked EXCEPT ![p] = {}]
  /\ wrote' = [wrote EXCEPT ![p] = {}]
  /\ saw' = [saw EXCEPT ![p] = {}]
  /\ failed' = failed \ {p}
  /\ UNCHANGED <<split, role, granted, stored>>

-----------------------------------------------------------------------------
(* Transactions on the pool. *)

\* begin_tenant: begin, then set_tenant.
BeginTenant(p, t) ==
  /\ boot[p] = "serving" /\ p \notin open
  /\ open' = open \cup {p}
  /\ asked' = [asked EXCEPT ![p] = {t}]
  /\ guc' = [guc EXCEPT ![p] = t]
  /\ UNCHANGED <<setup, stored, wrote, saw, failed>>

\* A transaction that sets no tenant (count_visible_memories of None, or any
\* statement straight on the pool).
BeginBare(p) ==
  /\ boot[p] = "serving" /\ p \notin open
  /\ open' = open \cup {p}
  /\ UNCHANGED <<setup, guc, asked, stored, wrote, saw, failed>>

\* tenant_isolation can be evaluated for the connection's setting.
PolicyEvaluates(p) == guc[p] \in TenantId \cup {Undefined, Blank}

\* Policies do not bind the role.
Bypasses == role \in {"bypass", "super"}

\* What tenant_isolation leaves of the rows: those of the tenant set; NULL, which
\* nullif makes of a missing or blank setting, equals none.
Visible(p) ==
  IF Bypasses THEN stored \cup wrote[p]
  ELSE (stored \cup wrote[p]) \cap {guc[p]}

\* SELECT count(*) FROM mnestic_memory, with no filter of its own.
CountVisible(p) ==
  /\ p \in open
  /\ IF granted /\ (Bypasses \/ PolicyEvaluates(p))
     THEN /\ saw' = [saw EXCEPT ![p] = Visible(p)]
          /\ failed' = failed \ {p}
     ELSE /\ failed' = failed \cup {p}
          /\ UNCHANGED saw
  /\ UNCHANGED <<setup, guc, open, asked, stored, wrote>>

\* insert_memory and the other writes name the tenant of their transaction.
InsertMemory(p) ==
  /\ p \in open /\ granted /\ asked[p] # {}
  /\ wrote' = [wrote EXCEPT ![p] = asked[p]]
  /\ UNCHANGED <<setup, guc, open, asked, stored, saw, failed>>

\* The transaction is over and what it left behind goes with it.
EndWith(p, rows, setting) ==
  /\ p \in open
  /\ stored' = stored \cup rows
  /\ guc' = [guc EXCEPT ![p] = setting]
  /\ open' = open \ {p}
  /\ asked' = [asked EXCEPT ![p] = {}]
  /\ wrote' = [wrote EXCEPT ![p] = {}]
  /\ saw' = [saw EXCEPT ![p] = {}]
  /\ failed' = failed \ {p}
  /\ UNCHANGED setup

\* Faulty variant: set_config(..., false), the setting outlives its transaction.
SettingStays(p) == guc[p]

\* set_config(..., true): the setting is undone, but the name stays defined.
SettingAfter(p) == IF guc[p] = Undefined THEN Undefined ELSE Blank

\* commit, or the rollback of a dropped transaction before the connection is
\* handed out again.
EndTenant(p) ==
  \/ EndWith(p, wrote[p], SettingAfter(p))
  \/ EndWith(p, {}, SettingAfter(p))

-----------------------------------------------------------------------------

Boot(p) ==
  \/ Migrate(p) \/ LookForRole(p) \/ CreateRole(p) \/ AlterRole(p)
  \/ GrantRole(p) \/ ConnectPool(p) \/ Stop(p)

Serve(p) ==
  \/ \E t \in TenantId : BeginTenant(p, t)
  \/ BeginBare(p) \/ CountVisible(p) \/ InsertMemory(p) \/ EndTenant(p)

TenancyNext == \E p \in Server : Boot(p) \/ Serve(p)

TenancySpec == TenancyInit /\ [][TenancyNext]_<<setup, traffic>>

-----------------------------------------------------------------------------
(* Properties. *)

TenancyTypeOK ==
  /\ split \in BOOLEAN /\ granted \in BOOLEAN
  /\ role \in {"absent", "plain", "bypass", "super"}
  /\ boot \in [Server -> {"down", "look", "create", "alter", "grant", "connect",
                          "serving"}]
  /\ guc \in [Server -> TenantId \cup {Undefined, Blank}]
  /\ open \subseteq Server /\ failed \subseteq Server
  /\ asked \in [Server -> SUBSET TenantId]
  /\ wrote \in [Server -> SUBSET TenantId]
  /\ saw \in [Server -> SUBSET TenantId]
  /\ stored \subseteq TenantId

\* On the two-role path, and on the single-role path without BYPASSRLS, a
\* statement that filters nothing returns the rows of its transaction's tenant
\* only, and none at all where no tenant was set: whatever the connection was
\* used for before, whatever the role was before the start, however many
\* processes started at once.  And it returns: it does not fail for want of a
\* grant or because of a setting left blank.  DATABASE_URL must not name a
\* superuser (lib.rs:151).
TenantsApart ==
  role # "super" /\ (split \/ role # "bypass") =>
    \A p \in Server : saw[p] \subseteq asked[p] /\ p \notin failed
=============================================================================
