---------------------------- MODULE Permissions ----------------------------
(***************************************************************************)
(* The access rules of core/permissions.py, as operators.                  *)
(*                                                                         *)
(* The catalogue (which tables a connection has, under which name, with    *)
(* which columns) is taken as it stands: only a schema sync adds to it,    *)
(* and no sync runs here.  No route updates a permission row either, so    *)
(* what a row says is a constant; which rows exist changes, and the        *)
(* operators that need it take it as an argument.                          *)
(*                                                                         *)
(* The resolver's awaits are the actions of DatabaseAgent.  Here is what   *)
(* each of its queries selects and what one loop iteration computes, and   *)
(* IsResolution, the declarative meaning of the whole function.            *)
(***************************************************************************)
EXTENDS Naturals

CONSTANTS
    Users,        \* user ids
    Roles,        \* role ids
    Tenants,      \* tenant ids
    Conns,        \* ids of customer database connections
    Tables,       \* ids of cached tables (rows of database_tables)
    TableNames,   \* table names as a statement writes them
    ColumnNames,  \* column names as a statement writes them
    PermIds,      \* ids of table permissions; a uuid4, never used twice
    UserOf,       \* [Users -> the TenantContext of the user]
    ConnTenant,   \* [Conns -> Tenants]
    TableOf,      \* [Tables -> the cached table's row]
    PermOf        \* [PermIds -> the permission's row]

\* What get_current_context loads for a user.
TenantContext ==
    [tenant : Tenants, is_tenant_admin : BOOLEAN, role_ids : SUBSET Roles]

\* A row of database_tables with the columns cached for it.
DatabaseTable ==
    [connection : Conns, table_name : TableNames, is_enabled : BOOLEAN,
     columns : SUBSET ColumnNames, sensitive : SUBSET ColumnNames]

\* A row of table_permissions with its column_permissions; an empty "columns"
\* means no column was named.  can_write stands for the three DML flags: the
\* resolver only asks whether one of them is set.
TablePermission ==
    [tenant : Tenants, subject : Users \cup Roles, connection : Conns,
     table : Tables, can_read : BOOLEAN, can_write : BOOLEAN,
     columns : SUBSET ColumnNames]

ASSUME CatalogueAssumption ==
    /\ UserOf \in [Users -> TenantContext]
    /\ ConnTenant \in [Conns -> Tenants]
    /\ TableOf \in [Tables -> DatabaseTable]
    /\ PermOf \in [PermIds -> TablePermission]
    /\ Users \cap Roles = {}

Accesses == {"read", "read_write"}

\* One value of the dict get_allowed_schema returns.
SchemaEntry == [access : Accesses, columns : SUBSET ColumnNames]

\* The dict itself: a function from some table names to their entries.
AllowedSchema == UNION {[N -> SchemaEntry] : N \in SUBSET TableNames}

EmptySchema == [n \in {} |-> [access |-> "read", columns |-> {}]]

----------------------------------------------------------------------------
(* What the queries of get_allowed_schema select.                          *)

\* The tables of a connection the resolver considers for user u.
EnabledTables(u, c) ==
    {t \in Tables : /\ TableOf[t].connection = c
                    /\ ConnTenant[c] = UserOf[u].tenant
                    /\ TableOf[t].is_enabled}

\* The permission names the user, or a role the user holds.
SubjectMatches(u, p) ==
    \/ PermOf[p].subject = u
    \/ PermOf[p].subject \in UserOf[u].role_ids

\* The permissions, among those that exist, that apply to u on connection c.
Applicable(u, c, live) ==
    {p \in live : /\ PermOf[p].tenant = UserOf[u].tenant
                  /\ PermOf[p].connection = c
                  /\ PermOf[p].can_read
                  /\ SubjectMatches(u, p)}

----------------------------------------------------------------------------
(* What one iteration of its loops computes.                               *)

\* The columns a table shows when nothing narrower is said.
OpenColumns(t) == TableOf[t].columns \ TableOf[t].sensitive

\* The columns a permission gives.
GrantedColumns(p) ==
    IF PermOf[p].columns = {} THEN OpenColumns(PermOf[p].table)
                              ELSE PermOf[p].columns

GrantedAccess(p) == IF PermOf[p].can_write THEN "read_write" ELSE "read"

GrantEntry(p) == [access |-> GrantedAccess(p), columns |-> GrantedColumns(p)]

\* An administrator without any grant gets every enabled table.
AdminEntry(t) == [access |-> "read_write", columns |-> OpenColumns(t)]

\* Seeded fault: the columns of two rows with one name are put together.
PutEntryMerging(schema, name, entry) ==
    [n \in DOMAIN schema \cup {name} |->
        IF n # name THEN schema[n]
        ELSE IF n \notin DOMAIN schema THEN entry
        ELSE [entry EXCEPT !.columns = @ \cup schema[n].columns]]

\* allowed_schema[table_name] = ...: a later row of the same name replaces an
\* earlier one.
PutEntry(schema, name, entry) ==
    [n \in DOMAIN schema \cup {name} |->
        IF n = name THEN entry ELSE schema[n]]

----------------------------------------------------------------------------
(* The whole function, when nothing changes while it runs.  The queries    *)
(* have no ORDER BY, so of several rows with the same table name any may   *)
(* be the last one.                                                        *)

NameOf(p) == TableOf[PermOf[p].table].table_name

\* The permissions the loop does not skip.
UsableGrants(u, c, live) ==
    {p \in Applicable(u, c, live) : PermOf[p].table \in EnabledTables(u, c)}

AdminDefault(u, c, live) ==
    Applicable(u, c, live) = {} /\ UserOf[u].is_tenant_admin

\* schema is what get_allowed_schema may return for user u on connection c
\* when the permissions that exist are live.
IsResolution(schema, u, c, live) ==
    IF AdminDefault(u, c, live)
    THEN /\ DOMAIN schema = {TableOf[t].table_name : t \in EnabledTables(u, c)}
         /\ \A n \in DOMAIN schema : \E t \in EnabledTables(u, c) :
                TableOf[t].table_name = n /\ schema[n] = AdminEntry(t)
    ELSE /\ DOMAIN schema = {NameOf(p) : p \in UsableGrants(u, c, live)}
         /\ \A n \in DOMAIN schema : \E p \in UsableGrants(u, c, live) :
                NameOf(p) = n /\ schema[n] = GrantEntry(p)
============================================================================
