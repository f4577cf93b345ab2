--------------------------- MODULE DatabaseAgent ---------------------------
(***************************************************************************)
(* The database node of the chat graph in full (agents/graph.py), with the *)
(* permission resolver, the validator and the executor it calls, while     *)
(* administrators grant and revoke permissions and delete connections.     *)
(*                                                                         *)
(* Every action is the code between two awaits.  The resolver alone is     *)
(* three kinds of queries, each of which sees the rows committed when it   *)
(* runs (READ COMMITTED), so an administrator's change can fall between    *)
(* any two of them.  From the model's answer to the end of the execution   *)
(* nothing is awaited: validate_sql and execute_sql are plain calls, and   *)
(* one action.                                                             *)
(*                                                                         *)
(* seen is a history variable: the sets of permissions that existed at     *)
(* some moment since the request turned to its current connection.         *)
(***************************************************************************)
EXTENDS Permissions, QueryValidator, Sequences

CONSTANTS
    Requests,         \* chat requests
    ConnectionLists,  \* the sequences of connections a request may name
    Statements,       \* what the language model may answer with
    NoSql,            \* the absence of a statement
    Dialect           \* [Conns -> the database type]

ASSUME AgentAssumption ==
    /\ ConnectionLists \subseteq Seq(Conns)
    /\ Statements \subseteq Statement
    /\ NoSql \notin Statements
    /\ SqlTableNames = TableNames
    /\ SqlColumnNames = ColumnNames
    /\ Dialect \in [Conns -> {"postgresql", "mysql", "sqlserver", "oracle"}]

VARIABLES
    conns,     \* the connections that exist
    perm,      \* [PermIds -> "unused", "granted" or "revoked"]
    executed,  \* the statements that took effect in a customer database
    pc,        \* [Requests -> where its node stands]
    who,       \* [Requests -> the user that sent it]
    todo,      \* [Requests -> connections left, the current one first]
    tables,    \* [Requests -> the enabled tables read]
    pending,   \* [Requests -> grants whose columns are still to be read]
    allowed,   \* [Requests -> the allowed schema built so far]
    results,   \* [Requests -> sql_results]
    seen       \* [Requests -> the sets of permissions that existed meanwhile]

platform == <<conns, perm>>
local == <<who, todo, tables, pending, allowed, results>>
vars == <<conns, perm, executed, pc, who, todo, tables, pending, allowed,
          results, seen>>

Busy == {"connection", "tables", "grants", "grant columns", "admin columns",
         "generate"}

Result ==
    [connection : Conns, status : {"success", "failed", "rejected"},
     sql : Statements \cup {NoSql}, validation_errors : BOOLEAN]

Execution ==
    [req : Requests, at : Nat, connection : Conns, sql : Statements,
     read_only : BOOLEAN]

Current(r) == Head(todo[r])

Granted == {p \in PermIds : perm[p] = "granted"}

----------------------------------------------------------------------------
Init ==
    /\ conns = Conns
    /\ perm \in [PermIds -> {"unused", "granted"}]
    /\ executed = {}
    /\ pc = [r \in Requests |-> "idle"]
    /\ who \in [Requests -> Users]
    /\ todo = [r \in Requests |-> <<>>]
    /\ tables = [r \in Requests |-> {}]
    /\ pending = [r \in Requests |-> {}]
    /\ allowed = [r \in Requests |-> EmptySchema]
    /\ results = [r \in Requests |-> <<>>]
    /\ seen = [r \in Requests |-> {}]

Goto(r, label) == pc' = [pc EXCEPT ![r] = label]

\* The graph enters the node.
Begin(r, list) ==
    /\ pc[r] = "idle"
    /\ Goto(r, "connection")
    /\ todo' = [todo EXCEPT ![r] = list]
    /\ UNCHANGED <<platform, executed, who, tables, pending, allowed, results,
                   seen>>

\* What the loop body keeps in its own variables is of no use once the
\* iteration is over.
EndOfIteration(r) ==
    /\ tables' = [tables EXCEPT ![r] = {}]
    /\ pending' = [pending EXCEPT ![r] = {}]
    /\ allowed' = [allowed EXCEPT ![r] = EmptySchema]
    /\ seen' = [seen EXCEPT ![r] = {}]

\* sql_results.append(...) and on to the next connection.
Reply(r, status, sql, errors) ==
    /\ results' = [results EXCEPT ![r] =
           Append(@, [connection |-> Current(r), status |-> status,
                      sql |-> sql, validation_errors |-> errors])]
    /\ todo' = [todo EXCEPT ![r] = Tail(@)]
    /\ Goto(r, "connection")
    /\ EndOfIteration(r)
    /\ UNCHANGED <<platform, who>>

\* Seeded fault: the connection is looked up by its id alone.
FoundForAnyTenant(r) == Current(r) \in conns

\* The connection exists and is the tenant's own.
Found(r) ==
    Current(r) \in conns /\ ConnTenant[Current(r)] = UserOf[who[r]].tenant

GetConnection(r) ==
    /\ pc[r] = "connection"
    /\ todo[r] # <<>>
    /\ Found(r)
    /\ Goto(r, "tables")
    /\ seen' = [seen EXCEPT ![r] = {Granted}]
    /\ UNCHANGED <<platform, executed, local>>

\* NotFoundError leaves the node, and with it every result so far.
ConnectionNotFound(r) ==
    /\ pc[r] = "connection"
    /\ todo[r] # <<>>
    /\ ~Found(r)
    /\ Goto(r, "aborted")
    /\ UNCHANGED <<platform, executed, local, seen>>

Finish(r) ==
    /\ pc[r] = "connection"
    /\ todo[r] = <<>>
    /\ Goto(r, "done")
    /\ UNCHANGED <<platform, executed, local, seen>>

----------------------------------------------------------------------------
(* get_allowed_schema, query by query.                                     *)

\* The tables, with their connection, are gone once it is deleted.
CachedTables(r) ==
    IF Current(r) \in conns THEN EnabledTables(who[r], Current(r)) ELSE {}

ReadTables(r) ==
    /\ pc[r] = "tables"
    /\ CachedTables(r) # {}
    /\ tables' = [tables EXCEPT ![r] = CachedTables(r)]
    /\ Goto(r, "grants")
    /\ UNCHANGED <<platform, executed, who, todo, pending, allowed, results,
                   seen>>

\* No enabled table: the resolver returns at once, and the node with it.
NoTables(r) ==
    /\ pc[r] = "tables"
    /\ CachedTables(r) = {}
    /\ Reply(r, "failed", NoSql, FALSE)
    /\ UNCHANGED executed

\* The grants that apply; an administrator without any takes the other path.
ReadGrants(r) ==
    LET applicable == Applicable(who[r], Current(r), Granted)
    IN /\ pc[r] = "grants"
       /\ IF applicable = {} /\ UserOf[who[r]].is_tenant_admin
          THEN Goto(r, "admin columns") /\ UNCHANGED pending
          ELSE /\ Goto(r, "grant columns")
               /\ pending' = [pending EXCEPT ![r] =
                      {p \in applicable : PermOf[p].table \in tables[r]}]
       /\ UNCHANGED <<platform, executed, who, todo, tables, allowed, results,
                      seen>>

\* The columns that the queries for grant p find now: those it names, or, when
\* it names none, those that are not sensitive.  The rows naming its columns are
\* deleted with it, and then it seems to name none; a deleted connection takes
\* the columns themselves along.  One step for the two queries gives what two
\* would: after a revocation or a deletion in between they find what one step
\* finds at the moment of the first, or of the second.
ColumnsFound(r, p) ==
    IF Current(r) \notin conns THEN {}
    ELSE IF perm[p] = "granted" THEN GrantedColumns(p)
    ELSE OpenColumns(PermOf[p].table)

\* One iteration over the grants, in whatever order they came.
ReadColumns(r, p) ==
    /\ pc[r] = "grant columns"
    /\ p \in pending[r]
    /\ allowed' = [allowed EXCEPT ![r] =
           PutEntry(@, NameOf(p), [access |-> GrantedAccess(p),
                                   columns |-> ColumnsFound(r, p)])]
    /\ pending' = [pending EXCEPT ![r] = @ \ {p}]
    /\ UNCHANGED <<platform, executed, pc, who, todo, tables, results, seen>>

\* One iteration over the tables, for an administrator without grants.
ReadAdminColumns(r, t) ==
    /\ pc[r] = "admin columns"
    /\ t \in tables[r]
    /\ allowed' = [allowed EXCEPT ![r] =
           PutEntry(@, TableOf[t].table_name,
                    [access |-> AdminEntry(t).access,
                     columns |-> IF Current(r) \in conns
                                 THEN AdminEntry(t).columns ELSE {}])]
    /\ tables' = [tables EXCEPT ![r] = @ \ {t}]
    /\ UNCHANGED <<platform, executed, pc, who, todo, pending, results, seen>>

AllColumnsRead(r) ==
    \/ pc[r] = "grant columns" /\ pending[r] = {}
    \/ pc[r] = "admin columns" /\ tables[r] = {}

SchemaResolved(r) ==
    /\ AllColumnsRead(r)
    /\ DOMAIN allowed[r] # {}
    /\ Goto(r, "generate")
    /\ UNCHANGED <<platform, executed, local, seen>>

\* Seeded fault: the loop continues without a result.
NothingPermittedSilently(r) ==
    /\ AllColumnsRead(r)
    /\ DOMAIN allowed[r] = {}
    /\ todo' = [todo EXCEPT ![r] = Tail(@)]
    /\ Goto(r, "connection")
    /\ EndOfIteration(r)
    /\ UNCHANGED <<platform, executed, who, results>>

NothingPermitted(r) ==
    /\ AllColumnsRead(r)
    /\ DOMAIN allowed[r] = {}
    /\ Reply(r, "failed", NoSql, FALSE)
    /\ UNCHANGED executed

----------------------------------------------------------------------------
(* The language model answers.                                             *)

\* NO_QUERY_POSSIBLE or nothing at all.
ModelDeclines(r) ==
    /\ pc[r] = "generate"
    /\ Reply(r, "failed", NoSql, FALSE)
    /\ UNCHANGED executed

\* The model's call raises, or execute_sql does before its try: no key for the
\* password, no driver for the dialect.  The exception leaves the node.
NodeRaises(r) ==
    /\ pc[r] = "generate"
    /\ Goto(r, "aborted")
    /\ EndOfIteration(r)
    /\ UNCHANGED <<platform, executed, who, todo, results>>

\* Seeded fault: a status the response schema does not know.
RejectQueryAsInvalid(r, s) ==
    /\ pc[r] = "generate"
    /\ ~ValidateSql(s, allowed[r]).is_valid
    /\ Reply(r, "invalid", s, TRUE)
    /\ UNCHANGED executed

\* Seeded fault: the statement is sent before the verdict is looked at.
RejectQueryAfterRunning(r, s) ==
    /\ pc[r] = "generate"
    /\ ~ValidateSql(s, allowed[r]).is_valid
    /\ Reply(r, "rejected", s, TRUE)
    /\ executed' = executed \cup
           {[req |-> r, at |-> Len(results[r]) + 1,
             connection |-> Current(r), sql |-> s, read_only |-> TRUE]}

RejectQuery(r, s) ==
    /\ pc[r] = "generate"
    /\ ~ValidateSql(s, allowed[r]).is_valid
    /\ Reply(r, "rejected", s, TRUE)
    /\ UNCHANGED executed

\* SET TRANSACTION READ ONLY is sent to PostgreSQL only, before a SELECT.
ReadOnly(c, type) == type = "SELECT" /\ Dialect[c] = "postgresql"

\* Has the statement taken effect?  When it succeeds, and also when the answer
\* to the commit of a change is lost: the executor then reports a failure.
CouldTakeEffect(status, type) ==
    IF status = "success" THEN {TRUE}
    ELSE IF type = "DML" THEN BOOLEAN ELSE {FALSE}

ExecuteQuery(r, s, status) ==
    LET v == ValidateSql(s, allowed[r])
    IN /\ pc[r] = "generate"
       /\ v.is_valid
       /\ Reply(r, status, s, FALSE)
       /\ \E effect \in CouldTakeEffect(status, v.query_type) :
              executed' = executed \cup
                  (IF effect
                   THEN {[req |-> r, at |-> Len(results[r]) + 1,
                          connection |-> Current(r), sql |-> s,
                          read_only |-> ReadOnly(Current(r), v.query_type)]}
                   ELSE {})
----------------------------------------------------------------------------
(* Administrators, in requests of their own.                               *)

SeenNow == [r \in Requests |->
               IF pc[r] \in Busy \ {"connection"}
               THEN seen[r] \cup {{p \in PermIds : perm'[p] = "granted"}}
               ELSE seen[r]]

HasAdmin(tenant) ==
    \E u \in Users : UserOf[u].is_tenant_admin /\ UserOf[u].tenant = tenant

\* POST /table-permissions.  The row and its column rows are one transaction;
\* its foreign keys ask for the connection and the table, of any tenant.
GrantTablePermission(p) ==
    /\ perm[p] = "unused"
    /\ HasAdmin(PermOf[p].tenant)
    /\ PermOf[p].connection \in conns
    /\ TableOf[PermOf[p].table].connection \in conns
    /\ perm' = [perm EXCEPT ![p] = "granted"]
    /\ seen' = SeenNow
    /\ UNCHANGED <<conns, executed, pc, local>>

\* DELETE /table-permissions/{id}: its column_permissions go with it.
RevokeTablePermission(p) ==
    /\ perm[p] = "granted"
    /\ HasAdmin(PermOf[p].tenant)
    /\ perm' = [perm EXCEPT ![p] = "revoked"]
    /\ seen' = SeenNow
    /\ UNCHANGED <<conns, executed, pc, local>>

\* DELETE /database-connections/{id}: tables, columns and permissions on it
\* are deleted by cascade.
DeleteConnection(c) ==
    /\ c \in conns
    /\ HasAdmin(ConnTenant[c])
    /\ conns' = conns \ {c}
    /\ perm' = [p \in PermIds |->
           IF /\ perm[p] = "granted"
              /\ c \in {PermOf[p].connection,
                        TableOf[PermOf[p].table].connection}
           THEN "revoked" ELSE perm[p]]
    /\ seen' = SeenNow
    /\ UNCHANGED <<executed, pc, local>>

----------------------------------------------------------------------------
Node(r) ==
    \/ \E list \in ConnectionLists : Begin(r, list)
    \/ GetConnection(r)
    \/ ConnectionNotFound(r)
    \/ Finish(r)
    \/ ReadTables(r)
    \/ NoTables(r)
    \/ ReadGrants(r)
    \/ \E p \in pending[r] : ReadColumns(r, p)
    \/ \E t \in tables[r] : ReadAdminColumns(r, t)
    \/ SchemaResolved(r)
    \/ NothingPermitted(r)
    \/ ModelDeclines(r)
    \/ NodeRaises(r)
    \/ \E s \in Statements : RejectQuery(r, s)
    \/ \E s \in Statements, status \in {"success", "failed"} :
           ExecuteQuery(r, s, status)

Administration ==
    \/ \E p \in PermIds : GrantTablePermission(p) \/ RevokeTablePermission(p)
    \/ \E c \in Conns : DeleteConnection(c)

\* Every request is over: the server waits for the next one.
AllOver ==
    /\ \A r \in Requests : pc[r] \in {"done", "aborted"}
    /\ UNCHANGED vars

Next == (\E r \in Requests : Node(r)) \/ Administration \/ AllOver

Spec == Init /\ [][Next]_vars

----------------------------------------------------------------------------
(* Properties.                                                             *)

TypeOK ==
    /\ conns \subseteq Conns
    /\ perm \in [PermIds -> {"unused", "granted", "revoked"}]
    /\ executed \subseteq Execution
    /\ pc \in [Requests -> Busy \cup {"idle", "done", "aborted"}]
    /\ who \in [Requests -> Users]
    /\ todo \in [Requests -> Seq(Conns)]
    /\ tables \in [Requests -> SUBSET Tables]
    /\ pending \in [Requests -> SUBSET PermIds]
    /\ allowed \in [Requests -> AllowedSchema]
    /\ results \in [Requests -> Seq(Result)]
    /\ seen \in [Requests -> SUBSET SUBSET PermIds]

\* What the permissions live say about user u running statement s on c, when
\* an administrator without any grant has the access called default.
AuthorisedBy(u, c, s, live, default) ==
    \A n \in s.tables :
        IF AdminDefault(u, c, live)
        THEN /\ \E t \in EnabledTables(u, c) : TableOf[t].table_name = n
             /\ s.kind = "dml" => default = "read_write"
        ELSE \E p \in UsableGrants(u, c, live) :
                 NameOf(p) = n /\ (s.kind = "dml" => PermOf[p].can_write)

\* A statement runs only if the permissions, as they stood at one single moment
\* since the request turned to this connection, allowed all its tables.  If it
\* changes them, each was allowed by a grant that writes, or by the read_write
\* that the code gives an administrator without grants; the documents give read
\* (AuthorisedAsDocumented).  The resolver reads in several queries and the
\* model answers later still; permissions come and go in between.
AuthorisedExecution ==
    [][\A e \in executed' \ executed :
           \E live \in seen[e.req] :
               AuthorisedBy(who[e.req], e.connection, e.sql, live,
                            "read_write")]_vars

\* The docstring of get_allowed_schema: tenant administrators implicitly get
\* read access to every enabled table.  Then they change one only by a grant.
AuthorisedAsDocumented ==
    [][\A e \in executed' \ executed :
           \E live \in seen[e.req] :
               AuthorisedBy(who[e.req], e.connection, e.sql, live, "read")]_vars

\* When nothing was revoked or deleted while the schema was resolved, what the
\* model is shown is exactly what the permissions of one moment say.
SettledResolution ==
    \A r \in Requests :
        /\ pc[r] = "generate"
        /\ Current(r) \in conns
        /\ \A live \in seen[r] : live \subseteq Granted
        => \E live \in seen[r] :
               IsResolution(allowed[r], who[r], Current(r), live)

\* Past the lookup a request only ever deals with a connection of its own
\* tenant: it reads no catalogue, shows the model no schema, reports no result
\* and runs no statement of another, even when a permission, which any tenant
\* can point at any connection and table, names one.
TenantIsolation ==
    /\ \A r \in Requests :
           /\ pc[r] \in Busy \ {"connection"} =>
                  ConnTenant[Current(r)] = UserOf[who[r]].tenant
           /\ \A i \in DOMAIN results[r] :
                  ConnTenant[results[r][i].connection] = UserOf[who[r]].tenant
    /\ \A e \in executed :
           /\ ConnTenant[e.connection] = UserOf[who[e.req]].tenant
           /\ \A n \in e.sql.tables : \E t \in Tables :
                  /\ TableOf[t].table_name = n
                  /\ TableOf[t].connection = e.connection

\* The result list tells what happened: a success is a statement that took
\* effect, a rejection is one that did not, at the same place of the walk.
ResultsTellExecutions ==
    /\ \A e \in executed :
           /\ e.at \in DOMAIN results[e.req]
           /\ results[e.req][e.at].connection = e.connection
           /\ results[e.req][e.at].sql = e.sql
           /\ results[e.req][e.at].status # "rejected"
    /\ \A r \in Requests : \A i \in DOMAIN results[r] :
           results[r][i].status = "success" =>
               \E e \in executed : e.req = r /\ e.at = i

\* The docstring of get_allowed_schema: only columns with an explicit, active
\* grant are included.  Every column shown would then come from a grant that
\* was active at some moment of the resolution.
ColumnsComeFromGrants ==
    \A r \in Requests : pc[r] = "generate" /\ ~UserOf[who[r]].is_tenant_admin =>
        \A n \in DOMAIN allowed[r] :
            \E live \in seen[r] :
                \E p \in UsableGrants(who[r], Current(r), live) :
                    /\ NameOf(p) = n
                    /\ allowed[r][n].columns \subseteq GrantedColumns(p)

\* The promise of the node to the rest of the turn.
Agent == INSTANCE QueryAgent WITH
    phase <- [r \in Requests |->
                  IF pc[r] \in Busy THEN "busy" ELSE pc[r]],
    todo <- todo,
    results <- [r \in Requests |->
                   [i \in DOMAIN results[r] |->
                       [connection |-> results[r][i].connection,
                        status |-> results[r][i].status]]],
    executed <- {[req |-> e.req, at |-> e.at, connection |-> e.connection] :
                     e \in executed}

\* Whatever the resolver, the validator and the executor do, the node answers
\* each connection once, in order, and stops at the first exception.
ImplementsQueryAgent == Agent!Spec
============================================================================
