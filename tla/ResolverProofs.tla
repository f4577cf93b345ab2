--------------------------- MODULE ResolverProofs ---------------------------
(***************************************************************************)
(* The database node stays inside its tenant and inside the permissions of *)
(* one moment, for every catalogue and however administrators interleave.  *)
(*                                                                         *)
(* The resolver reads in several queries, so the schema it is building     *)
(* never has to agree with the permissions as they are now.  What holds at *)
(* every step is that some set of permissions which existed meanwhile      *)
(* justifies it: the set the grants were read from.  The later queries add *)
(* columns, never a table or an access, so that set remains a witness.     *)
(* When nothing was taken away meanwhile, the schema is exactly what that  *)
(* set says.                                                               *)
(***************************************************************************)
EXTENDS DatabaseAgentProofs

ResolverLabels == {"grants", "grant columns", "admin columns"}

\* The allowed schema of request r names only what live gives.
Justified(r, live) ==
    IF AdminDefault(who[r], Current(r), live)
    THEN \A n \in DOMAIN allowed[r] :
             \E t \in EnabledTables(who[r], Current(r)) :
                 TableOf[t].table_name = n
    ELSE \A n \in DOMAIN allowed[r] :
             \E p \in UsableGrants(who[r], Current(r), live) :
                 NameOf(p) = n /\ allowed[r][n].access = GrantedAccess(p)

\* The connection in hand is of the request's tenant.
OwnConnection(r) ==
    pc[r] \in Busy \ {"connection"} =>
        ConnTenant[Current(r)] = UserOf[who[r]].tenant

\* The tables left to read are enabled tables of the connection in hand.
OwnTables(r) ==
    pc[r] \in ResolverLabels =>
        tables[r] \subseteq EnabledTables(who[r], Current(r))

\* The dict is empty until the loops begin.
FreshSchema(r) ==
    pc[r] \notin {"grant columns", "admin columns", "generate"} =>
        DOMAIN allowed[r] = {}

\* seen contains the present.
SeenIsCurrent(r) ==
    pc[r] \in Busy \ {"connection"} => Granted \in seen[r]

\* The witness: the permissions the grants were read from.
HasWitness(r) ==
    /\ pc[r] = "grant columns" =>
           \E live \in seen[r] :
               /\ ~AdminDefault(who[r], Current(r), live)
               /\ pending[r] \subseteq UsableGrants(who[r], Current(r), live)
               /\ Justified(r, live)
    /\ pc[r] = "admin columns" =>
           \E live \in seen[r] :
               /\ AdminDefault(who[r], Current(r), live)
               /\ Justified(r, live)
    /\ pc[r] = "generate" => \E live \in seen[r] : Justified(r, live)

RequestInv(r) ==
    /\ OwnConnection(r)
    /\ OwnTables(r)
    /\ FreshSchema(r)
    /\ SeenIsCurrent(r)
    /\ HasWitness(r)

ResolverInv == TypeInv /\ \A r \in Requests : RequestInv(r)

----------------------------------------------------------------------------
(* Frames.                                                                 *)

\* A step of the node of request r leaves the other requests and the platform
\* alone.
LEMMA NodeIsLocal ==
    ASSUME TypeOK, NEW r \in Requests, Node(r)
    PROVE  /\ UNCHANGED <<platform, who>>
           /\ \A q \in Requests \ {r} :
                  /\ pc'[q] = pc[q]
                  /\ todo'[q] = todo[q]
                  /\ tables'[q] = tables[q]
                  /\ pending'[q] = pending[q]
                  /\ allowed'[q] = allowed[q]
                  /\ results'[q] = results[q]
                  /\ seen'[q] = seen[q]
<1>1. CASE \/ \E list \in ConnectionLists : Begin(r, list)
           \/ GetConnection(r)
           \/ ConnectionNotFound(r)
           \/ Finish(r)
           \/ ReadTables(r)
           \/ SchemaResolved(r)
           \/ NodeRaises(r)
  BY <1>1
  DEF TypeOK, Begin, GetConnection, ConnectionNotFound, Finish, ReadTables,
      SchemaResolved, NodeRaises, EndOfIteration, Goto, local, platform
<1>2. CASE ReadGrants(r)
  BY <1>2 DEF TypeOK, ReadGrants, Goto, local, platform
<1>3. CASE \/ \E p \in pending[r] : ReadColumns(r, p)
           \/ \E t \in tables[r] : ReadAdminColumns(r, t)
  BY <1>3 DEF TypeOK, ReadColumns, ReadAdminColumns, local, platform
<1>4. CASE \E status, sql, errors : Reply(r, status, sql, errors)
  BY <1>4 DEF TypeOK, Reply, EndOfIteration, Goto, platform
<1>5. CASE \/ NoTables(r) \/ NothingPermitted(r) \/ ModelDeclines(r)
           \/ \E s \in Statements : RejectQuery(r, s)
           \/ \E s \in Statements, status \in {"success", "failed"} :
                  ExecuteQuery(r, s, status)
  BY <1>4, <1>5
  DEF NoTables, NothingPermitted, ModelDeclines, RejectQuery, ExecuteQuery
<1> QED
  BY <1>1, <1>2, <1>3, <1>5 DEF Node

\* What is known of a request stands while its own state does, whatever else
\* was granted before.
LEMMA RequestInvFrame ==
    ASSUME NEW q \in Requests, RequestInv(q),
           pc'[q] = pc[q], who' = who, todo'[q] = todo[q],
           tables'[q] = tables[q], pending'[q] = pending[q],
           allowed'[q] = allowed[q], seen[q] \subseteq seen'[q],
           pc[q] \in Busy \ {"connection"} => Granted' \in seen'[q]
    PROVE  RequestInv(q)'
<1>1. Current(q)' = Current(q)
  BY DEF Current
<1>2. \A live : Justified(q, live)' <=> Justified(q, live)
  BY <1>1 DEF Justified
<1>3. HasWitness(q)'
  BY <1>1, <1>2 DEF RequestInv, HasWitness
<1> QED
  BY <1>1, <1>3
  DEF RequestInv, OwnConnection, OwnTables, FreshSchema, SeenIsCurrent

\* A request between two connections, or over, has nothing to answer for.
LEMMA RequestInvAtRest ==
    ASSUME NEW q \in Requests,
           pc'[q] \in {"connection", "idle", "done", "aborted"},
           DOMAIN allowed'[q] = {}
    PROVE  RequestInv(q)'
  BY DEF RequestInv, OwnConnection, OwnTables, FreshSchema, SeenIsCurrent,
         HasWitness, ResolverLabels, Busy

----------------------------------------------------------------------------
(* The node's own steps.                                                   *)

LEMMA ReplyRests ==
    ASSUME TypeOK, NEW r \in Requests, NEW status, NEW sql, NEW errors,
           Reply(r, status, sql, errors)
    PROVE  RequestInv(r)'
<1>1. pc'[r] = "connection" /\ allowed'[r] = EmptySchema
  BY DEF TypeOK, Reply, EndOfIteration, Goto
<1> QED
  BY <1>1, EmptySchemaType, RequestInvAtRest

\* The lookup finds connections of the tenant only, and opens seen.
LEMMA GetConnectionKeeps ==
    ASSUME ResolverInv, NEW r \in Requests, GetConnection(r)
    PROVE  RequestInv(r)'
<1>1. /\ pc'[r] = "tables"
      /\ seen'[r] = {Granted}
      /\ Granted' = Granted
      /\ Current(r)' = Current(r) /\ who' = who /\ allowed' = allowed
  BY DEF ResolverInv, TypeInv, TypeOK, GetConnection, Goto, platform, local,
         Granted, Current
<1>2. DOMAIN allowed[r] = {}
  BY DEF ResolverInv, RequestInv, FreshSchema, GetConnection
<1>3. ConnTenant[Current(r)] = UserOf[who[r]].tenant
  BY DEF GetConnection, Found
<1> QED
  BY <1>1, <1>2, <1>3
  DEF RequestInv, OwnConnection, OwnTables, FreshSchema, SeenIsCurrent,
      HasWitness, ResolverLabels, Busy

LEMMA ReadTablesKeeps ==
    ASSUME ResolverInv, NEW r \in Requests, ReadTables(r)
    PROVE  RequestInv(r)'
<1>1. /\ pc[r] = "tables" /\ pc'[r] = "grants"
      /\ tables'[r] = CachedTables(r)
      /\ Granted' = Granted /\ seen' = seen
      /\ Current(r)' = Current(r) /\ who' = who /\ allowed' = allowed
  BY DEF ResolverInv, TypeInv, TypeOK, ReadTables, Goto, platform, Granted,
         Current
<1>2. CachedTables(r) \subseteq EnabledTables(who[r], Current(r))
  BY DEF CachedTables
<1>3. /\ ConnTenant[Current(r)] = UserOf[who[r]].tenant
      /\ DOMAIN allowed[r] = {}
      /\ Granted \in seen[r]
  BY <1>1
  DEF ResolverInv, RequestInv, OwnConnection, FreshSchema, SeenIsCurrent, Busy
<1> QED
  BY <1>1, <1>2, <1>3
  DEF RequestInv, OwnConnection, OwnTables, FreshSchema, SeenIsCurrent,
      HasWitness, ResolverLabels, Busy

\* The permissions of this moment become the witness.
LEMMA ReadGrantsKeeps ==
    ASSUME ResolverInv, NEW r \in Requests, ReadGrants(r)
    PROVE  RequestInv(r)'
<1> DEFINE applicable == Applicable(who[r], Current(r), Granted)
           admin == AdminDefault(who[r], Current(r), Granted)
<1>1. /\ pc[r] = "grants"
      /\ Granted' = Granted /\ seen' = seen
      /\ Current(r)' = Current(r) /\ who' = who
      /\ allowed' = allowed /\ tables' = tables
  BY DEF ReadGrants, platform, Granted, Current
<1>2. /\ ConnTenant[Current(r)] = UserOf[who[r]].tenant
      /\ DOMAIN allowed[r] = {}
      /\ Granted \in seen[r]
      /\ tables[r] \subseteq EnabledTables(who[r], Current(r))
  BY <1>1
  DEF ResolverInv, RequestInv, OwnConnection, OwnTables, FreshSchema,
      SeenIsCurrent, Busy, ResolverLabels
<1>3. Justified(r, Granted)'
  BY <1>1, <1>2 DEF Justified
<1>4. CASE admin
  <2>1. pc'[r] = "admin columns"
    BY <1>4
    DEF ResolverInv, TypeInv, TypeOK, ReadGrants, AdminDefault, Goto
  <2> QED
    BY <1>1, <1>2, <1>3, <1>4, <2>1
    DEF RequestInv, OwnConnection, OwnTables, FreshSchema, SeenIsCurrent,
        HasWitness, ResolverLabels, Busy
<1>5. CASE ~admin
  <2>1. /\ pc'[r] = "grant columns"
        /\ pending'[r] = {p \in applicable : PermOf[p].table \in tables[r]}
    BY <1>5
    DEF ResolverInv, TypeInv, TypeOK, ReadGrants, AdminDefault, Goto
  <2>2. pending'[r] \subseteq UsableGrants(who[r], Current(r), Granted)
    BY <1>2, <2>1 DEF UsableGrants
  <2> QED
    BY <1>1, <1>2, <1>3, <1>5, <2>1, <2>2
    DEF RequestInv, OwnConnection, OwnTables, FreshSchema, SeenIsCurrent,
        HasWitness, ResolverLabels, Busy
<1> QED
  BY <1>4, <1>5

\* The entry written is that of a grant the witness has.
LEMMA ReadColumnsKeeps ==
    ASSUME ResolverInv, NEW r \in Requests, NEW p \in pending[r],
           ReadColumns(r, p)
    PROVE  RequestInv(r)'
<1> DEFINE entry == [access |-> GrantedAccess(p),
                     columns |-> ColumnsFound(r, p)]
<1>1. /\ pc[r] = "grant columns" /\ pc' = pc
      /\ allowed'[r] = PutEntry(allowed[r], NameOf(p), entry)
      /\ pending'[r] = pending[r] \ {p}
      /\ Granted' = Granted /\ seen' = seen
      /\ Current(r)' = Current(r) /\ who' = who /\ tables' = tables
  BY DEF ResolverInv, TypeInv, TypeOK, ReadColumns, platform, Granted, Current
<1>2. p \in PermIds /\ allowed[r] \in AllowedSchema
  BY DEF ResolverInv, TypeInv, TypeOK
<1>3. entry \in SchemaEntry
  BY <1>2, EntryTypes, ColumnsFoundType DEF SchemaEntry
<1>4. /\ DOMAIN allowed'[r] = DOMAIN allowed[r] \cup {NameOf(p)}
      /\ allowed'[r][NameOf(p)].access = GrantedAccess(p)
      /\ \A n \in DOMAIN allowed[r] \ {NameOf(p)} :
             allowed'[r][n] = allowed[r][n]
  <2>1. entry.access = GrantedAccess(p)
    OBVIOUS
  <2>2. NameOf(p) \in TableNames
    BY <1>2, EntryTypes
  <2> DEFINE new == PutEntry(allowed[r], NameOf(p), entry)
  <2> HIDE DEF entry
  <2>3. /\ DOMAIN new = DOMAIN allowed[r] \cup {NameOf(p)}
        /\ new[NameOf(p)] = entry
        /\ \A n \in DOMAIN allowed[r] \ {NameOf(p)} : new[n] = allowed[r][n]
    BY <1>2, <1>3, <2>2, PutEntryType
  <2>4. allowed'[r] = new
    BY <1>1
  <2> HIDE DEF new
  <2> QED
    BY <2>1, <2>3, <2>4
<1>5. PICK live \in seen[r] :
          /\ ~AdminDefault(who[r], Current(r), live)
          /\ pending[r] \subseteq UsableGrants(who[r], Current(r), live)
          /\ Justified(r, live)
  BY <1>1 DEF ResolverInv, RequestInv, HasWitness
<1>6. Justified(r, live)'
  <2>1. ASSUME NEW n \in DOMAIN allowed'[r]
        PROVE  \E g \in UsableGrants(who[r], Current(r), live) :
                   /\ NameOf(g) = n
                   /\ allowed'[r][n].access = GrantedAccess(g)
    BY <1>4, <1>5 DEF Justified
  <2> QED
    BY <1>1, <1>5, <2>1 DEF Justified
<1> QED
  BY <1>1, <1>5, <1>6
  DEF ResolverInv, RequestInv, OwnConnection, OwnTables, FreshSchema,
      SeenIsCurrent, HasWitness, ResolverLabels, Busy

\* The entry written is that of an enabled table.
LEMMA ReadAdminColumnsKeeps ==
    ASSUME ResolverInv, NEW r \in Requests, NEW t \in tables[r],
           ReadAdminColumns(r, t)
    PROVE  RequestInv(r)'
<1> DEFINE name == TableOf[t].table_name
           entry == [access |-> AdminEntry(t).access,
                     columns |-> IF Current(r) \in conns
                                 THEN AdminEntry(t).columns ELSE {}]
<1>1. /\ pc[r] = "admin columns" /\ pc' = pc
      /\ allowed'[r] = PutEntry(allowed[r], name, entry)
      /\ tables'[r] = tables[r] \ {t}
      /\ Granted' = Granted /\ seen' = seen
      /\ Current(r)' = Current(r) /\ who' = who
  BY DEF ResolverInv, TypeInv, TypeOK, ReadAdminColumns, platform, Granted,
         Current
<1>2. t \in Tables /\ allowed[r] \in AllowedSchema
  BY DEF ResolverInv, TypeInv, TypeOK
<1>3. entry \in SchemaEntry
  BY <1>2, EntryTypes DEF SchemaEntry
<1>4. DOMAIN allowed'[r] = DOMAIN allowed[r] \cup {name}
  <2>1. name \in TableNames
    BY <1>2, EntryTypes
  <2> DEFINE new == PutEntry(allowed[r], name, entry)
  <2> HIDE DEF entry, name
  <2>2. DOMAIN new = DOMAIN allowed[r] \cup {name}
    BY <1>2, <1>3, <2>1, PutEntryType
  <2>3. allowed'[r] = new
    BY <1>1
  <2> QED
    BY <2>2, <2>3
<1>5. /\ t \in EnabledTables(who[r], Current(r))
      /\ tables[r] \subseteq EnabledTables(who[r], Current(r))
  BY <1>1 DEF ResolverInv, RequestInv, OwnTables, ResolverLabels
<1>6. PICK live \in seen[r] :
          AdminDefault(who[r], Current(r), live) /\ Justified(r, live)
  BY <1>1 DEF ResolverInv, RequestInv, HasWitness
<1>7. Justified(r, live)'
  BY <1>1, <1>4, <1>5, <1>6 DEF Justified
<1> QED
  BY <1>1, <1>5, <1>6, <1>7
  DEF ResolverInv, RequestInv, OwnConnection, OwnTables, FreshSchema,
      SeenIsCurrent, HasWitness, ResolverLabels, Busy

LEMMA SchemaResolvedKeeps ==
    ASSUME ResolverInv, NEW r \in Requests, SchemaResolved(r)
    PROVE  RequestInv(r)'
<1>1. /\ pc[r] \in {"grant columns", "admin columns"}
      /\ pc'[r] = "generate"
      /\ Granted' = Granted /\ seen' = seen
      /\ Current(r)' = Current(r) /\ who' = who /\ allowed' = allowed
  BY DEF ResolverInv, TypeInv, TypeOK, SchemaResolved, AllColumnsRead, Goto,
         platform, local, Granted, Current
<1>2. PICK live \in seen[r] : Justified(r, live)
  BY <1>1 DEF ResolverInv, RequestInv, HasWitness
<1>3. Justified(r, live)'
  BY <1>1, <1>2 DEF Justified
<1> QED
  BY <1>1, <1>2, <1>3
  DEF ResolverInv, RequestInv, OwnConnection, OwnTables, FreshSchema,
      SeenIsCurrent, HasWitness, ResolverLabels, Busy

----------------------------------------------------------------------------
(* The whole next-state relation.                                          *)

LEMMA NodeKeeps ==
    ASSUME ResolverInv, NEW r \in Requests, Node(r)
    PROVE  RequestInv(r)'
<1> USE DEF ResolverInv, TypeInv
<1>1. CASE \/ \E list \in ConnectionLists : Begin(r, list)
           \/ ConnectionNotFound(r)
           \/ Finish(r)
  <2>1. /\ pc[r] \in {"idle", "connection"}
        /\ pc'[r] \in {"connection", "done", "aborted"}
        /\ allowed' = allowed
    BY <1>1 DEF TypeOK, Begin, ConnectionNotFound, Finish, Goto, local
  <2>2. DOMAIN allowed[r] = {}
    BY <2>1 DEF RequestInv, FreshSchema
  <2> QED
    BY <2>1, <2>2, RequestInvAtRest
<1>2. CASE GetConnection(r)
  BY <1>2, GetConnectionKeeps
<1>3. CASE ReadTables(r)
  BY <1>3, ReadTablesKeeps
<1>4. CASE ReadGrants(r)
  BY <1>4, ReadGrantsKeeps
<1>5. CASE \E p \in pending[r] : ReadColumns(r, p)
  BY <1>5, ReadColumnsKeeps
<1>6. CASE \E t \in tables[r] : ReadAdminColumns(r, t)
  BY <1>6, ReadAdminColumnsKeeps
<1>7. CASE SchemaResolved(r)
  BY <1>7, SchemaResolvedKeeps
<1>8. CASE NodeRaises(r)
  <2>1. pc'[r] = "aborted" /\ allowed'[r] = EmptySchema
    BY <1>8 DEF TypeOK, NodeRaises, EndOfIteration, Goto
  <2> QED
    BY <2>1, EmptySchemaType, RequestInvAtRest
<1>9. CASE \/ NoTables(r) \/ NothingPermitted(r) \/ ModelDeclines(r)
           \/ \E s \in Statements : RejectQuery(r, s)
           \/ \E s \in Statements, status \in {"success", "failed"} :
                  ExecuteQuery(r, s, status)
  BY <1>9, ReplyRests
  DEF NoTables, NothingPermitted, ModelDeclines, RejectQuery, ExecuteQuery
<1> QED
  BY <1>1, <1>2, <1>3, <1>4, <1>5, <1>6, <1>7, <1>8, <1>9 DEF Node

LEMMA ResolverInvInit == Init => ResolverInv
<1> SUFFICES ASSUME Init PROVE ResolverInv
  OBVIOUS
<1>1. TypeInv
  BY TypeInvInit
<1>2. ASSUME NEW r \in Requests PROVE RequestInv(r)
  BY EmptySchemaType
  DEF Init, RequestInv, OwnConnection, OwnTables, FreshSchema, SeenIsCurrent,
      HasWitness, ResolverLabels, Busy
<1> QED
  BY <1>1, <1>2 DEF ResolverInv

LEMMA ResolverInvInductive == ResolverInv /\ [Next]_vars => ResolverInv'
<1> SUFFICES ASSUME ResolverInv, [Next]_vars PROVE ResolverInv'
  OBVIOUS
<1>1. TypeInv'
  BY TypeInvInductive DEF ResolverInv
<1>2. ASSUME NEW q \in Requests PROVE RequestInv(q)'
  <2>1. RequestInv(q) /\ TypeOK
    BY DEF ResolverInv, TypeInv
  <2>2. CASE UNCHANGED vars
    <3>1. Granted' = Granted
      BY <2>2 DEF vars, Granted
    <3> QED
      BY <2>1, <2>2, <3>1, RequestInvFrame
      DEF vars, RequestInv, SeenIsCurrent
  <2>3. CASE \E r \in Requests : Node(r)
    <3> PICK r \in Requests : Node(r)
      BY <2>3
    <3>1. CASE q = r
      BY <3>1, NodeKeeps
    <3>2. CASE q # r
      <4>1. Granted' = Granted
        BY <2>1, NodeIsLocal DEF platform, Granted
      <4> QED
        BY <2>1, <3>2, <4>1, NodeIsLocal, RequestInvFrame
        DEF RequestInv, SeenIsCurrent
    <3> QED
      BY <3>1, <3>2
  <2>4. CASE Administration
    <3>1. UNCHANGED <<pc, local>> /\ seen' = SeenNow
      BY <2>4
      DEF Administration, GrantTablePermission, RevokeTablePermission,
          DeleteConnection
    <3>2. /\ seen[q] \subseteq seen'[q]
          /\ pc[q] \in Busy \ {"connection"} => Granted' \in seen'[q]
      BY <3>1 DEF SeenNow, Granted
    <3> QED
      BY <2>1, <3>1, <3>2, RequestInvFrame DEF local
  <2>5. CASE AllOver
    BY <2>2, <2>5 DEF AllOver
  <2> QED
    BY <2>2, <2>3, <2>4, <2>5 DEF Next
<1> QED
  BY <1>1, <1>2 DEF ResolverInv

----------------------------------------------------------------------------
(* What runs is authorised.                                                *)

\* A statement that passes the validator uses only tables of the schema, and
\* changes only those the schema lets it write.
LEMMA ValidStatement ==
    ASSUME NEW s, NEW schema, IsValid(s, schema)
    PROVE  \A n \in s.tables :
               /\ n \in DOMAIN schema
               /\ s.kind = "dml" => schema[n].access = "read_write"
  BY DEF IsValid, TableErrors, QueryType

\* What runs is of the request that runs it and of the connection in hand, and
\* was validated against its schema.
LEMMA ExecutionStep ==
    ASSUME TypeOK, [Next]_vars, NEW e \in executed' \ executed
    PROVE  \E r \in Requests :
               /\ pc[r] = "generate"
               /\ e.req = r
               /\ e.connection = Current(r)
               /\ IsValid(e.sql, allowed[r])
<1>1. PICK r \in Requests, s \in Statements, status \in {"success", "failed"} :
          ExecuteQuery(r, s, status)
  BY DEF Next, Node, Administration, AllOver, vars, local, Begin,
         GetConnection, ConnectionNotFound, Finish, ReadTables, NoTables,
         ReadGrants, ReadColumns, ReadAdminColumns, SchemaResolved,
         NothingPermitted, ModelDeclines, NodeRaises, RejectQuery,
         GrantTablePermission, RevokeTablePermission, DeleteConnection
<1> DEFINE type == ValidateSql(s, allowed[r]).query_type
<1>2. e = [req |-> r, at |-> Len(results[r]) + 1, connection |-> Current(r),
           sql |-> s, read_only |-> ReadOnly(Current(r), type)]
  BY <1>1 DEF ExecuteQuery
<1>3. pc[r] = "generate" /\ IsValid(s, allowed[r])
  BY <1>1 DEF ExecuteQuery, ValidateSql
<1> QED
  BY <1>2, <1>3

\* A schema some permissions justify authorises what is valid under it.
LEMMA JustifiedAuthorises ==
    ASSUME NEW r \in Requests, NEW live, Justified(r, live),
           NEW s, IsValid(s, allowed[r])
    PROVE  AuthorisedBy(who[r], Current(r), s, live, "read_write")
<1>1. ASSUME NEW n \in s.tables
      PROVE  /\ n \in DOMAIN allowed[r]
             /\ s.kind = "dml" => allowed[r][n].access = "read_write"
  BY ValidStatement
<1>2. CASE AdminDefault(who[r], Current(r), live)
  BY <1>1, <1>2 DEF Justified, AuthorisedBy
<1>3. CASE ~AdminDefault(who[r], Current(r), live)
  BY <1>1, <1>3 DEF Justified, AuthorisedBy, GrantedAccess
<1> QED
  BY <1>2, <1>3

\* A statement runs only if the permissions of one moment since the request
\* turned to the connection allow it, in every interleaving with grants,
\* revocations and deletions.
THEOREM ExecutionsAuthorised == Spec => AuthorisedExecution
<1>1. ResolverInv /\ [Next]_vars =>
          [\A e \in executed' \ executed :
               \E live \in seen[e.req] :
                   AuthorisedBy(who[e.req], e.connection, e.sql, live,
                                "read_write")]_vars
  <2> SUFFICES ASSUME ResolverInv, [Next]_vars,
                      NEW e \in executed' \ executed
               PROVE  \E live \in seen[e.req] :
                          AuthorisedBy(who[e.req], e.connection, e.sql, live,
                                       "read_write")
    OBVIOUS
  <2>1. PICK r \in Requests : /\ pc[r] = "generate"
                              /\ e.req = r
                              /\ e.connection = Current(r)
                              /\ IsValid(e.sql, allowed[r])
    BY ExecutionStep DEF ResolverInv, TypeInv
  <2>2. PICK live \in seen[r] : Justified(r, live)
    BY <2>1 DEF ResolverInv, RequestInv, HasWitness
  <2> QED
    BY <2>1, <2>2, JustifiedAuthorises
<1>2. ResolverInv /\ [Next]_vars => ResolverInv'
  BY ResolverInvInductive
<1>3. Init => ResolverInv
  BY ResolverInvInit
<1> QED
  BY <1>1, <1>2, <1>3, PTL DEF Spec, AuthorisedExecution

----------------------------------------------------------------------------
(* Tenants are isolated.                                                   *)

\* What is authorised on a connection names tables of that connection.
LEMMA AuthorisedTables ==
    ASSUME NEW u \in Users, NEW c \in Conns, NEW s, NEW live,
           NEW default, AuthorisedBy(u, c, s, live, default), NEW n \in s.tables
    PROVE  \E t \in Tables : /\ TableOf[t].table_name = n
                             /\ TableOf[t].connection = c
  BY DEF AuthorisedBy, UsableGrants, EnabledTables, NameOf

\* A result is added for the connection in hand, or none is added.
LEMMA ResultsStep ==
    ASSUME TypeOK, [Next]_vars, NEW q \in Requests
    PROVE  \/ results'[q] = results[q]
           \/ /\ pc[q] \in Busy \ {"connection"}
              /\ \E status, sql, errors :
                     results'[q] =
                         Append(results[q],
                                [connection |-> Current(q), status |-> status,
                                 sql |-> sql, validation_errors |-> errors])
<1>1. CASE UNCHANGED vars \/ Administration \/ AllOver
  BY <1>1
  DEF vars, Administration, AllOver, GrantTablePermission,
      RevokeTablePermission, DeleteConnection, local
<1>2. CASE \E r \in Requests : Node(r)
  <2> PICK r \in Requests : Node(r)
    BY <1>2
  <2>1. CASE q # r
    BY <2>1, NodeIsLocal
  <2>2. CASE q = r
    <3>1. CASE \/ NoTables(r) \/ NothingPermitted(r) \/ ModelDeclines(r)
               \/ \E s \in Statements : RejectQuery(r, s)
               \/ \E s \in Statements, status \in {"success", "failed"} :
                      ExecuteQuery(r, s, status)
      <4>1. /\ pc[r] \in Busy \ {"connection"}
            /\ \E status, sql, errors : Reply(r, status, sql, errors)
        BY <3>1
        DEF NoTables, NothingPermitted, AllColumnsRead, ModelDeclines,
            RejectQuery, ExecuteQuery, Busy
      <4>2. PICK status, sql, errors : Reply(r, status, sql, errors)
        BY <4>1
      <4>3. results'[r] =
                Append(results[r],
                       [connection |-> Current(r), status |-> status,
                        sql |-> sql, validation_errors |-> errors])
        BY <4>2 DEF TypeOK, Reply
      <4> QED
        BY <2>2, <4>1, <4>3
    <3>2. CASE results' = results
      BY <2>2, <3>2
    <3> QED
      BY <3>1, <3>2
      DEF Node, Begin, GetConnection, ConnectionNotFound, Finish, ReadTables,
          ReadGrants, ReadColumns, ReadAdminColumns, SchemaResolved,
          NodeRaises, local
  <2> QED
    BY <2>1, <2>2
<1> QED
  BY <1>1, <1>2 DEF Next

\* No request changes hands.
LEMMA SameUser == ASSUME TypeOK, [Next]_vars PROVE who' = who
  BY NodeIsLocal
  DEF Next, vars, Administration, AllOver, GrantTablePermission,
      RevokeTablePermission, DeleteConnection, local

\* A request reads, reports and runs things of its own tenant only, and a
\* statement uses tables of the connection it runs on, whatever permissions
\* point at.
THEOREM TenantsIsolated == Spec => []TenantIsolation
<1> DEFINE Results == \A r \in Requests : \A i \in DOMAIN results[r] :
                          ConnTenant[results[r][i].connection]
                              = UserOf[who[r]].tenant
           Executions == \A e \in executed :
               /\ ConnTenant[e.connection] = UserOf[who[e.req]].tenant
               /\ \A n \in e.sql.tables : \E t \in Tables :
                      /\ TableOf[t].table_name = n
                      /\ TableOf[t].connection = e.connection
           Inv == ResolverInv /\ Results /\ Executions
<1>1. Init => Inv
  BY ResolverInvInit DEF Init
<1>2. Inv /\ [Next]_vars => Inv'
  <2> SUFFICES ASSUME Inv, [Next]_vars PROVE Inv'
    OBVIOUS
  <2>1. ResolverInv'
    BY ResolverInvInductive
  <2>2. TypeOK /\ who' = who
    BY SameUser DEF ResolverInv, TypeInv
  <2>3. Results'
    <3> SUFFICES ASSUME NEW r \in Requests, NEW i \in DOMAIN results'[r]
                 PROVE  ConnTenant[results'[r][i].connection]
                            = UserOf[who[r]].tenant
      BY <2>2
    <3>1. CASE results'[r] = results[r]
      BY <3>1
    <3>2. CASE results'[r] # results[r]
      <4>1. PICK status, sql, errors :
                results'[r] =
                    Append(results[r],
                           [connection |-> Current(r), status |-> status,
                            sql |-> sql, validation_errors |-> errors])
        BY <2>2, <3>2, ResultsStep
      <4>2. ConnTenant[Current(r)] = UserOf[who[r]].tenant
        BY <2>2, <3>2, ResultsStep
        DEF ResolverInv, RequestInv, OwnConnection
      <4>3. results[r] \in Seq(Result)
        BY <2>2 DEF TypeOK
      <4>4. CASE i \in DOMAIN results[r]
        <5>1. results'[r][i] = results[r][i]
          BY <4>1, <4>3, <4>4
        <5> QED
          BY <4>4, <5>1
      <4>5. CASE i \notin DOMAIN results[r]
        <5>1. results'[r][i].connection = Current(r)
          BY <4>1, <4>3, <4>5
        <5> QED
          BY <4>2, <5>1
      <4> QED
        BY <4>4, <4>5
    <3> QED
      BY <3>1, <3>2
  <2>4. Executions'
    <3> SUFFICES ASSUME NEW e \in executed'
                 PROVE  /\ ConnTenant[e.connection] = UserOf[who[e.req]].tenant
                        /\ \A n \in e.sql.tables : \E t \in Tables :
                               /\ TableOf[t].table_name = n
                               /\ TableOf[t].connection = e.connection
      BY <2>2
    <3>1. CASE e \in executed
      BY <3>1
    <3>2. CASE e \notin executed
      <4>1. PICK r \in Requests : /\ pc[r] = "generate"
                                  /\ e.req = r
                                  /\ e.connection = Current(r)
                                  /\ IsValid(e.sql, allowed[r])
        BY <2>2, <3>2, ExecutionStep
      <4>2. PICK live \in seen[r] : Justified(r, live)
        BY <4>1 DEF ResolverInv, RequestInv, HasWitness
      <4>3. AuthorisedBy(who[r], Current(r), e.sql, live, "read_write")
        BY <4>1, <4>2, JustifiedAuthorises
      <4>4. who[r] \in Users /\ Current(r) \in Conns
        BY <2>2, <4>1, CurrentType
        DEF ResolverInv, TypeInv, TypeOK, HasCurrent, Busy
      <4>5. ConnTenant[Current(r)] = UserOf[who[r]].tenant
        BY <4>1 DEF ResolverInv, RequestInv, OwnConnection, Busy
      <4> QED
        BY <4>1, <4>3, <4>4, <4>5, AuthorisedTables
    <3> QED
      BY <3>1, <3>2
  <2> QED
    BY <2>1, <2>3, <2>4
<1>3. Inv => TenantIsolation
  BY DEF TenantIsolation, ResolverInv, RequestInv, OwnConnection
<1> QED
  BY <1>1, <1>2, <1>3, PTL DEF Spec
----------------------------------------------------------------------------
(* What is resolved in peace is complete.                                  *)
(*                                                                         *)
(* The witness above bounds the schema from above only.  When nothing was  *)
(* taken away, every later query still finds what the grants were read     *)
(* with, so the dict is the witness's resolution less what is still to be  *)
(* read.  Whether something was taken away is told by seen: a permission   *)
(* is never granted twice, so what is missing once is missing for good.    *)

\* Nothing was revoked or deleted since the request turned to its connection.
Settled(r) ==
    Current(r) \in conns /\ \A live \in seen[r] : live \subseteq Granted

\* seen contains permissions that were granted at some time.
SeenWasGranted(r) ==
    \A live \in seen[r] : \A p \in live : p \in PermIds /\ perm[p] # "unused"

\* The dict holds the grants of live whose columns have been read.
GrantsRead(r, live) ==
    LET usable == UsableGrants(who[r], Current(r), live)
    IN /\ ~AdminDefault(who[r], Current(r), live)
       /\ pending[r] \subseteq usable
       /\ DOMAIN allowed[r] = {NameOf(p) : p \in usable \ pending[r]}
       /\ \A n \in DOMAIN allowed[r] : \E p \in usable :
              NameOf(p) = n /\ allowed[r][n] = GrantEntry(p)

\* The dict holds the enabled tables whose columns have been read.
TablesRead(r, live) ==
    LET enabled == EnabledTables(who[r], Current(r))
    IN /\ AdminDefault(who[r], Current(r), live)
       /\ tables[r] \subseteq enabled
       /\ DOMAIN allowed[r] =
              {TableOf[t].table_name : t \in enabled \ tables[r]}
       /\ \A n \in DOMAIN allowed[r] : \E t \in enabled :
              TableOf[t].table_name = n /\ allowed[r][n] = AdminEntry(t)

\* The resolver has found all there was so far.
FoundAll(r) ==
    /\ pc[r] = "grants" => tables[r] = EnabledTables(who[r], Current(r))
    /\ pc[r] = "grant columns" => \E live \in seen[r] : GrantsRead(r, live)
    /\ pc[r] = "admin columns" => \E live \in seen[r] : TablesRead(r, live)
    /\ pc[r] = "generate" =>
           \E live \in seen[r] :
               IsResolution(allowed[r], who[r], Current(r), live)

PeaceInv(r) == SeenWasGranted(r) /\ (Settled(r) => FoundAll(r))

SettledInv == ResolverInv /\ \A r \in Requests : PeaceInv(r)

\* A request whose own state stands keeps what it found, unless something it
\* has seen is taken away.
LEMMA PeaceFrame ==
    ASSUME NEW q \in Requests, PeaceInv(q),
           pc'[q] = pc[q], who' = who, todo'[q] = todo[q],
           tables'[q] = tables[q], pending'[q] = pending[q],
           allowed'[q] = allowed[q], seen[q] \subseteq seen'[q],
           SeenWasGranted(q)', Settled(q)' => Settled(q)
    PROVE  PeaceInv(q)'
<1>1. Current(q)' = Current(q)
  BY DEF Current
<1>2. ASSUME NEW live
      PROVE  /\ GrantsRead(q, live)' <=> GrantsRead(q, live)
             /\ TablesRead(q, live)' <=> TablesRead(q, live)
  BY <1>1 DEF GrantsRead, TablesRead
<1>3. FoundAll(q) => FoundAll(q)'
  BY <1>1, <1>2 DEF FoundAll
<1> QED
  BY <1>3 DEF PeaceInv

\* Where no schema is in the making there is nothing to be found.
LEMMA PeaceAtRest ==
    ASSUME NEW q \in Requests, SeenWasGranted(q)',
           pc'[q] \in {"connection", "tables", "idle", "done", "aborted"}
    PROVE  PeaceInv(q)'
  BY DEF PeaceInv, FoundAll

\* A request that reads sees the platform stand still.
LEMMA Reading ==
    ASSUME SettledInv, NEW r \in Requests,
           UNCHANGED <<platform, who, todo, seen>>
    PROVE  /\ SeenWasGranted(r)'
           /\ Settled(r)' <=> Settled(r)
           /\ Current(r)' = Current(r)
  BY DEF SettledInv, PeaceInv, SeenWasGranted, Settled, platform, Granted,
         Current

LEMMA ReadTablesFindsAll ==
    ASSUME SettledInv, NEW r \in Requests, ReadTables(r)
    PROVE  PeaceInv(r)'
<1>1. /\ pc'[r] = "grants" /\ tables'[r] = CachedTables(r)
      /\ UNCHANGED <<platform, who, todo, seen>>
  BY DEF SettledInv, ResolverInv, TypeInv, TypeOK, ReadTables, Goto
<1>2. Settled(r) => CachedTables(r) = EnabledTables(who[r], Current(r))
  BY DEF Settled, CachedTables
<1> QED
  BY <1>1, <1>2, Reading DEF PeaceInv, FoundAll

LEMMA ReadGrantsFindsAll ==
    ASSUME SettledInv, NEW r \in Requests, ReadGrants(r)
    PROVE  PeaceInv(r)'
<1>1. /\ pc[r] = "grants"
      /\ UNCHANGED <<platform, who, todo, seen, tables, allowed>>
  BY DEF ReadGrants
<1>2. Current(r)' = Current(r) /\ SeenWasGranted(r)'
  BY <1>1, Reading
<1>3. Granted \in seen[r] /\ DOMAIN allowed[r] = {}
  BY <1>1
  DEF SettledInv, ResolverInv, RequestInv, SeenIsCurrent, FreshSchema, Busy
<1> PICK live \in seen[r] : live = Granted
  BY <1>3
<1> DEFINE usable == UsableGrants(who[r], Current(r), live)
           enabled == EnabledTables(who[r], Current(r))
           admin == AdminDefault(who[r], Current(r), live)
<1> SUFFICES ASSUME Settled(r)' PROVE FoundAll(r)'
  BY <1>2 DEF PeaceInv
<1>4. tables[r] = enabled
  BY <1>1, Reading DEF SettledInv, PeaceInv, FoundAll
<1>5. CASE admin
  <2>1. pc'[r] = "admin columns"
    BY <1>5
    DEF SettledInv, ResolverInv, TypeInv, TypeOK, ReadGrants, AdminDefault,
        Goto
  <2>2. TablesRead(r, live)'
    BY <1>1, <1>2, <1>3, <1>4, <1>5 DEF TablesRead
  <2> QED
    BY <1>1, <1>3, <2>1, <2>2 DEF FoundAll
<1>6. CASE ~admin
  <2>1. /\ pc'[r] = "grant columns"
        /\ pending'[r] = {p \in Applicable(who[r], Current(r), live) :
                             PermOf[p].table \in tables[r]}
    BY <1>6
    DEF SettledInv, ResolverInv, TypeInv, TypeOK, ReadGrants, AdminDefault,
        Goto
  <2>2. pending'[r] = usable
    BY <1>4, <2>1 DEF UsableGrants
  <2>3. GrantsRead(r, live)'
    BY <1>1, <1>2, <1>3, <1>6, <2>2 DEF GrantsRead
  <2> QED
    BY <1>1, <1>3, <2>1, <2>3 DEF FoundAll
<1> QED
  BY <1>5, <1>6

\* A grant that still exists is found with all its columns.
LEMMA ReadColumnsFindsAll ==
    ASSUME SettledInv, NEW r \in Requests, NEW p \in pending[r],
           ReadColumns(r, p)
    PROVE  PeaceInv(r)'
<1> DEFINE entry == [access |-> GrantedAccess(p),
                     columns |-> ColumnsFound(r, p)]
<1>1. /\ pc[r] = "grant columns" /\ pc' = pc
      /\ UNCHANGED <<platform, who, todo, seen, tables>>
      /\ allowed'[r] = PutEntry(allowed[r], NameOf(p), entry)
      /\ pending'[r] = pending[r] \ {p}
  BY DEF SettledInv, ResolverInv, TypeInv, TypeOK, ReadColumns
<1>2. Current(r)' = Current(r) /\ SeenWasGranted(r)'
  BY <1>1, Reading
<1> SUFFICES ASSUME Settled(r)' PROVE FoundAll(r)'
  BY <1>2 DEF PeaceInv
<1>3. Settled(r)
  BY <1>1, Reading
<1>4. PICK live \in seen[r] : GrantsRead(r, live)
  BY <1>1, <1>3 DEF SettledInv, PeaceInv, FoundAll
<1> DEFINE usable == UsableGrants(who[r], Current(r), live)
<1>5. p \in usable /\ p \in Granted
  BY <1>3, <1>4 DEF GrantsRead, UsableGrants, Applicable, Settled
<1>6. entry = GrantEntry(p)
  BY <1>3, <1>5 DEF ColumnsFound, Settled, Granted, GrantEntry
<1>7. /\ p \in PermIds /\ allowed[r] \in AllowedSchema
      /\ NameOf(p) \in TableNames /\ GrantEntry(p) \in SchemaEntry
  BY EntryTypes
  DEF SettledInv, ResolverInv, TypeInv, TypeOK, GrantEntry, SchemaEntry
<1>8. /\ DOMAIN allowed'[r] = DOMAIN allowed[r] \cup {NameOf(p)}
      /\ allowed'[r][NameOf(p)] = GrantEntry(p)
      /\ \A n \in DOMAIN allowed[r] \ {NameOf(p)} :
             allowed'[r][n] = allowed[r][n]
  <2> DEFINE new == PutEntry(allowed[r], NameOf(p), GrantEntry(p))
  <2>1. allowed'[r] = new
    BY <1>1, <1>6
  <2>2. /\ DOMAIN new = DOMAIN allowed[r] \cup {NameOf(p)}
        /\ new[NameOf(p)] = GrantEntry(p)
        /\ \A n \in DOMAIN allowed[r] \ {NameOf(p)} : new[n] = allowed[r][n]
    BY <1>7, PutEntryType
  <2> HIDE DEF new
  <2> QED
    BY <2>1, <2>2
<1>9. GrantsRead(r, live)'
  <2> HIDE DEF usable
  <2>1. /\ ~AdminDefault(who[r], Current(r), live)
        /\ pending[r] \subseteq usable
        /\ DOMAIN allowed[r] = {NameOf(g) : g \in usable \ pending[r]}
        /\ \A n \in DOMAIN allowed[r] : \E g \in usable :
               NameOf(g) = n /\ allowed[r][n] = GrantEntry(g)
    BY <1>4 DEF GrantsRead, usable
  <2>2. usable \ pending'[r] = (usable \ pending[r]) \cup {p}
    BY <1>1, <1>5, <2>1
  <2>3. DOMAIN allowed'[r] = {NameOf(g) : g \in usable \ pending'[r]}
    BY <1>8, <2>1, <2>2
  <2>4. ASSUME NEW n \in DOMAIN allowed'[r]
        PROVE  \E g \in usable :
                   NameOf(g) = n /\ allowed'[r][n] = GrantEntry(g)
    BY <1>5, <1>8, <2>1
  <2>5. usable' = usable
    BY <1>1, <1>2 DEF usable
  <2> QED
    BY <1>1, <1>2, <2>1, <2>3, <2>4, <2>5 DEF GrantsRead, usable
<1> QED
  BY <1>1, <1>9 DEF FoundAll

LEMMA ReadAdminColumnsFindsAll ==
    ASSUME SettledInv, NEW r \in Requests, NEW t \in tables[r],
           ReadAdminColumns(r, t)
    PROVE  PeaceInv(r)'
<1> DEFINE name == TableOf[t].table_name
           entry == [access |-> AdminEntry(t).access,
                     columns |-> IF Current(r) \in conns
                                 THEN AdminEntry(t).columns ELSE {}]
           enabled == EnabledTables(who[r], Current(r))
<1>1. /\ pc[r] = "admin columns" /\ pc' = pc
      /\ UNCHANGED <<platform, who, todo, seen, pending>>
      /\ allowed'[r] = PutEntry(allowed[r], name, entry)
      /\ tables'[r] = tables[r] \ {t}
  BY DEF SettledInv, ResolverInv, TypeInv, TypeOK, ReadAdminColumns
<1>2. Current(r)' = Current(r) /\ SeenWasGranted(r)'
  BY <1>1, Reading
<1> SUFFICES ASSUME Settled(r)' PROVE FoundAll(r)'
  BY <1>2 DEF PeaceInv
<1>3. Settled(r)
  BY <1>1, Reading
<1>4. PICK live \in seen[r] : TablesRead(r, live)
  BY <1>1, <1>3 DEF SettledInv, PeaceInv, FoundAll
<1>5. entry = AdminEntry(t)
  BY <1>3 DEF Settled, AdminEntry
<1>6. /\ allowed[r] \in AllowedSchema
      /\ name \in TableNames /\ AdminEntry(t) \in SchemaEntry
  BY EntryTypes DEF SettledInv, ResolverInv, TypeInv, TypeOK
<1>7. /\ DOMAIN allowed'[r] = DOMAIN allowed[r] \cup {name}
      /\ allowed'[r][name] = AdminEntry(t)
      /\ \A n \in DOMAIN allowed[r] \ {name} : allowed'[r][n] = allowed[r][n]
  <2> DEFINE new == PutEntry(allowed[r], name, AdminEntry(t))
  <2>1. allowed'[r] = new
    BY <1>1, <1>5
  <2> HIDE DEF name
  <2>2. /\ DOMAIN new = DOMAIN allowed[r] \cup {name}
        /\ new[name] = AdminEntry(t)
        /\ \A n \in DOMAIN allowed[r] \ {name} : new[n] = allowed[r][n]
    BY <1>6, PutEntryType
  <2> HIDE DEF new
  <2> QED
    BY <2>1, <2>2
<1>8. TablesRead(r, live)'
  <2> HIDE DEF enabled
  <2>1. /\ AdminDefault(who[r], Current(r), live)
        /\ tables[r] \subseteq enabled
        /\ DOMAIN allowed[r] =
               {TableOf[u].table_name : u \in enabled \ tables[r]}
        /\ \A n \in DOMAIN allowed[r] : \E u \in enabled :
               TableOf[u].table_name = n /\ allowed[r][n] = AdminEntry(u)
    BY <1>4 DEF TablesRead, enabled
  <2>2. enabled \ tables'[r] = (enabled \ tables[r]) \cup {t}
    BY <1>1, <2>1
  <2>3. DOMAIN allowed'[r] =
            {TableOf[u].table_name : u \in enabled \ tables'[r]}
    BY <1>7, <2>1, <2>2
  <2>4. ASSUME NEW n \in DOMAIN allowed'[r]
        PROVE  \E u \in enabled :
                   TableOf[u].table_name = n /\ allowed'[r][n] = AdminEntry(u)
    BY <1>7, <2>1
  <2>5. enabled' = enabled
    BY <1>1, <1>2 DEF enabled
  <2> QED
    BY <1>1, <1>2, <2>1, <2>3, <2>4, <2>5 DEF TablesRead, enabled
<1> QED
  BY <1>1, <1>8 DEF FoundAll

\* With nothing left to read the dict is the resolution.
LEMMA SchemaResolvedFindsAll ==
    ASSUME SettledInv, NEW r \in Requests, SchemaResolved(r)
    PROVE  PeaceInv(r)'
<1>1. /\ AllColumnsRead(r) /\ pc'[r] = "generate"
      /\ UNCHANGED <<platform, who, todo, seen, allowed>>
  BY DEF SettledInv, ResolverInv, TypeInv, TypeOK, SchemaResolved, Goto, local
<1>2. Current(r)' = Current(r) /\ SeenWasGranted(r)'
  BY <1>1, Reading
<1> SUFFICES ASSUME Settled(r)' PROVE FoundAll(r)'
  BY <1>2 DEF PeaceInv
<1>3. FoundAll(r)
  BY <1>1, Reading DEF SettledInv, PeaceInv
<1>4. \E live \in seen[r] :
          IsResolution(allowed[r], who[r], Current(r), live)
  <2>1. CASE pc[r] = "grant columns" /\ pending[r] = {}
    <3>1. PICK live \in seen[r] : GrantsRead(r, live)
      BY <1>3, <2>1 DEF FoundAll
    <3>2. IsResolution(allowed[r], who[r], Current(r), live)
      BY <2>1, <3>1 DEF GrantsRead, IsResolution
    <3> QED
      BY <3>2
  <2>2. CASE pc[r] = "admin columns" /\ tables[r] = {}
    <3>1. PICK live \in seen[r] : TablesRead(r, live)
      BY <1>3, <2>2 DEF FoundAll
    <3>2. IsResolution(allowed[r], who[r], Current(r), live)
      BY <2>2, <3>1 DEF TablesRead, IsResolution
    <3> QED
      BY <3>2
  <2> QED
    BY <1>1, <2>1, <2>2 DEF AllColumnsRead
<1> QED
  BY <1>1, <1>2, <1>4 DEF FoundAll

LEMMA NodeFindsAll ==
    ASSUME SettledInv, NEW r \in Requests, Node(r)
    PROVE  PeaceInv(r)'
<1> USE DEF SettledInv, ResolverInv, TypeInv
<1>1. CASE \/ \E list \in ConnectionLists : Begin(r, list)
           \/ ConnectionNotFound(r)
           \/ Finish(r)
  <2>1. /\ pc'[r] \in {"connection", "done", "aborted"}
        /\ seen' = seen /\ perm' = perm
    BY <1>1
    DEF TypeOK, Begin, ConnectionNotFound, Finish, Goto, platform
  <2> QED
    BY <2>1, PeaceAtRest DEF PeaceInv, SeenWasGranted
<1>2. CASE GetConnection(r)
  <2>1. pc'[r] = "tables" /\ seen'[r] = {Granted} /\ perm' = perm
    BY <1>2 DEF TypeOK, GetConnection, Goto, platform
  <2>2. SeenWasGranted(r)'
    BY <2>1 DEF SeenWasGranted, Granted
  <2> QED
    BY <2>1, <2>2, PeaceAtRest
<1>3. CASE ReadTables(r)
  BY <1>3, ReadTablesFindsAll
<1>4. CASE ReadGrants(r)
  BY <1>4, ReadGrantsFindsAll
<1>5. CASE \E p \in pending[r] : ReadColumns(r, p)
  BY <1>5, ReadColumnsFindsAll
<1>6. CASE \E t \in tables[r] : ReadAdminColumns(r, t)
  BY <1>6, ReadAdminColumnsFindsAll
<1>7. CASE SchemaResolved(r)
  BY <1>7, SchemaResolvedFindsAll
<1>8. ASSUME pc'[r] \in {"connection", "aborted"}, EndOfIteration(r)
      PROVE  PeaceInv(r)'
  <2>1. seen'[r] = {}
    BY <1>8 DEF TypeOK, EndOfIteration
  <2>2. SeenWasGranted(r)'
    BY <2>1 DEF SeenWasGranted
  <2> QED
    BY <1>8, <2>2, PeaceAtRest
<1>9. CASE \/ NoTables(r) \/ NothingPermitted(r) \/ ModelDeclines(r)
           \/ NodeRaises(r)
           \/ \E s \in Statements : RejectQuery(r, s)
           \/ \E s \in Statements, status \in {"success", "failed"} :
                  ExecuteQuery(r, s, status)
  <2>1. pc'[r] \in {"connection", "aborted"} /\ EndOfIteration(r)
    BY <1>9
    DEF TypeOK, NoTables, NothingPermitted, ModelDeclines, NodeRaises,
        RejectQuery, ExecuteQuery, Reply, Goto
  <2> QED
    BY <2>1, <1>8
<1> QED
  BY <1>1, <1>2, <1>3, <1>4, <1>5, <1>6, <1>7, <1>9 DEF Node

\* Administrators create and remove permissions, and never restore one.
LEMMA AdministrationKeepsPeace ==
    ASSUME SettledInv, NEW q \in Requests, Administration
    PROVE  PeaceInv(q)'
<1>1. UNCHANGED <<pc, local>> /\ seen' = SeenNow /\ conns' \subseteq conns
  BY DEF Administration, GrantTablePermission, RevokeTablePermission,
         DeleteConnection
<1>2. /\ perm' \in [PermIds -> {"unused", "granted", "revoked"}]
      /\ \A p \in PermIds : /\ perm'[p] = "unused" => perm[p] = "unused"
                            /\ perm'[p] = "granted" =>
                                   perm[p] \in {"unused", "granted"}
  BY DEF SettledInv, ResolverInv, TypeInv, TypeOK, Administration,
         GrantTablePermission, RevokeTablePermission, DeleteConnection
<1>3. /\ seen[q] \subseteq seen'[q]
      /\ \A live \in seen'[q] : live \in seen[q] \/ live = Granted'
  BY <1>1 DEF SeenNow, Granted
<1>4. SeenWasGranted(q)'
  BY <1>2, <1>3 DEF SettledInv, PeaceInv, SeenWasGranted, Granted
<1>5. Current(q)' = Current(q)
  BY <1>1 DEF local, Current
<1>6. Settled(q)' => Settled(q)
  <2> SUFFICES ASSUME Settled(q)',
                      NEW live \in seen[q], NEW p \in live
               PROVE  p \in Granted
    BY <1>1, <1>5 DEF Settled
  <2>1. p \in PermIds /\ perm[p] # "unused"
    BY DEF SettledInv, PeaceInv, SeenWasGranted
  <2>2. perm'[p] = "granted"
    BY <1>3 DEF Settled, Granted
  <2> QED
    BY <1>2, <2>1, <2>2 DEF Granted
<1> QED
  BY <1>1, <1>3, <1>4, <1>6, PeaceFrame DEF SettledInv, local

LEMMA SettledInvInductive == SettledInv /\ [Next]_vars => SettledInv'
<1> SUFFICES ASSUME SettledInv, [Next]_vars PROVE SettledInv'
  OBVIOUS
<1>1. ResolverInv'
  BY ResolverInvInductive DEF SettledInv
<1>2. ASSUME NEW q \in Requests PROVE PeaceInv(q)'
  <2>1. PeaceInv(q) /\ TypeOK
    BY DEF SettledInv, ResolverInv, TypeInv
  <2>2. ASSUME UNCHANGED <<platform, who>>,
               pc'[q] = pc[q], todo'[q] = todo[q], tables'[q] = tables[q],
               pending'[q] = pending[q], allowed'[q] = allowed[q],
               seen'[q] = seen[q]
        PROVE  PeaceInv(q)'
    <3>1. SeenWasGranted(q)' /\ (Settled(q)' => Settled(q))
      BY <2>1, <2>2
      DEF PeaceInv, SeenWasGranted, Settled, platform, Granted, Current
    <3> QED
      BY <2>1, <2>2, <3>1, PeaceFrame
  <2>3. CASE UNCHANGED vars
    BY <2>2, <2>3 DEF vars, platform
  <2>4. CASE \E r \in Requests : Node(r)
    <3> PICK r \in Requests : Node(r)
      BY <2>4
    <3>1. CASE q = r
      BY <3>1, NodeFindsAll
    <3>2. CASE q # r
      BY <2>1, <2>2, <3>2, NodeIsLocal
    <3> QED
      BY <3>1, <3>2
  <2>5. CASE Administration
    BY <2>5, AdministrationKeepsPeace
  <2>6. CASE AllOver
    BY <2>3, <2>6 DEF AllOver
  <2> QED
    BY <2>3, <2>4, <2>5, <2>6 DEF Next
<1> QED
  BY <1>1, <1>2 DEF SettledInv

\* When nothing was revoked or deleted while the schema was resolved, the model
\* is shown exactly what the permissions of one moment say, whatever was
\* granted meanwhile.
THEOREM PeaceResolves == Spec => []SettledResolution
<1>1. Init => SettledInv
  BY ResolverInvInit
  DEF Init, SettledInv, PeaceInv, SeenWasGranted, FoundAll
<1>2. SettledInv => SettledResolution
  BY DEF SettledInv, PeaceInv, Settled, FoundAll, SettledResolution
<1> QED
  BY <1>1, <1>2, SettledInvInductive, PTL DEF Spec
=============================================================================
