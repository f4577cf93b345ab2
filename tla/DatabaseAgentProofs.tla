------------------------ MODULE DatabaseAgentProofs ------------------------
(***************************************************************************)
(* Proofs about the database node, for every catalogue, every set of       *)
(* permissions, requests and statements.                                   *)
(***************************************************************************)
EXTENDS DatabaseAgent, TLAPS

----------------------------------------------------------------------------
(* Lemmas about the resolver's building blocks.                            *)

\* The dict the resolver starts with maps no name.
LEMMA EmptySchemaType == EmptySchema \in AllowedSchema /\ DOMAIN EmptySchema = {}
  BY SMT DEF EmptySchema, AllowedSchema, SchemaEntry, Accesses

\* Writing an entry keeps the dict well formed, adds its name to the names the
\* dict maps, and leaves the entries of all other names alone.
LEMMA PutEntryType ==
    ASSUME NEW schema \in AllowedSchema, NEW name \in TableNames,
           NEW entry \in SchemaEntry
    PROVE  /\ PutEntry(schema, name, entry) \in AllowedSchema
           /\ DOMAIN PutEntry(schema, name, entry) = DOMAIN schema \cup {name}
           /\ PutEntry(schema, name, entry)[name] = entry
           /\ \A n \in DOMAIN schema \ {name} :
                  PutEntry(schema, name, entry)[n] = schema[n]
<1>1. PICK N \in SUBSET TableNames : schema \in [N -> SchemaEntry]
  BY DEF AllowedSchema
<1>2. PutEntry(schema, name, entry) \in [N \cup {name} -> SchemaEntry]
  BY <1>1 DEF PutEntry
<1>3. N \cup {name} \in SUBSET TableNames
  OBVIOUS
<1>4. PutEntry(schema, name, entry) \in AllowedSchema
  BY <1>2, <1>3 DEF AllowedSchema
<1> QED
  BY <1>1, <1>4 DEF PutEntry

\* What a grant or a table contributes is an entry, under a table's name.
LEMMA EntryTypes ==
    /\ \A p \in PermIds : /\ NameOf(p) \in TableNames
                          /\ GrantedAccess(p) \in Accesses
                          /\ GrantedColumns(p) \subseteq ColumnNames
                          /\ PermOf[p].table \in Tables
    /\ \A t \in Tables : /\ TableOf[t].table_name \in TableNames
                         /\ AdminEntry(t) \in SchemaEntry
                         /\ OpenColumns(t) \subseteq ColumnNames
  BY CatalogueAssumption
  DEF CatalogueAssumption, TablePermission, DatabaseTable, NameOf,
      GrantedAccess, GrantedColumns, OpenColumns, AdminEntry, SchemaEntry,
      Accesses

\* The columns found for a grant are columns, whatever was deleted meanwhile.
LEMMA ColumnsFoundType ==
    ASSUME NEW r \in Requests, NEW p \in PermIds
    PROVE  ColumnsFound(r, p) \subseteq ColumnNames
  BY EntryTypes DEF ColumnsFound

\* The cached tables found are tables, also when there are none any more.
LEMMA CachedTablesType ==
    ASSUME NEW r \in Requests PROVE CachedTables(r) \subseteq Tables
  BY DEF CachedTables, EnabledTables

----------------------------------------------------------------------------
(* Type correctness.                                                       *)

\* A request with a connection left has a current one, and a rest.
LEMMA CurrentType ==
    ASSUME TypeOK, NEW r \in Requests, todo[r] # <<>>
    PROVE  Current(r) \in Conns /\ Tail(todo[r]) \in Seq(Conns)
  BY DEF TypeOK, Current

\* seen only ever gains sets of permissions.
LEMMA SeenNowType ==
    ASSUME TypeOK
    PROVE  SeenNow \in [Requests -> SUBSET SUBSET PermIds]
  BY DEF TypeOK, SeenNow

\* Giving a result of the right kind keeps the types.
LEMMA ReplyType ==
    ASSUME TypeOK, NEW r \in Requests, todo[r] # <<>>,
           NEW status \in {"success", "failed", "rejected"},
           NEW sql \in Statements \cup {NoSql}, NEW errors \in BOOLEAN,
           Reply(r, status, sql, errors),
           executed' \subseteq Execution
    PROVE  TypeOK'
<1>1. [connection |-> Current(r), status |-> status, sql |-> sql,
       validation_errors |-> errors] \in Result
  BY CurrentType DEF Result
<1>2. results' \in [Requests -> Seq(Result)]
  BY <1>1 DEF TypeOK, Reply
<1>3. todo' \in [Requests -> Seq(Conns)]
  BY CurrentType DEF TypeOK, Reply
<1>4. pc' \in [Requests -> Busy \cup {"idle", "done", "aborted"}]
  BY DEF TypeOK, Reply, Goto, Busy
<1>5. /\ tables' \in [Requests -> SUBSET Tables]
      /\ pending' \in [Requests -> SUBSET PermIds]
      /\ seen' \in [Requests -> SUBSET SUBSET PermIds]
  BY DEF TypeOK, Reply, EndOfIteration
<1>6. allowed' \in [Requests -> AllowedSchema]
  BY EmptySchemaType DEF TypeOK, Reply, EndOfIteration
<1> QED
  BY <1>2, <1>3, <1>4, <1>5, <1>6 DEF TypeOK, Reply, platform

\* A node past the lookup has a connection it works on.
HasCurrent ==
    \A r \in Requests : pc[r] \in Busy \ {"connection"} => todo[r] # <<>>

\* TypeOK is not inductive by itself: Head and Tail of todo are taken.
TypeInv == TypeOK /\ HasCurrent

\* The platform, the schemas and the walk keep their types in every step.
LEMMA TypeInvInductive == TypeInv /\ [Next]_vars => TypeInv'
<1> SUFFICES ASSUME TypeInv, [Next]_vars PROVE TypeInv'
  OBVIOUS
<1> USE DEF TypeInv
<1>1. CASE UNCHANGED vars
  BY <1>1 DEF TypeOK, HasCurrent, vars, Busy, Result, Execution
<1>2. CASE \E r \in Requests : Node(r)
  <2> PICK r \in Requests : Node(r)
    BY <1>2
  <2>1. CASE \E list \in ConnectionLists : Begin(r, list)
    <3> PICK list \in ConnectionLists : Begin(r, list)
      BY <2>1
    <3>1. list \in Seq(Conns)
      BY AgentAssumption DEF AgentAssumption
    <3> QED
      BY <3>1 DEF TypeOK, HasCurrent, Begin, Goto, Busy, platform
  <2>2. CASE GetConnection(r)
    BY <2>2
    DEF TypeOK, HasCurrent, GetConnection, Goto, Busy, platform, local, Granted
  <2>3. CASE ConnectionNotFound(r) \/ Finish(r)
    BY <2>3
    DEF TypeOK, HasCurrent, ConnectionNotFound, Finish, Goto, Busy, platform,
        local
  <2>4. CASE ReadTables(r)
    BY <2>4, CachedTablesType
    DEF TypeOK, HasCurrent, ReadTables, Goto, Busy, platform
  <2>5. CASE ReadGrants(r)
    <3>1. /\ pc' \in [Requests -> Busy \cup {"idle", "done", "aborted"}]
          /\ HasCurrent'
      BY <2>5 DEF TypeOK, HasCurrent, ReadGrants, Goto, Busy
    <3>2. pending' \in [Requests -> SUBSET PermIds]
      <4> DEFINE left == {p \in Applicable(who[r], Current(r), Granted) :
                             PermOf[p].table \in tables[r]}
      <4>1. left \subseteq PermIds
        BY DEF Applicable, Granted
      <4>2. pending' = pending \/ pending' = [pending EXCEPT ![r] = left]
        BY <2>5 DEF ReadGrants
      <4> HIDE DEF left
      <4> QED
        BY <4>1, <4>2 DEF TypeOK
    <3> QED
      BY <2>5, <3>1, <3>2 DEF TypeOK, ReadGrants, platform
  <2>6. ASSUME NEW p \in pending[r], ReadColumns(r, p) PROVE TypeInv'
    <3>1. p \in PermIds
      BY DEF TypeOK
    <3> DEFINE entry == [access |-> GrantedAccess(p),
                         columns |-> ColumnsFound(r, p)]
    <3>2. entry \in SchemaEntry
      BY <3>1, EntryTypes, ColumnsFoundType DEF SchemaEntry
    <3>3. PutEntry(allowed[r], NameOf(p), entry) \in AllowedSchema
      BY <3>1, <3>2, EntryTypes, PutEntryType DEF TypeOK
    <3> QED
      BY <2>6, <3>3 DEF TypeOK, HasCurrent, ReadColumns, Goto, Busy, platform
  <2>7. ASSUME NEW t \in tables[r], ReadAdminColumns(r, t) PROVE TypeInv'
    <3>1. t \in Tables
      BY DEF TypeOK
    <3> DEFINE entry == [access |-> AdminEntry(t).access,
                         columns |-> IF Current(r) \in conns
                                     THEN AdminEntry(t).columns ELSE {}]
    <3>2. entry \in SchemaEntry
      BY <3>1, EntryTypes DEF SchemaEntry
    <3>3. PutEntry(allowed[r], TableOf[t].table_name, entry) \in AllowedSchema
      BY <3>1, <3>2, EntryTypes, PutEntryType DEF TypeOK
    <3> QED
      BY <2>7, <3>3
      DEF TypeOK, HasCurrent, ReadAdminColumns, Goto, Busy, platform
  <2>8. CASE SchemaResolved(r)
    BY <2>8
    DEF TypeOK, HasCurrent, SchemaResolved, AllColumnsRead, Goto, Busy,
        platform, local
  <2>9. CASE NodeRaises(r)
    BY <2>9, EmptySchemaType
    DEF TypeOK, HasCurrent, NodeRaises, EndOfIteration, Goto, Busy, platform
  <2>10. ASSUME NEW status, NEW sql, NEW errors, Reply(r, status, sql, errors)
         PROVE  HasCurrent'
    BY <2>10 DEF TypeOK, HasCurrent, Reply, Goto, Busy
  <2>11. CASE NoTables(r) \/ NothingPermitted(r) \/ ModelDeclines(r)
    <3>1. todo[r] # <<>> /\ Reply(r, "failed", NoSql, FALSE)
      BY <2>11
      DEF HasCurrent, NoTables, NothingPermitted, AllColumnsRead,
          ModelDeclines, Busy
    <3>2. executed' \subseteq Execution
      BY <2>11
      DEF TypeOK, Execution, NoTables, NothingPermitted, ModelDeclines
    <3> QED
      BY <3>1, <3>2, <2>10, ReplyType
  <2>12. CASE \E s \in Statements : RejectQuery(r, s)
    <3> PICK s \in Statements : RejectQuery(r, s)
      BY <2>12
    <3>1. todo[r] # <<>> /\ Reply(r, "rejected", s, TRUE)
      BY DEF HasCurrent, RejectQuery, Busy
    <3>2. executed' \subseteq Execution
      BY DEF TypeOK, Execution, RejectQuery
    <3> QED
      BY <3>1, <3>2, <2>10, ReplyType
  <2>13. CASE \E s \in Statements, status \in {"success", "failed"} :
                 ExecuteQuery(r, s, status)
    <3> PICK s \in Statements, status \in {"success", "failed"} :
                 ExecuteQuery(r, s, status)
      BY <2>13
    <3>1. todo[r] # <<>> /\ Reply(r, status, s, FALSE)
      BY DEF HasCurrent, ExecuteQuery, Busy
    <3>2. executed' \subseteq Execution
      <4>1. Len(results[r]) + 1 \in Nat
        BY DEF TypeOK
      <4>2. Current(r) \in Conns
        BY <3>1, CurrentType
      <4>3. ReadOnly(Current(r), ValidateSql(s, allowed[r]).query_type)
                \in BOOLEAN
        BY DEF ReadOnly
      <4> QED
        BY <4>1, <4>2, <4>3 DEF TypeOK, Execution, ExecuteQuery
    <3> QED
      BY <3>1, <3>2, <2>10, ReplyType
  <2> QED
    BY <2>1, <2>2, <2>3, <2>4, <2>5, <2>6, <2>7, <2>8, <2>9, <2>11, <2>12,
       <2>13 DEF Node
<1>3. CASE Administration
  <2>1. UNCHANGED <<executed, pc, local>> /\ seen' = SeenNow
    BY <1>3
    DEF Administration, GrantTablePermission, RevokeTablePermission,
        DeleteConnection
  <2>2. conns' \subseteq Conns
    BY <1>3
    DEF TypeOK, Administration, GrantTablePermission, RevokeTablePermission,
        DeleteConnection
  <2>3. perm' \in [PermIds -> {"unused", "granted", "revoked"}]
    BY <1>3
    DEF TypeOK, Administration, GrantTablePermission, RevokeTablePermission,
        DeleteConnection
  <2> QED
    BY <2>1, <2>2, <2>3, SeenNowType
    DEF TypeOK, HasCurrent, local, Busy, Result, Execution
<1>4. CASE AllOver
  BY <1>4, <1>1 DEF AllOver
<1> QED
  BY <1>1, <1>2, <1>3, <1>4 DEF Next

LEMMA TypeInvInit == Init => TypeInv
  BY EmptySchemaType DEF Init, TypeInv, TypeOK, HasCurrent, Busy

\* Every variable keeps its type, however requests and administrators interleave.
THEOREM TypeCorrect == Spec => []TypeOK
  BY TypeInvInit, TypeInvInductive, PTL DEF Spec, TypeInv
=============================================================================
