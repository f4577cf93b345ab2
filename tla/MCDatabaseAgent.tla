-------------------------- MODULE MCDatabaseAgent --------------------------
(***************************************************************************)
(* One request of an administrator, of an analyst or of a stranger; two    *)
(* connections of the first two's tenant, one without tables, and one of   *)
(* the stranger's.  Two tables have the same name and conflicting grants:  *)
(* one reads a single column, the other writes.  A third grant was made by *)
(* the stranger's tenant on a table that is not its own.                   *)
(***************************************************************************)
EXTENDS DatabaseAgent

MCUserOf ==
    [u \in Users |->
        [tenant |-> IF u = "stranger" THEN "globex" ELSE "acme",
         is_tenant_admin |-> u # "analyst",
         role_ids |-> IF u = "analyst" THEN Roles ELSE {}]]

MCConnTenant == [c \in Conns |-> IF c = "foreign" THEN "globex" ELSE "acme"]

MCTableOf ==
    [t \in Tables |->
        [connection |-> IF t = "secrets" THEN "foreign" ELSE "sales",
         table_name |-> IF t = "old_orders" THEN "orders" ELSE t,
         is_enabled |-> TRUE,
         columns |-> IF t = "customers" THEN {"id", "salary"}
                                        ELSE {"id", "amount"},
         sensitive |-> IF t = "customers" THEN {"salary"} ELSE {}]]

MCPermOf ==
    [p \in PermIds |->
        [tenant |-> IF p = "p_elsewhere" THEN "globex" ELSE "acme",
         subject |-> IF p = "p_narrow" THEN "analysts" ELSE "analyst",
         connection |-> "sales",
         table |-> CASE p = "p_narrow" -> "orders"
                     [] p = "p_write" -> "old_orders"
                     [] OTHER -> "customers",
         can_read |-> TRUE,
         can_write |-> p \in {"p_write", "p_elsewhere"},
         columns |-> IF p = "p_narrow" THEN {"id"} ELSE {}]]

MCConnectionLists == {<<"spare", "sales">>, <<"sales", "foreign">>}

Query(kind, names, cols) ==
    [kind |-> kind, commented |-> FALSE, keyword |-> FALSE, system |-> FALSE,
     limited |-> FALSE, tables |-> names, columns |-> cols]

MCStatements ==
    {Query("select", {"customers"}, {"salary"}),
     Query("union", {"customers", "orders"}, {"id"}),
     Query("dml", {"orders"}, {"amount"}),
     Query("select", {"secrets"}, {"id"})}

MCDialect == [c \in Conns |-> "postgresql"]
=============================================================================
