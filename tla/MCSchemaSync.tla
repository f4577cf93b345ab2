---------------------------- MODULE MCSchemaSync ----------------------------
(***************************************************************************)
(* Two requests for a connection of one name.  One database lists a schema *)
(* with a table whose column may become a foreign key, or which may be     *)
(* dropped; the other lists its only table without a schema.               *)
(***************************************************************************)
EXTENDS SchemaSync

CONSTANTS shop, shop2, shopName, otherName, crm, legacy,
          public, orders, customer, notes, customersId

MCPayload ==
    [c \in Connections |->
        [name |-> shopName, database |-> IF c = shop THEN crm ELSE legacy]]

MCTarget == [s \in Syncs |-> shop]

\* The lists that are not empty, and the columns that are foreign keys.
Lists(lists, keys) ==
    [inside |-> [o \in Objects \cup {Top} |->
                    IF \E l \in lists : l[1] = o
                    THEN (CHOOSE l \in lists : l[1] = o)[2] ELSE <<>>],
     points |-> [o \in Objects |-> IF o \in keys THEN customersId ELSE NoTarget]]

MCStructures ==
    LET withTable == {<<Top, <<public>>>>, <<public, <<orders>>>>,
                      <<orders, <<customer>>>>}
    IN [d \in Databases |->
           IF d = crm THEN {Lists(withTable, {}),
                            Lists(withTable, {customer}),
                            Lists({<<Top, <<public>>>>}, {})}
           ELSE {Lists({<<Top, <<notes>>>>}, {})}]
=============================================================================
