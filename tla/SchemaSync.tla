----------------------------- MODULE SchemaSync -----------------------------
(***************************************************************************)
(* Connections and the catalogue of what their customer databases hold     *)
(* (connection_service.py, schema_discovery.py).                           *)
(*                                                                         *)
(* A sync walks the customer database from the top: for each object, a     *)
(* schema, table or column, it looks up the row, inserts it or brings it   *)
(* up to date, and then lists what is inside.  All it writes is one        *)
(* transaction of the platform database; the customer database may change  *)
(* at any await, other syncs, updates and deletions come in between, and   *)
(* the platform database may fail any call.                                *)
(***************************************************************************)
EXTENDS Naturals, Sequences

CONSTANTS
    Connections,  \* requests to create a connection, and the rows they insert
    Names,        \* names of connections of the tenant
    Payload,      \* [Connections -> the name and database asked for]
    Databases,    \* customer databases
    Objects,      \* schemas, tables and columns they may hold
    Top,          \* where a walk begins; not an object
    Unnamed,      \* tables listed without a schema name: schema_id is NULL
    Targets,      \* columns a foreign key may refer to
    NoTarget,     \* of an object that is no foreign key
    Structures,   \* [Databases -> the states it may be in]
    Syncs,        \* requests to sync a schema
    Target,       \* [Syncs -> the connection asked for]
    NoSync,       \* in place of the parent row of a top object
    NoRow,        \* no row about to be written
    Absent,       \* in place of the row of a connection that is not there
    Outages,      \* may the platform database fail a call outside the try?
    MaxCrashes    \* bound: how often the process may die

\* What a customer database holds: the objects listed inside each, and the
\* target of each foreign key.
Structure ==
    [inside : [Objects \cup {Top} -> Seq(Objects)],
     points : [Objects -> Targets \cup {NoTarget}]]

ASSUME SyncAssumption ==
    /\ Payload \in [Connections -> [name : Names, database : Databases]]
    /\ Structures \in [Databases -> SUBSET Structure]
    /\ Target \in [Syncs -> Connections]
    /\ Top \notin Objects /\ Unnamed \subseteq Objects
    /\ NoTarget \notin Targets /\ NoSync \notin Syncs
    /\ Outages \in BOOLEAN
    /\ MaxCrashes \in Nat

\* An object has one place: a column of another table is another object.
ASSUME PlaceAssumption ==
    \A d, e \in Databases : \A st \in Structures[d], su \in Structures[e] :
        \A o, p \in Objects \cup {Top} :
            \A i \in DOMAIN st.inside[o], j \in DOMAIN su.inside[p] :
                st.inside[o][i] = su.inside[p][j] =>
                    o = p /\ (st = su => i = j)

Members(list) == {list[i] : i \in DOMAIN list}

Held(structure) ==
    UNION {Members(structure.inside[o]) : o \in DOMAIN structure.inside}

\* There are columns inside tables inside schemas; a database without schemas
\* lists its tables at the top.
ASSUME DepthAssumption ==
    \A d \in Databases : \A st \in Structures[d] : \A o \in Held(st) :
        \/ o \in Members(st.inside[Top])
        \/ \E p \in Members(st.inside[Top]) :
              \/ o \in Members(st.inside[p])
              \/ \E q \in Members(st.inside[p]) : o \in Members(st.inside[q])

\* A row of database_schemas, database_tables or database_columns.  It is
\* known by the object, the sync that inserted it, and the sync that inserted
\* the row of its parent (under).
Row == [conn : Connections, object : Objects, by : Syncs,
        under : Syncs \cup {NoSync}, foreign : BOOLEAN,
        target : Targets \cup {NoTarget}]

Connection == [name : Names, database : Databases,
               status : {"pending", "connected", "failed"},
               sync : {"pending", "syncing", "synced", "failed"}]

ASSUME RowAssumption == NoRow \notin Row /\ Absent \notin Connection

\* What the walk has still to visit, with what the inspector said about it.
Visit == [object : Objects, under : Syncs \cup {NoSync},
          target : Targets \cup {NoTarget}]

VARIABLES
    conn,      \* [Connections -> its row, or Absent]
    creating,  \* [Connections -> how far the request to create it is]
    catalog,   \* committed rows of the catalogue
    live,      \* [Databases -> its Structure]
    pc,        \* [Syncs -> where the sync stands]
    source,    \* [Syncs -> the database its session loaded]
    agenda,    \* [Syncs -> the visits to come]
    draft,     \* [Syncs -> the row about to be written]
    work,      \* [Syncs -> uncommitted rows of its transaction]
    kept,      \* [Syncs -> objects the database held since the walk began]
    ever,      \* [Syncs -> objects it held at some moment since then]
    crashes    \* how often the process died

walkVars == <<agenda, draft, work>>
history == <<kept, ever>>
syncVars == <<pc, source, walkVars, history>>
vars == <<conn, creating, catalog, live, syncVars, crashes>>

Labels == {"idle", "selected", "already", "marked", "looking", "writing",
           "failing", "over", "lost"}

Exists(c) == conn[c] # Absent

Init ==
    /\ conn = [c \in Connections |-> Absent]
    /\ creating = [c \in Connections |-> "idle"]
    /\ catalog = {}
    /\ live \in [Databases -> UNION {Structures[d] : d \in Databases}]
    /\ \A d \in Databases : live[d] \in Structures[d]
    /\ pc = [s \in Syncs |-> "idle"]
    /\ source \in [Syncs -> Databases]
    /\ \A s \in Syncs : source[s] = Payload[Target[s]].database
    /\ agenda = [s \in Syncs |-> <<>>]
    /\ draft = [s \in Syncs |-> NoRow]
    /\ work = [s \in Syncs |-> {}]
    /\ kept = [s \in Syncs |-> {}]
    /\ ever = [s \in Syncs |-> {}]
    /\ crashes = 0

Goto(s, label) == pc' = [pc EXCEPT ![s] = label]

SetSync(c, status) == conn' = [conn EXCEPT ![c].sync = status]

----------------------------------------------------------------------------
(* The connections of a tenant.  An update and a deletion select the row   *)
(* first; when it is gone by then nothing changes.                         *)

NameTaken(name, c) ==
    \E d \in Connections \ {c} : Exists(d) /\ conn[d].name = name

CheckName(c) ==
    /\ creating[c] = "idle"
    /\ creating' = [creating EXCEPT
                        ![c] = IF NameTaken(Payload[c].name, c)
                               THEN "over" ELSE "checked"]
    /\ UNCHANGED <<conn, catalog, live, syncVars, crashes>>

\* Seeded fault: the check before it is all that keeps names apart.
InsertConnectionOnTrust(c) ==
    /\ creating[c] = "checked"
    /\ creating' = [creating EXCEPT ![c] = "over"]
    /\ conn' = [conn EXCEPT ![c] = [name |-> Payload[c].name,
                                   database |-> Payload[c].database,
                                   status |-> "pending",
                                   sync |-> "pending"]]
    /\ UNCHANGED <<catalog, live, syncVars, crashes>>

\* uq_database_connection_name stops what the check has let through.
InsertConnection(c) ==
    /\ creating[c] = "checked"
    /\ creating' = [creating EXCEPT ![c] = "over"]
    /\ conn' = IF NameTaken(Payload[c].name, c) THEN conn
               ELSE [conn EXCEPT ![c] = [name |-> Payload[c].name,
                                         database |-> Payload[c].database,
                                         status |-> "pending",
                                         sync |-> "pending"]]
    /\ UNCHANGED <<catalog, live, syncVars, crashes>>

\* Neither status is touched, also when the connection moves to another
\* database.
UpdateConnection(c, name, database) ==
    /\ Exists(c)
    /\ ~NameTaken(name, c)
    /\ conn' = [conn EXCEPT ![c].name = name, ![c].database = database]
    /\ UNCHANGED <<creating, catalog, live, syncVars, crashes>>

\* Seeded fault: a status nobody else knows.
TestAndStore(c) ==
    /\ Exists(c)
    /\ \E success \in BOOLEAN :
           conn' = [conn EXCEPT
                       ![c].status = IF success THEN "success" ELSE "failed"]
    /\ UNCHANGED <<creating, catalog, live, syncVars, crashes>>

TestAndUpdate(c) ==
    /\ Exists(c)
    /\ \E success \in BOOLEAN :
           conn' = [conn EXCEPT
                       ![c].status = IF success THEN "connected" ELSE "failed"]
    /\ UNCHANGED <<creating, catalog, live, syncVars, crashes>>

\* The rows of the catalogue go with the connection; it waits for every
\* transaction that wrote some.
DeleteConnection(c) ==
    /\ Exists(c)
    /\ \A s \in Syncs : Target[s] = c => work[s] = {}
    /\ conn' = [conn EXCEPT ![c] = Absent]
    /\ catalog' = {r \in catalog : r.conn # c}
    /\ UNCHANGED <<creating, live, syncVars, crashes>>

----------------------------------------------------------------------------
(* The customer database.                                                  *)

Walking(s) == pc[s] \in {"looking", "writing"}

\* The sync will yet settle the status of its connection.
UnderWay(s) == Walking(s) \/ pc[s] \in {"marked", "failing"}

\* Its owner alters the customer database.
Alter(d) ==
    /\ \E structure \in Structures[d] : live' = [live EXCEPT ![d] = structure]
    /\ kept' = [s \in Syncs |-> IF Walking(s) /\ source[s] = d
                                THEN kept[s] \cap Held(live'[d]) ELSE kept[s]]
    /\ ever' = [s \in Syncs |-> IF Walking(s) /\ source[s] = d
                                THEN ever[s] \cup Held(live'[d]) ELSE ever[s]]
    /\ UNCHANGED <<conn, creating, catalog, pc, source, walkVars,
                   crashes>>

\* What the inspector lists inside an object, as visits under its row.
Listed(s, object, by) ==
    LET names == live[source[s]].inside[object]
    IN [i \in DOMAIN names |->
           [object |-> names[i], under |-> by,
            target |-> live[source[s]].points[names[i]]]]

----------------------------------------------------------------------------
(* Rows as the transaction of a sync sees them.                            *)

SameRow(r, q) == r.object = q.object /\ r.by = q.by /\ r.under = q.under

\* uq_database_schema, uq_database_table and uq_database_column.  A NULL
\* schema_id equals nothing.
SameKey(r, q) ==
    /\ r.conn = q.conn
    /\ r.object = q.object
    /\ r.under = q.under
    /\ r.object \notin Unnamed

\* READ COMMITTED: what is committed, under what the transaction wrote.
View(s) ==
    {r \in catalog : \A q \in work[s] : ~SameRow(r, q)} \cup work[s]

Matching(s, visit) ==
    {r \in View(s) : /\ r.conn = Target[s]
                     /\ r.object = visit.object
                     /\ r.under = visit.under}

\* Another transaction holds the row, or an insert of the same key.
Blocked(s) ==
    \E o \in Syncs \ {s} : \E q \in work[o] :
        SameRow(q, draft[s]) \/ SameKey(q, draft[s])

\* Insert or update: only the inserting sync finds no row of its own.
Inserts(s) == draft[s].by = s

\* Seeded fault: no unique constraint.
RefusedWithoutConnection(s) == ~Exists(Target[s])

\* The connection is gone, and with it every row below it, or a row of the
\* same key was committed since the lookup.
Refused(s) ==
    \/ ~Exists(Target[s])
    \/ Inserts(s) /\ \E q \in catalog : SameKey(q, draft[s])

----------------------------------------------------------------------------
(* POST /database-connections/{id}/sync-schema: sync_schema.               *)

\* Assigning the status that was read will send no UPDATE.
Select(s) ==
    LET c == Target[s]
    IN /\ pc[s] = "idle"
       /\ Exists(c)
       /\ source' = [source EXCEPT ![s] = conn[c].database]
       /\ Goto(s, IF conn[c].sync = "syncing" THEN "already" ELSE "selected")
       /\ UNCHANGED <<conn, creating, catalog, live, walkVars,
                      history, crashes>>

\* Committed at once.  The UPDATE of a row that is gone raises, outside the
\* try; so may the commit, before it takes effect or after.
MarkSyncing(s) ==
    LET c == Target[s]
    IN /\ \/ pc[s] = "already" /\ Goto(s, "marked") /\ UNCHANGED conn
          \/ /\ pc[s] = "selected" /\ Exists(c)
             /\ SetSync(c, "syncing") /\ Goto(s, "marked")
          \/ /\ \/ pc[s] \in {"already", "selected"} /\ Outages
                \/ pc[s] = "selected" /\ ~Exists(c)
             /\ Goto(s, "over") /\ UNCHANGED conn
          \/ /\ pc[s] = "selected" /\ Outages /\ Exists(c)
             /\ SetSync(c, "syncing") /\ Goto(s, "lost")
       /\ UNCHANGED <<creating, catalog, live, source, walkVars,
                      history, crashes>>

\* The inspector connects and lists what is at the top.
Inspect(s) ==
    /\ pc[s] = "marked"
    /\ agenda' = [agenda EXCEPT ![s] = Listed(s, Top, NoSync)]
    /\ kept' = [kept EXCEPT ![s] = Held(live[source[s]])]
    /\ ever' = [ever EXCEPT ![s] = Held(live[source[s]])]
    /\ Goto(s, "looking")
    /\ UNCHANGED <<conn, creating, catalog, live, source, draft, work,
                   crashes>>

\* The walk is over, and its history with it.
Forget(s) ==
    /\ kept' = [kept EXCEPT ![s] = {}]
    /\ ever' = [ever EXCEPT ![s] = {}]

\* An exception in the try: the transaction is rolled back.
RollBack(s) ==
    /\ Goto(s, "failing")
    /\ agenda' = [agenda EXCEPT ![s] = <<>>]
    /\ draft' = [draft EXCEPT ![s] = NoRow]
    /\ work' = [work EXCEPT ![s] = {}]
    /\ Forget(s)
    /\ UNCHANGED <<conn, creating, catalog, live, source, crashes>>

\* Seeded fault: what is inside an object is listed when it is new.
DescendIntoNew(s, row) ==
    agenda' = [agenda EXCEPT
                  ![s] = (IF row.by = s THEN Listed(s, row.object, row.by)
                          ELSE <<>>) \o Tail(agenda[s])]

\* The visit is done: what is inside the object comes next.
Descend(s, row) ==
    agenda' = [agenda EXCEPT
                  ![s] = Listed(s, row.object, row.by) \o Tail(agenda[s])]

NewRow(s, visit) ==
    [conn |-> Target[s], object |-> visit.object, by |-> s,
     under |-> visit.under, foreign |-> visit.target # NoTarget,
     target |-> visit.target]

\* Of an existing row everything is brought up to date but the reference.
Refreshed(row, visit) == [row EXCEPT !.foreign = visit.target # NoTarget]

Draft(s, row) ==
    /\ draft' = [draft EXCEPT ![s] = row]
    /\ Goto(s, "writing")
    /\ UNCHANGED <<conn, creating, catalog, live, source, agenda, work,
                   history, crashes>>

\* scalar_one_or_none: no row, one row, or an exception.
LookUp(s) ==
    LET visit == Head(agenda[s])
        rows == Matching(s, visit)
    IN /\ pc[s] = "looking"
       /\ agenda[s] # <<>>
       /\ \/ rows = {} /\ Draft(s, NewRow(s, visit))
          \/ \E row \in rows :
                /\ rows = {row}
                /\ Refreshed(row, visit) # row
                /\ Draft(s, Refreshed(row, visit))
          \/ \E row \in rows :
                /\ rows = {row}
                /\ Refreshed(row, visit) = row
                /\ Descend(s, row)
                /\ UNCHANGED <<conn, creating, catalog, live, pc,
                               source, draft, work, history, crashes>>
          \/ \E row, other \in rows : row # other /\ RollBack(s)

Write(s) ==
    /\ pc[s] = "writing"
    /\ ~Blocked(s)
    /\ \/ Refused(s) /\ RollBack(s)
       \/ /\ ~Refused(s)
          /\ work' = [work EXCEPT
                         ![s] = {r \in @ : ~SameRow(r, draft[s])} \cup {draft[s]}]
          /\ Descend(s, draft[s])
          /\ draft' = [draft EXCEPT ![s] = NoRow]
          /\ Goto(s, "looking")
          /\ UNCHANGED <<conn, creating, catalog, live, source,
                         history, crashes>>

\* The customer database cannot be reached or stops answering, or the platform
\* database breaks off a deadlock or fails.
DiscoveryFails(s) ==
    pc[s] \in {"marked", "looking", "writing"} /\ RollBack(s)

\* Seeded fault: what the sync did not write itself is dropped as stale.
CommitSyncAfresh(s) ==
    /\ pc[s] = "looking"
    /\ agenda[s] = <<>>
    /\ \/ ~Exists(Target[s]) /\ RollBack(s)
       \/ /\ Exists(Target[s])
          /\ catalog' = {r \in catalog : r.conn # Target[s]} \cup work[s]
          /\ work' = [work EXCEPT ![s] = {}]
          /\ SetSync(Target[s], "synced")
          /\ Goto(s, "over")
          /\ Forget(s)
          /\ UNCHANGED <<creating, live, source, agenda, draft, crashes>>

\* Seeded fault: the status is left to whoever reads the answer.
CommitSyncUntold(s) ==
    /\ pc[s] = "looking"
    /\ agenda[s] = <<>>
    /\ catalog' = View(s)
    /\ work' = [work EXCEPT ![s] = {}]
    /\ Goto(s, "over")
    /\ Forget(s)
    /\ UNCHANGED <<conn, creating, live, source, agenda, draft, crashes>>

\* The walk is over: the rows and the status, in one transaction.
CommitSync(s) ==
    /\ pc[s] = "looking"
    /\ agenda[s] = <<>>
    /\ \/ ~Exists(Target[s]) /\ RollBack(s)
       \/ /\ Exists(Target[s])
          /\ catalog' = View(s)
          /\ work' = [work EXCEPT ![s] = {}]
          /\ SetSync(Target[s], "synced")
          /\ Goto(s, "over")
          /\ Forget(s)
          /\ UNCHANGED <<creating, live, source, agenda, draft,
                         crashes>>

\* Seeded fault: the failure is recorded in the transaction that was broken.
RecordNothing(s) ==
    /\ pc[s] = "failing"
    /\ Goto(s, "over")
    /\ UNCHANGED <<conn, creating, catalog, live, source, walkVars, history,
                   crashes>>

\* The exception handler; without the row the UPDATE raises once more.
RecordFailure(s) ==
    /\ pc[s] = "failing"
    /\ IF Exists(Target[s]) THEN SetSync(Target[s], "failed")
       ELSE UNCHANGED conn
    /\ Goto(s, "over")
    /\ UNCHANGED <<creating, catalog, live, source, walkVars, history,
                   crashes>>

\* The handler's own commit raises, and the connection is left as it stands.
HandlerFails(s) ==
    /\ Outages
    /\ pc[s] = "failing"
    /\ Goto(s, "lost")
    /\ UNCHANGED <<conn, creating, catalog, live, source, walkVars, history,
                   crashes>>

----------------------------------------------------------------------------
\* The process dies and starts again: open transactions are rolled back and
\* nothing looks for connections that were being synced.
Crash ==
    /\ crashes < MaxCrashes
    /\ crashes' = crashes + 1
    /\ creating' = [c \in Connections |->
                       IF creating[c] = "idle" THEN "idle" ELSE "over"]
    /\ pc' = [s \in Syncs |-> IF UnderWay(s) THEN "lost"
                               ELSE IF pc[s] \in {"idle", "lost"} THEN pc[s]
                               ELSE "over"]
    /\ agenda' = [s \in Syncs |-> <<>>]
    /\ draft' = [s \in Syncs |-> NoRow]
    /\ work' = [s \in Syncs |-> {}]
    /\ kept' = [s \in Syncs |-> {}]
    /\ ever' = [s \in Syncs |-> {}]
    /\ UNCHANGED <<conn, catalog, live, source>>

\* What a sync does by itself once it has begun.
Sync(s) ==
    \/ MarkSyncing(s)
    \/ Inspect(s)
    \/ LookUp(s)
    \/ Write(s)
    \/ DiscoveryFails(s)
    \/ CommitSync(s)
    \/ RecordFailure(s)
    \/ HandlerFails(s)

\* Nothing is under way: the server waits for the next request.
Quiet ==
    /\ \A s \in Syncs : pc[s] \in {"idle", "over", "lost"}
    /\ UNCHANGED vars

Next ==
    \/ \E c \in Connections :
          \/ CheckName(c)
          \/ InsertConnection(c)
          \/ \E name \in Names, database \in Databases :
                UpdateConnection(c, name, database)
          \/ TestAndUpdate(c)
          \/ DeleteConnection(c)
    \/ \E d \in Databases : Alter(d)
    \/ \E s \in Syncs : Select(s) \/ Sync(s)
    \/ Crash
    \/ Quiet

Spec == Init /\ [][Next]_vars

\* The event loop runs every coroutine that can go on, and the awaited calls
\* return or raise.
FairSpec == Spec /\ \A s \in Syncs : WF_vars(Sync(s))

----------------------------------------------------------------------------
(* Properties.                                                             *)

TypeOK ==
    /\ conn \in [Connections -> Connection \cup {Absent}]
    /\ creating \in [Connections -> {"idle", "checked", "over"}]
    /\ catalog \subseteq Row
    /\ live \in [Databases -> Structure]
    /\ pc \in [Syncs -> Labels]
    /\ source \in [Syncs -> Databases]
    /\ agenda \in [Syncs -> Seq(Visit)]
    /\ draft \in [Syncs -> Row \cup {NoRow}]
    /\ work \in [Syncs -> SUBSET Row]
    /\ kept \in [Syncs -> SUBSET Objects]
    /\ ever \in [Syncs -> SUBSET Objects]
    /\ crashes \in 0 .. MaxCrashes

\* A name leads to one connection, whatever requests to create and to rename
\* connections overlap.
NamesAreUnique ==
    \A c, d \in Connections :
        c # d /\ Exists(c) /\ Exists(d) => conn[c].name # conn[d].name

Contains(outer, object) ==
    \E d \in Databases : \E structure \in Structures[d] :
        object \in Members(structure.inside[outer])

\* The catalogue of a connection is a tree, however syncs overlap and however
\* they end: each row hangs below the row of an object that may hold it, no
\* two rows stand for one object, unless it has no schema, and nothing outlives
\* the connection.
CatalogueIsATree ==
    \A r \in catalog :
        /\ Exists(r.conn)
        /\ IF r.under = NoSync THEN Contains(Top, r.object)
           ELSE \E q \in catalog : /\ q.conn = r.conn
                                   /\ q.by = r.under
                                   /\ Contains(q.object, r.object)
        /\ \A q \in catalog : SameKey(q, r) => q = r

\* A sync that ends as synced leaves in the catalogue whatever its database
\* held all the while, and adds nothing that was not there at some moment,
\* whatever the owner altered and other syncs committed meanwhile.
Recorded(c) == {r.object : r \in {q \in catalog : q.conn = c}}

SyncedIsComplete ==
    [][\A s \in Syncs :
          pc[s] = "looking" /\ pc'[s] = "over" =>
              LET c == Target[s]
              IN /\ kept[s] \subseteq Recorded(c)'
                 /\ Recorded(c)' \ Recorded(c) \subseteq ever[s]]_vars

\* Grants and column grants refer to rows of the catalogue: none is replaced or
\* removed, by a sync or its failure, while the connection is there.
RowsStay ==
    [][\A r \in catalog :
          Exists(r.conn)' => \E q \in catalog' : SameRow(q, r)]_vars

\* A connection that shows syncing is being synced, or a sync of it was lost
\* with the process or to the database; also when several syncs overlap and
\* settle its status in any order.
SyncingHasASync ==
    \A c \in Connections :
        Exists(c) /\ conn[c].sync = "syncing" =>
            \E s \in Syncs : Target[s] = c /\ (UnderWay(s) \/ pc[s] = "lost")

\* A connection does not show syncing for ever, unless a sync of it was lost
\* with the process or to the database.
StatusSettles ==
    \A c \in Connections :
        Exists(c) /\ conn[c].sync = "syncing" ~>
            \/ ~Exists(c)
            \/ conn[c].sync # "syncing"
            \/ \E s \in Syncs : Target[s] = c /\ pc[s] = "lost"

\* The docstring of discover_and_cache_schema: it upserts the metadata it
\* reflects.  Then a column recorded as a foreign key has its reference.
ForeignKeysHaveTargets ==
    \A r \in catalog : r.foreign = (r.target # NoTarget)
=============================================================================
