-------------------------- MODULE SchemaSyncProofs --------------------------
(***************************************************************************)
(* Proofs about connections and their catalogues, for any customer         *)
(* databases, any number of connections, syncs and crashes.                *)
(***************************************************************************)
EXTENDS SchemaSync, TLAPS

DraftWhenWriting ==
    \A s \in Syncs : pc[s] = "writing" => /\ draft[s] \in Row
                                          /\ agenda[s] # <<>>

TypeInv == TypeOK /\ DraftWhenWriting

\* Every step is one of these.
LEMMA Actions ==
    ASSUME [Next]_vars
    PROVE  \/ UNCHANGED vars
           \/ \E c \in Connections :
                 \/ CheckName(c) \/ InsertConnection(c)
                 \/ \E name \in Names, database \in Databases :
                       UpdateConnection(c, name, database)
                 \/ TestAndUpdate(c) \/ DeleteConnection(c)
           \/ \E d \in Databases : Alter(d)
           \/ \E s \in Syncs : \/ Select(s) \/ MarkSyncing(s) \/ Inspect(s)
                               \/ LookUp(s) \/ Write(s) \/ DiscoveryFails(s)
                               \/ CommitSync(s) \/ RecordFailure(s)
                               \/ HandlerFails(s)
           \/ Crash
  BY DEF Next, Sync, Quiet

----------------------------------------------------------------------------
(* Type correctness.                                                       *)

\* What an inspector lists becomes visits.
LEMMA ListedVisits ==
    ASSUME TypeOK, NEW s \in Syncs, NEW o \in Objects \cup {Top},
           NEW b \in Syncs \cup {NoSync}
    PROVE  Listed(s, o, b) \in Seq(Visit)
<1> DEFINE st == live[source[s]]
           names == st.inside[o]
<1>1. st \in Structure
  BY DEF TypeOK
<1>2. names \in Seq(Objects) /\ st.points \in [Objects -> Targets \cup {NoTarget}]
  BY <1>1 DEF Structure
<1>3. PICK n \in Nat : names \in [1 .. n -> Objects]
  BY <1>2
<1>4. Listed(s, o, b) \in [1 .. n -> Visit]
  BY <1>2, <1>3 DEF Listed, Visit
<1> QED
  BY <1>3, <1>4

LEMMA HeldObjects ==
    ASSUME NEW st \in Structure
    PROVE  Held(st) \subseteq Objects
<1>1. ASSUME NEW o \in Objects \cup {Top}
      PROVE  Members(st.inside[o]) \subseteq Objects
  <2>1. st.inside[o] \in Seq(Objects)
    BY DEF Structure
  <2> QED
    BY <2>1 DEF Members
<1> QED
  BY <1>1 DEF Held, Structure

\* A visit done: its object's contents come before the rest.
LEMMA DescendVisits ==
    ASSUME TypeOK, NEW s \in Syncs, agenda[s] # <<>>, NEW row \in Row,
           Descend(s, row)
    PROVE  agenda' \in [Syncs -> Seq(Visit)]
<1>1. Listed(s, row.object, row.by) \in Seq(Visit)
  BY ListedVisits DEF Row
<1>2. Tail(agenda[s]) \in Seq(Visit)
  BY DEF TypeOK
<1>3. Listed(s, row.object, row.by) \o Tail(agenda[s]) \in Seq(Visit)
  BY <1>1, <1>2
<1> QED
  BY <1>3 DEF Descend, TypeOK

LEMMA RollBackTypes ==
    ASSUME TypeInv, NEW s \in Syncs, RollBack(s)
    PROVE  TypeInv'
<1>1. <<>> \in Seq(Visit)
  OBVIOUS
<1> QED
  BY <1>1
  DEF TypeInv, TypeOK, DraftWhenWriting, RollBack, Forget, Goto, Labels

LEMMA RowsWithout ==
    ASSUME NEW row \in Connection
    PROVE  /\ \A status \in {"pending", "syncing", "synced", "failed"} :
                 [row EXCEPT !.sync = status] \in Connection
           /\ \A status \in {"pending", "connected", "failed"} :
                 [row EXCEPT !.status = status] \in Connection
           /\ \A name \in Names, database \in Databases :
                 [row EXCEPT !.name = name, !.database = database]
                     \in Connection
  BY DEF Connection

\* A status is set in a row that is there, and nothing else changes.
LEMMA SetSyncTypes ==
    ASSUME conn \in [Connections -> Connection \cup {Absent}],
           NEW c \in Connections, Exists(c),
           NEW status \in {"pending", "syncing", "synced", "failed"},
           SetSync(c, status)
    PROVE  /\ conn' \in [Connections -> Connection \cup {Absent}]
           /\ \A d \in Connections : Exists(d)' = Exists(d)
           /\ conn'[c].sync = status
           /\ \A d \in Connections \ {c} : conn'[d] = conn[d]
           /\ \A d \in Connections :
                 Exists(d) => /\ conn'[d].name = conn[d].name
                              /\ conn'[d].database = conn[d].database
<1> DEFINE row == conn[c]
           new == [row EXCEPT !.sync = status]
<1>1. row \in Connection
  BY DEF Exists
<1>2. new \in Connection /\ new # Absent
  BY <1>1, RowsWithout, RowAssumption
<1>3. new.sync = status /\ new.name = row.name /\ new.database = row.database
  BY <1>1 DEF Connection
<1>4. conn' = [conn EXCEPT ![c] = new]
  BY DEF SetSync
<1> HIDE DEF new
<1> QED
  BY <1>1, <1>2, <1>3, <1>4 DEF Exists

LEMMA TypeInvConnections ==
    ASSUME TypeInv, NEW c \in Connections,
           \/ CheckName(c) \/ InsertConnection(c)
           \/ \E name \in Names, database \in Databases :
                 UpdateConnection(c, name, database)
           \/ TestAndUpdate(c) \/ DeleteConnection(c)
    PROVE  TypeInv'
<1> USE DEF TypeInv, TypeOK, DraftWhenWriting, syncVars, walkVars, history
<1>1. CASE CheckName(c)
  BY <1>1 DEF CheckName
<1>2. CASE InsertConnection(c)
  <2>1. [name |-> Payload[c].name, database |-> Payload[c].database,
         status |-> "pending", sync |-> "pending"] \in Connection
    BY SyncAssumption DEF SyncAssumption, Connection
  <2> QED
    BY <1>2, <2>1 DEF InsertConnection
<1>3. ASSUME NEW name \in Names, NEW database \in Databases,
             UpdateConnection(c, name, database)
      PROVE  TypeInv'
  <2>1. conn[c] \in Connection
    BY <1>3 DEF UpdateConnection, Exists
  <2>2. [conn[c] EXCEPT !.name = name, !.database = database] \in Connection
    BY <2>1, RowsWithout
  <2> QED
    BY <1>3, <2>2, Zenon DEF UpdateConnection
<1>4. CASE TestAndUpdate(c)
  <2>1. conn[c] \in Connection
    BY <1>4 DEF TestAndUpdate, Exists
  <2>2. \A st \in {"pending", "connected", "failed"} :
            [conn[c] EXCEPT !.status = st] \in Connection
    BY <2>1, RowsWithout
  <2>3. PICK success \in BOOLEAN :
            conn' = [conn EXCEPT ![c].status =
                        IF success THEN "connected" ELSE "failed"]
    BY <1>4 DEF TestAndUpdate
  <2> DEFINE new == [conn[c] EXCEPT !.status =
                        IF success THEN "connected" ELSE "failed"]
  <2>4. new \in Connection
    BY <2>2
  <2>5. conn' = [conn EXCEPT ![c] = new]
    BY <2>3
  <2> HIDE DEF new
  <2> QED
    BY <1>4, <2>4, <2>5 DEF TestAndUpdate
<1>5. CASE DeleteConnection(c)
  BY <1>5 DEF DeleteConnection
<1> QED
  BY <1>1, <1>2, <1>3, <1>4, <1>5

LEMMA TypeInvAlter ==
    ASSUME TypeInv, NEW d \in Databases, Alter(d)
    PROVE  TypeInv'
<1>1. PICK st \in Structures[d] : live' = [live EXCEPT ![d] = st]
  BY DEF Alter
<1>2. st \in Structure
  BY SyncAssumption DEF SyncAssumption
<1>3. live' \in [Databases -> Structure] /\ live'[d] \in Structure
  BY <1>1, <1>2 DEF TypeInv, TypeOK
<1>4. Held(live'[d]) \subseteq Objects
  BY <1>3, HeldObjects
<1>5. kept' \in [Syncs -> SUBSET Objects] /\ ever' \in [Syncs -> SUBSET Objects]
  BY <1>4 DEF Alter, TypeInv, TypeOK
<1> QED
  BY <1>3, <1>5 DEF Alter, TypeInv, TypeOK, DraftWhenWriting, walkVars

LEMMA TypeInvSync ==
    ASSUME TypeInv, NEW s \in Syncs,
           \/ Select(s) \/ MarkSyncing(s) \/ Inspect(s)
           \/ LookUp(s) \/ Write(s) \/ DiscoveryFails(s)
           \/ CommitSync(s) \/ RecordFailure(s) \/ HandlerFails(s)
    PROVE  TypeInv'
<1> USE DEF TypeInv
<1>0. Target[s] \in Connections
  BY SyncAssumption DEF SyncAssumption
<1>1. CASE Select(s)
  BY <1>0, <1>1
  DEF Select, Goto, Exists, TypeOK, DraftWhenWriting, Labels, Connection,
      walkVars, history
<1>2. CASE MarkSyncing(s)
  <2>1. conn' \in [Connections -> Connection \cup {Absent}]
    BY <1>0, <1>2, SetSyncTypes DEF MarkSyncing, TypeOK
  <2> QED
    BY <1>2, <2>1
    DEF MarkSyncing, Goto, TypeOK, DraftWhenWriting, Labels, walkVars, history
<1>3. CASE Inspect(s)
  <2>1. Listed(s, Top, NoSync) \in Seq(Visit)
    BY ListedVisits
  <2>2. Held(live[source[s]]) \subseteq Objects
    BY HeldObjects DEF TypeOK
  <2> QED
    BY <1>3, <2>1, <2>2 DEF Inspect, Goto, TypeOK, DraftWhenWriting, Labels
<1>4. CASE LookUp(s)
  <2> DEFINE visit == Head(agenda[s])
             rows == Matching(s, visit)
  <2>1. agenda[s] # <<>> /\ visit \in Visit
    BY <1>4 DEF LookUp, TypeOK
  <2>2. rows \subseteq Row
    BY DEF Matching, View, TypeOK
  <2>3. ASSUME NEW row \in Row, Draft(s, row) PROVE TypeInv'
    BY <2>1, <2>3
    DEF Draft, Goto, TypeOK, DraftWhenWriting, Labels, history
  <2>4. NewRow(s, visit) \in Row
    BY <1>0, <2>1 DEF NewRow, Row, Visit
  <2>5. \A row \in rows : Refreshed(row, visit) \in Row
    BY <2>2 DEF Refreshed, Row
  <2>6. ASSUME NEW row \in rows, Descend(s, row),
               UNCHANGED <<conn, creating, catalog, live, pc, source, draft,
                           work, history, crashes>>
        PROVE  TypeInv'
    <3>1. agenda' \in [Syncs -> Seq(Visit)]
      BY <2>1, <2>2, <2>6, DescendVisits
    <3>2. pc[s] = "looking"
      BY <1>4 DEF LookUp
    <3>3. \A o \in Syncs \ {s} : agenda'[o] = agenda[o]
      BY <2>6 DEF Descend, TypeOK
    <3> QED
      BY <2>6, <3>1, <3>2, <3>3 DEF TypeOK, DraftWhenWriting, history
  <2> QED
    BY <1>4, <2>2, <2>3, <2>4, <2>5, <2>6, RollBackTypes DEF LookUp
<1>5. CASE Write(s)
  <2>1. agenda[s] # <<>> /\ draft[s] \in Row
    BY <1>5 DEF Write, DraftWhenWriting
  <2>2. CASE Refused(s) /\ RollBack(s)
    BY <2>2, RollBackTypes
  <2>3. CASE ~Refused(s)
    <3>1. agenda' \in [Syncs -> Seq(Visit)]
      BY <1>5, <2>1, <2>3, DescendVisits DEF Write
    <3>2. \A o \in Syncs \ {s} : agenda'[o] = agenda[o]
      BY <1>5, <2>3 DEF Write, Descend, TypeOK
    <3>3. /\ work' = [work EXCEPT
                         ![s] = {r \in @ : ~SameRow(r, draft[s])} \cup {draft[s]}]
          /\ draft' = [draft EXCEPT ![s] = NoRow]
          /\ pc' = [pc EXCEPT ![s] = "looking"]
          /\ UNCHANGED <<conn, creating, catalog, live, source, kept, ever,
                         crashes>>
      BY <1>5, <2>3, Zenon DEF Write, Goto, history
    <3>4. work' \in [Syncs -> SUBSET Row]
      BY <2>1, <3>3 DEF TypeOK
    <3> HIDE DEF TypeInv
    <3>5. TypeOK'
      BY <3>1, <3>3, <3>4 DEF TypeInv, TypeOK, Labels
    <3>6. DraftWhenWriting'
      BY <3>2, <3>3 DEF TypeInv, TypeOK, DraftWhenWriting
    <3> QED
      BY <3>5, <3>6 DEF TypeInv
  <2> QED
    BY <1>5, <2>2, <2>3 DEF Write
<1>6. CASE DiscoveryFails(s)
  BY <1>6, RollBackTypes DEF DiscoveryFails
<1>7. CASE CommitSync(s)
  <2>1. CASE RollBack(s)
    BY <2>1, RollBackTypes
  <2>2. CASE Exists(Target[s])
    <3>1. View(s) \subseteq Row
      BY DEF View, TypeOK
    <3>2. RollBack(s) \/ SetSync(Target[s], "synced")
      BY <1>7 DEF CommitSync
    <3>3. RollBack(s) \/ conn' \in [Connections -> Connection \cup {Absent}]
      BY <1>0, <2>2, <3>2, SetSyncTypes DEF TypeOK
    <3> QED
      BY <1>7, <2>2, <3>1, <3>3, RollBackTypes
      DEF CommitSync, Forget, Goto, TypeOK, DraftWhenWriting, Labels
  <2> QED
    BY <1>7, <2>1, <2>2 DEF CommitSync
<1>8. CASE RecordFailure(s)
  <2>1. conn' \in [Connections -> Connection \cup {Absent}]
    BY <1>0, <1>8, SetSyncTypes DEF RecordFailure, TypeOK
  <2> QED
    BY <1>8, <2>1
    DEF RecordFailure, Goto, TypeOK, DraftWhenWriting, Labels, walkVars,
        history
<1>9. CASE HandlerFails(s)
  BY <1>9
  DEF HandlerFails, Goto, TypeOK, DraftWhenWriting, Labels, walkVars, history
<1> QED
  BY <1>1, <1>2, <1>3, <1>4, <1>5, <1>6, <1>7, <1>8, <1>9

LEMMA TypeInvInductive == TypeInv /\ [Next]_vars => TypeInv'
<1> SUFFICES ASSUME TypeInv, [Next]_vars PROVE TypeInv'
  OBVIOUS
<1>1. CASE UNCHANGED vars
  BY <1>1
  DEF vars, syncVars, walkVars, history, TypeInv, TypeOK, DraftWhenWriting
<1>2. CASE Crash
  <2>1. <<>> \in Seq(Visit)
    OBVIOUS
  <2> QED
    BY <1>2, <2>1, SyncAssumption
    DEF Crash, UnderWay, Walking, TypeInv, TypeOK, DraftWhenWriting, Labels,
        SyncAssumption
<1> QED
  BY <1>1, <1>2, Actions, TypeInvConnections, TypeInvAlter, TypeInvSync

LEMMA TypeInvInit == Init => TypeInv
<1> SUFFICES ASSUME Init PROVE TypeInv
  OBVIOUS
<1>1. <<>> \in Seq(Visit)
  OBVIOUS
<1>2. live \in [Databases -> Structure]
  BY SyncAssumption DEF Init, SyncAssumption
<1> QED
  BY <1>1, <1>2, SyncAssumption
  DEF Init, TypeInv, TypeOK, DraftWhenWriting, Labels, SyncAssumption

\* Connections, catalogue and syncs keep their types, whatever the customer
\* databases list and however requests overlap.
THEOREM TypeCorrect == Spec => []TypeOK
  BY TypeInvInit, TypeInvInductive, PTL DEF Spec, TypeInv
----------------------------------------------------------------------------
(* Names, and the status of a sync.                                        *)

\* A sync only ever sets the status of its own connection.
LEMMA SyncSetsStatus ==
    ASSUME TypeInv, NEW s \in Syncs,
           \/ Select(s) \/ MarkSyncing(s) \/ Inspect(s)
           \/ LookUp(s) \/ Write(s) \/ DiscoveryFails(s)
           \/ CommitSync(s) \/ RecordFailure(s) \/ HandlerFails(s)
    PROVE  \/ UNCHANGED conn
           \/ /\ Exists(Target[s])
              /\ \/ MarkSyncing(s) /\ SetSync(Target[s], "syncing")
                 \/ CommitSync(s) /\ SetSync(Target[s], "synced")
                 \/ RecordFailure(s) /\ SetSync(Target[s], "failed")
  BY DEF Select, MarkSyncing, Inspect, LookUp, Draft, Write, DiscoveryFails,
         RollBack, CommitSync, RecordFailure, HandlerFails

LEMMA NamesInductive ==
    TypeInv /\ NamesAreUnique /\ [Next]_vars => NamesAreUnique'
<1> SUFFICES ASSUME TypeInv, NamesAreUnique, [Next]_vars
             PROVE  NamesAreUnique'
  OBVIOUS
<1>0. conn \in [Connections -> Connection \cup {Absent}]
  BY DEF TypeInv, TypeOK
<1>1. CASE UNCHANGED conn
  BY <1>1 DEF NamesAreUnique, Exists
<1>2. ASSUME NEW c \in Connections, InsertConnection(c)
      PROVE  NamesAreUnique'
  <2> DEFINE row == [name |-> Payload[c].name,
                     database |-> Payload[c].database,
                     status |-> "pending", sync |-> "pending"]
  <2>1. CASE ~NameTaken(Payload[c].name, c)
    <3>1. conn' = [conn EXCEPT ![c] = row] /\ row.name = Payload[c].name
      BY <1>2, <2>1 DEF InsertConnection
    <3> HIDE DEF row
    <3> QED
      BY <1>0, <2>1, <3>1 DEF NameTaken, NamesAreUnique, Exists
  <2> QED
    BY <1>1, <1>2, <2>1 DEF InsertConnection
<1>3. ASSUME NEW c \in Connections, NEW name \in Names,
             NEW database \in Databases, UpdateConnection(c, name, database)
      PROVE  NamesAreUnique'
  <2> DEFINE row == [conn[c] EXCEPT !.name = name, !.database = database]
  <2>1. conn[c] \in Connection
    BY <1>0, <1>3 DEF UpdateConnection, Exists
  <2>2. row.name = name
    BY <2>1 DEF Connection
  <2>3. conn' = [conn EXCEPT ![c] = row]
    BY <1>3, Zenon DEF UpdateConnection
  <2>4. ~NameTaken(name, c)
    BY <1>3 DEF UpdateConnection
  <2> HIDE DEF row
  <2> QED
    BY <1>0, <2>2, <2>3, <2>4 DEF NameTaken, NamesAreUnique, Exists
<1>4. ASSUME NEW c \in Connections, TestAndUpdate(c)
      PROVE  NamesAreUnique'
  <2>1. PICK success \in BOOLEAN :
            conn' = [conn EXCEPT ![c].status =
                        IF success THEN "connected" ELSE "failed"]
    BY <1>4 DEF TestAndUpdate
  <2> DEFINE verdict == IF success THEN "connected" ELSE "failed"
             row == [conn[c] EXCEPT !.status = verdict]
  <2>2. conn[c] \in Connection
    BY <1>0, <1>4 DEF TestAndUpdate, Exists
  <2>3. conn' = [conn EXCEPT ![c] = row]
    BY <2>1
  <2> HIDE DEF verdict
  <2>4. row.name = conn[c].name
    BY <2>2 DEF Connection
  <2>5. Exists(c)
    BY <1>4 DEF TestAndUpdate
  <2> HIDE DEF row
  <2> QED
    BY <1>0, <2>3, <2>4, <2>5 DEF NamesAreUnique, Exists
<1>5. ASSUME NEW c \in Connections, DeleteConnection(c)
      PROVE  NamesAreUnique'
  BY <1>0, <1>5 DEF DeleteConnection, NamesAreUnique, Exists
<1>6. ASSUME NEW s \in Syncs,
             NEW status \in {"pending", "syncing", "synced", "failed"},
             Exists(Target[s]), SetSync(Target[s], status)
      PROVE  NamesAreUnique'
  <2>1. Target[s] \in Connections
    BY SyncAssumption DEF SyncAssumption
  <2>2. \A d \in Connections :
            /\ Exists(d)' = Exists(d)
            /\ Exists(d) => conn'[d].name = conn[d].name
    BY <1>0, <1>6, <2>1, SetSyncTypes
  <2> QED
    BY <2>2 DEF NamesAreUnique
<1>7. ASSUME NEW s \in Syncs,
             \/ Select(s) \/ MarkSyncing(s) \/ Inspect(s)
             \/ LookUp(s) \/ Write(s) \/ DiscoveryFails(s)
             \/ CommitSync(s) \/ RecordFailure(s) \/ HandlerFails(s)
      PROVE  NamesAreUnique'
  BY <1>1, <1>6, <1>7, SyncSetsStatus
<1> QED
  BY <1>1, <1>2, <1>3, <1>4, <1>5, <1>7, Actions
  DEF vars, CheckName, Alter, Crash

\* Names stay unique for any number of requests to create and rename
\* connections: the check before an insert does not suffice, the constraint does.
THEOREM NamesUnique == Spec => []NamesAreUnique
<1>1. Init => NamesAreUnique
  BY DEF Init, NamesAreUnique, Exists
<1> QED
  BY <1>1, TypeInvInit, TypeInvInductive, NamesInductive, PTL DEF Spec

\* A sync under way, or lost on it, stays so until it settles the status.
Pending(s) == UnderWay(s) \/ pc[s] = "lost"

LEMMA SyncMoves ==
    ASSUME TypeInv, NEW s \in Syncs,
           \/ Select(s) \/ MarkSyncing(s) \/ Inspect(s)
           \/ LookUp(s) \/ Write(s) \/ DiscoveryFails(s)
           \/ CommitSync(s) \/ RecordFailure(s) \/ HandlerFails(s)
    PROVE  /\ \A o \in Syncs \ {s} : pc'[o] = pc[o]
           /\ Pending(s) =>
                 \/ Pending(s)'
                 \/ RecordFailure(s)
                 \/ CommitSync(s) /\ SetSync(Target[s], "synced")
                                  /\ Exists(Target[s])
  BY DEF Select, MarkSyncing, Inspect, LookUp, Draft, Write, DiscoveryFails,
         RollBack, CommitSync, RecordFailure, HandlerFails, Goto, Pending,
         UnderWay, Walking, TypeInv, TypeOK

LEMMA SyncingInductive ==
    TypeInv /\ SyncingHasASync /\ [Next]_vars => SyncingHasASync'
<1> SUFFICES ASSUME TypeInv, SyncingHasASync, [Next]_vars
             PROVE  SyncingHasASync'
  OBVIOUS
<1> DEFINE Under(c) == \E s \in Syncs : Target[s] = c /\ Pending(s)
<1>a. SyncingHasASync <=>
           \A c \in Connections :
               Exists(c) /\ conn[c].sync = "syncing" => Under(c)
  BY DEF SyncingHasASync, Pending
<1>0. conn \in [Connections -> Connection \cup {Absent}]
  BY DEF TypeInv, TypeOK
<1>1. ASSUME pc' = pc,
             \A c \in Connections :
                 Exists(c)' /\ conn'[c].sync = "syncing" =>
                     Exists(c) /\ conn[c].sync = "syncing"
      PROVE  SyncingHasASync'
  BY <1>1 DEF SyncingHasASync, UnderWay, Walking
<1>2. ASSUME NEW c \in Connections, InsertConnection(c)
      PROVE  SyncingHasASync'
  <2> DEFINE row == [name |-> Payload[c].name,
                     database |-> Payload[c].database,
                     status |-> "pending", sync |-> "pending"]
  <2>1. conn' = conn \/ conn' = [conn EXCEPT ![c] = row]
    BY <1>2 DEF InsertConnection
  <2>2. row.sync # "syncing"
    OBVIOUS
  <2>3. pc' = pc
    BY <1>2 DEF InsertConnection, syncVars
  <2> HIDE DEF row
  <2> QED
    BY <1>0, <1>1, <2>1, <2>2, <2>3 DEF Exists
<1>3. ASSUME NEW c \in Connections, NEW name \in Names,
             NEW database \in Databases, UpdateConnection(c, name, database)
      PROVE  SyncingHasASync'
  <2> DEFINE row == [conn[c] EXCEPT !.name = name, !.database = database]
  <2>1. Exists(c) /\ conn[c] \in Connection
    BY <1>0, <1>3 DEF UpdateConnection, Exists
  <2>2. row.sync = conn[c].sync
    BY <2>1 DEF Connection
  <2>3. conn' = [conn EXCEPT ![c] = row]
    BY <1>3, Zenon DEF UpdateConnection
  <2>4. pc' = pc
    BY <1>3 DEF UpdateConnection, syncVars
  <2> HIDE DEF row
  <2> QED
    BY <1>0, <1>1, <2>1, <2>2, <2>3, <2>4 DEF Exists
<1>4. ASSUME NEW c \in Connections, TestAndUpdate(c)
      PROVE  SyncingHasASync'
  <2>1. PICK success \in BOOLEAN :
            conn' = [conn EXCEPT ![c].status =
                        IF success THEN "connected" ELSE "failed"]
    BY <1>4 DEF TestAndUpdate
  <2> DEFINE verdict == IF success THEN "connected" ELSE "failed"
             row == [conn[c] EXCEPT !.status = verdict]
  <2>2. Exists(c) /\ conn[c] \in Connection
    BY <1>0, <1>4 DEF TestAndUpdate, Exists
  <2>3. conn' = [conn EXCEPT ![c] = row]
    BY <2>1
  <2> HIDE DEF verdict
  <2>4. row.sync = conn[c].sync
    BY <2>2 DEF Connection
  <2>5. pc' = pc
    BY <1>4 DEF TestAndUpdate, syncVars
  <2> HIDE DEF row
  <2> QED
    BY <1>0, <1>1, <2>2, <2>3, <2>4, <2>5 DEF Exists
<1>5. ASSUME NEW c \in Connections, DeleteConnection(c)
      PROVE  SyncingHasASync'
  BY <1>0, <1>1, <1>5 DEF DeleteConnection, Exists, syncVars
<1>6. ASSUME NEW s \in Syncs,
             \/ Select(s) \/ MarkSyncing(s) \/ Inspect(s)
             \/ LookUp(s) \/ Write(s) \/ DiscoveryFails(s)
             \/ CommitSync(s) \/ RecordFailure(s) \/ HandlerFails(s)
      PROVE  SyncingHasASync'
  <2>0. Target[s] \in Connections
    BY SyncAssumption DEF SyncAssumption
  <2>1. /\ \A o \in Syncs \ {s} : pc'[o] = pc[o]
        /\ Pending(s) =>
              \/ Pending(s)'
              \/ RecordFailure(s)
              \/ CommitSync(s) /\ SetSync(Target[s], "synced")
                               /\ Exists(Target[s])
    BY <1>6, SyncMoves
  <2>2. \A c \in Connections : Under(c) /\ c # Target[s] => Under(c)'
    BY <2>1 DEF Pending, UnderWay, Walking
  <2>3. ASSUME UNCHANGED conn, ~RecordFailure(s), ~CommitSync(s)
        PROVE  SyncingHasASync'
    <3>1. \A c \in Connections : Under(c) => Under(c)'
      BY <2>1, <2>3 DEF Pending, UnderWay, Walking
    <3> QED
      BY <2>3, <3>1 DEF SyncingHasASync, Exists, Pending
  <2>4. ASSUME Exists(Target[s]), NEW status \in {"synced", "failed"},
               SetSync(Target[s], status)
        PROVE  SyncingHasASync'
    <3>1. /\ conn'[Target[s]].sync # "syncing"
          /\ \A d \in Connections : Exists(d)' = Exists(d)
          /\ \A d \in Connections \ {Target[s]} : conn'[d] = conn[d]
      BY <1>0, <2>0, <2>4, SetSyncTypes
    <3> QED
      BY <2>2, <3>1 DEF SyncingHasASync, Pending
  <2>5. CASE MarkSyncing(s) /\ SetSync(Target[s], "syncing") /\ Exists(Target[s])
    <3>1. /\ \A d \in Connections : Exists(d)' = Exists(d)
          /\ \A d \in Connections \ {Target[s]} : conn'[d] = conn[d]
      BY <1>0, <2>0, <2>5, SetSyncTypes
    <3>2. conn' = conn \/ pc'[s] \in {"marked", "lost"}
      BY <2>5 DEF MarkSyncing, Goto, TypeInv, TypeOK
    <3>3. pc[s] \in {"already", "selected"}
      BY <2>5 DEF MarkSyncing
    <3>4. \A c \in Connections : Under(c) => Under(c)'
      BY <2>1, <3>3 DEF Pending, UnderWay, Walking
    <3>5. pc'[s] \in {"marked", "lost"} => Under(Target[s])'
      BY DEF Pending, UnderWay
    <3> QED
      BY <3>1, <3>2, <3>4, <3>5 DEF SyncingHasASync, Exists, Pending
  <2>6. CASE CommitSync(s)
    <3>1. CASE RollBack(s)
      <4>1. conn' = conn /\ \A c \in Connections : Under(c) => Under(c)'
        BY <2>1, <3>1 DEF RollBack, Goto, TypeInv, TypeOK, Pending, UnderWay,
                              Walking
      <4> QED
        BY <4>1 DEF SyncingHasASync, Exists, Pending
    <3> QED
      BY <2>4, <2>6, <3>1 DEF CommitSync
  <2>7. CASE RecordFailure(s)
    <3>1. CASE ~Exists(Target[s])
      <4>1. conn' = conn
        BY <2>7, <3>1 DEF RecordFailure
      <4> QED
        BY <2>2, <3>1, <4>1 DEF SyncingHasASync, Exists, Pending
    <3> QED
      BY <2>4, <2>7, <3>1 DEF RecordFailure
  <2> QED
    BY <1>6, <2>3, <2>5, <2>6, <2>7, SyncSetsStatus
<1>7. CASE Crash
  <2>1. \A s \in Syncs : Pending(s) => Pending(s)'
    BY <1>7 DEF Crash, Pending, UnderWay, Walking, TypeInv, TypeOK
  <2>2. conn' = conn
    BY <1>7 DEF Crash
  <2> QED
    BY <2>1, <2>2, <1>a DEF SyncingHasASync, Exists, Pending
<1>8. CASE UNCHANGED vars
  BY <1>1, <1>8 DEF vars, syncVars, Exists
<1>9. ASSUME NEW c \in Connections, CheckName(c) PROVE SyncingHasASync'
  BY <1>1, <1>9 DEF CheckName, syncVars, Exists
<1>10. ASSUME NEW d \in Databases, Alter(d) PROVE SyncingHasASync'
  BY <1>1, <1>10 DEF Alter, Exists
<1> QED
  BY <1>2, <1>3, <1>4, <1>5, <1>6, <1>7, <1>8, <1>9, <1>10, Actions

\* However many syncs of a connection overlap, and in whatever order they
\* settle its status, it only shows syncing while one of them is under way or
\* after one was lost.
THEOREM SyncingIsUnderWay == Spec => []SyncingHasASync
<1>1. Init => SyncingHasASync
  BY DEF Init, SyncingHasASync, Exists
<1> QED
  BY <1>1, TypeInvInit, TypeInvInductive, SyncingInductive, PTL DEF Spec

----------------------------------------------------------------------------
(* Rows of the catalogue.                                                  *)

\* What a sync commits holds every row that was committed before.
LEMMA ViewKeepsRows ==
    ASSUME NEW s \in Syncs, NEW r \in catalog
    PROVE  \E q \in View(s) : SameRow(q, r)
<1>1. CASE \E q \in work[s] : SameRow(r, q)
  BY <1>1 DEF View, SameRow
<1>2. CASE \A q \in work[s] : ~SameRow(r, q)
  BY <1>2 DEF View, SameRow
<1> QED
  BY <1>1, <1>2

\* The catalogue changes when a sync commits and when a connection goes.
LEMMA CatalogChanges ==
    ASSUME [Next]_vars
    PROVE  \/ UNCHANGED catalog
           \/ \E s \in Syncs : CommitSync(s) /\ catalog' = View(s)
           \/ \E c \in Connections : DeleteConnection(c)
<1>1. ASSUME NEW s \in Syncs,
             \/ Select(s) \/ MarkSyncing(s) \/ Inspect(s)
             \/ LookUp(s) \/ Write(s) \/ DiscoveryFails(s)
             \/ CommitSync(s) \/ RecordFailure(s) \/ HandlerFails(s)
      PROVE  UNCHANGED catalog \/ (CommitSync(s) /\ catalog' = View(s))
  BY <1>1
  DEF Select, MarkSyncing, Inspect, LookUp, Draft, Write, DiscoveryFails,
      RollBack, CommitSync, RecordFailure, HandlerFails
<1> QED
  BY <1>1, Actions
  DEF vars, CheckName, InsertConnection, UpdateConnection, TestAndUpdate,
      Alter, Crash

\* No grant loses its table or column to a sync, whatever else goes on.
THEOREM RowsOutliveSyncs == Spec => RowsStay
<1>1. ASSUME TypeInv, [Next]_vars, NEW r \in catalog, Exists(r.conn)'
      PROVE  \E q \in catalog' : SameRow(q, r)
  <2>1. CASE UNCHANGED catalog
    BY <2>1 DEF SameRow
  <2>2. CASE \E s \in Syncs : catalog' = View(s)
    BY <2>2, ViewKeepsRows
  <2>3. CASE \E c \in Connections : DeleteConnection(c)
    BY <1>1, <2>3 DEF DeleteConnection, Exists, SameRow, TypeInv, TypeOK
  <2> QED
    BY <1>1, <2>1, <2>2, <2>3, CatalogChanges
<1>2. TypeInv /\ [Next]_vars =>
          [\A r \in catalog :
              Exists(r.conn)' => \E q \in catalog' : SameRow(q, r)]_vars
  BY <1>1
<1> QED
  BY <1>2, TypeInvInit, TypeInvInductive, PTL DEF Spec, RowsStay
----------------------------------------------------------------------------
(* The tree.  A sync that has committed nothing yet already holds rows that *)
(* will hang together with whatever is committed by then.                  *)

Placed(c, x, rows) ==
    \/ x.under = NoSync /\ Contains(Top, x.object)
    \/ \E q \in rows : /\ q.conn = c
                       /\ q.by = x.under
                       /\ Contains(q.object, x.object)

Seen(s) == catalog \cup work[s]

Created ==
    /\ \A c \in Connections : Exists(c) => creating[c] = "over"
    /\ \A s \in Syncs : pc[s] # "idle" => creating[Target[s]] = "over"

Origins ==
    /\ \A r \in catalog : r.conn = Target[r.by] /\ Exists(r.conn)
    /\ \A s \in Syncs : \A r \in work[s] :
          /\ r.conn = Target[r.by] /\ r.conn = Target[s] /\ Exists(r.conn)
          /\ r.by = s \/ \E q \in catalog : SameRow(q, r)

Keys ==
    /\ \A q, r \in catalog : SameKey(q, r) => q = r
    /\ \A s \in Syncs : \A r \in work[s] :
          /\ \A q \in catalog : SameKey(q, r) => SameRow(q, r)
          /\ \A q \in work[s] : SameKey(q, r) => q = r
          /\ \A o \in Syncs \ {s} : \A q \in work[o] :
                ~SameKey(q, r) /\ ~SameRow(q, r)

Tree ==
    /\ \A r \in catalog : Placed(r.conn, r, catalog)
    /\ \A s \in Syncs : \A r \in work[s] : Placed(Target[s], r, Seen(s))

\* A visit under way is to a place the transaction knows.
Visits ==
    \A s \in Syncs : Walking(s) /\ Exists(Target[s]) =>
        \A i \in DOMAIN agenda[s] : Placed(Target[s], agenda[s][i], Seen(s))

\* A row that can be written: only the sync's own would be inserted, and no
\* other of its rows has the key.
Writable(s, row) ==
    /\ row.conn = Target[row.by] /\ row.conn = Target[s]
    /\ row.by = s \/ \E q \in catalog : SameRow(q, row)
    /\ \A q \in work[s] : SameKey(q, row) => SameRow(q, row)
    /\ Placed(Target[s], row, Seen(s))

Drafts ==
    \A s \in Syncs : pc[s] = "writing" /\ Exists(Target[s]) =>
        Writable(s, draft[s])

Structured == \A d \in Databases : live[d] \in Structures[d]

TreeInv ==
    /\ TypeInv /\ Structured
    /\ Created /\ Origins /\ Keys /\ Tree /\ Visits /\ Drafts

\* Steps that commit nothing and write no row: transactions go on or are
\* rolled back, and a walk may take a visit or prepare a row.
LEMMA TreeFrame ==
    ASSUME TreeInv, TypeInv', Structured', Created', catalog' = catalog,
           \A c \in Connections : Exists(c) => Exists(c)',
           \A o \in Syncs : \/ work'[o] = work[o]
                            \/ work'[o] = {} /\ ~Walking(o)',
           \A o \in Syncs : Walking(o)' /\ Exists(Target[o])' =>
               \A i \in DOMAIN agenda'[o] :
                   Placed(Target[o], agenda'[o][i], Seen(o)),
           \A o \in Syncs : pc'[o] = "writing" /\ Exists(Target[o])' =>
               Writable(o, draft'[o])
    PROVE  TreeInv'
<1>0. \A s \in Syncs : Target[s] \in Connections
  BY SyncAssumption DEF SyncAssumption
<1>1. Origins'
  <2>1. \A r \in catalog : r.conn \in Connections
    BY DEF TreeInv, TypeInv, TypeOK, Row
  <2>2. \A s \in Syncs : work'[s] \subseteq work[s]
    OBVIOUS
  <2>3. \A s \in Syncs : \A r \in work[s] : r.conn \in Connections
    BY DEF TreeInv, TypeInv, TypeOK, Row
  <2> QED
    BY <2>1, <2>2, <2>3 DEF TreeInv, Origins, SameRow
<1>2. Keys'
  <2>1. \A s \in Syncs : work'[s] \subseteq work[s]
    OBVIOUS
  <2> QED
    BY <2>1 DEF TreeInv, Keys, SameKey, SameRow
<1>3. Tree'
  <2>1. ASSUME NEW s \in Syncs, NEW r \in work'[s]
        PROVE  Placed(Target[s], r, Seen(s))'
    <3>1. work'[s] = work[s] /\ Seen(s)' = Seen(s)
      BY <2>1 DEF Seen
    <3> QED
      BY <2>1, <3>1 DEF TreeInv, Tree, Placed
  <2> QED
    BY <2>1 DEF TreeInv, Tree, Placed
<1>4. Visits'
  <2>1. ASSUME NEW s \in Syncs, Walking(s)' PROVE Seen(s)' = Seen(s)
    BY <2>1 DEF Seen
  <2> QED
    BY <2>1 DEF Visits, Placed
<1>5. Drafts'
  <2>1. ASSUME NEW s \in Syncs, pc'[s] = "writing"
        PROVE  work'[s] = work[s] /\ Seen(s)' = Seen(s)
    BY <2>1 DEF Seen, Walking
  <2> QED
    BY <2>1 DEF Drafts, Writable, Placed, SameKey, SameRow
<1> QED
  BY <1>1, <1>2, <1>3, <1>4, <1>5 DEF TreeInv
LEMMA StructuredInductive ==
    ASSUME TypeInv, Structured, [Next]_vars
    PROVE  Structured'
<1>1. ASSUME NEW d \in Databases, Alter(d) PROVE Structured'
  BY <1>1 DEF Alter, Structured, TypeInv, TypeOK
<1>2. CASE UNCHANGED live
  BY <1>2 DEF Structured
<1> QED
  BY <1>1, <1>2, Actions
  DEF vars, CheckName, InsertConnection, UpdateConnection, TestAndUpdate,
      DeleteConnection, Crash, Select, MarkSyncing, Inspect, LookUp, Draft,
      Write, DiscoveryFails, RollBack, CommitSync, RecordFailure, HandlerFails

\* What a connection step leaves alone.
LEMMA ConnectionKeepsSyncs ==
    ASSUME NEW c \in Connections,
           \/ CheckName(c) \/ InsertConnection(c)
           \/ \E name \in Names, database \in Databases :
                 UpdateConnection(c, name, database)
           \/ TestAndUpdate(c) \/ DeleteConnection(c)
    PROVE  UNCHANGED <<live, syncVars, crashes>>
  BY DEF CheckName, InsertConnection, UpdateConnection, TestAndUpdate,
         DeleteConnection

\* Only an insert brings a connection into being, only a deletion removes it.
LEMMA ConnectionsStay ==
    ASSUME TypeInv, NEW c \in Connections,
           \/ CheckName(c) \/ InsertConnection(c)
           \/ \E name \in Names, database \in Databases :
                 UpdateConnection(c, name, database)
           \/ TestAndUpdate(c)
    PROVE  /\ \A d \in Connections :
                 \/ Exists(d)' = Exists(d)
                 \/ InsertConnection(c) /\ d = c /\ Exists(c)'
           /\ UNCHANGED catalog
<1>0. conn \in [Connections -> Connection \cup {Absent}]
  BY DEF TypeInv, TypeOK
<1>1. CASE CheckName(c)
  BY <1>1 DEF CheckName, Exists
<1>2. CASE InsertConnection(c)
  <2> DEFINE row == [name |-> Payload[c].name,
                     database |-> Payload[c].database,
                     status |-> "pending", sync |-> "pending"]
  <2>1. row \in Connection
    BY SyncAssumption DEF SyncAssumption, Connection
  <2>2. conn' = conn \/ conn' = [conn EXCEPT ![c] = row]
    BY <1>2 DEF InsertConnection
  <2>3. UNCHANGED catalog
    BY <1>2 DEF InsertConnection
  <2>4. row # Absent
    BY <2>1, RowAssumption
  <2> HIDE DEF row
  <2> QED
    BY <1>0, <1>2, <2>2, <2>3, <2>4 DEF Exists
<1>3. ASSUME NEW new \in Connection, Exists(c),
             conn' = [conn EXCEPT ![c] = new]
      PROVE  \A d \in Connections : Exists(d)' = Exists(d)
  BY <1>0, <1>3, RowAssumption DEF Exists
<1>4. ASSUME NEW name \in Names, NEW database \in Databases,
             UpdateConnection(c, name, database)
      PROVE  /\ \A d \in Connections : Exists(d)' = Exists(d)
             /\ UNCHANGED catalog
  <2> DEFINE row == [conn[c] EXCEPT !.name = name, !.database = database]
  <2>1. Exists(c) /\ conn[c] \in Connection
    BY <1>0, <1>4 DEF UpdateConnection, Exists
  <2>2. row \in Connection
    BY <2>1, RowsWithout
  <2>3. conn' = [conn EXCEPT ![c] = row] /\ UNCHANGED catalog
    BY <1>4, Zenon DEF UpdateConnection
  <2> HIDE DEF row
  <2> QED
    BY <1>3, <2>1, <2>2, <2>3
<1>5. CASE TestAndUpdate(c)
  <2>1. PICK success \in BOOLEAN :
            conn' = [conn EXCEPT ![c].status =
                        IF success THEN "connected" ELSE "failed"]
    BY <1>5 DEF TestAndUpdate
  <2> DEFINE verdict == IF success THEN "connected" ELSE "failed"
             row == [conn[c] EXCEPT !.status = verdict]
  <2>2. Exists(c) /\ conn[c] \in Connection
    BY <1>0, <1>5 DEF TestAndUpdate, Exists
  <2>3. conn' = [conn EXCEPT ![c] = row]
    BY <2>1
  <2>4. verdict \in {"pending", "connected", "failed"}
    OBVIOUS
  <2> HIDE DEF verdict
  <2>5. row \in Connection
    BY <2>2, <2>4, RowsWithout
  <2> HIDE DEF row
  <2> QED
    BY <1>3, <1>5, <2>2, <2>3, <2>5 DEF TestAndUpdate
<1> QED
  BY <1>1, <1>2, <1>4, <1>5

LEMMA CreatedInductive ==
    ASSUME TypeInv, Created, [Next]_vars
    PROVE  Created'
<1>0. \A s \in Syncs : Target[s] \in Connections
  BY SyncAssumption DEF SyncAssumption
<1>1. ASSUME NEW c \in Connections,
             \/ CheckName(c) \/ InsertConnection(c)
             \/ \E name \in Names, database \in Databases :
                   UpdateConnection(c, name, database)
             \/ TestAndUpdate(c)
      PROVE  Created'
  <2>1. \A d \in Connections : creating[d] = "over" => creating'[d] = "over"
    BY <1>1
    DEF CheckName, InsertConnection, UpdateConnection, TestAndUpdate, TypeInv,
        TypeOK
  <2>2. InsertConnection(c) => creating'[c] = "over"
    BY DEF InsertConnection, TypeInv, TypeOK
  <2>3. pc' = pc
    BY <1>1, ConnectionKeepsSyncs DEF syncVars
  <2> QED
    BY <1>0, <1>1, <2>1, <2>2, <2>3, ConnectionsStay DEF Created
<1>2. ASSUME NEW c \in Connections, DeleteConnection(c)
      PROVE  Created'
  BY <1>0, <1>2 DEF DeleteConnection, Created, Exists, syncVars, TypeInv, TypeOK
<1>3. ASSUME NEW s \in Syncs,
             \/ Select(s) \/ MarkSyncing(s) \/ Inspect(s)
             \/ LookUp(s) \/ Write(s) \/ DiscoveryFails(s)
             \/ CommitSync(s) \/ RecordFailure(s) \/ HandlerFails(s)
      PROVE  Created'
  <2>1. creating' = creating /\ \A o \in Syncs \ {s} : pc'[o] = pc[o]
    BY <1>3
    DEF Select, MarkSyncing, Inspect, LookUp, Draft, Write, DiscoveryFails,
        RollBack, CommitSync, RecordFailure, HandlerFails, Goto, TypeInv, TypeOK
  <2>2. \A d \in Connections : Exists(d)' = Exists(d)
    BY <1>0, <1>3, SyncSetsStatus, SetSyncTypes DEF TypeInv, TypeOK, Exists
  <2>3. pc[s] = "idle" => Select(s)
    BY <1>3 DEF MarkSyncing, Inspect, LookUp, Write, DiscoveryFails,
                CommitSync, RecordFailure, HandlerFails
  <2>4. Select(s) => creating[Target[s]] = "over"
    BY <1>0 DEF Select, Created
  <2> QED
    BY <2>1, <2>2, <2>3, <2>4 DEF Created
<1>4. CASE Crash
  BY <1>0, <1>4 DEF Crash, Created, Exists, UnderWay, Walking, TypeInv, TypeOK
<1>5. CASE UNCHANGED <<conn, creating, pc>>
  BY <1>5 DEF Created, Exists
<1> QED
  BY <1>1, <1>2, <1>3, <1>4, <1>5, Actions DEF vars, syncVars, Alter
\* Walks go on as they were when nothing they know is touched; a connection
\* that comes into being is nobody's target yet.
LEMMA TreeConnections ==
    ASSUME TreeInv, [Next]_vars, TypeInv', Structured', Created',
           NEW c \in Connections,
           \/ CheckName(c) \/ InsertConnection(c)
           \/ \E name \in Names, database \in Databases :
                 UpdateConnection(c, name, database)
           \/ TestAndUpdate(c)
    PROVE  TreeInv'
<1>0. \A s \in Syncs : Target[s] \in Connections
  BY SyncAssumption DEF SyncAssumption
<1>1. UNCHANGED <<syncVars, catalog>>
  BY ConnectionKeepsSyncs, ConnectionsStay DEF TreeInv
<1>2. \A d \in Connections :
          \/ Exists(d)' = Exists(d)
          \/ InsertConnection(c) /\ d = c /\ Exists(c)'
  BY ConnectionsStay DEF TreeInv
<1>3. ASSUME NEW s \in Syncs, pc[s] # "idle", Exists(Target[s])'
      PROVE  Exists(Target[s])
  BY <1>0, <1>2, <1>3 DEF InsertConnection, TreeInv, Created
<1>4. UNCHANGED <<pc, agenda, draft, work>>
  BY <1>1 DEF syncVars, walkVars
<1>5. \A o \in Syncs : Walking(o)' /\ Exists(Target[o])' =>
          \A i \in DOMAIN agenda'[o] : Placed(Target[o], agenda'[o][i], Seen(o))
  BY <1>3, <1>4 DEF Walking, TreeInv, Visits
<1>6. \A o \in Syncs : pc'[o] = "writing" /\ Exists(Target[o])' =>
          Writable(o, draft'[o])
  BY <1>3, <1>4 DEF TreeInv, Drafts
<1> QED
  BY <1>1, <1>2, <1>4, <1>5, <1>6, TreeFrame

LEMMA TreeAlterCrash ==
    ASSUME TreeInv, [Next]_vars, TypeInv', Structured', Created',
           Crash \/ (\E d \in Databases : Alter(d)) \/ UNCHANGED vars
    PROVE  TreeInv'
<1>1. UNCHANGED <<conn, catalog>>
  BY DEF Crash, Alter, vars
<1>2. CASE UNCHANGED <<pc, agenda, draft, work>>
  <2>1. \A o \in Syncs : Walking(o)' /\ Exists(Target[o])' =>
            \A i \in DOMAIN agenda'[o] :
                Placed(Target[o], agenda'[o][i], Seen(o))
    BY <1>1, <1>2 DEF Walking, TreeInv, Visits, Exists
  <2>2. \A o \in Syncs : pc'[o] = "writing" /\ Exists(Target[o])' =>
            Writable(o, draft'[o])
    BY <1>1, <1>2 DEF TreeInv, Drafts, Exists
  <2> QED
    BY <1>1, <1>2, <2>1, <2>2, TreeFrame DEF Exists
<1>3. CASE Crash
  <2>1. \A o \in Syncs : /\ work'[o] = {}
                         /\ pc'[o] \in {"idle", "over", "lost"}
    BY <1>3 DEF Crash, UnderWay, Walking, TreeInv, TypeInv, TypeOK
  <2> QED
    BY <1>1, <2>1, TreeFrame DEF Exists, Walking
<1> QED
  BY <1>2, <1>3 DEF Alter, vars, syncVars, walkVars

\* A step of a sync that neither writes nor commits leaves other syncs alone.
LEMMA TreeOfOne ==
    ASSUME TreeInv, TypeInv', Structured', Created', catalog' = catalog,
           NEW s \in Syncs,
           \A c \in Connections : Exists(c)' = Exists(c),
           \A o \in Syncs \ {s} :
               /\ pc'[o] = pc[o] /\ agenda'[o] = agenda[o]
               /\ draft'[o] = draft[o] /\ work'[o] = work[o],
           \/ work'[s] = work[s]
           \/ work'[s] = {} /\ ~Walking(s)',
           Walking(s)' /\ Exists(Target[s]) =>
               \A i \in DOMAIN agenda'[s] :
                   Placed(Target[s], agenda'[s][i], Seen(s)),
           pc'[s] = "writing" /\ Exists(Target[s]) => Writable(s, draft'[s])
    PROVE  TreeInv'
<1>0. \A o \in Syncs : Exists(Target[o])' = Exists(Target[o])
  BY SyncAssumption DEF SyncAssumption
<1>1. \A o \in Syncs : Walking(o)' /\ Exists(Target[o])' =>
          \A i \in DOMAIN agenda'[o] : Placed(Target[o], agenda'[o][i], Seen(o))
  BY <1>0 DEF Walking, TreeInv, Visits
<1>2. \A o \in Syncs : pc'[o] = "writing" /\ Exists(Target[o])' =>
          Writable(o, draft'[o])
  BY <1>0 DEF TreeInv, Drafts
<1> QED
  BY <1>1, <1>2, TreeFrame

LEMMA TreeRollBack ==
    ASSUME TreeInv, TypeInv', Structured', Created', NEW s \in Syncs, RollBack(s)
    PROVE  TreeInv'
<1>1. /\ UNCHANGED <<conn, catalog>>
      /\ work'[s] = {} /\ pc'[s] = "failing"
      /\ \A o \in Syncs \ {s} :
            /\ pc'[o] = pc[o] /\ agenda'[o] = agenda[o]
            /\ draft'[o] = draft[o] /\ work'[o] = work[o]
  BY DEF RollBack, Goto, TreeInv, TypeInv, TypeOK
<1> QED
  BY <1>1, TreeOfOne DEF Exists, Walking

\* What is listed inside an object has its place below the object's row.
LEMMA ListedPlaced ==
    ASSUME TreeInv, NEW s \in Syncs, NEW o \in Objects \cup {Top},
           NEW b \in Syncs \cup {NoSync}, NEW c, NEW rows,
           \/ o = Top /\ b = NoSync
           \/ \E q \in rows : q.conn = c /\ q.by = b /\ q.object = o
    PROVE  \A i \in DOMAIN Listed(s, o, b) : Placed(c, Listed(s, o, b)[i], rows)
<1>1. live[source[s]] \in Structures[source[s]] /\ source[s] \in Databases
  BY DEF TreeInv, TypeInv, TypeOK, Structured
<1>2. ASSUME NEW i \in DOMAIN Listed(s, o, b)
      PROVE  /\ Contains(o, Listed(s, o, b)[i].object)
             /\ Listed(s, o, b)[i].under = b
  BY <1>1 DEF Listed, Contains, Members
<1> QED
  BY <1>2 DEF Placed

\* So has what remains of the agenda.
LEMMA DescendPlaced ==
    ASSUME TreeInv, NEW s \in Syncs, agenda[s] # <<>>, NEW row \in Row,
           Descend(s, row), NEW c, NEW rows,
           row \in rows, row.conn = c,
           \A i \in DOMAIN agenda[s] : Placed(c, agenda[s][i], rows)
    PROVE  \A i \in DOMAIN agenda'[s] : Placed(c, agenda'[s][i], rows)
<1> DEFINE new == Listed(s, row.object, row.by)
           rest == Tail(agenda[s])
<1>1. new \in Seq(Visit) /\ agenda[s] \in Seq(Visit)
  BY ListedVisits DEF TreeInv, TypeInv, TypeOK, Row
<1>2. agenda'[s] = new \o rest
  BY DEF Descend, TreeInv, TypeInv, TypeOK
<1>3. \A i \in DOMAIN new : Placed(c, new[i], rows)
  BY ListedPlaced DEF Row
<1>4. rest \in Seq(Visit) /\ \A i \in DOMAIN rest : Placed(c, rest[i], rows)
  <2>1. \A i \in DOMAIN rest : i + 1 \in DOMAIN agenda[s]
                              /\ rest[i] = agenda[s][i + 1]
    BY <1>1
  <2> QED
    BY <1>1, <2>1
<1> HIDE DEF new, rest
<1>5. \A i \in DOMAIN (new \o rest) :
          \/ i \in DOMAIN new /\ (new \o rest)[i] = new[i]
          \/ /\ i - Len(new) \in DOMAIN rest
             /\ (new \o rest)[i] = rest[i - Len(new)]
  BY <1>1, <1>4
<1> QED
  BY <1>2, <1>3, <1>4, <1>5
\* Every row a transaction knows is one it sees, and the other way round.
LEMMA ViewIsSeen ==
    ASSUME TreeInv, NEW s \in Syncs
    PROVE  /\ View(s) \subseteq Seen(s)
           /\ \A r \in Seen(s) : \E q \in View(s) :
                 SameRow(q, r) /\ q.conn = r.conn
<1>1. \A r \in Seen(s) : r.conn = Target[r.by]
  BY DEF Seen, TreeInv, Origins
<1>2. View(s) \subseteq Seen(s) /\ work[s] \subseteq View(s)
  BY DEF View, Seen
<1>3. \A r \in Seen(s) : \E q \in View(s) : SameRow(q, r)
  BY <1>2, ViewKeepsRows DEF Seen, SameRow
<1> QED
  BY <1>1, <1>2, <1>3 DEF SameRow

LEMMA TreeLookUp ==
    ASSUME TreeInv, TypeInv', Structured', Created', NEW s \in Syncs, LookUp(s)
    PROVE  TreeInv'
<1> DEFINE visit == Head(agenda[s])
           rows == Matching(s, visit)
<1>0. Target[s] \in Connections
  BY SyncAssumption DEF SyncAssumption
<1>1. pc[s] = "looking" /\ agenda[s] # <<>> /\ agenda[s] \in Seq(Visit)
  BY DEF LookUp, TreeInv, TypeInv, TypeOK
<1>2. visit \in Visit /\ visit = agenda[s][1] /\ 1 \in DOMAIN agenda[s]
  BY <1>1
<1>3. Exists(Target[s]) => Placed(Target[s], visit, Seen(s))
  BY <1>1, <1>2 DEF TreeInv, Visits, Walking
<1>4. rows \subseteq View(s) /\ rows \subseteq Row
  BY DEF Matching, View, TreeInv, TypeInv, TypeOK
<1>5. ASSUME NEW row \in Row, Draft(s, row),
             Exists(Target[s]) => Writable(s, row)
      PROVE  TreeInv'
  <2>1. /\ UNCHANGED <<conn, catalog, agenda, work>>
        /\ pc'[s] = "writing" /\ draft'[s] = row
        /\ \A o \in Syncs \ {s} : pc'[o] = pc[o] /\ draft'[o] = draft[o]
    BY <1>5 DEF Draft, Goto, TreeInv, TypeInv, TypeOK
  <2>2. Exists(Target[s]) => \A i \in DOMAIN agenda'[s] :
            Placed(Target[s], agenda'[s][i], Seen(s))
    BY <1>1, <2>1 DEF TreeInv, Visits, Walking
  <2> QED
    BY <1>5, <2>1, <2>2, TreeOfOne DEF Exists
<1>6. ASSUME rows = {}, Draft(s, NewRow(s, visit)) PROVE TreeInv'
  <2> DEFINE row == NewRow(s, visit)
  <2>1. /\ row \in Row /\ row.by = s /\ row.conn = Target[s]
        /\ row.object = visit.object /\ row.under = visit.under
    BY <1>0, <1>2 DEF NewRow, Row, Visit
  <2>2. Exists(Target[s]) => Placed(Target[s], row, Seen(s))
    BY <1>3, <2>1 DEF Placed
  <2>3. \A q \in work[s] : ~SameKey(q, row)
    BY <1>6, <2>1 DEF Matching, View, SameKey
  <2> HIDE DEF row
  <2> QED
    BY <1>5, <1>6, <2>1, <2>2, <2>3 DEF Writable, row
<1>7. ASSUME NEW row \in rows, rows = {row}, Draft(s, Refreshed(row, visit))
      PROVE  TreeInv'
  <2> DEFINE new == Refreshed(row, visit)
  <2>1. /\ new \in Row /\ SameRow(new, row) /\ new.conn = row.conn
    BY <1>4 DEF Refreshed, Row, SameRow
  <2>2. /\ row.conn = Target[s] /\ row.object = visit.object
        /\ row.under = visit.under
    BY DEF Matching
  <2>3. Exists(Target[s]) => Placed(Target[s], new, Seen(s))
    BY <1>3, <2>1, <2>2 DEF Placed, SameRow
  <2>4. \A q \in work[s] : SameKey(q, new) => SameRow(q, new)
    <3>1. ASSUME NEW q \in work[s], SameKey(q, new) PROVE q \in rows
      BY <2>1, <2>2, <3>1 DEF Matching, View, SameKey, SameRow
    <3> QED
      BY <1>7, <2>1, <3>1 DEF SameRow
  <2>5. row \in Seen(s)
    BY <1>4, ViewIsSeen
  <2>6. new.by = s \/ \E q \in catalog : SameRow(q, new)
    BY <2>1, <2>5 DEF Seen, TreeInv, Origins, SameRow
  <2>7. new.conn = Target[new.by]
    BY <2>1, <2>5 DEF Seen, TreeInv, Origins, SameRow
  <2> HIDE DEF new
  <2> QED
    BY <1>5, <1>7, <2>1, <2>2, <2>3, <2>4, <2>6, <2>7 DEF Writable, new
<1>8. ASSUME NEW row \in rows, Descend(s, row),
             UNCHANGED <<conn, creating, catalog, live, pc, source, draft,
                         work, history, crashes>>
      PROVE  TreeInv'
  <2>1. row \in Row /\ row \in Seen(s) /\ row.conn = Target[s]
    BY <1>4, ViewIsSeen DEF Matching
  <2>2. Exists(Target[s]) => \A i \in DOMAIN agenda[s] :
            Placed(Target[s], agenda[s][i], Seen(s))
    BY <1>1 DEF TreeInv, Visits, Walking
  <2>3. Exists(Target[s]) => \A i \in DOMAIN agenda'[s] :
            Placed(Target[s], agenda'[s][i], Seen(s))
    BY <1>1, <1>8, <2>1, <2>2, DescendPlaced
  <2>4. \A o \in Syncs \ {s} : agenda'[o] = agenda[o]
    BY <1>8 DEF Descend, TreeInv, TypeInv, TypeOK
  <2>5. pc'[s] # "writing"
    BY <1>1, <1>8
  <2> QED
    BY <1>8, <2>3, <2>4, <2>5, TreeOfOne DEF Exists
<1> QED
  BY <1>6, <1>7, <1>8, TreeRollBack DEF LookUp

LEMMA TreeSync ==
    ASSUME TreeInv, TypeInv', Structured', Created', NEW s \in Syncs,
           \/ Select(s) \/ MarkSyncing(s) \/ Inspect(s) \/ LookUp(s)
           \/ DiscoveryFails(s) \/ RecordFailure(s) \/ HandlerFails(s)
    PROVE  TreeInv'
<1>0. Target[s] \in Connections
  BY SyncAssumption DEF SyncAssumption
<1>1. CASE Select(s) \/ MarkSyncing(s) \/ RecordFailure(s) \/ HandlerFails(s)
  <2>1. /\ UNCHANGED <<catalog, agenda, draft, work>>
        /\ pc'[s] \notin {"looking", "writing"}
        /\ \A o \in Syncs \ {s} : pc'[o] = pc[o]
    BY <1>1 DEF Select, MarkSyncing, RecordFailure, HandlerFails, Goto,
                TreeInv, TypeInv,
                TypeOK, walkVars
  <2>2. \A c \in Connections : Exists(c)' = Exists(c)
    BY <1>0, <1>1, SyncSetsStatus, SetSyncTypes
    DEF TreeInv, TypeInv, TypeOK, Exists
  <2> QED
    BY <2>1, <2>2, TreeOfOne DEF Walking
<1>2. CASE Inspect(s)
  <2>1. /\ UNCHANGED <<conn, catalog, draft, work>>
        /\ pc'[s] = "looking"
        /\ \A o \in Syncs \ {s} : pc'[o] = pc[o] /\ agenda'[o] = agenda[o]
        /\ agenda'[s] = Listed(s, Top, NoSync)
    BY <1>2 DEF Inspect, Goto, TreeInv, TypeInv, TypeOK
  <2>2. \A i \in DOMAIN agenda'[s] : Placed(Target[s], agenda'[s][i], Seen(s))
    BY <2>1, ListedPlaced
  <2> QED
    BY <2>1, <2>2, TreeOfOne DEF Exists
<1>3. CASE DiscoveryFails(s)
  BY <1>3, TreeRollBack DEF DiscoveryFails
<1> QED
  BY <1>1, <1>2, <1>3, TreeLookUp
\* What has its place keeps it when every row that was known, or one with its
\* object and inserter, still is.
LEMMA PlacedStays ==
    ASSUME NEW c, NEW x, NEW rows, NEW more, Placed(c, x, rows),
           \A r \in rows : r.conn = c => \E q \in more :
               q.conn = c /\ q.object = r.object /\ q.by = r.by
    PROVE  Placed(c, x, more)
  BY DEF Placed

LEMMA TreeWrite ==
    ASSUME TreeInv, TypeInv', Structured', Created', NEW s \in Syncs, Write(s)
    PROVE  TreeInv'
<1> DEFINE row == draft[s]
           c == Target[s]
           rest == {r \in work[s] : ~SameRow(r, row)}
<1>0. c \in Connections
  BY SyncAssumption DEF SyncAssumption
<1>1. CASE RollBack(s)
  BY <1>1, TreeRollBack
<1>2. CASE ~Refused(s)
  <2>1. /\ UNCHANGED <<conn, catalog>>
        /\ work' = [work EXCEPT ![s] = rest \cup {row}]
        /\ pc' = [pc EXCEPT ![s] = "looking"]
        /\ draft' = [draft EXCEPT ![s] = NoRow]
        /\ Descend(s, row)
    BY <1>2, Zenon DEF Write, Goto
  <2>2. /\ Exists(c) /\ pc[s] = "writing" /\ agenda[s] # <<>> /\ row \in Row
    BY <1>2 DEF Write, Refused, TreeInv, TypeInv, DraftWhenWriting
  <2>3. Writable(s, row) /\ row.conn = c /\ row.conn = Target[row.by]
    BY <2>2 DEF TreeInv, Drafts, Writable
  <2>4. /\ work'[s] = rest \cup {row} /\ pc'[s] = "looking"
        /\ \A o \in Syncs \ {s} :
              /\ work'[o] = work[o] /\ pc'[o] = pc[o]
              /\ agenda'[o] = agenda[o] /\ draft'[o] = draft[o]
              /\ Seen(o)' = Seen(o)
    BY <2>1 DEF Descend, Seen, TreeInv, TypeInv, TypeOK
  <2>5. \A q \in catalog : SameKey(q, row) => SameRow(q, row)
    <3>1. CASE row.by = s
      BY <1>2, <3>1 DEF Refused, Inserts
    <3>2. CASE \E q \in catalog : SameRow(q, row)
      <4>1. PICK p \in catalog : SameRow(p, row)
        BY <3>2
      <4>2. p.conn = row.conn
        BY <2>3, <4>1 DEF SameRow, TreeInv, Origins
      <4>3. ASSUME NEW q \in catalog, SameKey(q, row) PROVE q = p
        <5>1. SameKey(q, p)
          BY <4>1, <4>2, <4>3 DEF SameKey, SameRow
        <5> QED
          BY <5>1 DEF TreeInv, Keys
      <4> QED
        BY <4>1, <4>3
    <3> QED
      BY <2>3, <3>1, <3>2 DEF Writable
  <2>6. \A q \in rest : ~SameKey(q, row) /\ ~SameKey(row, q)
    BY <2>3 DEF Writable, SameKey
  <2>7. \A o \in Syncs \ {s} : \A q \in work[o] :
            /\ ~SameKey(q, row) /\ ~SameRow(q, row)
            /\ ~SameKey(row, q) /\ ~SameRow(row, q)
    BY DEF Write, Blocked, SameKey, SameRow
  <2>8. \A r \in Seen(s) : \E q \in Seen(s)' :
            q.conn = r.conn /\ q.object = r.object /\ q.by = r.by
    <3>1. Seen(s)' = catalog \cup rest \cup {row}
      BY <2>1, <2>4 DEF Seen
    <3>2. ASSUME NEW r \in work[s], SameRow(r, row)
          PROVE  r.conn = row.conn /\ r.object = row.object /\ r.by = row.by
      BY <2>3, <3>2 DEF SameRow, TreeInv, Origins
    <3>3. \A r \in work[s] : SameRow(r, row) \/ r \in rest
      OBVIOUS
    <3> HIDE DEF rest, row
    <3> QED
      BY <3>1, <3>2, <3>3 DEF Seen
  <2>9. \A x : Placed(c, x, Seen(s)) => Placed(c, x, Seen(s)')
    BY <2>8, PlacedStays
  <2>10. Origins'
    <3>1. \A d \in Connections : Exists(d)' = Exists(d)
      BY <2>1 DEF Exists
    <3>2. \A r \in catalog : r.conn = Target[r.by] /\ Exists(r.conn)'
      BY <2>1 DEF TreeInv, Origins, Exists
    <3>3. \A o \in Syncs : \A r \in work[o] :
              /\ r.conn = Target[r.by] /\ r.conn = Target[o] /\ Exists(r.conn)'
              /\ r.by = o \/ \E q \in catalog : SameRow(q, r)
      BY <2>1 DEF TreeInv, Origins, Exists
    <3>4. /\ row.conn = Target[row.by] /\ row.conn = c
          /\ row.by = s \/ \E q \in catalog : SameRow(q, row)
      BY <2>3 DEF Writable
    <3>7. conn'[row.conn] # Absent
      <4>1. Exists(c)'
        BY <1>0, <2>2, <3>1
      <4> QED
        BY <2>3, <4>1 DEF Exists
    <3>5. \A r \in work'[s] : r \in work[s] \/ r = row
      BY <2>4
    <3>8. c = Target[s]
      OBVIOUS
    <3> HIDE DEF rest, row, c
    <3>9. ASSUME NEW o \in Syncs, NEW r \in work'[o]
          PROVE  /\ r.conn = Target[r.by] /\ r.conn = Target[o]
                 /\ Exists(r.conn)'
                 /\ r.by = o \/ \E q \in catalog : SameRow(q, r)
      <4>1. r \in work[o] \/ (o = s /\ r = row)
        BY <2>4, <3>5
      <4>2. CASE r \in work[o]
        BY <3>3, <4>2
      <4>3. CASE o = s /\ r = row
        BY <3>4, <3>7, <3>8, <4>3 DEF Exists
      <4> QED
        BY <4>1, <4>2, <4>3
    <3> QED
      BY <2>1, <3>2, <3>9 DEF Origins, SameRow
  <2>11. Keys'
    <3>1. \A q, r \in catalog : SameKey(q, r) => q = r
      BY DEF TreeInv, Keys
    <3>2. \A o \in Syncs : \A r \in work[o] :
              /\ \A q \in catalog : SameKey(q, r) => SameRow(q, r)
              /\ \A q \in work[o] : SameKey(q, r) => q = r
              /\ \A p \in Syncs \ {o} : \A q \in work[p] :
                    ~SameKey(q, r) /\ ~SameRow(q, r)
      BY DEF TreeInv, Keys
    <3>3. rest \subseteq work[s]
      OBVIOUS
    <3> HIDE DEF rest, row
    <3>4. ASSUME NEW o \in Syncs, NEW r \in work'[o]
          PROVE  /\ \A q \in catalog : SameKey(q, r) => SameRow(q, r)
                 /\ \A q \in work'[o] : SameKey(q, r) => q = r
                 /\ \A p \in Syncs \ {o} : \A q \in work'[p] :
                       ~SameKey(q, r) /\ ~SameRow(q, r)
      <4>1. CASE o = s
        <5>1. r \in rest \/ r = row
          BY <2>4, <4>1
        <5> QED
          BY <2>4, <2>5, <2>6, <2>7, <3>2, <3>3, <4>1, <5>1
      <4>2. CASE o # s
        <5>1. r \in work[o]
          BY <2>4, <4>2
        <5> QED
          BY <2>4, <2>7, <3>2, <3>3, <4>2, <5>1
      <4> QED
        BY <4>1, <4>2
    <3>5. /\ \A q, r \in catalog' : SameKey(q, r) => q = r
          /\ \A o \in Syncs : \A r \in work'[o] :
                /\ \A q \in catalog' : SameKey(q, r) => SameRow(q, r)
                /\ \A q \in work'[o] : SameKey(q, r) => q = r
                /\ \A p \in Syncs \ {o} : \A q \in work'[p] :
                      ~SameKey(q, r) /\ ~SameRow(q, r)
      BY <2>1, <3>1, <3>4
    <3> QED
      BY <3>5 DEF Keys, SameKey, SameRow
  <2>12. Tree'
    <3>1. \A r \in catalog' : Placed(r.conn, r, catalog')
      BY <2>1 DEF TreeInv, Tree
    <3>2. \A o \in Syncs \ {s} : \A r \in work'[o] :
              Placed(Target[o], r, Seen(o)')
      BY <2>4 DEF TreeInv, Tree
    <3>3. \A r \in rest \cup {row} : Placed(c, r, Seen(s))
      BY <2>3 DEF TreeInv, Tree, Writable
    <3>4. \A r \in work'[s] : Placed(Target[s], r, Seen(s)')
      BY <2>4, <2>9, <3>3
    <3> QED
      BY <3>1, <3>2, <3>4 DEF Tree, Placed
  <2>13. Visits'
    <3>1. row \in Seen(s)'
      BY <2>4 DEF Seen
    <3>2. \A i \in DOMAIN agenda[s] : Placed(c, agenda[s][i], Seen(s))
      BY <2>2 DEF TreeInv, Visits, Walking
    <3>3. \A i \in DOMAIN agenda[s] : Placed(c, agenda[s][i], Seen(s)')
      BY <2>9, <3>2
    <3>4. \A i \in DOMAIN agenda'[s] : Placed(c, agenda'[s][i], Seen(s)')
      BY <2>1, <2>2, <2>3, <3>1, <3>3, DescendPlaced
    <3>5. \A o \in Syncs \ {s} : Walking(o)' /\ Exists(Target[o])' =>
              \A i \in DOMAIN agenda'[o] :
                  Placed(Target[o], agenda'[o][i], Seen(o)')
      BY <2>1, <2>4 DEF TreeInv, Visits, Walking, Exists
    <3> QED
      BY <3>4, <3>5 DEF Visits, Placed
  <2>14. Drafts'
    <3>1. ASSUME NEW o \in Syncs, pc'[o] = "writing", Exists(Target[o])'
          PROVE  Writable(o, draft[o])' /\ o # s
      <4>1. o # s
        BY <2>4, <3>1
      <4>2. Writable(o, draft[o])
        BY <2>1, <2>4, <3>1, <4>1 DEF TreeInv, Drafts, Exists
      <4>3. /\ catalog' = catalog /\ work'[o] = work[o] /\ draft'[o] = draft[o]
            /\ Seen(o)' = Seen(o)
        BY <2>1, <2>4, <4>1
      <4> QED
        BY <4>1, <4>2, <4>3 DEF Writable, Placed, SameKey, SameRow
    <3> QED
      BY <3>1 DEF Drafts
  <2> QED
    BY <2>10, <2>11, <2>12, <2>13, <2>14 DEF TreeInv
<1> QED
  BY <1>1, <1>2 DEF Write
LEMMA TreeCommit ==
    ASSUME TreeInv, TypeInv', Structured', Created', NEW s \in Syncs,
           CommitSync(s)
    PROVE  TreeInv'
<1>0. \A o \in Syncs : Target[o] \in Connections
  BY SyncAssumption DEF SyncAssumption
<1>1. CASE RollBack(s)
  BY <1>1, TreeRollBack
<1>2. CASE Exists(Target[s]) /\ ~RollBack(s)
  <2>1. /\ catalog' = View(s)
        /\ work'[s] = {} /\ pc'[s] = "over"
        /\ \A o \in Syncs \ {s} :
              /\ work'[o] = work[o] /\ pc'[o] = pc[o]
              /\ agenda'[o] = agenda[o] /\ draft'[o] = draft[o]
    BY <1>2 DEF CommitSync, Goto, TreeInv, TypeInv, TypeOK
  <2>2. \A c \in Connections : Exists(c)' = Exists(c)
    <3>1. SetSync(Target[s], "synced") /\ Exists(Target[s])
      BY <1>2 DEF CommitSync
    <3> QED
      BY <1>0, <3>1, SetSyncTypes DEF TreeInv, TypeInv, TypeOK
  <2>3. /\ View(s) \subseteq Seen(s) /\ catalog \subseteq Seen(s)
        /\ \A r \in Seen(s) : \E q \in View(s) :
              SameRow(q, r) /\ q.conn = r.conn
    BY ViewIsSeen DEF Seen
  <2>4. \A r \in Seen(s) : r.conn \in Connections
    BY DEF Seen, TreeInv, TypeInv, TypeOK, Row
  <2>5. Origins'
    <3>1. \A r \in View(s) : r.conn = Target[r.by] /\ Exists(r.conn)'
      BY <2>2, <2>3, <2>4 DEF Seen, TreeInv, Origins
    <3>2. ASSUME NEW o \in Syncs, NEW r \in work'[o]
          PROVE  /\ r.conn = Target[r.by] /\ r.conn = Target[o]
                 /\ Exists(r.conn)'
                 /\ r.by = o \/ \E q \in View(s) : SameRow(q, r)
      <4>1. o # s /\ r \in work[o]
        BY <2>1, <3>2
      <4>2. /\ r.conn = Target[r.by] /\ r.conn = Target[o]
            /\ r.by = o \/ \E q \in catalog : SameRow(q, r)
            /\ Exists(r.conn)
        BY <4>1 DEF TreeInv, Origins
      <4>3. Exists(r.conn)'
        BY <1>0, <2>2, <4>2
      <4>4. \A q \in catalog : SameRow(q, r) => \E p \in View(s) : SameRow(p, r)
        BY <2>3 DEF SameRow
      <4> QED
        BY <4>2, <4>3, <4>4
    <3> QED
      BY <2>1, <3>1, <3>2 DEF Origins, SameRow
  <2>6. Keys'
    <3>1. \A q, r \in View(s) : SameKey(q, r) => q = r
      <4>1. ASSUME NEW q \in View(s), NEW r \in View(s), SameKey(q, r)
            PROVE  q = r
        <5>1. CASE q \in work[s] /\ r \in work[s]
          BY <4>1, <5>1 DEF TreeInv, Keys
        <5>2. CASE q \notin work[s] /\ r \in work[s]
          <6>1. q \in catalog /\ ~SameRow(q, r)
            BY <5>2 DEF View
          <6> QED
            BY <4>1, <5>2, <6>1 DEF TreeInv, Keys
        <5>3. CASE q \in work[s] /\ r \notin work[s]
          <6>1. r \in catalog /\ ~SameRow(r, q)
            BY <5>3 DEF View
          <6>2. SameKey(r, q)
            BY <4>1 DEF SameKey
          <6> QED
            BY <5>3, <6>1, <6>2 DEF TreeInv, Keys
        <5>4. CASE q \notin work[s] /\ r \notin work[s]
          BY <4>1, <5>4 DEF View, TreeInv, Keys
        <5> QED
          BY <5>1, <5>2, <5>3, <5>4
      <4> QED
        BY <4>1
    <3>2. ASSUME NEW o \in Syncs, NEW r \in work'[o]
          PROVE  /\ \A q \in View(s) : SameKey(q, r) => SameRow(q, r)
                 /\ \A q \in work'[o] : SameKey(q, r) => q = r
                 /\ \A p \in Syncs \ {o} : \A q \in work'[p] :
                       ~SameKey(q, r) /\ ~SameRow(q, r)
      <4>1. o # s /\ r \in work[o]
        BY <2>1, <3>2
      <4>2. /\ \A q \in catalog : SameKey(q, r) => SameRow(q, r)
            /\ \A q \in work[o] : SameKey(q, r) => q = r
            /\ \A p \in Syncs \ {o} : \A q \in work[p] :
                  ~SameKey(q, r) /\ ~SameRow(q, r)
        BY <4>1 DEF TreeInv, Keys
      <4>3. \A q \in View(s) : q \in catalog \/ q \in work[s]
        BY DEF View
      <4>4. \A p \in Syncs : work'[p] \subseteq work[p]
        BY <2>1
      <4> QED
        BY <4>1, <4>2, <4>3, <4>4
    <3>3. /\ \A q, r \in catalog' : SameKey(q, r) => q = r
          /\ \A o \in Syncs : \A r \in work'[o] :
                /\ \A q \in catalog' : SameKey(q, r) => SameRow(q, r)
                /\ \A q \in work'[o] : SameKey(q, r) => q = r
                /\ \A p \in Syncs \ {o} : \A q \in work'[p] :
                      ~SameKey(q, r) /\ ~SameRow(q, r)
      BY <2>1, <3>1, <3>2
    <3> QED
      BY <3>3 DEF Keys, SameKey, SameRow
  <2>7. ASSUME NEW o \in Syncs \ {s}, NEW x, Placed(Target[o], x, Seen(o))
        PROVE  Placed(Target[o], x, Seen(o)')
    <3>1. Seen(o)' = View(s) \cup work[o]
      BY <2>1 DEF Seen
    <3>2. \A r \in Seen(o) : \E q \in Seen(o)' :
              q.conn = r.conn /\ q.object = r.object /\ q.by = r.by
      BY <2>3, <3>1 DEF Seen, SameRow
    <3> QED
      BY <2>7, <3>2, PlacedStays
  <2>8. Tree'
    <3>1. ASSUME NEW r \in View(s) PROVE Placed(r.conn, r, View(s))
      <4>1. Placed(r.conn, r, Seen(s))
        <5>1. CASE r \in catalog
          <6>1. Placed(r.conn, r, catalog)
            BY <5>1 DEF TreeInv, Tree
          <6> QED
            BY <2>3, <6>1 DEF Placed
        <5>2. CASE r \in work[s]
          BY <5>2 DEF TreeInv, Tree, Origins
        <5> QED
          BY <5>1, <5>2 DEF View
      <4> QED
        BY <2>3, <4>1, PlacedStays DEF SameRow
    <3>2. \A o \in Syncs : \A r \in work'[o] : Placed(Target[o], r, Seen(o)')
      BY <2>1, <2>7 DEF TreeInv, Tree
    <3>3. \A r \in catalog' : Placed(r.conn, r, catalog')
      BY <2>1, <3>1
    <3> QED
      BY <3>2, <3>3 DEF Tree, Placed
  <2>9. Visits'
    <3>1. ASSUME NEW o \in Syncs, Walking(o)', Exists(Target[o])'
          PROVE  /\ o # s
                 /\ \A i \in DOMAIN agenda'[o] :
                       Placed(Target[o], agenda'[o][i], Seen(o)')
      <4>1. o # s
        BY <2>1, <3>1 DEF Walking
      <4>2. Walking(o) /\ Exists(Target[o])
        BY <1>0, <2>1, <2>2, <3>1, <4>1 DEF Walking
      <4> QED
        BY <2>1, <2>7, <4>1, <4>2 DEF TreeInv, Visits
    <3> QED
      BY <3>1 DEF Visits, Placed
  <2>10. Drafts'
    <3>1. ASSUME NEW o \in Syncs, pc'[o] = "writing", Exists(Target[o])'
          PROVE  Writable(o, draft[o])'
      <4>1. o # s
        BY <2>1, <3>1
      <4>2. Writable(o, draft[o])
        BY <1>0, <2>1, <2>2, <3>1, <4>1 DEF TreeInv, Drafts
      <4>3. Placed(Target[o], draft[o], Seen(o)')
        BY <2>7, <4>1, <4>2 DEF Writable
      <4>4. draft[o].by = o \/ \E q \in View(s) : SameRow(q, draft[o])
        BY <2>3, <4>2 DEF Writable, SameRow
      <4>5. catalog' = View(s) /\ work'[o] = work[o] /\ draft'[o] = draft[o]
        BY <2>1, <4>1
      <4> QED
        BY <4>2, <4>3, <4>4, <4>5 DEF Writable, Placed, SameKey, SameRow
    <3> QED
      BY <3>1 DEF Drafts
  <2> QED
    BY <2>5, <2>6, <2>8, <2>9, <2>10 DEF TreeInv
<1> QED
  BY <1>1, <1>2 DEF CommitSync

LEMMA TreeDelete ==
    ASSUME TreeInv, TypeInv', Structured', Created', NEW c \in Connections,
           DeleteConnection(c)
    PROVE  TreeInv'
<1>0. \A o \in Syncs : Target[o] \in Connections
  BY SyncAssumption DEF SyncAssumption
<1>1. /\ catalog' = {r \in catalog : r.conn # c}
      /\ UNCHANGED <<pc, agenda, draft, work>>
      /\ \A s \in Syncs : Target[s] = c => work[s] = {}
  BY DEF DeleteConnection, syncVars, walkVars
<1>2. ~Exists(c)' /\ \A d \in Connections \ {c} : Exists(d)' = Exists(d)
  BY DEF DeleteConnection, Exists, TreeInv, TypeInv, TypeOK
<1>3. \A s \in Syncs : \A r \in work[s] : r.conn # c
  BY <1>1 DEF TreeInv, Origins
<1>4. catalog' \subseteq catalog
  BY <1>1
<1>5. Origins'
  <2>1. \A r \in catalog' : r.conn = Target[r.by] /\ Exists(r.conn)'
    BY <1>1, <1>2 DEF TreeInv, Origins, TypeInv, TypeOK, Row
  <2>2. ASSUME NEW s \in Syncs, NEW r \in work[s]
        PROVE  /\ r.conn = Target[r.by] /\ r.conn = Target[s] /\ Exists(r.conn)'
               /\ r.by = s \/ \E q \in catalog' : SameRow(q, r)
    <3>1. /\ r.conn = Target[r.by] /\ r.conn = Target[s] /\ Exists(r.conn)
          /\ r.by = s \/ \E q \in catalog : SameRow(q, r)
      BY DEF TreeInv, Origins
    <3>2. \A q \in catalog : SameRow(q, r) => q \in catalog'
      BY <1>1, <1>3, <3>1 DEF SameRow, TreeInv, Origins
    <3> QED
      BY <1>0, <1>2, <1>3, <3>1, <3>2
  <2> QED
    BY <1>1, <2>1, <2>2 DEF Origins, SameRow
<1>6. Keys'
  BY <1>1, <1>4 DEF TreeInv, Keys, SameKey, SameRow
<1>7. ASSUME NEW d \in Connections \ {c}, NEW x, NEW rows, Placed(d, x, catalog \cup rows)
      PROVE  Placed(d, x, catalog' \cup rows)
  BY <1>1, <1>7 DEF Placed
<1>8. ASSUME NEW s \in Syncs, Target[s] # c, NEW x, Placed(Target[s], x, Seen(s))
      PROVE  Placed(Target[s], x, Seen(s)')
  <2>1. Seen(s) = catalog \cup work[s] /\ Seen(s)' = catalog' \cup work[s]
    BY <1>1 DEF Seen
  <2>2. Target[s] \in Connections \ {c} /\ Placed(Target[s], x, catalog \cup work[s])
    BY <1>0, <1>8, <2>1
  <2>3. Placed(Target[s], x, catalog' \cup work[s])
    BY <1>7, <2>2
  <2> QED
    BY <2>1, <2>3
<1>9. Tree'
  <2>1. ASSUME NEW r \in catalog' PROVE Placed(r.conn, r, catalog')
    <3>1. r \in catalog /\ r.conn \in Connections \ {c}
      BY <1>1 DEF TreeInv, TypeInv, TypeOK, Row
    <3>2. Placed(r.conn, r, catalog)
      BY <3>1 DEF TreeInv, Tree
    <3> QED
      BY <1>1, <3>1, <3>2 DEF Placed
  <2>2. \A s \in Syncs : \A r \in work[s] : Placed(Target[s], r, Seen(s)')
    BY <1>1, <1>8 DEF TreeInv, Tree
  <2> QED
    BY <1>1, <2>1, <2>2 DEF Tree, Placed
<1>10. Visits'
  <2>1. ASSUME NEW s \in Syncs, Walking(s)', Exists(Target[s])'
        PROVE  \A i \in DOMAIN agenda[s] : Placed(Target[s], agenda[s][i], Seen(s)')
    <3>1. Target[s] # c /\ Exists(Target[s]) /\ Walking(s)
      BY <1>0, <1>1, <1>2, <2>1 DEF Walking
    <3>2. \A i \in DOMAIN agenda[s] : Placed(Target[s], agenda[s][i], Seen(s))
      BY <3>1 DEF TreeInv, Visits
    <3> QED
      BY <1>8, <3>1, <3>2
  <2> QED
    BY <1>1, <2>1 DEF Visits, Placed
<1>11. Drafts'
  <2>1. ASSUME NEW s \in Syncs, pc'[s] = "writing", Exists(Target[s])'
        PROVE  Writable(s, draft[s])'
    <3>1. Target[s] # c /\ Writable(s, draft[s])
      BY <1>0, <1>1, <1>2, <2>1 DEF TreeInv, Drafts
    <3>2. Placed(Target[s], draft[s], Seen(s)')
      BY <1>8, <3>1 DEF Writable
    <3>3. \A q \in catalog : SameRow(q, draft[s]) => q \in catalog'
      BY <1>1, <3>1 DEF SameRow, Writable, TreeInv, Origins
    <3>4. work'[s] = work[s] /\ draft'[s] = draft[s]
      BY <1>1
    <3> QED
      BY <3>1, <3>2, <3>3, <3>4 DEF Writable, Placed, SameKey, SameRow
  <2> QED
    BY <2>1 DEF Drafts
<1> QED
  BY <1>5, <1>6, <1>9, <1>10, <1>11 DEF TreeInv

LEMMA TreeInvInductive == TreeInv /\ [Next]_vars => TreeInv'
<1> SUFFICES ASSUME TreeInv, [Next]_vars PROVE TreeInv'
  OBVIOUS
<1>1. TypeInv' /\ Structured' /\ Created'
  BY TypeInvInductive, StructuredInductive, CreatedInductive DEF TreeInv
<1> QED
  BY <1>1, Actions, TreeConnections, TreeDelete, TreeAlterCrash, TreeSync,
     TreeWrite, TreeCommit

LEMMA TreeInvInit == Init => TreeInv
<1>1. Init => Structured /\ Created /\ Origins /\ Keys /\ Tree /\ Visits /\ Drafts
  BY DEF Init, Structured, Created, Origins, Keys, Tree, Visits, Drafts,
         Exists, Walking
<1> QED
  BY <1>1, TypeInvInit DEF TreeInv

\* The catalogue of every connection is a tree, for any customer databases and
\* any number of syncs, owners, deletions and crashes that overlap.
THEOREM CatalogueStaysATree == Spec => []CatalogueIsATree
<1>1. TreeInv => CatalogueIsATree
  <2> SUFFICES ASSUME TreeInv, NEW r \in catalog
               PROVE  /\ Exists(r.conn)
                      /\ IF r.under = NoSync THEN Contains(Top, r.object)
                         ELSE \E q \in catalog : /\ q.conn = r.conn
                                                 /\ q.by = r.under
                                                 /\ Contains(q.object, r.object)
                      /\ \A q \in catalog : SameKey(q, r) => q = r
    BY DEF CatalogueIsATree
  <2>1. Placed(r.conn, r, catalog)
    BY DEF TreeInv, Tree
  <2>2. \A q \in catalog : q.by # NoSync
    BY SyncAssumption DEF SyncAssumption, TreeInv, TypeInv, TypeOK, Row
  <2> QED
    BY <2>1, <2>2 DEF Placed, TreeInv, Origins, Keys
<1> QED
  BY <1>1, TreeInvInit, TreeInvInductive, PTL DEF Spec

----------------------------------------------------------------------------
(* What a walk leaves in the catalogue.                                    *)

\* Visiting the first object leads to a visit of the other: it is the same, or
\* is listed inside it or inside something it lists.
Leads(p, o) ==
    \/ p = o
    \/ Contains(p, o)
    \/ \E q \in Objects : Contains(p, q) /\ Contains(q, o)

HasRow(s, o) == \E r \in Seen(s) : r.conn = Target[s] /\ r.object = o

ToVisit(s, o) == \E i \in DOMAIN agenda[s] : Leads(agenda[s][i].object, o)

\* While a sync walks, an object its database held all the while has a row or
\* is still to be visited, and what it visited, drafted or wrote was there at
\* some moment.
Walk(s) ==
    /\ kept[s] \subseteq Held(live[source[s]])
    /\ Held(live[source[s]]) \subseteq ever[s]
    /\ \A i \in DOMAIN agenda[s] : agenda[s][i].object \in ever[s]
    /\ \A r \in work[s] : r.object \in ever[s]
    /\ Exists(Target[s]) => \A o \in kept[s] : HasRow(s, o) \/ ToVisit(s, o)

DraftedVisit(s) ==
    /\ draft[s].object = Head(agenda[s]).object
    /\ draft[s].conn = Target[s]

WalkOrNone(s) ==
    /\ ~Walking(s) => work[s] = {}
    /\ pc[s] = "writing" => DraftedVisit(s)
    /\ Walking(s) => Walk(s)

WalkInv == TreeInv /\ \A s \in Syncs : WalkOrNone(s)

\* Where an object is listed it is listed wherever it is held.
LEMMA OnePlace ==
    ASSUME NEW d \in Databases, NEW st \in Structures[d],
           NEW p \in Objects \cup {Top}, NEW o \in Held(st), Contains(p, o)
    PROVE  o \in Members(st.inside[p])
<1>1. st \in Structure
  BY SyncAssumption DEF SyncAssumption
<1>2. PICK a \in Objects \cup {Top} : o \in Members(st.inside[a])
  BY <1>1 DEF Held, Structure
<1>3. PICK i \in DOMAIN st.inside[a] : st.inside[a][i] = o
  BY <1>2 DEF Members
<1>4. PICK e \in Databases : \E su \in Structures[e] : o \in Members(su.inside[p])
  BY DEF Contains
<1>5. PICK su \in Structures[e] : o \in Members(su.inside[p])
  BY <1>4
<1>6. PICK j \in DOMAIN su.inside[p] : su.inside[p][j] = o
  BY <1>5 DEF Members
<1>7. a = p
  BY <1>3, <1>6, PlaceAssumption DEF PlaceAssumption
<1> QED
  BY <1>2, <1>7

\* What holds an object is held itself.
LEMMA ParentsHeld ==
    ASSUME NEW d \in Databases, NEW st \in Structures[d],
           NEW p \in Objects, NEW o \in Held(st), Contains(p, o)
    PROVE  p \in Held(st)
<1>1. st \in Structure /\ Top \notin Objects
  BY SyncAssumption DEF SyncAssumption
<1>2. ASSUME NEW a \in Objects \cup {Top}
      PROVE  Members(st.inside[a]) \subseteq Held(st) \cap Objects
  <2>1. Members(st.inside[a]) \subseteq Held(st)
    BY <1>1 DEF Held, Structure
  <2> QED
    BY <1>1, <2>1, HeldObjects
<1>3. ASSUME NEW a \in Objects \cup {Top}, o \in Members(st.inside[a])
      PROVE  a = p
  <2>1. PICK i \in DOMAIN st.inside[a] : st.inside[a][i] = o
    BY <1>3 DEF Members
  <2>2. o \in Members(st.inside[p])
    BY OnePlace
  <2>3. PICK j \in DOMAIN st.inside[p] : st.inside[p][j] = o
    BY <2>2 DEF Members
  <2> QED
    BY <2>1, <2>3, PlaceAssumption DEF PlaceAssumption
<1>4. o \notin Members(st.inside[Top])
  BY <1>1, <1>3
<1>5. PICK q \in Members(st.inside[Top]) :
          \/ o \in Members(st.inside[q])
          \/ \E r \in Members(st.inside[q]) : o \in Members(st.inside[r])
  BY <1>4, DepthAssumption DEF DepthAssumption
<1>6. q \in Held(st) \cap Objects
  BY <1>2
<1>7. CASE o \in Members(st.inside[q])
  BY <1>3, <1>6, <1>7
<1>8. ASSUME NEW r \in Members(st.inside[q]), o \in Members(st.inside[r])
      PROVE  p \in Held(st)
  <2>1. r \in Held(st) \cap Objects
    BY <1>2, <1>6
  <2> QED
    BY <1>3, <1>8, <2>1
<1> QED
  BY <1>5, <1>7, <1>8

\* From an object that leads to a held one a visit goes on towards it.
LEMMA LeadsOn ==
    ASSUME NEW d \in Databases, NEW st \in Structures[d],
           NEW p \in Objects, NEW o \in Held(st), Leads(p, o), p # o
    PROVE  \E i \in DOMAIN st.inside[p] : Leads(st.inside[p][i], o)
<1>1. CASE Contains(p, o)
  <2>1. o \in Members(st.inside[p])
    BY <1>1, OnePlace
  <2> QED
    BY <2>1 DEF Members, Leads
<1>2. ASSUME NEW q \in Objects, Contains(p, q), Contains(q, o)
      PROVE  \E i \in DOMAIN st.inside[p] : Leads(st.inside[p][i], o)
  <2>1. q \in Held(st)
    BY <1>2, ParentsHeld
  <2>2. q \in Members(st.inside[p])
    BY <1>2, <2>1, OnePlace
  <2> QED
    BY <1>2, <2>2 DEF Members, Leads
<1> QED
  BY <1>1, <1>2 DEF Leads

\* And to every held object something at the top leads.
LEMMA LedFromTop ==
    ASSUME NEW d \in Databases, NEW st \in Structures[d], NEW o \in Held(st)
    PROVE  \E i \in DOMAIN st.inside[Top] : Leads(st.inside[Top][i], o)
<1>1. st \in Structure
  BY SyncAssumption DEF SyncAssumption
<1>2. \A a, b : b \in Members(st.inside[a]) => Contains(a, b)
  BY DEF Contains
<1>3. ASSUME NEW a \in Objects \cup {Top}
      PROVE  Members(st.inside[a]) \subseteq Objects
  <2>1. Members(st.inside[a]) \subseteq Held(st)
    BY <1>1 DEF Held, Structure
  <2> QED
    BY <1>1, <2>1, HeldObjects
<1>4. PICK p \in Members(st.inside[Top]) : Leads(p, o)
  <2>1. CASE o \in Members(st.inside[Top])
    BY <2>1 DEF Leads
  <2>2. ASSUME NEW p \in Members(st.inside[Top]), o \in Members(st.inside[p])
        PROVE  Leads(p, o)
    BY <1>2, <2>2 DEF Leads
  <2>3. ASSUME NEW p \in Members(st.inside[Top]), NEW q \in Members(st.inside[p]),
               o \in Members(st.inside[q])
        PROVE  Leads(p, o)
    <3>1. q \in Objects
      BY <1>3
    <3> QED
      BY <1>2, <2>3, <3>1 DEF Leads
  <2> QED
    BY <2>1, <2>2, <2>3, DepthAssumption DEF DepthAssumption
<1> QED
  BY <1>4 DEF Members

\* The database a sync walks, as it is at the moment.
LEMMA Walked ==
    ASSUME TreeInv, NEW s \in Syncs
    PROVE  /\ source[s] \in Databases
           /\ live[source[s]] \in Structures[source[s]]
           /\ live[source[s]] \in Structure
           /\ Target[s] \in Connections
  BY SyncAssumption DEF SyncAssumption, TreeInv, TypeInv, TypeOK, Structured

\* The inspector lists what is held.
LEMMA ListedHeld ==
    ASSUME TreeInv, NEW s \in Syncs, NEW o \in Objects \cup {Top}, NEW b
    PROVE  \A i \in DOMAIN Listed(s, o, b) :
              /\ Listed(s, o, b)[i].object = live[source[s]].inside[o][i]
              /\ Listed(s, o, b)[i].object \in Held(live[source[s]])
<1> DEFINE st == live[source[s]]
<1>1. st \in Structure
  BY Walked
<1>2. \A i \in DOMAIN st.inside[o] : st.inside[o][i] \in Held(st)
  BY <1>1 DEF Held, Members, Structure
<1>3. \A i \in DOMAIN Listed(s, o, b) :
          i \in DOMAIN st.inside[o] /\ Listed(s, o, b)[i].object = st.inside[o][i]
  BY DEF Listed
<1> QED
  BY <1>2, <1>3

\* A visit is done and its object has a row: what was listed is held, and what
\* was to be visited still is, but for that object.
LEMMA DescendLeads ==
    ASSUME TreeInv, NEW s \in Syncs, agenda[s] # <<>>, NEW row \in Row,
           Descend(s, row), row.object = Head(agenda[s]).object
    PROVE  /\ \A i \in DOMAIN agenda'[s] :
                 \/ agenda'[s][i].object \in Held(live[source[s]])
                 \/ \E j \in DOMAIN agenda[s] : agenda'[s][i] = agenda[s][j]
           /\ \A o \in Held(live[source[s]]) :
                 ToVisit(s, o) =>
                     \/ o = row.object
                     \/ \E i \in DOMAIN agenda'[s] :
                           Leads(agenda'[s][i].object, o)
           /\ \A o \in Syncs \ {s} : agenda'[o] = agenda[o]
<1> DEFINE st == live[source[s]]
           new == Listed(s, row.object, row.by)
           rest == Tail(agenda[s])
<1>0. agenda \in [Syncs -> Seq(Visit)] /\ TypeOK
  BY DEF TreeInv, TypeInv, TypeOK
<1>1. new \in Seq(Visit) /\ agenda[s] \in Seq(Visit) /\ rest \in Seq(Visit)
  <2>1. new \in Seq(Visit)
    BY <1>0, ListedVisits DEF Row
  <2> QED
    BY <1>0, <2>1
<1> DEFINE next == new \o rest
<1>2. /\ agenda'[s] = next
      /\ \A o \in Syncs \ {s} : agenda'[o] = agenda[o]
  BY <1>0 DEF Descend
<1>3. /\ row.object \in Objects
      /\ \A i \in DOMAIN new : /\ new[i].object \in Held(st)
                               /\ new[i].object = st.inside[row.object][i]
      /\ DOMAIN new = DOMAIN st.inside[row.object]
  BY ListedHeld DEF Row, Listed
<1>4. /\ \A i \in DOMAIN rest : \E j \in DOMAIN agenda[s] :
            rest[i] = agenda[s][j]
      /\ \A j \in DOMAIN agenda[s] :
            \/ agenda[s][j] = Head(agenda[s])
            \/ \E i \in DOMAIN rest : rest[i] = agenda[s][j]
  <2>1. \A i \in DOMAIN rest : /\ i + 1 \in DOMAIN agenda[s]
                              /\ rest[i] = agenda[s][i + 1]
    BY <1>1
  <2>2. \A j \in DOMAIN agenda[s] : \/ j = 1
                                   \/ /\ j - 1 \in DOMAIN rest
                                      /\ rest[j - 1] = agenda[s][j]
    BY <1>1
  <2>3. Head(agenda[s]) = agenda[s][1]
    BY <1>1
  <2> QED
    BY <2>1, <2>2, <2>3
<1> HIDE DEF new, rest
<1>5. /\ \A i \in DOMAIN next :
            \/ i \in DOMAIN new /\ next[i] = new[i]
            \/ \E j \in DOMAIN rest : next[i] = rest[j]
      /\ \A i \in DOMAIN new : i \in DOMAIN next /\ next[i] = new[i]
      /\ \A j \in DOMAIN rest : \E i \in DOMAIN next : next[i] = rest[j]
  <2>1. \A i \in DOMAIN next :
            \/ i \in DOMAIN new /\ next[i] = new[i]
            \/ i - Len(new) \in DOMAIN rest /\ next[i] = rest[i - Len(new)]
    BY <1>1
  <2>2. \A i \in DOMAIN new : i \in DOMAIN next /\ next[i] = new[i]
    BY <1>1
  <2>3. \A j \in DOMAIN rest : /\ j + Len(new) \in DOMAIN next
                              /\ next[j + Len(new)] = rest[j]
    BY <1>1
  <2> HIDE DEF next
  <2> QED
    BY <2>1, <2>2, <2>3
<1> HIDE DEF next
<1>6. \A i \in DOMAIN agenda'[s] :
          \/ agenda'[s][i].object \in Held(st)
          \/ \E j \in DOMAIN agenda[s] : agenda'[s][i] = agenda[s][j]
  <2>1. ASSUME NEW i \in DOMAIN new, next[i] = new[i]
        PROVE  next[i].object \in Held(st)
    BY <1>3, <2>1
  <2>2. ASSUME NEW i \in DOMAIN next
        PROVE  \/ next[i].object \in Held(st)
               \/ \E j \in DOMAIN agenda[s] : next[i] = agenda[s][j]
    BY <1>4, <1>5, <2>1
  <2> QED
    BY <1>2, <2>2
<1>7. ASSUME NEW o \in Held(st), NEW j \in DOMAIN agenda[s],
             Leads(agenda[s][j].object, o), o # row.object
      PROVE  \E i \in DOMAIN agenda'[s] : Leads(agenda'[s][i].object, o)
  <2>1. CASE agenda[s][j] = Head(agenda[s])
    <3>1. Leads(row.object, o)
      BY <1>7, <2>1
    <3>2. PICK i \in DOMAIN st.inside[row.object] :
              Leads(st.inside[row.object][i], o)
      BY <1>3, <1>7, <3>1, LeadsOn, Walked
    <3>3. i \in DOMAIN new /\ Leads(new[i].object, o)
      BY <1>3, <3>2
    <3> QED
      BY <1>2, <1>5, <3>3
  <2>2. CASE \E i \in DOMAIN rest : rest[i] = agenda[s][j]
    BY <1>2, <1>5, <1>7, <2>2
  <2> QED
    BY <1>4, <2>1, <2>2
<1>8. \A o \in Held(st) : ToVisit(s, o) =>
          \/ o = row.object
          \/ \E i \in DOMAIN agenda'[s] : Leads(agenda'[s][i].object, o)
  BY <1>7 DEF ToVisit
<1> QED
  BY <1>2, <1>6, <1>8

\* A walk that no step of its own or of its database's owner touches goes on,
\* as long as the objects of its connection keep a row.
LEMMA WalkGoesOn ==
    ASSUME TreeInv, NEW s \in Syncs, WalkOrNone(s),
           pc'[s] = pc[s], agenda'[s] = agenda[s], draft'[s] = draft[s],
           work'[s] = work[s], kept'[s] = kept[s], ever'[s] = ever[s],
           source'[s] = source[s], live' = live,
           Walking(s) /\ Exists(Target[s])' =>
               /\ Exists(Target[s])
               /\ \A r \in catalog : r.conn = Target[s] =>
                     \E q \in catalog' : q.conn = r.conn /\ q.object = r.object
    PROVE  WalkOrNone(s)'
<1>1. Walking(s)' = Walking(s)
  BY DEF Walking
<1>2. ASSUME Walking(s) PROVE Walk(s)'
  <2>1. /\ kept'[s] \subseteq Held(live'[source'[s]])
        /\ Held(live'[source'[s]]) \subseteq ever'[s]
        /\ \A i \in DOMAIN agenda'[s] : agenda'[s][i].object \in ever'[s]
        /\ \A r \in work'[s] : r.object \in ever'[s]
    BY <1>2 DEF WalkOrNone, Walk
  <2>2. ASSUME Exists(Target[s])', NEW o \in kept[s]
        PROVE  HasRow(s, o)' \/ ToVisit(s, o)'
    <3>1. HasRow(s, o) \/ ToVisit(s, o)
      BY <1>2, <2>2 DEF WalkOrNone, Walk
    <3>2. HasRow(s, o) => HasRow(s, o)'
      BY <1>2, <2>2 DEF HasRow, Seen
    <3>3. ToVisit(s, o) => ToVisit(s, o)'
      BY DEF ToVisit, Leads, Contains
    <3> QED
      BY <3>1, <3>2, <3>3
  <2> QED
    BY <2>1, <2>2 DEF Walk
<1> QED
  BY <1>1, <1>2 DEF WalkOrNone, DraftedVisit

LEMMA WalkConnections ==
    ASSUME WalkInv, NEW c \in Connections,
           \/ CheckName(c) \/ InsertConnection(c)
           \/ \E name \in Names, database \in Databases :
                 UpdateConnection(c, name, database)
           \/ TestAndUpdate(c)
    PROVE  \A s \in Syncs : WalkOrNone(s)'
<1> SUFFICES ASSUME NEW s \in Syncs PROVE WalkOrNone(s)'
  OBVIOUS
<1>1. UNCHANGED <<live, syncVars, catalog>>
  BY ConnectionKeepsSyncs, ConnectionsStay DEF WalkInv, TreeInv
<1>2. Walking(s) /\ Exists(Target[s])' => Exists(Target[s])
  <2>1. Target[s] \in Connections
    BY SyncAssumption DEF SyncAssumption
  <2>2. Walking(s) => creating[Target[s]] = "over"
    BY DEF Walking, WalkInv, TreeInv, Created
  <2> QED
    BY <2>1, <2>2, ConnectionsStay DEF InsertConnection, WalkInv, TreeInv
<1> QED
  BY <1>1, <1>2, WalkGoesOn DEF WalkInv, syncVars, walkVars, history

LEMMA WalkDelete ==
    ASSUME WalkInv, NEW c \in Connections, DeleteConnection(c)
    PROVE  \A s \in Syncs : WalkOrNone(s)'
<1> SUFFICES ASSUME NEW s \in Syncs PROVE WalkOrNone(s)'
  OBVIOUS
<1>1. /\ catalog' = {r \in catalog : r.conn # c}
      /\ UNCHANGED <<live, syncVars>>
  BY DEF DeleteConnection
<1>2. Target[s] \in Connections
  BY SyncAssumption DEF SyncAssumption
<1>3. Exists(Target[s])' => Target[s] # c /\ Exists(Target[s])
  BY <1>2 DEF DeleteConnection, Exists, WalkInv, TreeInv, TypeInv, TypeOK
<1> QED
  BY <1>1, <1>3, WalkGoesOn DEF WalkInv, syncVars, walkVars, history

LEMMA WalkCrash ==
    ASSUME WalkInv, Crash
    PROVE  \A s \in Syncs : WalkOrNone(s)'
  BY DEF Crash, UnderWay, WalkOrNone, Walking, WalkInv, TreeInv, TypeInv,
         TypeOK

\* What the owner drops is no longer held all the while.
LEMMA WalkAlter ==
    ASSUME WalkInv, NEW d \in Databases, Alter(d)
    PROVE  \A s \in Syncs : WalkOrNone(s)'
<1> SUFFICES ASSUME NEW s \in Syncs PROVE WalkOrNone(s)'
  OBVIOUS
<1>1. /\ UNCHANGED <<conn, catalog, pc, source, agenda, draft, work>>
      /\ \A e \in Databases \ {d} : live'[e] = live[e]
      /\ kept'[s] = IF Walking(s) /\ source[s] = d
                    THEN kept[s] \cap Held(live'[d]) ELSE kept[s]
      /\ ever'[s] = IF Walking(s) /\ source[s] = d
                    THEN ever[s] \cup Held(live'[d]) ELSE ever[s]
  BY DEF Alter, walkVars, WalkInv, TreeInv, TypeInv, TypeOK
<1>2. Walking(s)' = Walking(s) /\ source[s] \in Databases
  BY <1>1, Walked DEF Walking, WalkInv
<1>3. ASSUME Walking(s) PROVE Walk(s)'
  <2>1. Walk(s)
    BY <1>3 DEF WalkInv, WalkOrNone
  <2>2. /\ kept'[s] \subseteq kept[s] /\ ever[s] \subseteq ever'[s]
        /\ kept'[s] \subseteq Held(live'[source[s]])
        /\ Held(live'[source[s]]) \subseteq ever'[s]
    BY <1>1, <1>2, <1>3, <2>1 DEF Walk
  <2>3. \A o : /\ HasRow(s, o)' = HasRow(s, o)
               /\ ToVisit(s, o)' = ToVisit(s, o)
    BY <1>1 DEF HasRow, Seen, ToVisit, Leads, Contains
  <2> QED
    BY <1>1, <2>1, <2>2, <2>3 DEF Walk, Exists
<1> QED
  BY <1>1, <1>2, <1>3 DEF WalkInv, WalkOrNone, DraftedVisit

\* A step of another sync: what it commits keeps a row for every object.
LEMMA WalkOfOthers ==
    ASSUME WalkInv, NEW s \in Syncs,
           \/ Select(s) \/ MarkSyncing(s) \/ Inspect(s) \/ LookUp(s)
           \/ Write(s) \/ DiscoveryFails(s) \/ CommitSync(s)
           \/ RecordFailure(s) \/ HandlerFails(s)
    PROVE  \A o \in Syncs \ {s} : WalkOrNone(o)'
<1> SUFFICES ASSUME NEW o \in Syncs \ {s} PROVE WalkOrNone(o)'
  OBVIOUS
<1>1. /\ pc'[o] = pc[o] /\ agenda'[o] = agenda[o] /\ draft'[o] = draft[o]
      /\ work'[o] = work[o] /\ kept'[o] = kept[o] /\ ever'[o] = ever[o]
      /\ source'[o] = source[o] /\ live' = live
  BY DEF Select, MarkSyncing, Inspect, LookUp, Draft, Write, Descend,
         DiscoveryFails, RollBack, CommitSync, RecordFailure, HandlerFails,
         Goto, Forget,
         walkVars, history, WalkInv, TreeInv, TypeInv, TypeOK
<1>2. Exists(Target[o])' = Exists(Target[o])
  <2>1. Target[o] \in Connections /\ Target[s] \in Connections
    BY SyncAssumption DEF SyncAssumption
  <2> QED
    BY <2>1, SyncSetsStatus, SetSyncTypes
    DEF WalkInv, TreeInv, TypeInv, TypeOK, Exists
<1>3. \A r \in catalog : \E q \in catalog' :
          q.conn = r.conn /\ q.object = r.object
  <2>1. catalog' = catalog \/ catalog' = View(s)
    BY DEF Select, MarkSyncing, Inspect, LookUp, Draft, Write,
           DiscoveryFails, RollBack, CommitSync, RecordFailure, HandlerFails
  <2>2. \A r \in catalog : \E q \in View(s) :
            q.conn = r.conn /\ q.object = r.object
    BY ViewIsSeen DEF WalkInv, Seen, SameRow
  <2> QED
    BY <2>1, <2>2
<1> QED
  BY <1>1, <1>2, <1>3, WalkGoesOn DEF WalkInv

\* A visit is done with a row of its object: the walk goes on.
LEMMA WalkDescends ==
    ASSUME WalkInv, NEW s \in Syncs, Walking(s), agenda[s] # <<>>,
           NEW row \in Row, Descend(s, row),
           row.object = Head(agenda[s]).object, row.conn = Target[s],
           pc'[s] = "looking",
           UNCHANGED <<conn, catalog, live, source, kept, ever>>,
           \/ row \in View(s) /\ work'[s] = work[s]
           \/ work'[s] = {r \in work[s] : ~SameRow(r, row)} \cup {row}
    PROVE  WalkOrNone(s)'
<1>0. Walk(s) /\ agenda[s] \in Seq(Visit)
  BY DEF WalkInv, WalkOrNone, TreeInv, TypeInv, TypeOK
<1>1. Head(agenda[s]) = agenda[s][1] /\ 1 \in DOMAIN agenda[s]
  BY <1>0
<1>2. row.object \in ever[s]
  BY <1>0, <1>1 DEF Walk
<1>3. \A i \in DOMAIN agenda'[s] : agenda'[s][i].object \in ever[s]
  <2>1. \A i \in DOMAIN agenda'[s] :
            \/ agenda'[s][i].object \in Held(live[source[s]])
            \/ \E j \in DOMAIN agenda[s] : agenda'[s][i] = agenda[s][j]
    BY DescendLeads DEF WalkInv
  <2> QED
    BY <1>0, <2>1 DEF Walk
<1>4. \A r \in work'[s] : r.object \in ever[s]
  BY <1>0, <1>2 DEF Walk
<1>5. \A r \in Seen(s) : r.conn = Target[r.by]
  BY DEF Seen, WalkInv, TreeInv, Origins
<1>6. row \in Seen(s)'
  <2>1. row \in View(s) => row \in Seen(s)
    BY DEF View, Seen
  <2> QED
    BY <2>1 DEF Seen
<1>7. ASSUME NEW o, HasRow(s, o) PROVE HasRow(s, o)'
  <2>1. PICK r \in Seen(s) : r.conn = Target[s] /\ r.object = o
    BY <1>7 DEF HasRow
  <2>2. CASE r \in Seen(s)'
    BY <2>1, <2>2 DEF HasRow
  <2>3. CASE r \notin Seen(s)'
    <3>1. SameRow(r, row)
      BY <2>3 DEF Seen
    <3> QED
      BY <1>6, <2>1, <3>1 DEF HasRow, SameRow
  <2> QED
    BY <2>2, <2>3
<1>8. HasRow(s, row.object)'
  BY <1>6 DEF HasRow
<1>9. ASSUME NEW o \in kept[s], ToVisit(s, o)
      PROVE  HasRow(s, o)' \/ ToVisit(s, o)'
  <2>1. o \in Held(live[source[s]])
    BY <1>0 DEF Walk
  <2>2. \/ o = row.object
        \/ \E i \in DOMAIN agenda'[s] : Leads(agenda'[s][i].object, o)
    BY <1>9, <2>1, DescendLeads DEF WalkInv
  <2> QED
    BY <1>8, <2>2 DEF ToVisit, Leads, Contains
<1>10. Walk(s)'
  <2>1. Exists(Target[s])' => \A o \in kept'[s] : HasRow(s, o)' \/ ToVisit(s, o)'
    BY <1>0, <1>7, <1>9 DEF Walk, Exists
  <2> QED
    BY <1>0, <1>3, <1>4, <2>1 DEF Walk
<1> QED
  BY <1>10 DEF WalkOrNone, Walking

LEMMA WalkRollBack ==
    ASSUME WalkInv, NEW s \in Syncs, RollBack(s)
    PROVE  WalkOrNone(s)'
  BY DEF RollBack, Goto, WalkOrNone, Walking, WalkInv, TreeInv, TypeInv, TypeOK

\* The walk begins: whatever is held, something at the top leads to it.
LEMMA WalkInspect ==
    ASSUME WalkInv, NEW s \in Syncs, Inspect(s)
    PROVE  WalkOrNone(s)'
<1> DEFINE st == live[source[s]]
<1>1. /\ UNCHANGED <<conn, catalog, live, source, work>>
      /\ pc'[s] = "looking" /\ pc[s] = "marked"
      /\ agenda'[s] = Listed(s, Top, NoSync)
      /\ kept'[s] = Held(st) /\ ever'[s] = Held(st)
  BY DEF Inspect, Goto, WalkInv, TreeInv, TypeInv, TypeOK
<1>2. work'[s] = {}
  BY <1>1 DEF WalkInv, WalkOrNone, Walking
<1>3. \A i \in DOMAIN agenda'[s] :
          /\ agenda'[s][i].object = st.inside[Top][i]
          /\ agenda'[s][i].object \in Held(st)
  BY <1>1, ListedHeld DEF WalkInv
<1>4. ASSUME NEW o \in Held(st) PROVE ToVisit(s, o)'
  <2>1. PICK i \in DOMAIN st.inside[Top] : Leads(st.inside[Top][i], o)
    BY LedFromTop, Walked DEF WalkInv
  <2>2. i \in DOMAIN agenda'[s] /\ Leads(agenda'[s][i].object, o)
    BY <1>1, <1>3, <2>1 DEF Listed
  <2> QED
    BY <2>2 DEF ToVisit, Leads, Contains
<1>5. Walk(s)'
  BY <1>1, <1>2, <1>3, <1>4 DEF Walk
<1> QED
  BY <1>1, <1>5 DEF WalkOrNone, Walking

LEMMA WalkLookUp ==
    ASSUME WalkInv, NEW s \in Syncs, LookUp(s)
    PROVE  WalkOrNone(s)'
<1> DEFINE visit == Head(agenda[s])
           rows == Matching(s, visit)
<1>1. /\ pc[s] = "looking" /\ agenda[s] # <<>> /\ Walking(s) /\ Walk(s)
      /\ agenda[s] \in Seq(Visit)
  BY DEF LookUp, Walking, WalkInv, WalkOrNone, TreeInv, TypeInv, TypeOK
<1>2. \A row \in rows : /\ row \in View(s) /\ row \in Row
                        /\ row.conn = Target[s] /\ row.object = visit.object
  BY DEF Matching, View, WalkInv, TreeInv, TypeInv, TypeOK
<1>3. ASSUME NEW row, Draft(s, row), row.object = visit.object,
             row.conn = Target[s]
      PROVE  WalkOrNone(s)'
  <2>1. /\ UNCHANGED <<conn, catalog, live, source, agenda, work, kept, ever>>
        /\ draft'[s] = row /\ pc'[s] = "writing"
    BY <1>3 DEF Draft, Goto, history, WalkInv, TreeInv, TypeInv, TypeOK
  <2>2. Walk(s)'
    BY <1>1, <2>1
    DEF Walk, HasRow, Seen, ToVisit, Leads, Contains, Exists
  <2> QED
    BY <1>3, <2>1, <2>2 DEF WalkOrNone, DraftedVisit, Walking
<1>4. /\ NewRow(s, visit).object = visit.object
      /\ NewRow(s, visit).conn = Target[s]
  BY DEF NewRow
<1>5. \A row \in rows : /\ Refreshed(row, visit).object = visit.object
                        /\ Refreshed(row, visit).conn = Target[s]
  BY <1>2 DEF Refreshed, Row
<1>6. ASSUME NEW row \in rows, Descend(s, row),
             UNCHANGED <<conn, creating, catalog, live, pc, source, draft,
                         work, history, crashes>>
      PROVE  WalkOrNone(s)'
  BY <1>1, <1>2, <1>6, WalkDescends DEF history
<1> QED
  BY <1>3, <1>4, <1>5, <1>6, WalkRollBack DEF LookUp

LEMMA WalkWrite ==
    ASSUME WalkInv, NEW s \in Syncs, Write(s)
    PROVE  WalkOrNone(s)'
<1>1. CASE RollBack(s)
  BY <1>1, WalkRollBack
<1>2. CASE ~Refused(s)
  <2>1. /\ pc[s] = "writing" /\ Walking(s) /\ DraftedVisit(s)
        /\ draft[s] \in Row /\ agenda[s] # <<>>
    BY DEF Write, Walking, WalkInv, WalkOrNone, TreeInv, TypeInv,
           DraftWhenWriting
  <2>2. /\ UNCHANGED <<conn, catalog, live, source, kept, ever>>
        /\ work'[s] = {r \in work[s] : ~SameRow(r, draft[s])} \cup {draft[s]}
        /\ pc'[s] = "looking"
        /\ Descend(s, draft[s])
    BY <1>2 DEF Write, Goto, history, WalkInv, TreeInv, TypeInv, TypeOK
  <2> QED
    BY <2>1, <2>2, WalkDescends DEF DraftedVisit
<1> QED
  BY <1>1, <1>2 DEF Write

LEMMA WalkOfOne ==
    ASSUME WalkInv, NEW s \in Syncs,
           \/ Select(s) \/ MarkSyncing(s) \/ Inspect(s) \/ LookUp(s)
           \/ Write(s) \/ DiscoveryFails(s) \/ CommitSync(s)
           \/ RecordFailure(s) \/ HandlerFails(s)
    PROVE  WalkOrNone(s)'
<1>1. CASE Select(s) \/ MarkSyncing(s) \/ RecordFailure(s) \/ HandlerFails(s)
  BY <1>1 DEF Select, MarkSyncing, RecordFailure, HandlerFails, Goto,
              walkVars, WalkOrNone,
              Walking, WalkInv, TreeInv, TypeInv, TypeOK
<1>2. CASE CommitSync(s)
  <2>1. CASE ~RollBack(s)
    BY <1>2, <2>1 DEF CommitSync, Goto, WalkOrNone, Walking, WalkInv, TreeInv,
                      TypeInv, TypeOK
  <2> QED
    BY <2>1, WalkRollBack
<1>3. CASE DiscoveryFails(s)
  BY <1>3, WalkRollBack DEF DiscoveryFails
<1> QED
  BY <1>1, <1>2, <1>3, WalkInspect, WalkLookUp, WalkWrite

LEMMA WalkInvInductive == WalkInv /\ [Next]_vars => WalkInv'
<1> SUFFICES ASSUME WalkInv, [Next]_vars
             PROVE  \A s \in Syncs : WalkOrNone(s)'
  BY TreeInvInductive DEF WalkInv
<1>1. CASE UNCHANGED vars
  BY <1>1, WalkGoesOn DEF vars, syncVars, walkVars, history, WalkInv, Exists
<1>2. ASSUME NEW s \in Syncs,
             \/ Select(s) \/ MarkSyncing(s) \/ Inspect(s) \/ LookUp(s)
             \/ Write(s) \/ DiscoveryFails(s) \/ CommitSync(s)
             \/ RecordFailure(s) \/ HandlerFails(s)
      PROVE  \A o \in Syncs : WalkOrNone(o)'
  BY <1>2, WalkOfOne, WalkOfOthers
<1> QED
  BY <1>1, <1>2, Actions, WalkConnections, WalkDelete, WalkAlter, WalkCrash

\* A sync that ends as synced has left in the catalogue whatever its database
\* held all the while, and has added nothing that was not there at some moment,
\* for any customer databases, owners, deletions and syncs that overlap.
THEOREM SyncLeavesNothingOut == Spec => SyncedIsComplete
<1> DEFINE Ends(s) == pc[s] = "looking" /\ pc'[s] = "over"
           Complete(s) == /\ kept[s] \subseteq Recorded(Target[s])'
                          /\ Recorded(Target[s])' \ Recorded(Target[s])
                                 \subseteq ever[s]
<1>1. Init => WalkInv
  <2>1. Init => \A s \in Syncs : WalkOrNone(s)
    BY DEF Init, WalkOrNone, Walking
  <2> QED
    BY <2>1, TreeInvInit DEF WalkInv
<1>2. ASSUME WalkInv, [Next]_vars, NEW s \in Syncs, Ends(s)
      PROVE  Complete(s)
  <2>1. CommitSync(s) /\ ~RollBack(s)
    <3>1. ASSUME NEW o \in Syncs,
                 \/ Select(o) \/ MarkSyncing(o) \/ Inspect(o) \/ LookUp(o)
                 \/ Write(o) \/ DiscoveryFails(o) \/ CommitSync(o)
                 \/ RecordFailure(o) \/ HandlerFails(o)
          PROVE  o = s /\ CommitSync(s) /\ ~RollBack(s)
      <4>1. o = s
        BY <1>2, <3>1, SyncMoves DEF WalkInv, TreeInv
      <4>2. ~RollBack(s)
        BY <1>2 DEF RollBack, Goto, WalkInv, TreeInv, TypeInv, TypeOK
      <4> QED
        BY <1>2, <3>1, <4>1, <4>2
        DEF Select, MarkSyncing, Inspect, LookUp, Draft, Write, DiscoveryFails,
            RecordFailure, HandlerFails, Goto, WalkInv, TreeInv, TypeInv, TypeOK
    <3>2. ~Crash /\ pc' # pc
      BY <1>2 DEF Crash, UnderWay, Walking
    <3> QED
      BY <1>2, <3>1, <3>2, Actions, ConnectionKeepsSyncs
      DEF vars, syncVars, Alter
  <2>2. /\ agenda[s] = <<>> /\ Exists(Target[s]) /\ catalog' = View(s)
        /\ Walking(s) /\ Walk(s)
    BY <1>2, <2>1 DEF CommitSync, Walking, WalkInv, WalkOrNone
  <2>3. kept[s] \subseteq Recorded(Target[s])'
    <3>1. ASSUME NEW o \in kept[s] PROVE HasRow(s, o)
      BY <2>2 DEF Walk, ToVisit
    <3>2. ASSUME NEW o, HasRow(s, o) PROVE o \in Recorded(Target[s])'
      <4>1. PICK r \in Seen(s) : r.conn = Target[s] /\ r.object = o
        BY <3>2 DEF HasRow
      <4>2. PICK q \in View(s) : SameRow(q, r) /\ q.conn = r.conn
        BY <1>2, ViewIsSeen DEF WalkInv
      <4>3. q \in catalog' /\ q.conn = Target[s] /\ q.object = o
        BY <2>2, <4>1, <4>2 DEF SameRow
      <4> QED
        BY <4>3 DEF Recorded
    <3> QED
      BY <3>1, <3>2
  <2>4. Recorded(Target[s])' \ Recorded(Target[s]) \subseteq ever[s]
    <3>1. \A r \in View(s) : r \in catalog \/ r \in work[s]
      BY DEF View
    <3>2. \A r \in work[s] : r.object \in ever[s]
      BY <2>2 DEF Walk
    <3> QED
      BY <2>2, <3>1, <3>2 DEF Recorded
  <2> QED
    BY <2>3, <2>4
<1>3. WalkInv /\ [Next]_vars => [\A s \in Syncs : Ends(s) => Complete(s)]_vars
  BY <1>2
<1>4. SyncedIsComplete <=> [][\A s \in Syncs : Ends(s) => Complete(s)]_vars
  BY DEF SyncedIsComplete
<1> HIDE DEF Ends, Complete
<1> QED
  BY <1>1, <1>3, <1>4, WalkInvInductive, PTL DEF Spec
=============================================================================
