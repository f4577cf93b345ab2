# A verification of the text-to-SQL platform

TLA+ models of the platform under `src/`, TLC configurations that check them on
small instances, and proofs that hold for every instance. Every definition is
translated from the code; `PROJECT.json` maps each one to its lines.

## 1. The system

A FastAPI server keeps its state in one PostgreSQL database (the *platform
database*) and one storage directory. Users of a tenant ask questions; the server
lets a language model write SQL, runs it in the tenant's own databases (the
*customer databases*), searches uploaded documents, and lets the model write an
answer.

### 1.1 Components

| component | code | state | operations | modelled in |
|---|---|---|---|---|
| chat turn | `api/routes/chat.py`, `agents/graph.py` | conversations, messages, `query_executions`, citations; the graph's state of the request | send a message: find or create the conversation, insert the question, run the graph, insert answer and records, commit | `ChatTurn`, abstractly `TurnLog` |
| intent and routing | `services/llm/answer_generator.py`, `agents/graph.py` | none | `classify_intent`, the edges of the graph | `Intent` |
| database node | `agents/graph.py` | loop variables, `sql_results` | for each connection: look it up, resolve permissions, generate, validate, execute, append a result | `DatabaseAgent`, abstractly `QueryAgent` |
| permission resolver | `core/permissions.py`, `api/routes/permissions.py` | `table_permissions`, `column_permissions`, the cached catalogue | `get_allowed_schema`, grant, revoke | `Permissions`, `DatabaseAgent` |
| validator | `services/database/query_validator.py` | none | `validate_sql` | `QueryValidator` |
| executor | `services/database/query_executor.py`, `adapters/` | the customer databases | `execute_sql` | `DatabaseAgent` (outcomes) |
| ingestion | `api/routes/files.py`, `services/documents/*` | rows of `files`, rows of `document_chunks`, bytes on disk, tasks in memory | upload, process, reprocess, delete | `Ingestion`, abstractly `FileLife` |
| chunking | `services/documents/chunking_service.py` | none | `chunk_pages` | `Chunking` |
| retrieval | `services/documents/retrieval_service.py` | none | the closest chunks | `ChatTurn` (which chunks exist) |
| connections and schema sync | `services/database/connection_service.py`, `schema_discovery.py` | connections, cached schemas, tables, columns, connection and sync status | create, update, test, delete, sync; look up | `SchemaSync`; lookup and deletion also in `DatabaseAgent`, `ChatTurn` |
| authentication | `api/routes/auth.py`, `app/dependencies.py`, `core/security.py` | tenants, users, roles; tokens with the clients | register, log in, refresh, the context of a request | `Sessions`, abstractly `TenantDirectory` |
| startup | `entrypoint.sh`, `scripts/` | the container's progress; the default tenant | wait for the database, migrate, seed, serve | `Sessions` |
| conversations | `api/routes/conversations.py` | conversations | create, list, delete | creation by a turn and deletion in `ChatTurn` |
| the rest | knowledge bases, encryption, configuration, schemas | — | single inserts, wrappers, wiring | no |

### 1.2 How they interact

* A **request** is one coroutine with one session of the platform database, and
  so one transaction at a time at PostgreSQL's READ COMMITTED: each query sees
  what was committed when it runs. Between two awaits a coroutine is alone; at
  every await any other request may run.
* `send_message` calls the graph in process. The graph's database node calls the
  resolver (several awaited queries), the model (awaited), and then
  `validate_sql` and `execute_sql`, which are **plain calls**: from the model's
  answer to the end of the execution nothing else runs on the event loop.
* What runs in a customer database is not part of the platform's transaction.
* Upload and reprocess answer first and process the file afterwards in a
  background task of the same process; the task is nowhere but in memory.
* A sync walks a customer database that its owner may alter meanwhile, and writes
  the cached catalogue in one transaction of the platform database; its status is
  a commit before and a commit after.
* Tokens are stateless. What they may do is decided by rows read at each call;
  no route suspends or demotes anybody, an operator does so in the database.
* The container runs `wait_for_db`, the migration, the seed of a default tenant
  and the server, one after the other, again at every start.
* Components share rows: permissions are read by the resolver while
  administrators write them; a deletion takes dependent rows along (ON DELETE
  CASCADE) or takes references away (SET NULL).

### 1.3 What is hard, and what makes each part correct

* **Database node.** The resolver reads grants, then the columns of each grant,
  one query after another, and the model answers long afterwards; permissions and
  connections come and go in between. Correct: what runs was allowed at one
  moment; a tenant never reaches another's connection; the result list tells what
  took effect, place by place.
* **Chat turn.** One commit at the very end of a long walk that has effects
  elsewhere. Correct: a turn is all there or not at all; its records agree with
  what ran; no record refers to something gone; selected sources, and only they,
  are asked; a turn ends.
* **Ingestion.** Two tasks may work on one file, which may be deleted under them,
  and bytes, row and chunks change at different moments. The platform database may
  fail where no `try` is around the call, and then the task is lost. Correct: a completed
  file is searchable; a status that promises work has somebody doing it; bytes and
  rows go together; reprocessing never loses what was searchable.
* **Schema sync.** Two syncs of one connection look for the same rows; the
  process dies between the two commits, or the exception handler's own commit
  fails; objects come and go under the walk.
  Correct: the catalogue is a tree with one row for each object; a sync that says
  synced has recorded what was there; the rows that grants refer to stay; the
  status tells the truth; names of connections are unique.
* **Sessions.** Registrations overlap and break off, the seed is repeated; tokens
  outlive what they were issued for. Correct: a code is given once; a
  tenant is whole or absent; a token is earned and a context current; the container
  comes to serve.
* **Chunking.** The next window begins before the end of this one. Correct: the
  loop ends; no character is lost; the windows are those asked for.

The full list, each at its line and with the properties that watch it, is
`hazards` in `PROJECT.json`.

## 2. The modules

```
Permissions   QueryValidator                     Intent
     \            /                                 |
      DatabaseAgent --implements--> QueryAgent --in--> ChatTurn --implements--> TurnLog
        |        \                                    |     \
        |      MCDatabaseAgent                  MCChatTurn  ChatTurnProofs
  DatabaseAgentProofs
     /         \
ResolverProofs  NodePromiseProofs

Ingestion --implements--> FileLife        Sessions --implements--> TenantDirectory
    |                                      /     \
IngestionProofs                        MCSessions  SessionsProofs

      SchemaSync                          Chunking
       /     \                             /    \
MCSchemaSync  SchemaSyncProofs     MCChunking  ChunkingProofs
```

**`Permissions`** – the rules of the resolver as operators over a catalogue of
constants: which tables and grants each query selects, which entry one iteration
computes, and `IsResolution`, the declarative meaning of the function when
nothing changes meanwhile. No route updates a permission or a cached table, so
what a row *says* is a constant and which rows *exist* is an argument. Access,
column and duplicate rules are kept as coded: a grant with any DML flag gives
`read_write`, an administrator without grants gets `read_write` on every enabled
table, a later row of the same table name replaces an earlier one.

**`QueryValidator`** – `validate_sql` on an abstract statement (how it parses,
what it names, which textual rule it trips). The column check is against the
union over all allowed tables, as in the code.

**`DatabaseAgent`** – the node, one action per stretch between two awaits:
`GetConnection`/`ConnectionNotFound`, `ReadTables`/`NoTables`, `ReadGrants`,
`ReadColumns` (one per grant, in any order), `ReadAdminColumns` (one per table),
`SchemaResolved`/`NothingPermitted`, then `ModelDeclines`, `NodeRaises`,
`RejectQuery`, `ExecuteQuery`. Beside it `GrantTablePermission`,
`RevokeTablePermission` and `DeleteConnection`. Two details matter. A revoked
grant's column rows vanish with it, so a grant already read then looks
unrestricted (`ColumnsFound`); the two queries of one iteration are one step, since
a change between them leaves what a change before the first or after the second
would. And when the answer to a customer database's commit
is lost, a change took effect although the result says `failed`
(`CouldTakeEffect`). `seen` is a history variable, used by properties only: the
sets of permissions that existed since the request turned to its connection.

**`QueryAgent`** – what the node promises: one result per connection, in order,
at most one statement for each, a success ran and a rejection did not, and the
walk finishes or is aborted.

**`Intent`** – `classify_intent` on any answer of the model, and the two routing
functions.

**`ChatTurn`** – the request around `QueryAgent`. The variables of the platform
database hold committed rows only; a flushed row is told by `pc`, and the lock it
holds on the conversation by `LockedBy`. The inserts at the end are one action,
`Commit`: each referenced row is locked from its insert to the commit and nothing
is visible before it. `Persistable` is what the flushes ask for: the connections
and chunks referred to still exist, and the rows in a result preview have a JSON
form.

**`TurnLog`** – what the rows show of turns to everybody else, without saying how
one is run: `AnswerTurn` adds question, answer, citations and records at one
instant, at which the conversation and all that is drawn on exist;
`DropConversation` takes messages and citations along and leaves the records;
`DropSource` takes what hangs on a connection or a file. The mapping reads
`answered` off the commits, and `cited` off the citations that still lead to
something, through the audit record for a database.

**`Ingestion`** – a job is one upload or reprocess request with the task it
leaves behind. `loaded` is the status its session read: assigning an equal status
sends no UPDATE, which decides whether a vanished row is noticed. All chunks of a
file are one insert, so `chunked` is a set of files. With `Outages` the platform
database may fail any call by itself. Inside the `try` that leads to the exception
handler, also when only the answer to the commit is lost (`StoreChunks`). At
`files.py:22`, `document_processor.py:22` and in the handler at 63 no `try` is around
the call: the job is *lost* (`TaskBreaksOff`, `CommitUnanswered`), as is one that was
under way in a crash, and the file is left as it stands, pending or processing, while
the process lives on. A deletion may be broken off after the bytes
(`DeletionFails`, `files.py:70-71`); `gutted` remembers these files.

**`FileLife`** – what users and retrieval see of a file: `Appear` once, `Report`ed
on only while it is there, `Complete`d with its chunks at one instant and once,
`Delete`d for good. `uploaded` is read off the place of the upload: it has made its
row or never will (`GiveUp`).

**`SchemaSync`** – connections (`CheckName`, `InsertConnection`,
`UpdateConnection`, `TestAndUpdate`, `DeleteConnection`) and syncs (`Select`,
`MarkSyncing`, `Inspect`, then `LookUp` and `Write` for one object after another,
`CommitSync`, or `DiscoveryFails` and `RecordFailure`). With `Outages` the platform
database may fail by itself: during the walk that is `DiscoveryFails`; in the commit
of `MarkSyncing` (`connection_service.py:105`) and in the handler's own (115,
`HandlerFails`) it leaves the connection syncing, and the sync is *lost*, as after a
crash. The three nested loops of
the discovery are one walk: `agenda` is what is still to visit, and a visit puts
what the inspector lists inside the object in front of the rest. A row of the
catalogue is known by its object, the sync that inserted it and the sync that
inserted its parent, which is what its key is about: two syncs can insert the
same object under different parents only if the parents themselves are two rows.
`View` is READ COMMITTED, `Blocked` the row locks and the wait for an open insert
of the same key, `Refused` the foreign key and the unique constraint, which a table
listed without a schema escapes because its `schema_id` is NULL. `kept` and `ever`
are history: what the customer database held all the while, and at some moment,
since the walk began. `Alter` is its owner.

**`Sessions`** – startup, registrations flush by flush, and calls of one or two
queries. A registration is told by the rows it writes, so a token or a call names
the registration whose user it is about. `Seed` is the registration the seed script
makes, at every start. `seen` is history: what the account said at each moment
since the call came in. The unique index on the code makes an insert wait for an
open one and fail after its commit.

**`TenantDirectory`** – what registration promises: codes are given one at a time,
to one registration each, and never taken back.

**`Chunking`** – one iteration of the loop is one step. A page is the set of
positions of its characters that are not white space, which is all that stripping
and dropping empty pieces ask about. The reference definition says without a
loop which windows hold text (`TextWindows`) and where in the result each of them
belongs (`Place`).

Operators whose comment begins with *Seeded fault* are not part of the model: each
is an altered version of the definition that follows it, a plausible mistake in
that piece of code, and `mutants` in `PROJECT.json` names the property that
notices it when it is put in that definition's place.

## 3. What is model-checked

### 3.1 Properties that hold

| run | instance | size |
|---|---|---|
| `database_agent` | one request of an administrator, an analyst or another tenant's user; two own connections (one without tables) and a foreign one; four tables, two of the same name; three grants (one narrowed to a column, one that writes, one made by another tenant); four statements | 125,272 states |
| `chat_turn` | two turns which may share the one existing conversation (one asks two connections, one of them and the documents, or nothing; the other the documents), two connections, one file with one chunk, deletions of everything, a crash | 219,248 states |
| `ingestion` | one file of any content, its upload, two reprocess requests, deletion, an outage of the platform database at any call, one crash | 298,118 states |
| `schema_sync` | two requests for a connection of one name, two databases (one with a schema whose table may be dropped and whose column may become a foreign key, one with a table listed without a schema), two syncs of one connection, renaming, moving, deletion, an outage of the platform database at any call of a sync but its last commit, one crash | 210,402 states |
| `sessions` | the seed and two registrations of one code, one call after another, any token ever given, one change by an operator, one crash | 132,457 states |
| `chunking` | documents of two pages, the first with any characters at up to seven positions, every size up to four and every smaller overlap | 14,316 states |

* `database_agent`: what runs was authorised by the permissions of one moment
  (`AuthorisedExecution`), which counts a change by an administrator without grants
  as authorised because the code says `read_write` for them; that the documents do
  not is `admin_default_reads` below; when nothing was taken away meanwhile, the schema shown
  to the model is exactly the declarative resolution of one moment, also with
  conflicting grants (`SettledResolution`); tenants stay apart even though a grant
  may name another tenant's connection (`TenantIsolation`); results and effects
  agree place by place (`ResultsTellExecutions`); the node implements `QueryAgent`
  (`ImplementsQueryAgent`).
* `chat_turn`: `NoHalfTurns`, `AuditTellsTurn`, `NoDanglingReferences`,
  `SelectedSourcesAreAsked`, under fairness `EveryRequestEnds`, and that to its
  readers the database goes as if every turn ran in one instant
  (`ImplementsTurnLog`).
* `ingestion`: `CompletedIsSearchable`, `PromisedWorkHasAJob`, `BytesMatchRows`,
  `ChunksStayUntilDeletion`, under fairness `StatusSettles`, and that no task which
  outlives a deletion brings a file back (`ImplementsFileLife`). After an outage or a
  crash they say less, and exactly how much less: a status that promises work and
  does not settle belongs to a file on which a job was lost; a row without bytes is
  being deleted or its deletion was broken off.
* `schema_sync`: the catalogue stays a tree without duplicates however syncs
  overlap, fail and die (`CatalogueIsATree`); a sync that ends as synced has
  recorded all that was there throughout and nothing that never was
  (`SyncedIsComplete`); rows stay (`RowsStay`); whatever shows syncing is being
  synced (`SyncingHasASync`) and under fairness does not do so for ever
  (`StatusSettles`), unless a sync of it was lost to an outage or a crash; names are unique although they are checked first and inserted
  later (`NamesAreUnique`).
* `sessions`: a tenant is there with its administrator or not at all
  (`TenantsAreWhole`); tokens are given only to accounts that were active during
  the call (`TokensAreEarned`); a request works with what rows said during it and
  not with what its token says (`ContextsAreCurrent`); registration implements
  `TenantDirectory` (`CodesAreGivenOnce`); under fairness a start comes to serve
  (`StartupCompletes`) and a registration ends (`RegistrationsEnd`).
* `chunking`: what is returned are exactly the windows of the reference definition
  (`ChunksAreWindows`), nothing is lost (`NothingIsLost`), and no iteration stands
  still (`EveryStepAdvances`), which is why the loop ends.

**Bounds.** `Ingestion`, `SchemaSync` and `Sessions` bound crashes by `MaxCrashes`,
`Sessions` an operator's changes by `MaxChanges`; `MaxAttempts` is a setting of the
code, 30 there and two here. The other models have no counters, only finite sets. One request is enough for the node: requests share no
state but the rows administrators change, and administrators act freely; the
theorems of section 4 hold for any number. Four tables and three grants are the
fewest that give a duplicate name, a sensitive column, a column grant, a write
grant and a foreign grant. Two turns are the fewest that can meet in a
conversation; a third adds only more of the same pairs. Files share nothing but
the crash, so one shows what happens to each; three jobs let two overlap while a
third starts later. One crash is enough as nothing is recovered after it. `Outages`
is a switch: on in the two passing runs, where every call may fail, off in the two
runs of section 3.2, whose violation is not to be blamed on them.
Two syncs are the fewest that meet; that a third changes nothing is what the
theorems say. The customer database has one path of schema, table and column: rows
of different objects meet only where one is the parent of the other. The run has
one name, so every second request for it is a conflict; renames that free a name
are left to the theorem. Two registrations of one code meet each other, and the
seed meets itself after a crash. One call slot is enough as calls share nothing
but accounts and tokens, and the slot is used again. A size of four, an overlap of
three and seven positions give windows that end before, at and after the last
character, and windows with nothing in them.

**Fairness.** Weak fairness of everything a request or job does by itself once it
has begun, and of the second half of a file's deletion, which succeeds or raises. The event
loop runs every coroutine that can go on, and every awaited call returns or raises;
that it returns is assumed nowhere, a job whose call raises outside a `try` being
lost. The model's
client has a timeout of its own, PostgreSQL has the `statement_timeout` the
executor sets. On the other dialects the executor sets none, so there the
assumption is that the customer database answers, or the network gives up. Nothing is assumed
about arrivals, administrators, deletions or the crash. `SchemaSync` assumes that a
sync that has begun goes on; one that waits for a lock is released by the other's
end or, when they wait for each other, by PostgreSQL, which breaks a deadlock off:
that is `DiscoveryFails`. `Sessions` assumes that the database is reached at
last (`restart: unless-stopped` tries again for ever), that migration, seed and
server follow, and that a registration that has begun goes on; none is relied
upon to fail.

### 3.2 Where the code and its documents disagree

Each of these runs states what a document or comment says and ends in a violation.

* `columns_from_grants` – *"Only tables/columns with an explicit, active
  permission grant"* (`core/permissions.py:31`). A grant narrowed to one column is
  read, revoked, and then asked for its columns: none are left, which reads as no
  restriction.
* `admin_default_reads` – *"they implicitly get read access to every enabled
  table"* (`core/permissions.py:33-35`, also 65-66 and `README.md:192`). The entry
  made for an administrator without grants says `read_write` (line 76), and the
  validator lets an UPDATE through.
* `audit_trail` – *"Every generated SQL statement … is persisted"*
  (`README.md:291`). A statement took effect, a later connection is gone or the
  model fails, and the records are rolled back with the turn.
* `answer_reported` – *"The response includes the SQL that ran, the row count,
  and citations"* (`README.md:226`). A row with a date or a decimal cannot be
  written to the JSONB preview, and the finished answer is lost.
* `crash_in_processing` – *"Wait a few seconds for background processing … shows
  completed"* (`README.md:208`). After a crash nothing picks the file up again.
* `references_upserted` – *"reflects its schemas / tables / columns … and upserts
  that metadata"* (`schema_discovery.py:22-26`). Of a column that is there already
  the reference is not updated: one that becomes a foreign key is marked as one and
  refers to nothing, one that no longer is keeps its reference.

Things the models keep as the code has them and that a reader may not expect: to
reprocess a completed file always ends `failed`, on the unique constraint of its own
old chunks, which are still searched (`Storable`, `document_processor.py:40`);
`query_type` is `SELECT` in every audit record; a UNION gets no row limit;
`row_filter` is stored and never applied; `get_connection` does not look at
`is_active`; a missing driver or key raises before `execute_sql`'s `try` and ends
the whole turn; bytes of failed uploads stay on disk. A crash, or
an outage in the wrong call, leaves a connection `syncing` until the next sync, a
file `pending` or `processing` until somebody asks to reprocess it, and a file whose
deletion was under way with a row and without bytes. Tables that were dropped stay in the catalogue. Two
overlapping syncs can leave two rows for a table listed without a schema, and every
later sync of that connection then fails. Changing the database of a connection
touches neither its status nor its catalogue. `test_connection` says that it never
raises, but builds its adapter outside its `try`. A refresh and a request look at
the user's status and not at the tenant's; only a log-in does.

## 4. What is proved

Proofs hold for every value of the constants: any catalogue, any number of
requests, connections, files, jobs, syncs, registrations, calls and crashes,
documents of any length. They use assumptions that TLC evaluates in the runs:

* `CatalogueAssumption` (the rows have their columns), `AgentAssumption`
  (statements use the catalogue's names, every connection has a dialect);
* `TurnAssumption` (a selection is one the request may make, the id of a new
  conversation is new); `IngestionAssumption` (an upload is not a reprocess
  request; outages may happen or not);
* `SyncAssumption` (what a connection asks for and what a database may hold),
  `PlaceAssumption` (an object has one place, and a list names it once),
  `DepthAssumption` (what a database holds is listed on top, inside something
  listed on top, or one level deeper: `schema_discovery.py` has three nested loops,
  over schemas, tables and columns, and looks for nothing inside a column),
  `RowAssumption` (an absent row is not a row);
* `SessionsAssumption` (the seed is one of the registrations);
* `ChunkingAssumption` (a page has a first and a last character, or is blank, and
  the overlap is smaller than the chunk, as in the defaults the only caller uses).

**The database node**

* `TypeCorrect` (`DatabaseAgentProofs`). `TypeOK` alone is not inductive: `Reply`
  takes the head and tail of `todo`, so `TypeInv` adds that a request past the
  lookup has a current connection.
* `ExecutionsAuthorised` (`ResolverProofs`): `Spec => AuthorisedExecution`. The
  schema is put together by many queries while permissions change, so it need not
  be what any moment says. The argument is that its *tables and access* are: the
  single query for the grants is a moment, everything later is computed from its
  answer and from the tables read before it, and only the columns are read again.
  `ResolverInv` says just this: while the resolver is at work there is a set in
  `seen`, the witness, such that the grants pending and the entries in `allowed`
  all come from it (or, for an administrator without grants, it has none that
  apply). Administrators only add to `seen`, so the witness stays. `ExecutionStep`
  reduces an execution to a valid statement, `JustifiedAuthorises` combines them.
* `PeaceResolves` (`ResolverProofs`): `Spec => []SettledResolution`. The witness
  bounds the schema from above; this is the other half. `SettledInv` says that, as
  long as nothing the request has seen was taken away, the dict is the witness's
  resolution less the grants (or tables) still pending, column by column. It
  carries `SeenWasGranted` along: a permission is never granted twice, so what is
  there now and was seen before has been there throughout.
* `TenantsIsolated` (`ResolverProofs`): the lookup's tenant check carried along the
  iteration by the same invariant.
* `ResultsTell` and `NodeKeepsPromise` (`NodePromiseProofs`): the results tell what
  took effect, and the node implements `QueryAgent`. Both follow from `NodeStep`: a
  step either gives exactly one result with an effect that fits its status
  (`SomeAnswer`) or leaves results and effects alone (`OtherMove`).
  `ShownAppend` says that the mapping of the refinement commutes with appending.

**The chat turn**

* `TurnsAreWhole` (`ChatTurnProofs`): `Spec => []NoHalfTurns`. A commit adds a
  conversation, so the danger is another turn whose conversation it brings back.
  `TurnInv` excludes it: a turn that has inserted a message holds its conversation
  (`HeldConversations`, the row lock), and a request can share only the
  conversation of a committed turn (`SharedConversations`).
* `AuditTells` and `NothingDangles`. The first adds
  `SuccessesRan` to carry an effect from the node to the record made of it much
  later; the second adds that a citation and its message are in one conversation,
  so that they are deleted together.
* `TurnsAreSingleSteps`: `Spec => ImplementsTurnLog`. Only a commit and a deletion
  are seen. `CommitAnswers` is the instant of the turn: the conversation is held,
  `Persistable` says that what was drawn on exists, and nothing of the turn was
  there before. A deletion must take exactly what hangs on the row, and that needs
  two facts more (`LogInv`): message and citation of a request are in one
  conversation (`OneConversation`), and a place in a turn's results leads to one
  connection (`OneRecord`), so that a citation goes with its connection and with no other.
* `SourcesAreAsked`. `CourseInv` follows a turn's course: the intent asks only for
  what was selected (`Routed`), the results so far and the connections left are the
  selected list (`Walk`), and past the node the walk is over (`Told`).
* `IntentFits` and `Routes` are the facts about the classifier's operators.

**Ingestion**

* `CompletedSearchable`: besides the property, that a job embeds and stores only
  what was parsed into text.
* `BytesAndRowsMatch`: besides the property, that an upload which has not got to
  its row has bytes and no row (`UploadsBeforeTheirRow`) and that a file being
  deleted has a row and no bytes (`DeletionsUnderWay`).
* `WorkHasAJob`: a job leaves a file only settled, gone, or lost on it
  (`JobsDoNotLeave`), and whoever makes it pending or marks it is engaged on it or
  lost on it (`StatusHasAnAuthor`). Crashes need no exception of their own: they lose
  just the jobs under way.
* `ChunksStay`: only two actions change the chunks.
* `FilesLiveOnce`: `Spec => ImplementsFileLife`. A job past its upload reports on the
  file that is there, completes it or is not seen (`JobsReport`); an upload makes
  its row while there is none and is then past it for good (`UploadsAppear`).

**Schema sync**

* `NamesUnique`: every action that names a connection asks for the name in the same
  step.
* `SyncingIsUnderWay`: whoever sets `syncing` is past its first commit, and its last
  one takes it back, also when others settle the status before, unless it is lost
  (`SyncMoves`: what is `Pending` stays so until it settles the status).
* `RowsOutliveSyncs`: only the deletion of a connection removes rows.
* `CatalogueStaysATree`: the hard one. A row may be written on top of rows that are
  not committed yet, or are committed by another while this sync walks, so the
  invariant `TreeInv` is about what each transaction sees, `catalog \cup work[s]`:
  its rows hang together (`Tree`), have unique keys, against the catalogue and
  against every other open transaction (`Keys`), come from a sync of the same
  connection, which is still there (`Origins`, `Created`), and what is still to be
  visited or written has its parent in it (`Visits`, `Drafts`). `Write` keeps `Keys`
  because it is neither `Blocked` nor `Refused`.
* `SyncLeavesNothingOut`: that a walk reaches an object is an induction along the
  path from the top to it, which is three steps long, so no induction is needed:
  `LedFromTop` unrolls it from `DepthAssumption`. `WalkInv` says of a walk that each
  object which was there all the while has its row in the walk's view, or something
  on the agenda leads to it (`Leads`); and that whatever the walk visits or writes
  was there at some moment. `WalkDescends` is the heart: to replace an object of the
  agenda by what the inspector lists inside it loses nothing that is still there.

**Sessions**

* `TenantsStayWhole`: `Whole` tells for each place of a registration what is flushed
  and what is stored.
* `CodesGivenOnce`: the refinement of `TenantDirectory`. `OneHolder` counts a tenant
  row from its flush on, since a flushed row keeps others waiting.
* `TokensStayEarned` and `ContextsStayCurrent`: `CallsInv` adds that what a call has
  been told was true at some moment since it came in (`Watched`), and that tokens
  are of stored users.

**Chunking**

* `LoopAdvances`: `Ahead` (a window begins before the last character of its page)
  makes every window that is not the last one longer than the overlap.
* `NothingGetsLost`: besides the property, that of the page at hand all that lies
  before the window is kept (`BehindIsKept`).
* `ChunksAreTheWindows`: between two iterations the chunks are those of the windows
  that are done (`Done`), each at its place, and a window begins a whole number of
  strides from the start of its page (`Standing`). `DoneAfterCut` and
  `DoneAfterTurn` say which windows an iteration adds; `Appended` that the place of
  the next one, the number of windows with text up to it, is the end of the list.

**Only model-checked:** everything under fairness (`EveryRequestEnds`, both
`StatusSettles`, `StartupCompletes`, `RegistrationsEnd`), which is out of this
prover's reach. Every invariant and every other action property of section 3.1 is
a theorem.

## 5. What is not modelled

What the language model, the embedding and the parsers compute (they return
anything of their type or raise); wording and formatting of prompts, answers and
citations; time, and with it the order of messages and `last_message_at`; a
lost answer to the last commit of a sync, after which the catalogue is recorded and
the status says failed (`connection_service.py:110`; no property reads that pair, and
it doubles the states); which chunks are closest, and that the approximate index may
miss some (`Retrieve` takes any, at most `TopK`); how
sqlglot reads a string (its reading is the input); building database URLs and
adapters; of a cached column its type, position and keys; hashing, and the signing
of tokens; the migration, which is one step; encryption and configuration;
knowledge bases, which are inserted and never changed; read-only routes.

## 6. What could come next

* `validate_sql` against a declarative reading of its docstring.
* Permissions and syncs in one model: the catalogue is a constant of `Permissions`,
  which is exact for a resolver no sync overlaps with. A sync adds enabled tables
  and columns: it could widen the default of an administrator, and grants that
  name no column.

## 7. Running it

```
tlc -workers 2 -config DatabaseAgent.cfg MCDatabaseAgent.tla
tlc -workers 2 -config ChatTurn.cfg      MCChatTurn.tla
tlc -workers 2 -config Ingestion.cfg     Ingestion.tla
tlc -workers 2 -config SchemaSync.cfg    MCSchemaSync.tla
tlc -workers 2 -config Sessions.cfg      MCSessions.tla
tlc -workers 2 -config Chunking.cfg      MCChunking.tla
tlapm ResolverProofs.tla      # likewise the other seven *Proofs modules
```
