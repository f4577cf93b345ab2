------------------------------ MODULE ChatTurn ------------------------------
(***************************************************************************)
(* A chat turn (api/routes/chat.py, agents/graph.py): one request is one   *)
(* transaction of the platform database around calls to the language model *)
(* and to customer databases, which are not part of it.                    *)
(*                                                                         *)
(* The user's message is inserted before the graph runs, the answer and    *)
(* its audit records after it, and everything is committed at the very     *)
(* end.  Meanwhile other requests run, conversations, connections and      *)
(* files are deleted, and the process may die.                             *)
(*                                                                         *)
(* The database node is the one QueryAgent specifies and DatabaseAgent     *)
(* implements.  A conversation a request creates is named by the request.  *)
(* The variables of the platform database hold committed rows only: what a *)
(* request has inserted and not committed is told by its pc.               *)
(***************************************************************************)
EXTENDS Intent, Sequences, Naturals, FiniteSets

CONSTANTS
    Requests,         \* chat requests
    Conns,            \* ids of customer database connections
    ConnectionLists,  \* the sequences of connections a request may name
    Convs,            \* ids of conversations that exist at the start
    Files,            \* files of the selected knowledge bases, one chunk each
    Selections,       \* [Requests -> the selections the request may make]
    TopK,             \* how many chunks a retrieval returns at most
    Deleted           \* NULL: the row referred to is gone

ConvIds == Convs \cup Requests

ASSUME TurnAssumption ==
    /\ ConnectionLists \subseteq Seq(Conns)
    /\ Selections \in
           [Requests -> SUBSET [list : ConnectionLists, kb : BOOLEAN]]
    /\ TopK \in Nat
    /\ Deleted \notin ConvIds
    /\ Convs \cap Requests = {}

VARIABLES
    convs,      \* conversations
    conns,      \* connections
    files,      \* files with their chunks
    messages,   \* messages
    audit,      \* query_executions
    citations,  \* message_citations
    pc,         \* [Requests -> where the request stands]
    conv,       \* [Requests -> its conversation]
    picked,     \* [Requests -> the connections and knowledge bases selected]
    intent,     \* [Requests -> the intent of the turn]
    evidence,   \* [Requests -> the files whose chunks were retrieved]
    typed,      \* [Requests -> a row kept has a value json.dumps refuses]
    phase, todo, results, executed  \* the database nodes: see QueryAgent

Agent == INSTANCE QueryAgent

rows == <<convs, conns, files, messages, audit, citations>>
agents == <<phase, todo, results, executed>>
vars == <<rows, pc, conv, picked, intent, evidence, typed, agents>>

InFlight == {"user message", "classify", "database", "asking", "documents",
             "answer", "persist"}

Message == [req : Requests, role : {"user", "assistant"}, conv : ConvIds]

\* conv is NULL once the conversation, and the message with it, is deleted.
QueryExecution ==
    [req : Requests, at : Nat, connection : Conns,
     validation_status : {"valid", "rejected"},
     execution_status : {"success", "failed", "rejected"},
     conv : ConvIds \cup {Deleted}]

\* source is what is cited: the audit record of a connection, or a file.
Citation ==
    [req : Requests, type : {"database", "document"}, source : Nat \cup Files,
     live : BOOLEAN, conv : ConvIds]

----------------------------------------------------------------------------
Init ==
    /\ convs = Convs
    /\ conns = Conns
    /\ files = Files
    /\ messages = {}
    /\ audit = {}
    /\ citations = {}
    /\ pc = [r \in Requests |-> "idle"]
    /\ conv = [r \in Requests |-> r]
    /\ picked = [r \in Requests |-> [list |-> <<>>, kb |-> FALSE]]
    /\ intent = [r \in Requests |-> "general"]
    /\ evidence = [r \in Requests |-> {}]
    /\ typed = [r \in Requests |-> FALSE]
    /\ Agent!Init

Goto(r, label) == pc' = [pc EXCEPT ![r] = label]

\* _get_or_create_conversation.  A new conversation is flushed, not committed.
Begin(r, c, selection) ==
    /\ pc[r] = "idle"
    /\ c \in convs \cup {r}
    /\ Goto(r, "user message")
    /\ conv' = [conv EXCEPT ![r] = c]
    /\ picked' = [picked EXCEPT ![r] = selection]
    /\ UNCHANGED <<rows, intent, evidence, typed, agents>>

ConversationNotFound(r, c) ==
    /\ pc[r] = "idle"
    /\ c \in ConvIds \ (convs \cup {r})
    /\ Goto(r, "aborted")
    /\ UNCHANGED <<rows, conv, picked, intent, evidence, typed, agents>>

\* The conversation the message refers to is still there, or the request's own.
HasConversation(r) == conv[r] \in convs \cup {r}

\* Seeded fault: the user's message is committed at once.
AddUserMessageCommitted(r) ==
    /\ pc[r] = "user message"
    /\ HasConversation(r)
    /\ Goto(r, "classify")
    /\ convs' = convs \cup {conv[r]}
    /\ messages' = messages \cup {[req |-> r, role |-> "user", conv |-> conv[r]]}
    /\ UNCHANGED <<conns, files, audit, citations, conv, picked, intent,
                   evidence, typed, agents>>

\* The user's message is flushed.  If the conversation was deleted meanwhile
\* the foreign key refuses it; otherwise the row of the conversation stays
\* locked until the transaction ends.
AddUserMessage(r) ==
    /\ pc[r] = "user message"
    /\ Goto(r, IF HasConversation(r) THEN "classify" ELSE "aborted")
    /\ UNCHANGED <<rows, conv, picked, intent, evidence, typed, agents>>

----------------------------------------------------------------------------
(* The graph.                                                              *)

Classify(r, answer) ==
    LET i == ClassifyIntent(answer, picked[r].list # <<>>, picked[r].kb)
    IN /\ pc[r] = "classify"
       /\ intent' = [intent EXCEPT ![r] = i]
       /\ Goto(r, RouteAfterClassify(i))
       /\ IF RouteAfterClassify(i) = "database"
          THEN Agent!Start(r, picked[r].list)
          ELSE UNCHANGED agents
       /\ UNCHANGED <<rows, conv, picked, evidence, typed>>

\* Seeded fault: a connection that is gone is waited for.
LookupConnectionPatiently(r) ==
    /\ pc[r] = "database"
    /\ todo[r] # <<>>
    /\ Head(todo[r]) \in conns
    /\ Goto(r, "asking")
    /\ UNCHANGED <<rows, conv, picked, intent, evidence, typed, agents>>

\* The node asks for the next connection, which may be gone by now.
LookupConnection(r) ==
    /\ pc[r] = "database"
    /\ todo[r] # <<>>
    /\ IF Head(todo[r]) \in conns
       THEN Goto(r, "asking") /\ UNCHANGED agents
       ELSE Goto(r, "aborted") /\ Agent!Abort(r)
    /\ UNCHANGED <<rows, conv, picked, intent, evidence, typed>>

\* A result for the connection.  The rows of a success may hold a number, date
\* or other value for which json.dumps has no rule.
AskConnection(r, status, ran, odd) ==
    /\ pc[r] = "asking"
    /\ odd => status = "success"
    /\ Agent!Answer(r, status, ran)
    /\ Goto(r, "database")
    /\ typed' = [typed EXCEPT ![r] = @ \/ odd]
    /\ UNCHANGED <<rows, conv, picked, intent, evidence>>

LeaveDatabase(r) ==
    /\ pc[r] = "database"
    /\ Agent!Finish(r)
    /\ Goto(r, RouteAfterDatabase(intent[r]))
    /\ UNCHANGED <<rows, conv, picked, intent, evidence, typed>>

\* At most TopK chunks of those there are: which are closest is not modelled,
\* and the ivfflat index is approximate and may come back with fewer.
Retrieve(r, found) ==
    /\ pc[r] = "documents"
    /\ found \subseteq files
    /\ Cardinality(found) <= TopK
    /\ evidence' = [evidence EXCEPT ![r] = found]
    /\ Goto(r, "answer")
    /\ UNCHANGED <<rows, conv, picked, intent, typed, agents>>

\* generate_final_answer or generate_general_answer returns.
GenerateAnswer(r) ==
    /\ pc[r] = "answer"
    /\ Goto(r, "persist")
    /\ UNCHANGED <<rows, conv, picked, intent, evidence, typed, agents>>

\* The language model or the embedding raises: the request ends with an error
\* and its transaction is rolled back.
CallFails(r) ==
    /\ pc[r] \in {"classify", "asking", "documents", "answer"}
    /\ Goto(r, "aborted")
    /\ IF pc[r] = "asking" THEN Agent!Abort(r) ELSE UNCHANGED agents
    /\ UNCHANGED <<rows, conv, picked, intent, evidence, typed>>

----------------------------------------------------------------------------
(* The answer and its records.                                             *)

\* Seeded fault: the verdict is taken from the outcome.
AuditRecordOfOutcome(r, i) ==
    [req |-> r, at |-> i, connection |-> results[r][i].connection,
     validation_status |-> results[r][i].status,
     execution_status |-> results[r][i].status, conv |-> conv[r]]

\* A rejection is the only result that carries validation errors.
AuditRecord(r, i) ==
    [req |-> r, at |-> i, connection |-> results[r][i].connection,
     validation_status |->
         IF results[r][i].status = "rejected" THEN "rejected" ELSE "valid",
     execution_status |-> results[r][i].status, conv |-> conv[r]]

\* Seeded fault: only what was executed is recorded.
AuditRecordsOfSuccesses(r) ==
    {AuditRecord(r, i) : i \in {j \in DOMAIN results[r] :
                                    results[r][j].status = "success"}}

AuditRecords(r) == {AuditRecord(r, i) : i \in DOMAIN results[r]}

Citations(r) ==
    {[req |-> r, type |-> "database", source |-> i, live |-> TRUE,
      conv |-> conv[r]] : i \in DOMAIN results[r]}
    \cup
    {[req |-> r, type |-> "document", source |-> f, live |-> TRUE,
      conv |-> conv[r]] : f \in evidence[r]}

Messages(r) ==
    {[req |-> r, role |-> role, conv |-> conv[r]] :
         role \in {"user", "assistant"}}

\* Seeded fault: the chunks that are cited are not looked for.
PersistableWithoutFiles(r) ==
    /\ \A i \in DOMAIN results[r] : results[r][i].connection \in conns
    /\ ~typed[r]

\* What the flushes ask for: rows referred to exist, previews can be written.
Persistable(r) ==
    /\ \A i \in DOMAIN results[r] : results[r][i].connection \in conns
    /\ evidence[r] \subseteq files
    /\ ~typed[r]

\* The inserts are several awaits, but each row referred to is locked from its
\* insert to the commit and nothing is visible before it: one action.
Commit(r) ==
    /\ pc[r] = "persist"
    /\ Persistable(r)
    /\ Goto(r, "done")
    /\ convs' = convs \cup {conv[r]}
    /\ messages' = messages \cup Messages(r)
    /\ audit' = audit \cup AuditRecords(r)
    /\ citations' = citations \cup Citations(r)
    /\ UNCHANGED <<conns, files, conv, picked, intent, evidence, typed, agents>>

PersistFails(r) ==
    /\ pc[r] = "persist"
    /\ ~Persistable(r)
    /\ Goto(r, "aborted")
    /\ UNCHANGED <<rows, conv, picked, intent, evidence, typed, agents>>

----------------------------------------------------------------------------
(* What else happens in the platform database.                             *)

\* The conversation is locked by a request that has inserted a message in it.
LockedBy(c, r) ==
    conv[r] = c /\ pc[r] \in InFlight \ {"user message"}

\* Seeded fault: the audit records go with it too.
DeleteConversationWithAudit(c) ==
    /\ c \in convs
    /\ ~\E r \in Requests : LockedBy(c, r)
    /\ convs' = convs \ {c}
    /\ messages' = {m \in messages : m.conv # c}
    /\ citations' = {x \in citations : x.conv # c}
    /\ audit' = {q \in audit : q.conv # c}
    /\ UNCHANGED <<conns, files, pc, conv, picked, intent, evidence, typed,
                   agents>>

\* Messages and their citations go with it, audit records lose the reference.
DeleteConversation(c) ==
    /\ c \in convs
    /\ ~\E r \in Requests : LockedBy(c, r)
    /\ convs' = convs \ {c}
    /\ messages' = {m \in messages : m.conv # c}
    /\ citations' = {x \in citations : x.conv # c}
    /\ audit' = {IF q.conv = c THEN [q EXCEPT !.conv = Deleted] ELSE q :
                     q \in audit}
    /\ UNCHANGED <<conns, files, pc, conv, picked, intent, evidence, typed,
                   agents>>

\* Audit records go with it, citations of them lose the reference.
DeleteConnection(c) ==
    LET gone == {q \in audit : q.connection = c}
    IN /\ c \in conns
       /\ conns' = conns \ {c}
       /\ audit' = audit \ gone
       /\ citations' =
              {IF /\ x.type = "database"
                  /\ \E q \in gone : q.req = x.req /\ q.at = x.source
               THEN [x EXCEPT !.live = FALSE] ELSE x : x \in citations}
       /\ UNCHANGED <<convs, files, messages, pc, conv, picked, intent,
                      evidence, typed, agents>>

\* Chunks go with it, citations of them lose the reference.
DeleteFile(f) ==
    /\ f \in files
    /\ files' = files \ {f}
    /\ citations' =
           {IF x.type = "document" /\ x.source = f
            THEN [x EXCEPT !.live = FALSE] ELSE x : x \in citations}
    /\ UNCHANGED <<convs, conns, messages, audit, pc, conv, picked, intent,
                   evidence, typed, agents>>

\* The process dies: open transactions are rolled back, clients get no answer.
Crash ==
    /\ \E r \in Requests : pc[r] \in InFlight
    /\ pc' = [r \in Requests |->
                  IF pc[r] \in InFlight THEN "aborted" ELSE pc[r]]
    /\ phase' = [r \in Requests |->
                     IF phase[r] = "busy" THEN "aborted" ELSE phase[r]]
    /\ UNCHANGED <<rows, conv, picked, intent, evidence, typed, todo, results,
                   executed>>

----------------------------------------------------------------------------
\* What a request does by itself once it has begun.
Turn(r) ==
    \/ AddUserMessage(r)
    \/ \E answer \in ClassifierAnswers : Classify(r, answer)
    \/ LookupConnection(r)
    \/ \E status \in Agent!Statuses, odd \in BOOLEAN :
           \E ran \in Agent!CouldHaveRun(status) :
               AskConnection(r, status, ran, odd)
    \/ LeaveDatabase(r)
    \/ \E found \in SUBSET files : Retrieve(r, found)
    \/ GenerateAnswer(r)
    \/ CallFails(r)
    \/ Commit(r)
    \/ PersistFails(r)

Arrival(r) ==
    \/ \E c \in ConvIds, selection \in Selections[r] : Begin(r, c, selection)
    \/ \E c \in ConvIds : ConversationNotFound(r, c)

Deletion ==
    \/ \E c \in ConvIds : DeleteConversation(c)
    \/ \E c \in Conns : DeleteConnection(c)
    \/ \E f \in Files : DeleteFile(f)

\* Every request is over: the server waits for the next one.
AllOver ==
    /\ \A r \in Requests : pc[r] \in {"done", "aborted"}
    /\ UNCHANGED vars

Next ==
    \/ \E r \in Requests : Arrival(r) \/ Turn(r)
    \/ Deletion
    \/ Crash
    \/ AllOver

Spec == Init /\ [][Next]_vars

\* The event loop runs every request that can go on, and each awaited call
\* returns or raises: the model's client and PostgreSQL time out, and the other
\* customer databases are taken to answer.
FairSpec == Spec /\ \A r \in Requests : WF_vars(Turn(r))

----------------------------------------------------------------------------
(* Properties.                                                             *)

TypeOK ==
    /\ convs \subseteq ConvIds
    /\ conns \subseteq Conns
    /\ files \subseteq Files
    /\ messages \subseteq Message
    /\ audit \subseteq QueryExecution
    /\ citations \subseteq Citation
    /\ pc \in [Requests -> InFlight \cup {"idle", "done", "aborted"}]
    /\ conv \in [Requests -> ConvIds]
    /\ picked \in [Requests -> [list : ConnectionLists \cup {<<>>},
                                kb : BOOLEAN]]
    /\ intent \in [Requests -> Intents]
    /\ evidence \in [Requests -> SUBSET Files]
    /\ typed \in [Requests -> BOOLEAN]
    /\ phase \in [Requests -> Agent!Phases]
    /\ todo \in [Requests -> Seq(Conns)]
    /\ results \in [Requests -> Seq(Agent!Result)]
    /\ executed \subseteq Agent!Execution

\* A turn is all there or not at all: no row of it is visible unless it was
\* committed, and then the conversation, while it exists, has the question and
\* the answer.  A turn that failed half-way leaves not even a conversation.
NoHalfTurns ==
    \A r \in Requests :
        LET rolesOf(c) == {m.role : m \in {x \in messages :
                                               x.req = r /\ x.conv = c}}
        IN IF pc[r] = "done"
           THEN rolesOf(conv[r]) = IF conv[r] \in convs
                                   THEN {"user", "assistant"} ELSE {}
           ELSE /\ r \notin convs
                /\ \A x \in messages \cup audit \cup citations : x.req # r

\* The audit records of a committed turn tell what its database node did: one
\* for each connection that still exists, with the outcome as its statuses, and
\* a recorded success did run.
AuditTellsTurn ==
    /\ \A r \in Requests : pc[r] = "done" =>
           \A i \in DOMAIN results[r] : results[r][i].connection \in conns =>
               \E q \in audit :
                   /\ q.req = r /\ q.at = i
                   /\ q.connection = results[r][i].connection
                   /\ q.execution_status = results[r][i].status
    /\ \A q \in audit :
           /\ q.connection \in conns
           /\ q.validation_status = "rejected" <=>
                  q.execution_status = "rejected"
           /\ q.execution_status = "success" =>
                  [req |-> q.req, at |-> q.at, connection |-> q.connection]
                      \in executed

\* Nothing refers to a row that is gone, whichever of conversation, connection
\* and file was deleted while a turn was on its way; and a conversation is
\* never deleted between the two messages of a turn.
NoDanglingReferences ==
    /\ \A m \in messages : m.conv \in convs
    /\ \A q \in audit : q.conv \in convs \cup {Deleted}
    /\ \A x \in citations :
           /\ \E m \in messages : m.req = x.req /\ m.role = "assistant"
           /\ x.live => IF x.type = "document" THEN x.source \in files
                        ELSE \E q \in audit : q.req = x.req /\ q.at = x.source
    /\ \A r \in Requests : pc[r] \in InFlight \ {"user message"} =>
           HasConversation(r)

\* Whatever the classifier says, a turn for which sources were selected asks
\* one of them, asks every connection in the order given when it asks the
\* database at all, and never asks a source that was not selected.
SelectedSourcesAreAsked ==
    \A r \in Requests : pc[r] = "done" =>
        LET askedDb == intent[r] \in {"database", "hybrid"}
            askedKb == intent[r] \in {"document", "hybrid"}
        IN /\ askedDb => picked[r].list # <<>>
           /\ askedKb => picked[r].kb
           /\ picked[r].list # <<>> \/ picked[r].kb => askedDb \/ askedKb
           /\ [i \in DOMAIN results[r] |-> results[r][i].connection] =
                  IF askedDb THEN picked[r].list ELSE <<>>
           /\ ~askedKb => evidence[r] = {}

Database(c) == [type |-> "database", id |-> c]
Document(f) == [type |-> "document", id |-> f]

\* The citations of files that exist, and the records a citation points at.
LiveDocuments == {x \in citations : x.type = "document" /\ x.live}
LiveRecords ==
    {q \in audit : \E x \in citations : /\ x.type = "database" /\ x.live
                                        /\ x.req = q.req /\ x.source = q.at}

UseOfFile(x) == [req |-> x.req, source |-> Document(x.source)]
UseOfConnection(q) == [req |-> q.req, source |-> Database(q.connection)]

\* The promise of chat turns to everybody who reads the platform database.
Log == INSTANCE TurnLog WITH
    sources <- [type : {"database"}, id : conns]
                   \cup [type : {"document"}, id : files],
    answered <- {r \in Requests : pc[r] = "done"},
    cited <- {UseOfFile(x) : x \in LiveDocuments}
                 \cup {UseOfConnection(q) : q \in LiveRecords},
    audited <- {UseOfConnection(q) : q \in audit}

\* To its readers the platform database goes as if every turn ran in one
\* instant, at which its conversation and all it draws on exist, though other
\* turns, deletions and crashes come between its steps; and what is deleted
\* takes along what hangs on it and nothing else.
ImplementsTurnLog == Log!Spec

\* Every request that has begun is answered or fails.
EveryRequestEnds ==
    \A r \in Requests : pc[r] \in InFlight ~> pc[r] \in {"done", "aborted"}

\* README, section 6, item 5: every generated statement and its outcome is
\* persisted.  What took effect in a customer database would then have an audit
\* record once its request is over, while the connection exists.
EveryExecutionAudited ==
    \A e \in executed :
        /\ pc[e.req] \in {"done", "aborted"}
        /\ e.connection \in conns
        => \E q \in audit : q.req = e.req /\ q.at = e.at

\* README, section 3.5: the response includes the SQL that ran, the row count
\* and the citations.  A turn whose answer was generated would then be reported
\* unless something it refers to was deleted or the process died.
GeneratedAnswerReported ==
    [][\A r \in Requests :
           /\ pc[r] = "persist" /\ pc'[r] = "aborted"
           /\ \A i \in DOMAIN results[r] : results[r][i].connection \in conns
           /\ evidence[r] \subseteq files
           => Crash]_vars
=============================================================================
