--------------------------- MODULE ChatTurnProofs ---------------------------
(***************************************************************************)
(* Proofs about chat turns, for any number of requests, connections,       *)
(* conversations and files, any selections and every deletion and crash.   *)
(*                                                                         *)
(* A turn is all there or not at all; its audit records agree with what    *)
(* ran; nothing it leaves refers to a row that is gone; and it asks the    *)
(* sources that were selected, and no other.                               *)
(***************************************************************************)
EXTENDS ChatTurn, TLAPS

----------------------------------------------------------------------------
(* Routing.                                                                *)

\* The most capable path is one the selected sources allow.
LEMMA BestPathFits ==
    ASSUME NEW has_db \in BOOLEAN, NEW has_kb \in BOOLEAN
    PROVE  /\ has_db /\ has_kb => BestPath(has_db, has_kb) = "hybrid"
           /\ has_db /\ ~has_kb => BestPath(has_db, has_kb) = "database"
           /\ ~has_db /\ has_kb => BestPath(has_db, has_kb) = "document"
           /\ ~has_db /\ ~has_kb => BestPath(has_db, has_kb) = "general"
  BY Zenon DEF BestPath

\* Whatever the classifier answers, the intent is one, asks only for sources
\* that were selected, and for at least one of them if any was.
LEMMA IntentFits ==
    ASSUME NEW answer \in ClassifierAnswers,
           NEW has_db \in BOOLEAN, NEW has_kb \in BOOLEAN,
           NEW i, i = ClassifyIntent(answer, has_db, has_kb)
    PROVE  /\ i \in Intents
           /\ i \in {"database", "hybrid"} => has_db
           /\ i \in {"document", "hybrid"} => has_kb
           /\ has_db \/ has_kb => i \in {"database", "document", "hybrid"}
<1> DEFINE misfit == \/ answer \notin Intents
                     \/ /\ answer \in {"general", "clarification"}
                        /\ has_db \/ has_kb
           nodb == answer \in {"database", "hybrid"} /\ ~has_db
           nokb == answer \in {"document", "hybrid"} /\ has_db /\ ~has_kb
           none == answer = "document" /\ ~has_db /\ ~has_kb
<1>1. /\ misfit => ~nodb /\ ~nokb /\ ~none
      /\ nodb => ~nokb /\ ~none
      /\ nokb => ~none
  BY DEF Intents
<1>2. /\ misfit => i = BestPath(has_db, has_kb)
      /\ nodb => i = IF has_kb THEN "document" ELSE "general"
      /\ nokb => i = "database"
      /\ none => i = "general"
      /\ ~misfit /\ ~nodb /\ ~nokb /\ ~none => i = answer
  BY <1>1, Zenon DEF ClassifyIntent
<1> QED
  BY <1>2, BestPathFits DEF Intents, ClassifierAnswers

\* Where the graph goes after an intent.
LEMMA Routes ==
    /\ \A i \in Intents :
           RouteAfterClassify(i) =
               IF i \in {"database", "hybrid"} THEN "database"
               ELSE IF i = "document" THEN "documents" ELSE "answer"
    /\ \A i \in Intents :
           RouteAfterDatabase(i) =
               IF i = "hybrid" THEN "documents" ELSE "answer"
<1>1. ASSUME NEW i \in Intents
      PROVE  RouteAfterClassify(i) =
                 IF i \in {"database", "hybrid"} THEN "database"
                 ELSE IF i = "document" THEN "documents" ELSE "answer"
  <2>1. /\ i \in {"database", "hybrid"} => RouteAfterClassify(i) = "database"
        /\ i = "document" => RouteAfterClassify(i) = "documents"
        /\ i \in {"general", "clarification"} =>
               RouteAfterClassify(i) = "answer"
    BY Zenon DEF RouteAfterClassify
  <2> QED
    BY <2>1 DEF Intents
<1> QED
  BY <1>1 DEF RouteAfterDatabase

----------------------------------------------------------------------------
(* The kinds of steps.                                                     *)

\* The steps of a turn that change no committed row, report no result and run
\* no statement.
Quiet(r) ==
    \/ \E c \in ConvIds, selection \in Selections[r] : Begin(r, c, selection)
    \/ \E c \in ConvIds : ConversationNotFound(r, c)
    \/ AddUserMessage(r)
    \/ \E answer \in ClassifierAnswers : Classify(r, answer)
    \/ LookupConnection(r)
    \/ LeaveDatabase(r)
    \/ \E found \in SUBSET files : Retrieve(r, found)
    \/ GenerateAnswer(r)
    \/ CallFails(r)
    \/ PersistFails(r)

Ask(r) ==
    \E status \in Agent!Statuses, odd \in BOOLEAN :
        \E ran \in Agent!CouldHaveRun(status) :
            AskConnection(r, status, ran, odd)

LEMMA Actions ==
    ASSUME [Next]_vars
    PROVE  \/ UNCHANGED vars
           \/ \E r \in Requests : Quiet(r) \/ Ask(r) \/ Commit(r)
           \/ Deletion
           \/ Crash
  BY DEF Next, Arrival, Turn, Quiet, Ask, AllOver

LocalTypes ==
    /\ pc \in [Requests -> InFlight \cup {"idle", "done", "aborted"}]
    /\ conv \in [Requests -> ConvIds]
    /\ picked \in [Requests -> [list : ConnectionLists \cup {<<>>},
                                kb : BOOLEAN]]
    /\ intent \in [Requests -> Intents]
    /\ evidence \in [Requests -> SUBSET Files]
    /\ typed \in [Requests -> BOOLEAN]

AgentTypes ==
    /\ phase \in [Requests -> Agent!Phases]
    /\ todo \in [Requests -> Seq(Conns)]
    /\ results \in [Requests -> Seq(Agent!Result)]
    /\ executed \subseteq Agent!Execution

RowTypes ==
    /\ convs \subseteq ConvIds
    /\ conns \subseteq Conns
    /\ files \subseteq Files
    /\ messages \subseteq Message
    /\ audit \subseteq QueryExecution
    /\ citations \subseteq Citation

\* A request that names no connection has a list of them nevertheless.
LEMMA NoConnections == <<>> \in Seq(Conns)
  OBVIOUS

\* A quiet step keeps the types of what the request and its node remember.
LEMMA QuietTypes ==
    ASSUME TypeOK, NEW r \in Requests, Quiet(r)
    PROVE  LocalTypes' /\ AgentTypes'
<1> USE DEF TypeOK, LocalTypes, AgentTypes, Goto, InFlight, agents, rows
<1>1. ASSUME NEW c \in ConvIds, NEW selection \in Selections[r],
             Begin(r, c, selection)
      PROVE  LocalTypes' /\ AgentTypes'
  <2>1. selection \in [list : ConnectionLists, kb : BOOLEAN]
    BY TurnAssumption DEF TurnAssumption
  <2> QED
    BY <1>1, <2>1 DEF Begin
<1>2. CASE \/ \E c \in ConvIds : ConversationNotFound(r, c)
           \/ AddUserMessage(r) \/ GenerateAnswer(r) \/ PersistFails(r)
  BY <1>2 DEF ConversationNotFound, AddUserMessage, GenerateAnswer, PersistFails
<1>3. ASSUME NEW answer \in ClassifierAnswers, Classify(r, answer)
      PROVE  LocalTypes' /\ AgentTypes'
  <2> DEFINE i == ClassifyIntent(answer, picked[r].list # <<>>, picked[r].kb)
  <2>1. i \in Intents
    BY IntentFits
  <2>2. RouteAfterClassify(i) \in {"database", "documents", "answer"}
    BY <2>1, Routes
  <2>3. picked[r].list \in Seq(Conns)
    <3>1. picked[r].list \in ConnectionLists \cup {<<>>}
      OBVIOUS
    <3> QED
      BY <3>1, NoConnections, TurnAssumption DEF TurnAssumption
  <2>4. /\ intent' = [intent EXCEPT ![r] = i]
        /\ pc' = [pc EXCEPT ![r] = RouteAfterClassify(i)]
        /\ Agent!Start(r, picked[r].list) \/ UNCHANGED agents
        /\ UNCHANGED <<conv, picked, evidence, typed>>
    BY <1>3 DEF Classify
  <2> HIDE DEF i
  <2> QED
    BY <2>1, <2>2, <2>3, <2>4 DEF Agent!Start, Agent!Phases
<1>4. CASE LookupConnection(r) \/ CallFails(r)
  BY <1>4 DEF LookupConnection, CallFails, Agent!Abort, Agent!Phases
<1>5. CASE LeaveDatabase(r)
  <2>1. RouteAfterDatabase(intent[r]) \in {"documents", "answer"}
    BY Routes
  <2> QED
    BY <1>5, <2>1 DEF LeaveDatabase, Agent!Finish, Agent!Phases
<1>6. ASSUME NEW found \in SUBSET files, Retrieve(r, found)
      PROVE  LocalTypes' /\ AgentTypes'
  BY <1>6 DEF Retrieve
<1> QED
  BY <1>1, <1>2, <1>3, <1>4, <1>5, <1>6 DEF Quiet

\* An answer of the node for one connection keeps them too.
LEMMA AskTypes ==
    ASSUME TypeOK, NEW r \in Requests, Ask(r)
    PROVE  LocalTypes' /\ AgentTypes'
<1> USE DEF TypeOK, LocalTypes, AgentTypes
<1> PICK status \in Agent!Statuses, odd \in BOOLEAN :
         \E ran \in Agent!CouldHaveRun(status) :
             AskConnection(r, status, ran, odd)
  BY DEF Ask
<1> PICK ran \in Agent!CouldHaveRun(status) : AskConnection(r, status, ran, odd)
  OBVIOUS
<1>1. LocalTypes'
  BY DEF AskConnection, Goto, InFlight
<1>2. todo[r] # <<>> /\ Head(todo[r]) \in Conns /\ Tail(todo[r]) \in Seq(Conns)
  BY DEF AskConnection, Agent!Answer
<1>3. [connection |-> Head(todo[r]), status |-> status] \in Agent!Result
  BY <1>2 DEF Agent!Result
<1>4. [req |-> r, at |-> Len(results[r]) + 1, connection |-> Head(todo[r])]
          \in Agent!Execution
  BY <1>2 DEF Agent!Execution
<1>5. AgentTypes'
  BY <1>2, <1>3, <1>4 DEF AskConnection, Agent!Answer
<1> QED
  BY <1>1, <1>5

\* What a turn commits has the types of the tables.
LEMMA CommittedTypes ==
    ASSUME TypeOK, NEW r \in Requests
    PROVE  /\ Messages(r) \subseteq Message
           /\ AuditRecords(r) \subseteq QueryExecution
           /\ Citations(r) \subseteq Citation
<1>1. /\ DOMAIN results[r] \subseteq Nat
      /\ \A i \in DOMAIN results[r] : results[r][i] \in Agent!Result
  BY DEF TypeOK
<1>2. conv[r] \in ConvIds /\ evidence[r] \subseteq Files
  BY DEF TypeOK
<1>3. Messages(r) \subseteq Message
  BY <1>2 DEF Messages, Message
<1>4. \A i \in DOMAIN results[r] : AuditRecord(r, i) \in QueryExecution
  BY <1>1, <1>2 DEF AuditRecord, QueryExecution, Agent!Result, Agent!Statuses
<1>5. Citations(r) \subseteq Citation
  <2>1. ASSUME NEW i \in DOMAIN results[r]
        PROVE  [req |-> r, type |-> "database", source |-> i, live |-> TRUE,
                conv |-> conv[r]] \in Citation
    BY <1>1, <1>2 DEF Citation
  <2>2. ASSUME NEW f \in evidence[r]
        PROVE  [req |-> r, type |-> "document", source |-> f, live |-> TRUE,
                conv |-> conv[r]] \in Citation
    BY <1>2 DEF Citation
  <2> QED
    BY <2>1, <2>2, Zenon DEF Citations
<1> QED
  BY <1>3, <1>4, <1>5 DEF AuditRecords

LEMMA DeletionTypes == ASSUME TypeOK, Deletion PROVE RowTypes'
<1> USE DEF TypeOK, RowTypes
<1>1. ASSUME NEW c \in ConvIds, DeleteConversation(c) PROVE RowTypes'
  <2>1. \A q \in audit : [q EXCEPT !.conv = Deleted] \in QueryExecution
    BY DEF QueryExecution
  <2> QED
    BY <1>1, <2>1 DEF DeleteConversation
<1>2. ASSUME NEW c \in Conns, DeleteConnection(c) PROVE RowTypes'
  <2>1. \A x \in citations : [x EXCEPT !.live = FALSE] \in Citation
    BY DEF Citation
  <2> QED
    BY <1>2, <2>1 DEF DeleteConnection
<1>3. ASSUME NEW f \in Files, DeleteFile(f) PROVE RowTypes'
  <2>1. \A x \in citations : [x EXCEPT !.live = FALSE] \in Citation
    BY DEF Citation
  <2> QED
    BY <1>3, <2>1 DEF DeleteFile
<1> QED
  BY <1>1, <1>2, <1>3 DEF Deletion

LEMMA TypeOKInductive == TypeOK /\ [Next]_vars => TypeOK'
<1> SUFFICES ASSUME TypeOK, [Next]_vars PROVE TypeOK'
  OBVIOUS
<1>0. LocalTypes /\ AgentTypes /\ RowTypes
  BY DEF TypeOK, LocalTypes, AgentTypes, RowTypes
<1>1. CASE UNCHANGED vars
  BY <1>1 DEF TypeOK, vars, rows, agents, Agent!Phases, Agent!Result,
             Agent!Execution, Message, QueryExecution, Citation
<1>2. ASSUME NEW r \in Requests, Quiet(r) PROVE TypeOK'
  <2>1. UNCHANGED rows
    BY <1>2
    DEF Quiet, Begin, ConversationNotFound, AddUserMessage, Classify,
        LookupConnection, LeaveDatabase, Retrieve, GenerateAnswer, CallFails,
        PersistFails
  <2>2. RowTypes'
    BY <1>0, <2>1 DEF RowTypes, rows
  <2> QED
    BY <1>2, <2>2, QuietTypes DEF TypeOK, LocalTypes, AgentTypes, RowTypes
<1>3. ASSUME NEW r \in Requests, Ask(r) PROVE TypeOK'
  <2>1. UNCHANGED rows
    BY <1>3 DEF Ask, AskConnection
  <2>2. RowTypes'
    BY <1>0, <2>1 DEF RowTypes, rows
  <2> QED
    BY <1>3, <2>2, AskTypes DEF TypeOK, LocalTypes, AgentTypes, RowTypes
<1>4. ASSUME NEW r \in Requests, Commit(r) PROVE TypeOK'
  <2>1. RowTypes'
    BY <1>0, <1>4, CommittedTypes DEF Commit, RowTypes, LocalTypes
  <2>2. LocalTypes' /\ AgentTypes'
    BY <1>0, <1>4 DEF Commit, Goto, LocalTypes, AgentTypes, agents
  <2> QED
    BY <2>1, <2>2 DEF TypeOK, LocalTypes, AgentTypes, RowTypes
<1>5. CASE Deletion
  <2>1. LocalTypes' /\ AgentTypes'
    BY <1>0, <1>5
    DEF Deletion, DeleteConversation, DeleteConnection, DeleteFile, LocalTypes,
        AgentTypes, agents
  <2> QED
    BY <1>5, <2>1, DeletionTypes DEF TypeOK, LocalTypes, AgentTypes, RowTypes
<1>6. CASE Crash
  <2>1. LocalTypes' /\ AgentTypes'
    BY <1>0, <1>6 DEF Crash, LocalTypes, AgentTypes, InFlight, Agent!Phases
  <2>2. RowTypes'
    BY <1>0, <1>6 DEF Crash, RowTypes, rows
  <2> QED
    BY <2>1, <2>2 DEF TypeOK, LocalTypes, AgentTypes, RowTypes
<1> QED
  BY <1>1, <1>2, <1>3, <1>4, <1>5, <1>6, Actions

LEMMA TypeOKInit == Init => TypeOK
  BY DEF Init, TypeOK, Agent!Init, Agent!Phases, ConvIds, Intents, InFlight

\* Every variable keeps its type, however turns, deletions and crashes mix.
THEOREM TypeCorrect == Spec => []TypeOK
  BY TypeOKInit, TypeOKInductive, PTL DEF Spec

----------------------------------------------------------------------------
(* What each kind of step leaves alone.                                    *)

\* The request has inserted a message: it holds its conversation.
Holding(r) == pc[r] \in InFlight \ {"user message"}

LEMMA QuietFrame ==
    ASSUME TypeOK, NEW r \in Requests, Quiet(r)
    PROVE  /\ UNCHANGED <<rows, results, executed>>
           /\ \A q \in Requests \ {r} : pc'[q] = pc[q] /\ conv'[q] = conv[q]
           /\ pc[r] # "done" /\ pc'[r] # "done"
           /\ \/ conv'[r] = conv[r]
              \/ conv'[r] \in convs \cup {r} /\ pc'[r] = "user message"
           /\ Holding(r)' => Holding(r) \/ HasConversation(r)
<1> USE DEF TypeOK, Goto, InFlight, Holding, HasConversation, rows, agents
<1>1. CASE \E c \in ConvIds, selection \in Selections[r] : Begin(r, c, selection)
  BY <1>1 DEF Begin
<1>2. CASE \/ \E c \in ConvIds : ConversationNotFound(r, c)
           \/ AddUserMessage(r) \/ GenerateAnswer(r) \/ PersistFails(r)
           \/ \E found \in SUBSET files : Retrieve(r, found)
  BY <1>2
  DEF ConversationNotFound, AddUserMessage, GenerateAnswer, PersistFails,
      Retrieve
<1>3. ASSUME NEW answer \in ClassifierAnswers, Classify(r, answer)
      PROVE  /\ UNCHANGED <<rows, results, executed, conv>>
             /\ \E label \in {"database", "documents", "answer"} :
                    pc' = [pc EXCEPT ![r] = label]
             /\ pc[r] = "classify"
  <2> DEFINE i == ClassifyIntent(answer, picked[r].list # <<>>, picked[r].kb)
  <2>1. i \in Intents
    BY IntentFits
  <2>2. RouteAfterClassify(i) \in {"database", "documents", "answer"}
    BY <2>1, Routes
  <2>3. /\ pc[r] = "classify"
        /\ pc' = [pc EXCEPT ![r] = RouteAfterClassify(i)]
        /\ Agent!Start(r, picked[r].list) \/ UNCHANGED agents
        /\ UNCHANGED <<rows, conv>>
    BY <1>3 DEF Classify
  <2> HIDE DEF i
  <2> QED
    BY <2>2, <2>3 DEF Agent!Start
<1>4. CASE LookupConnection(r) \/ CallFails(r)
  BY <1>4 DEF LookupConnection, CallFails, Agent!Abort
<1>5. CASE LeaveDatabase(r)
  <2>1. RouteAfterDatabase(intent[r]) \in {"documents", "answer"}
    BY Routes
  <2> QED
    BY <1>5, <2>1 DEF LeaveDatabase, Agent!Finish
<1> QED
  BY <1>1, <1>2, <1>3, <1>4, <1>5 DEF Quiet

LEMMA AskFrame ==
    ASSUME TypeOK, NEW r \in Requests, Ask(r)
    PROVE  /\ UNCHANGED <<rows, conv>>
           /\ pc[r] = "asking"
           /\ pc' = [pc EXCEPT ![r] = "database"]
           /\ \A q \in Requests \ {r} : results'[q] = results[q]
           /\ executed \subseteq executed'
           /\ \E status \in Agent!Statuses :
                  /\ results'[r] =
                         Append(results[r], [connection |-> Head(todo[r]),
                                             status |-> status])
                  /\ status = "success" =>
                         [req |-> r, at |-> Len(results[r]) + 1,
                          connection |-> Head(todo[r])] \in executed'
<1> PICK status \in Agent!Statuses, odd \in BOOLEAN :
         \E ran \in Agent!CouldHaveRun(status) :
             AskConnection(r, status, ran, odd)
  BY DEF Ask
<1> PICK ran \in Agent!CouldHaveRun(status) : AskConnection(r, status, ran, odd)
  OBVIOUS
<1>1. status = "success" => ran
  BY DEF Agent!CouldHaveRun
<1> QED
  BY <1>1 DEF AskConnection, Agent!Answer, Goto, TypeOK

----------------------------------------------------------------------------
(* A turn is all there or not at all.                                      *)

\* The conversation of a turn that has inserted a message cannot go.
HeldConversations == \A r \in Requests : Holding(r) => HasConversation(r)

\* Only a committed turn can have lent its conversation to another request.
SharedConversations ==
    \A q, r \in Requests : q # r /\ conv[q] = r => pc[r] = "done"

TurnInv == TypeOK /\ NoHalfTurns /\ HeldConversations /\ SharedConversations

\* No step lets the conversation of a turn go before the turn is over.
LEMMA HeldInductive == TurnInv /\ [Next]_vars => HeldConversations'
<1> SUFFICES ASSUME TurnInv, [Next]_vars PROVE HeldConversations'
  OBVIOUS
<1> USE DEF TurnInv, HeldConversations, HasConversation, Holding
<1>1. CASE UNCHANGED vars
  BY <1>1 DEF vars, rows
<1>2. ASSUME NEW r \in Requests, Quiet(r) PROVE HeldConversations'
  BY <1>2, QuietFrame DEF rows, InFlight
<1>3. ASSUME NEW r \in Requests, Ask(r) PROVE HeldConversations'
  BY <1>3, AskFrame DEF rows, InFlight, TypeOK
<1>4. ASSUME NEW r \in Requests, Commit(r) PROVE HeldConversations'
  BY <1>4 DEF Commit, Goto, InFlight, TypeOK
<1>5. CASE Deletion
  BY <1>5
  DEF Deletion, DeleteConversation, DeleteConnection, DeleteFile, LockedBy
<1>6. CASE Crash
  BY <1>6 DEF Crash, InFlight, TypeOK
<1> QED
  BY <1>1, <1>2, <1>3, <1>4, <1>5, <1>6, Actions

\* A request joins the conversation of another only when it is committed.
LEMMA SharedInductive == TurnInv /\ [Next]_vars => SharedConversations'
<1> SUFFICES ASSUME TurnInv, [Next]_vars PROVE SharedConversations'
  OBVIOUS
<1> USE DEF TurnInv, SharedConversations
<1>1. CASE UNCHANGED vars \/ Deletion
  BY <1>1
  DEF vars, Deletion, DeleteConversation, DeleteConnection, DeleteFile
<1>2. ASSUME NEW r \in Requests, Quiet(r) PROVE SharedConversations'
  <2>1. \A q \in Requests : q \in convs => pc[q] = "done"
    BY DEF NoHalfTurns
  <2>2. /\ \A q \in Requests \ {r} : pc'[q] = pc[q] /\ conv'[q] = conv[q]
        /\ pc[r] # "done"
        /\ conv'[r] = conv[r] \/ conv'[r] \in convs \cup {r}
    BY <1>2, QuietFrame
  <2> QED
    BY <2>1, <2>2
<1>3. ASSUME NEW r \in Requests, Ask(r) PROVE SharedConversations'
  <2>1. /\ conv' = conv /\ pc[r] = "asking"
        /\ pc' = [pc EXCEPT ![r] = "database"]
    BY <1>3, AskFrame
  <2> QED
    BY <2>1 DEF TypeOK
<1>4. ASSUME NEW r \in Requests, Commit(r) PROVE SharedConversations'
  BY <1>4 DEF Commit, Goto, TypeOK
<1>6. CASE Crash
  BY <1>6 DEF Crash, InFlight, TypeOK
<1> QED
  BY <1>1, <1>2, <1>3, <1>4, <1>6, Actions

\* The part of NoHalfTurns about one request.
WholeTurn(r) ==
    IF pc[r] = "done"
    THEN {m.role : m \in {x \in messages : x.req = r /\ x.conv = conv[r]}} =
             IF conv[r] \in convs THEN {"user", "assistant"} ELSE {}
    ELSE /\ r \notin convs
         /\ \A x \in messages \cup audit \cup citations : x.req # r

LEMMA WholeTurns == NoHalfTurns <=> \A r \in Requests : WholeTurn(r)
  BY DEF NoHalfTurns, WholeTurn

\* A step that changes no row, and no commitment, keeps turns whole.
LEMMA WholeFrame ==
    ASSUME NEW r \in Requests, WholeTurn(r), UNCHANGED rows,
           pc'[r] = "done" <=> pc[r] = "done",
           pc[r] = "done" => conv'[r] = conv[r]
    PROVE  WholeTurn(r)'
  BY DEF WholeTurn, rows

\* A commit brings both messages of its turn and touches no other turn.
LEMMA CommitKeepsWhole ==
    ASSUME TurnInv, NEW r \in Requests, Commit(r), NEW q \in Requests
    PROVE  WholeTurn(q)'
<1>1. /\ pc[r] = "persist" /\ pc' = [pc EXCEPT ![r] = "done"]
      /\ convs' = convs \cup {conv[r]} /\ conv' = conv
      /\ messages' = messages \cup Messages(r)
      /\ audit' = audit \cup AuditRecords(r)
      /\ citations' = citations \cup Citations(r)
  BY DEF Commit, Goto
<1>2. conv[r] \in convs \cup {r}
  BY <1>1 DEF TurnInv, HeldConversations, Holding, HasConversation, InFlight
<1>3. /\ \A x \in Messages(r) \cup AuditRecords(r) \cup Citations(r) : x.req = r
      /\ \A x \in Messages(r) : x.conv = conv[r]
      /\ {x.role : x \in Messages(r)} = {"user", "assistant"}
  <2>1. \A x \in Messages(r) : x.req = r /\ x.conv = conv[r]
    BY DEF Messages
  <2>2. \A x \in AuditRecords(r) : x.req = r
    BY DEF AuditRecords, AuditRecord
  <2>3. \A x \in Citations(r) : x.req = r
    BY DEF Citations
  <2>4. {x.role : x \in Messages(r)} = {"user", "assistant"}
    <3> DEFINE message(role) == [req |-> r, role |-> role, conv |-> conv[r]]
    <3>1. Messages(r) = {message("user"), message("assistant")}
      BY DEF Messages
    <3>2. /\ message("user").role = "user"
          /\ message("assistant").role = "assistant"
      OBVIOUS
    <3> HIDE DEF message
    <3> QED
      BY <3>1, <3>2
  <2> QED
    BY <2>1, <2>2, <2>3, <2>4
<1>4. WholeTurn(q) /\ WholeTurn(r)
  BY WholeTurns DEF TurnInv
<1>5. CASE q = r
  <2>1. pc'[r] = "done" /\ conv'[r] \in convs'
    BY <1>1 DEF TurnInv, TypeOK
  <2>2. {x \in messages' : x.req = r /\ x.conv = conv'[r]} = Messages(r)
    BY <1>1, <1>3, <1>4 DEF WholeTurn
  <2> QED
    BY <1>3, <1>5, <2>1, <2>2 DEF WholeTurn
<1>6. CASE q # r
  <2>1. pc'[q] = pc[q] /\ conv'[q] = conv[q]
    BY <1>1, <1>6 DEF TurnInv, TypeOK
  <2>2. CASE pc[q] = "done"
    <3>1. conv[q] \in convs' <=> conv[q] \in convs
      BY <1>1, <1>2, <1>6, <2>2 DEF TurnInv, SharedConversations
    <3>2. {x \in messages' : x.req = q /\ x.conv = conv[q]} =
              {x \in messages : x.req = q /\ x.conv = conv[q]}
      BY <1>1, <1>3, <1>6
    <3> QED
      BY <1>4, <2>1, <2>2, <3>1, <3>2 DEF WholeTurn
  <2>3. CASE pc[q] # "done"
    <3>1. q \notin convs'
      BY <1>1, <1>4, <1>6, <2>3 DEF TurnInv, SharedConversations, WholeTurn
    <3> QED
      BY <1>1, <1>3, <1>4, <1>6, <2>1, <2>3, <3>1 DEF WholeTurn
  <2> QED
    BY <2>2, <2>3
<1> QED
  BY <1>5, <1>6

\* A deletion takes whole conversations, or rows of other tables.
LEMMA DeletionKeepsWhole ==
    ASSUME TurnInv, Deletion, NEW q \in Requests
    PROVE  WholeTurn(q)'
<1>1. WholeTurn(q) /\ UNCHANGED <<pc, conv>>
  BY WholeTurns
  DEF TurnInv, Deletion, DeleteConversation, DeleteConnection, DeleteFile
<1>2. /\ \A x \in audit' : \E y \in audit : y.req = x.req
      /\ \A x \in citations' : \E y \in citations : y.req = x.req
  BY DEF TurnInv, TypeOK, QueryExecution, Citation, Deletion,
         DeleteConversation, DeleteConnection, DeleteFile
<1>3. ASSUME NEW c \in ConvIds, DeleteConversation(c) PROVE WholeTurn(q)'
  <2>1. convs' = convs \ {c} /\ messages' = {m \in messages : m.conv # c}
    BY <1>3 DEF DeleteConversation
  <2>2. CASE pc[q] = "done"
    <3>1. {x \in messages' : x.req = q /\ x.conv = conv[q]} =
              IF conv[q] = c THEN {}
              ELSE {x \in messages : x.req = q /\ x.conv = conv[q]}
      BY <2>1
    <3> QED
      BY <1>1, <2>1, <2>2, <3>1 DEF WholeTurn
  <2>3. CASE pc[q] # "done"
    BY <1>1, <1>2, <2>1, <2>3 DEF WholeTurn
  <2> QED
    BY <2>2, <2>3
<1>4. CASE UNCHANGED <<convs, messages>>
  BY <1>1, <1>2, <1>4 DEF WholeTurn
<1> QED
  BY <1>3, <1>4 DEF Deletion, DeleteConnection, DeleteFile

LEMMA TurnInvInductive == TurnInv /\ [Next]_vars => TurnInv'
<1> SUFFICES ASSUME TurnInv, [Next]_vars, NEW q \in Requests PROVE WholeTurn(q)'
  <2>1. (\A q \in Requests : WholeTurn(q)') => NoHalfTurns'
    BY DEF NoHalfTurns, WholeTurn
  <2> QED
    BY <2>1, TypeOKInductive, HeldInductive, SharedInductive DEF TurnInv
<1>0. WholeTurn(q) /\ TypeOK
  BY WholeTurns DEF TurnInv
<1>1. CASE UNCHANGED vars
  BY <1>0, <1>1, WholeFrame DEF vars
<1>2. ASSUME NEW r \in Requests, Quiet(r) PROVE WholeTurn(q)'
  BY <1>0, <1>2, QuietFrame, WholeFrame
<1>3. ASSUME NEW r \in Requests, Ask(r) PROVE WholeTurn(q)'
  <2>1. (pc'[q] = "done" <=> pc[q] = "done") /\ conv'[q] = conv[q]
    BY <1>0, <1>3, AskFrame DEF TypeOK
  <2> QED
    BY <1>0, <1>3, <2>1, AskFrame, WholeFrame
<1>4. CASE Crash
  <2>1. (pc'[q] = "done" <=> pc[q] = "done") /\ UNCHANGED <<rows, conv>>
    BY <1>4 DEF Crash, InFlight
  <2> QED
    BY <1>0, <2>1, WholeFrame
<1> QED
  BY <1>1, <1>2, <1>3, <1>4, CommitKeepsWhole, DeletionKeepsWhole, Actions

LEMMA TurnInvInit == Init => TurnInv
<1>1. Init => \A r \in Requests : WholeTurn(r)
  BY TurnAssumption DEF TurnAssumption, Init, WholeTurn
<1> QED
  BY <1>1, TypeOKInit, WholeTurns
  DEF Init, TurnInv, HeldConversations, SharedConversations, Holding, InFlight

\* Nothing of a turn is visible before it is committed, whatever fails, is
\* deleted or dies meanwhile, and a committed turn has question and answer for
\* as long as its conversation exists.
THEOREM TurnsAreWhole == Spec => []NoHalfTurns
  BY TurnInvInit, TurnInvInductive, PTL DEF Spec, TurnInv

----------------------------------------------------------------------------
(* Audit records.                                                          *)

\* A result that reports a success ran.
SuccessesRan ==
    \A r \in Requests : \A i \in DOMAIN results[r] :
        results[r][i].status = "success" =>
            [req |-> r, at |-> i, connection |-> results[r][i].connection]
                \in executed

LEMMA SuccessesRanInductive ==
    TypeOK /\ SuccessesRan /\ [Next]_vars => SuccessesRan'
<1> SUFFICES ASSUME TypeOK, SuccessesRan, [Next]_vars PROVE SuccessesRan'
  OBVIOUS
<1>1. CASE UNCHANGED <<results, executed>>
  BY <1>1 DEF SuccessesRan
<1>2. ASSUME NEW r \in Requests, Ask(r) PROVE SuccessesRan'
  <2> PICK status \in Agent!Statuses :
          /\ results'[r] =
                 Append(results[r],
                        [connection |-> Head(todo[r]), status |-> status])
          /\ status = "success" => [req |-> r, at |-> Len(results[r]) + 1,
                                    connection |-> Head(todo[r])] \in executed'
    BY <1>2, AskFrame
  <2> DEFINE entry == [connection |-> Head(todo[r]), status |-> status]
             n == Len(results[r]) + 1
  <2>1. /\ \A q \in Requests \ {r} : results'[q] = results[q]
        /\ executed \subseteq executed'
    BY <1>2, AskFrame
  <2>2. results[r] \in Seq(Agent!Result) /\ results'[r] \in Seq(Agent!Result)
    BY <1>2, AskTypes DEF TypeOK, AgentTypes
  <2>3. Len(results'[r]) = n
    BY <2>2
  <2>4. /\ DOMAIN results'[r] = 1 .. n
        /\ DOMAIN results[r] = 1 .. n - 1
        /\ \A i \in 1 .. n - 1 : results'[r][i] = results[r][i]
        /\ results'[r][n] = entry
        /\ n \in Nat
    BY <2>2, <2>3
  <2>5. entry.connection = Head(todo[r]) /\ entry.status = status
    OBVIOUS
  <2> HIDE DEF entry
  <2> SUFFICES ASSUME NEW q \in Requests, NEW i \in DOMAIN results'[q],
                      results'[q][i].status = "success"
               PROVE  [req |-> q, at |-> i,
                       connection |-> results'[q][i].connection] \in executed'
    BY DEF SuccessesRan
  <2>6. CASE q # r \/ i # n
    <3>1. i \in DOMAIN results[q] /\ results'[q][i] = results[q][i]
      BY <2>1, <2>4, <2>6
    <3> QED
      BY <2>1, <3>1 DEF SuccessesRan
  <2>7. CASE q = r /\ i = n
    BY <2>4, <2>5, <2>7
  <2> QED
    BY <2>6, <2>7
<1> QED
  BY <1>1, <1>2, QuietFrame, Actions
  DEF vars, agents, Commit, Deletion, DeleteConversation, DeleteConnection,
      DeleteFile, Crash

\* Each result on a connection that still exists has its record.
Recorded(r) ==
    \A i \in DOMAIN results[r] : results[r][i].connection \in conns =>
        \E q \in audit : /\ q.req = r /\ q.at = i
                         /\ q.connection = results[r][i].connection
                         /\ q.execution_status = results[r][i].status

\* A record agrees with itself, its connection and what ran.
Truthful(q) ==
    /\ q.connection \in conns
    /\ q.validation_status = "rejected" <=> q.execution_status = "rejected"
    /\ q.execution_status = "success" =>
           [req |-> q.req, at |-> q.at, connection |-> q.connection]
               \in executed

LEMMA AuditParts ==
    AuditTellsTurn <=> /\ \A r \in Requests : pc[r] = "done" => Recorded(r)
                       /\ \A q \in audit : Truthful(q)
  BY DEF AuditTellsTurn, Recorded, Truthful

\* The records a turn commits are complete and true.
LEMMA CommitRecords ==
    ASSUME TypeOK, SuccessesRan, NEW r \in Requests, Persistable(r)
    PROVE  /\ \A i \in DOMAIN results[r] :
                  \E q \in AuditRecords(r) :
                      /\ q.req = r /\ q.at = i
                      /\ q.connection = results[r][i].connection
                      /\ q.execution_status = results[r][i].status
           /\ \A q \in AuditRecords(r) : Truthful(q)
<1>1. ASSUME NEW i \in DOMAIN results[r]
      PROVE  /\ AuditRecord(r, i).req = r
             /\ AuditRecord(r, i).at = i
             /\ AuditRecord(r, i).connection = results[r][i].connection
             /\ AuditRecord(r, i).execution_status = results[r][i].status
             /\ Truthful(AuditRecord(r, i))
  <2>1. /\ AuditRecord(r, i).req = r
        /\ AuditRecord(r, i).at = i
        /\ AuditRecord(r, i).connection = results[r][i].connection
        /\ AuditRecord(r, i).execution_status = results[r][i].status
        /\ AuditRecord(r, i).validation_status =
               IF results[r][i].status = "rejected" THEN "rejected" ELSE "valid"
    BY DEF AuditRecord
  <2>2. results[r][i].connection \in conns
    BY DEF Persistable
  <2> QED
    BY <2>1, <2>2 DEF Truthful, SuccessesRan
<1> QED
  BY <1>1, Zenon DEF AuditRecords

\* A deletion takes only the records of connections that go with it.
LEMMA DeletionKeepsAudit ==
    ASSUME TypeOK, AuditTellsTurn, Deletion
    PROVE  AuditTellsTurn'
<1>0. /\ UNCHANGED <<pc, results, executed>>
      /\ audit \subseteq QueryExecution
  BY DEF TypeOK, Deletion, DeleteConversation, DeleteConnection, DeleteFile,
         agents
<1>1. ASSUME NEW c \in ConvIds, DeleteConversation(c) PROVE AuditTellsTurn'
  <2> DEFINE kept(q) == IF q.conv = c THEN [q EXCEPT !.conv = Deleted] ELSE q
  <2>1. \A q \in audit :
            /\ kept(q).req = q.req
            /\ kept(q).at = q.at
            /\ kept(q).connection = q.connection
            /\ kept(q).execution_status = q.execution_status
            /\ kept(q).validation_status = q.validation_status
    BY <1>0 DEF QueryExecution
  <2>2. audit' = {kept(q) : q \in audit} /\ conns' = conns
    BY <1>1 DEF DeleteConversation
  <2> HIDE DEF kept
  <2> QED
    BY <1>0, <2>1, <2>2 DEF AuditTellsTurn
<1>2. ASSUME NEW c \in Conns, DeleteConnection(c) PROVE AuditTellsTurn'
  <2>1. /\ conns' = conns \ {c}
        /\ audit' = {q \in audit : q.connection # c}
    BY <1>2 DEF DeleteConnection
  <2> QED
    BY <1>0, <2>1 DEF AuditTellsTurn
<1>3. ASSUME NEW f \in Files, DeleteFile(f) PROVE AuditTellsTurn'
  BY <1>0, <1>3 DEF DeleteFile, AuditTellsTurn
<1> QED
  BY <1>1, <1>2, <1>3 DEF Deletion

LEMMA AuditInductive ==
    TypeOK /\ SuccessesRan /\ AuditTellsTurn /\ [Next]_vars => AuditTellsTurn'
<1> SUFFICES ASSUME TypeOK, SuccessesRan, AuditTellsTurn, [Next]_vars
             PROVE  AuditTellsTurn'
  OBVIOUS
<1>1. CASE UNCHANGED vars
  BY <1>1 DEF vars, rows, agents, AuditTellsTurn
<1>2. ASSUME NEW r \in Requests, Quiet(r) PROVE AuditTellsTurn'
  <2>1. /\ UNCHANGED <<audit, conns, results, executed>>
        /\ \A q \in Requests : pc'[q] = "done" => pc[q] = "done"
    BY <1>2, QuietFrame DEF rows
  <2> QED
    BY <2>1 DEF AuditTellsTurn
<1>3. ASSUME NEW r \in Requests, Ask(r) PROVE AuditTellsTurn'
  <2>1. /\ UNCHANGED <<audit, conns>>
        /\ executed \subseteq executed'
        /\ \A q \in Requests : pc'[q] = "done" =>
               pc[q] = "done" /\ results'[q] = results[q]
    BY <1>3, AskFrame DEF rows, TypeOK
  <2> QED
    BY <2>1 DEF AuditTellsTurn
<1>4. ASSUME NEW r \in Requests, Commit(r) PROVE AuditTellsTurn'
  <2>1. /\ Persistable(r)
        /\ audit' = audit \cup AuditRecords(r)
        /\ UNCHANGED <<conns, results, executed>>
        /\ \A q \in Requests : pc'[q] = "done" => pc[q] = "done" \/ q = r
    BY <1>4 DEF Commit, Goto, agents, TypeOK
  <2>2. \A q \in Requests : pc'[q] = "done" => Recorded(q)'
    BY <2>1, AuditParts, CommitRecords DEF Recorded
  <2>3. \A q \in audit' : Truthful(q)'
    BY <2>1, AuditParts, CommitRecords DEF Truthful
  <2> QED
    BY <2>2, <2>3 DEF AuditTellsTurn, Recorded, Truthful
<1>5. CASE Crash
  <2>1. /\ UNCHANGED <<audit, conns, results, executed>>
        /\ \A q \in Requests : pc'[q] = "done" => pc[q] = "done"
    BY <1>5 DEF Crash, rows
  <2> QED
    BY <2>1 DEF AuditTellsTurn
<1> QED
  BY <1>1, <1>2, <1>3, <1>4, <1>5, DeletionKeepsAudit, Actions

\* The audit records of a committed turn tell what its database node did, one
\* for each connection that still exists, and a recorded success did run.
THEOREM AuditTells == Spec => []AuditTellsTurn
<1>1. Init => SuccessesRan /\ AuditTellsTurn
  BY DEF Init, Agent!Init, SuccessesRan, AuditTellsTurn
<1> QED
  BY <1>1, TypeOKInit, TypeOKInductive, SuccessesRanInductive, AuditInductive,
     PTL
  DEF Spec

----------------------------------------------------------------------------
(* References.                                                             *)

\* The message a citation belongs to.
CitedBy(x, m) == m.req = x.req /\ m.role = "assistant" /\ m.conv = x.conv

\* What is cited is there, while the citation is live.
SourceExists(x) ==
    IF x.type = "document" THEN x.source \in files
    ELSE \E q \in audit : q.req = x.req /\ q.at = x.source

References ==
    /\ \A m \in messages : m.conv \in convs
    /\ \A q \in audit : q.conv \in convs \cup {Deleted}
    /\ \A x \in citations : /\ \E m \in messages : CitedBy(x, m)
                            /\ x.live => SourceExists(x)

\* A turn commits only references to rows that exist or that it commits too.
LEMMA CommitKeepsReferences ==
    ASSUME TurnInv, References, NEW r \in Requests, Commit(r)
    PROVE  References'
<1>1. /\ Persistable(r) /\ files' = files
      /\ convs' = convs \cup {conv[r]}
      /\ messages' = messages \cup Messages(r)
      /\ audit' = audit \cup AuditRecords(r)
      /\ citations' = citations \cup Citations(r)
  BY DEF Commit
<1>2. /\ \A m \in Messages(r) : m.conv = conv[r]
      /\ \A q \in AuditRecords(r) : q.conv = conv[r]
  BY DEF Messages, AuditRecords, AuditRecord
<1>3. ASSUME NEW x \in Citations(r)
      PROVE  /\ \E m \in messages' : CitedBy(x, m)
             /\ SourceExists(x)'
  <2>1. x.req = r /\ x.conv = conv[r]
    BY DEF Citations
  <2>2. \E m \in messages' : CitedBy(x, m)
    <3> DEFINE m == [req |-> r, role |-> "assistant", conv |-> conv[r]]
    <3>1. m \in messages'
      BY <1>1 DEF Messages
    <3>2. CitedBy(x, m)
      BY <2>1 DEF CitedBy
    <3> QED
      BY <3>1, <3>2
  <2>3. CASE \E f \in evidence[r] : x.type = "document" /\ x.source = f
    BY <1>1, <2>2, <2>3 DEF Persistable, SourceExists
  <2>4. CASE \E i \in DOMAIN results[r] : x.type = "database" /\ x.source = i
    <3> PICK i \in DOMAIN results[r] : x.type = "database" /\ x.source = i
      BY <2>4
    <3>1. AuditRecord(r, i) \in audit'
      BY <1>1 DEF AuditRecords
    <3>2. AuditRecord(r, i).req = r /\ AuditRecord(r, i).at = i
      BY DEF AuditRecord
    <3>3. x.req = r /\ x.source = i /\ x.type # "document"
      BY <2>1
    <3> QED
      BY <2>2, <3>1, <3>2, <3>3 DEF SourceExists
  <2>5. \/ \E f \in evidence[r] : x.type = "document" /\ x.source = f
        \/ \E i \in DOMAIN results[r] : x.type = "database" /\ x.source = i
    BY DEF Citations
  <2> QED
    BY <2>2, <2>3, <2>4, <2>5
<1>4. ASSUME NEW x \in citations
      PROVE  /\ \E m \in messages' : CitedBy(x, m)
             /\ x.live => SourceExists(x)'
  BY <1>1 DEF References, SourceExists
<1> QED
  BY <1>1, <1>2, <1>3, <1>4 DEF References

\* A deleted row takes along, or lets go of, whatever refers to it.
LEMMA DeletionKeepsReferences ==
    ASSUME TypeOK, References, Deletion
    PROVE  References'
<1> USE DEF References, CitedBy, SourceExists
<1>0. audit \subseteq QueryExecution /\ citations \subseteq Citation
  BY DEF TypeOK
<1>1. ASSUME NEW c \in ConvIds, DeleteConversation(c) PROVE References'
  <2> DEFINE kept(q) == IF q.conv = c THEN [q EXCEPT !.conv = Deleted] ELSE q
  <2>1. \A q \in audit :
            /\ kept(q).req = q.req /\ kept(q).at = q.at
            /\ kept(q).conv = IF q.conv = c THEN Deleted ELSE q.conv
    BY <1>0 DEF QueryExecution
  <2>2. /\ convs' = convs \ {c} /\ files' = files
        /\ messages' = {m \in messages : m.conv # c}
        /\ citations' = {x \in citations : x.conv # c}
        /\ audit' = {kept(q) : q \in audit}
    BY <1>1 DEF DeleteConversation
  <2> HIDE DEF kept
  <2> QED
    BY <2>1, <2>2
<1>2. ASSUME NEW c \in Conns, DeleteConnection(c) PROVE References'
  <2> DEFINE gone == {q \in audit : q.connection = c}
             loses(x) == /\ x.type = "database"
                         /\ \E q \in gone : q.req = x.req /\ q.at = x.source
             kept(x) == IF loses(x) THEN [x EXCEPT !.live = FALSE] ELSE x
  <2>1. \A x \in citations :
            /\ kept(x).req = x.req /\ kept(x).conv = x.conv
            /\ kept(x).type = x.type /\ kept(x).source = x.source
            /\ kept(x).live => x.live /\ ~loses(x)
            /\ x.type \in {"database", "document"}
    BY <1>0 DEF Citation
  <2>2. /\ UNCHANGED <<convs, messages, files>>
        /\ audit' = audit \ gone
        /\ citations' = {kept(x) : x \in citations}
    BY <1>2 DEF DeleteConnection
  <2>3. ASSUME NEW x \in citations, x.live, ~loses(x)
        PROVE  IF x.type = "document" THEN x.source \in files
               ELSE \E q \in audit' : q.req = x.req /\ q.at = x.source
    BY <2>1, <2>2, <2>3
  <2> HIDE DEF kept, loses, gone
  <2> QED
    BY <2>1, <2>2, <2>3
<1>3. ASSUME NEW f \in Files, DeleteFile(f) PROVE References'
  <2> DEFINE kept(x) == IF x.type = "document" /\ x.source = f
                        THEN [x EXCEPT !.live = FALSE] ELSE x
  <2>1. \A x \in citations :
            /\ kept(x).req = x.req /\ kept(x).conv = x.conv
            /\ kept(x).type = x.type /\ kept(x).source = x.source
            /\ kept(x).live =>
                   x.live /\ ~(x.type = "document" /\ x.source = f)
    BY <1>0 DEF Citation
  <2>2. /\ UNCHANGED <<convs, messages, audit>>
        /\ files' = files \ {f}
        /\ citations' = {kept(x) : x \in citations}
    BY <1>3 DEF DeleteFile
  <2> HIDE DEF kept
  <2> QED
    BY <2>1, <2>2
<1> QED
  BY <1>1, <1>2, <1>3 DEF Deletion

LEMMA ReferencesInductive ==
    TurnInv /\ References /\ [Next]_vars => References'
<1> SUFFICES ASSUME TurnInv, References, [Next]_vars PROVE References'
  OBVIOUS
<1>1. CASE UNCHANGED rows
  BY <1>1 DEF rows, References, SourceExists
<1>2. TypeOK
  BY DEF TurnInv
<1> QED
  BY <1>1, <1>2, QuietFrame, AskFrame, CommitKeepsReferences,
     DeletionKeepsReferences, Actions
  DEF vars, Crash

\* Nothing refers to a row that is gone, whatever is deleted while turns are on
\* their way, and no conversation goes between the two messages of a turn.
THEOREM NothingDangles == Spec => []NoDanglingReferences
<1>1. Init => References
  BY DEF Init, References
<1>2. Init => TurnInv
  BY TurnInvInit
<1>3. TurnInv /\ References => NoDanglingReferences
  BY DEF TurnInv, References, CitedBy, SourceExists, NoDanglingReferences,
         HeldConversations, Holding
<1> QED
  BY <1>1, <1>2, <1>3, TurnInvInductive, ReferencesInductive, PTL DEF Spec

----------------------------------------------------------------------------
(* Which sources a turn asks.                                              *)

AsksDb(r) == intent[r] \in {"database", "hybrid"}
AsksKb(r) == intent[r] \in {"document", "hybrid"}

\* The intent fits what was selected.
Routed(r) ==
    /\ AsksDb(r) => picked[r].list # <<>>
    /\ AsksKb(r) => picked[r].kb
    /\ picked[r].list # <<>> \/ picked[r].kb => AsksDb(r) \/ AsksKb(r)

\* The results so far, followed by what is left to ask, are the selected list.
Walk(r) ==
    /\ Len(results[r]) + Len(todo[r]) = Len(picked[r].list)
    /\ \A i \in 1 .. Len(results[r]) :
           results[r][i].connection = picked[r].list[i]
    /\ \A i \in 1 .. Len(todo[r]) :
           todo[r][i] = picked[r].list[Len(results[r]) + i]

\* The walk is over, or there was none.
Told(r) ==
    IF AsksDb(r)
    THEN /\ Len(results[r]) = Len(picked[r].list)
         /\ \A i \in 1 .. Len(results[r]) :
                results[r][i].connection = picked[r].list[i]
    ELSE results[r] = <<>>

\* What has been asked when a request is at each place.
Course(r) ==
    /\ pc[r] \in {"idle", "user message", "classify"} =>
           results[r] = <<>> /\ evidence[r] = {}
    /\ pc[r] \in {"database", "asking"} =>
           Routed(r) /\ AsksDb(r) /\ Walk(r) /\ evidence[r] = {}
    /\ pc[r] = "documents" => Routed(r) /\ AsksKb(r) /\ Told(r)
    /\ pc[r] \in {"answer", "persist", "done"} =>
           Routed(r) /\ Told(r) /\ (evidence[r] # {} => AsksKb(r))

CourseInv == TypeOK /\ \A r \in Requests : Course(r)

\* A course depends on the request's own values only.
LEMMA CourseFrame ==
    ASSUME NEW q \in Requests, Course(q),
           pc'[q] = pc[q] \/ pc'[q] = "aborted",
           picked'[q] = picked[q], intent'[q] = intent[q],
           evidence'[q] = evidence[q], todo'[q] = todo[q],
           results'[q] = results[q]
    PROVE  Course(q)'
<1>1. /\ Routed(q) => Routed(q)'
      /\ Walk(q) => Walk(q)'
      /\ Told(q) => Told(q)'
      /\ AsksDb(q) => AsksDb(q)'
      /\ AsksKb(q) => AsksKb(q)'
  BY DEF Routed, Walk, Told, AsksDb, AsksKb
<1> QED
  BY <1>1 DEF Course

\* The classifier's answer is made to fit, and the walk begins at its list.
LEMMA ClassifyCourse ==
    ASSUME CourseInv, NEW r \in Requests,
           NEW answer \in ClassifierAnswers, Classify(r, answer)
    PROVE  Course(r)'
<1> DEFINE i == ClassifyIntent(answer, picked[r].list # <<>>, picked[r].kb)
<1>1. /\ i \in Intents
      /\ i \in {"database", "hybrid"} => picked[r].list # <<>>
      /\ i \in {"document", "hybrid"} => picked[r].kb
      /\ picked[r].list # <<>> \/ picked[r].kb =>
             i \in {"database", "document", "hybrid"}
  BY IntentFits DEF CourseInv, TypeOK
<1>2. RouteAfterClassify(i) =
          IF i \in {"database", "hybrid"} THEN "database"
          ELSE IF i = "document" THEN "documents" ELSE "answer"
  BY <1>1, Routes
<1>3. /\ intent'[r] = i
      /\ pc'[r] = RouteAfterClassify(i)
      /\ picked' = picked /\ evidence' = evidence
      /\ results' = results
      /\ i \in {"database", "hybrid"} => todo'[r] = picked[r].list
      /\ results[r] = <<>> /\ evidence[r] = {}
  BY <1>2 DEF Classify, Goto, agents, Agent!Start, CourseInv, Course, TypeOK
<1>4. picked[r].list \in Seq(Conns)
  <2>1. picked[r].list \in ConnectionLists \cup {<<>>}
    BY DEF CourseInv, TypeOK
  <2> QED
    BY <2>1, NoConnections, TurnAssumption DEF TurnAssumption
<1> HIDE DEF i
<1>5. Routed(r)'
  BY <1>1, <1>3 DEF Routed, AsksDb, AsksKb
<1>6. CASE i \in {"database", "hybrid"}
  <2>1. Walk(r)'
    BY <1>3, <1>4, <1>6 DEF Walk
  <2> QED
    BY <1>2, <1>3, <1>5, <1>6, <2>1 DEF Course, AsksDb
<1>7. CASE i \notin {"database", "hybrid"}
  <2>1. Told(r)'
    BY <1>3, <1>7 DEF Told, AsksDb
  <2> QED
    BY <1>1, <1>2, <1>3, <1>5, <1>7, <2>1 DEF Course, AsksKb
<1> QED
  BY <1>6, <1>7

\* An answer moves one connection from what is left to the results.
LEMMA AskCourse ==
    ASSUME CourseInv, NEW r \in Requests, Ask(r)
    PROVE  Course(r)'
<1> PICK status \in Agent!Statuses, odd \in BOOLEAN :
         \E ran \in Agent!CouldHaveRun(status) :
             AskConnection(r, status, ran, odd)
  BY DEF Ask
<1> PICK ran \in Agent!CouldHaveRun(status) : AskConnection(r, status, ran, odd)
  OBVIOUS
<1> DEFINE entry == [connection |-> Head(todo[r]), status |-> status]
<1>1. /\ pc[r] = "asking" /\ pc'[r] = "database"
      /\ picked' = picked /\ evidence' = evidence /\ intent' = intent
      /\ todo[r] # <<>> /\ todo'[r] = Tail(todo[r])
      /\ results'[r] = Append(results[r], entry)
  BY DEF AskConnection, Agent!Answer, Goto, CourseInv, TypeOK
<1>2. Routed(r) /\ AsksDb(r) /\ Walk(r) /\ evidence[r] = {}
  BY <1>1 DEF CourseInv, Course
<1>3. todo[r] \in Seq(Conns) /\ results[r] \in Seq(Agent!Result)
  BY DEF CourseInv, TypeOK
<1>4. /\ Len(todo[r]) \in Nat \ {0} /\ Len(todo'[r]) \in Nat
      /\ Len(todo'[r]) = Len(todo[r]) - 1
      /\ \A i \in 1 .. Len(todo'[r]) : todo'[r][i] = todo[r][i + 1]
      /\ Head(todo[r]) = todo[r][1]
  BY <1>1, <1>3
<1>5. /\ Len(results[r]) \in Nat /\ Len(results'[r]) \in Nat
      /\ Len(results'[r]) = Len(results[r]) + 1
      /\ \A i \in 1 .. Len(results[r]) : results'[r][i] = results[r][i]
      /\ results'[r][Len(results[r]) + 1] = entry
  BY <1>1, <1>3
<1>6. Walk(r)'
  <2> DEFINE m == Len(results[r])  m1 == Len(results'[r])
             n == Len(todo[r])     n1 == Len(todo'[r])
  <2>lengths. m \in Nat /\ n \in Nat /\ m1 = m + 1 /\ n1 = n - 1
    BY <1>4, <1>5
  <2> HIDE DEF m, m1, n, n1
  <2>sums. m1 + n1 = m + n /\ \A i \in Nat : m + (i + 1) = m1 + i
    BY <2>lengths
  <2> USE DEF m, m1, n, n1
  <2>1. Len(results'[r]) + Len(todo'[r]) = Len(picked'[r].list)
    <3>1. Len(results'[r]) + Len(todo'[r]) = Len(results[r]) + Len(todo[r])
      BY <2>sums
    <3> QED
      BY <1>1, <1>2, <3>1 DEF Walk
  <2>2. ASSUME NEW i \in 1 .. Len(results'[r])
        PROVE  results'[r][i].connection = picked'[r].list[i]
    <3>1. CASE i \in 1 .. Len(results[r])
      BY <1>1, <1>2, <1>5, <3>1 DEF Walk
    <3>2. CASE i = Len(results[r]) + 1
      <4>1. 1 \in 1 .. Len(todo[r])
        BY <1>4
      <4>2. todo[r][1] = picked[r].list[Len(results[r]) + 1]
        BY <1>2, <4>1 DEF Walk
      <4> QED
        BY <1>1, <1>4, <1>5, <3>2, <4>2
    <3> QED
      BY <1>5, <3>1, <3>2
  <2>3. ASSUME NEW i \in 1 .. Len(todo'[r])
        PROVE  todo'[r][i] = picked'[r].list[Len(results'[r]) + i]
    <3>1. i + 1 \in 1 .. Len(todo[r]) /\ i \in Nat
      BY <1>4
    <3>2. todo[r][i + 1] = picked[r].list[Len(results[r]) + (i + 1)]
      BY <1>2, <3>1 DEF Walk
    <3>3. Len(results[r]) + (i + 1) = Len(results'[r]) + i
      BY <2>sums, <3>1
    <3> QED
      BY <1>1, <1>4, <3>2, <3>3
  <2> QED
    BY <2>1, <2>2, <2>3 DEF Walk
<1>7. Routed(r)' /\ AsksDb(r)'
  BY <1>1, <1>2 DEF Routed, AsksDb, AsksKb
<1> QED
  BY <1>1, <1>2, <1>6, <1>7 DEF Course

\* A walk that is over has asked the whole list.
LEMMA LeaveCourse ==
    ASSUME CourseInv, NEW r \in Requests, LeaveDatabase(r)
    PROVE  Course(r)'
<1>1. /\ pc[r] = "database" /\ pc'[r] = RouteAfterDatabase(intent[r])
      /\ picked' = picked /\ evidence' = evidence /\ intent' = intent
      /\ results' = results /\ todo[r] = <<>>
  BY DEF LeaveDatabase, Agent!Finish, Goto, CourseInv, TypeOK
<1>2. Routed(r) /\ AsksDb(r) /\ Walk(r) /\ evidence[r] = {}
  BY <1>1 DEF CourseInv, Course
<1>3. Len(results[r]) \in Nat
  BY DEF CourseInv, TypeOK
<1>4. Told(r)'
  BY <1>1, <1>2, <1>3 DEF Told, Walk, AsksDb
<1>5. Routed(r)'
  BY <1>1, <1>2 DEF Routed, AsksDb, AsksKb
<1>6. /\ pc'[r] \in {"documents", "answer"}
      /\ pc'[r] = "documents" => AsksKb(r)'
  BY <1>1, <1>2 DEF RouteAfterDatabase, AsksDb, AsksKb
<1> QED
  BY <1>1, <1>2, <1>4, <1>5, <1>6 DEF Course

LEMMA QuietCourse ==
    ASSUME CourseInv, NEW r \in Requests, Quiet(r)
    PROVE  Course(r)'
<1>1. ASSUME NEW answer \in ClassifierAnswers, Classify(r, answer)
      PROVE  Course(r)'
  BY <1>1, ClassifyCourse
<1>2. CASE LeaveDatabase(r)
  BY <1>2, LeaveCourse
<1>3. CASE \E found \in SUBSET files : Retrieve(r, found)
  <2>1. /\ pc[r] = "documents" /\ pc'[r] = "answer"
        /\ UNCHANGED <<picked, intent, results>>
    BY <1>3 DEF Retrieve, Goto, agents, CourseInv, TypeOK
  <2>2. Routed(r) /\ AsksKb(r) /\ Told(r)
    BY <2>1 DEF CourseInv, Course
  <2>3. Routed(r)' /\ AsksKb(r)' /\ Told(r)'
    BY <2>1, <2>2 DEF Routed, AsksDb, AsksKb, Told
  <2> QED
    BY <2>1, <2>3 DEF Course
<1>4. CASE \E c \in ConvIds, selection \in Selections[r] : Begin(r, c, selection)
  BY <1>4 DEF Begin, Goto, agents, CourseInv, Course, TypeOK
<1>5. CASE GenerateAnswer(r)
  <2>1. /\ pc[r] = "answer" /\ pc'[r] = "persist"
        /\ UNCHANGED <<picked, intent, results, evidence>>
    BY <1>5 DEF GenerateAnswer, Goto, agents, CourseInv, TypeOK
  <2>2. Routed(r) /\ Told(r) /\ (evidence[r] # {} => AsksKb(r))
    BY <2>1 DEF CourseInv, Course
  <2>3. Routed(r)' /\ Told(r)' /\ (evidence'[r] # {} => AsksKb(r)')
    BY <2>1, <2>2 DEF Routed, AsksDb, AsksKb, Told
  <2> QED
    BY <2>1, <2>3 DEF Course
<1>6. CASE LookupConnection(r)
  <2>1. /\ pc[r] = "database" /\ pc'[r] \in {"asking", "aborted"}
        /\ UNCHANGED <<picked, intent, results, evidence, todo>>
    BY <1>6 DEF LookupConnection, Goto, agents, Agent!Abort, CourseInv, TypeOK
  <2>2. Routed(r) /\ AsksDb(r) /\ Walk(r) /\ evidence[r] = {}
    BY <2>1 DEF CourseInv, Course
  <2>3. Routed(r)' /\ AsksDb(r)' /\ Walk(r)'
    BY <2>1, <2>2 DEF Routed, AsksDb, AsksKb, Walk
  <2> QED
    BY <2>1, <2>2, <2>3 DEF Course
<1>7. CASE AddUserMessage(r)
  BY <1>7 DEF AddUserMessage, Goto, agents, CourseInv, Course, TypeOK
<1>8. CASE \/ \E c \in ConvIds : ConversationNotFound(r, c)
           \/ CallFails(r) \/ PersistFails(r)
  <2>1. pc'[r] = "aborted"
    BY <1>8 DEF ConversationNotFound, CallFails, PersistFails, Goto, CourseInv,
               TypeOK
  <2> QED
    BY <2>1 DEF Course
<1> QED
  BY <1>1, <1>2, <1>3, <1>4, <1>5, <1>6, <1>7, <1>8 DEF Quiet

LEMMA QuietLeavesOthers ==
    ASSUME TypeOK, NEW r \in Requests, Quiet(r), NEW q \in Requests \ {r}
    PROVE  /\ pc'[q] = pc[q] /\ picked'[q] = picked[q] /\ intent'[q] = intent[q]
           /\ evidence'[q] = evidence[q] /\ todo'[q] = todo[q]
           /\ results'[q] = results[q]
<1> USE DEF TypeOK, Goto, agents
<1>1. CASE \E c \in ConvIds, selection \in Selections[r] : Begin(r, c, selection)
  BY <1>1 DEF Begin
<1>2. CASE \/ \E c \in ConvIds : ConversationNotFound(r, c)
           \/ AddUserMessage(r) \/ GenerateAnswer(r) \/ PersistFails(r)
           \/ \E found \in SUBSET files : Retrieve(r, found)
  BY <1>2
  DEF ConversationNotFound, AddUserMessage, GenerateAnswer, PersistFails,
      Retrieve
<1>3. CASE \E answer \in ClassifierAnswers : Classify(r, answer)
  BY <1>3 DEF Classify, Agent!Start
<1>4. CASE LookupConnection(r) \/ CallFails(r) \/ LeaveDatabase(r)
  BY <1>4 DEF LookupConnection, CallFails, LeaveDatabase, Agent!Abort,
             Agent!Finish
<1> QED
  BY <1>1, <1>2, <1>3, <1>4 DEF Quiet

LEMMA CourseInductive == CourseInv /\ [Next]_vars => CourseInv'
<1> SUFFICES ASSUME CourseInv, [Next]_vars, NEW q \in Requests
             PROVE  Course(q)'
  BY TypeOKInductive DEF CourseInv
<1>0. Course(q)
  BY DEF CourseInv
<1>1. CASE UNCHANGED vars
  BY <1>0, <1>1, CourseFrame DEF vars, agents
<1>2. ASSUME NEW r \in Requests, Quiet(r) PROVE Course(q)'
  <2>1. CASE q = r
    BY <1>2, <2>1, QuietCourse
  <2>2. CASE q # r
    <3>1. /\ pc'[q] = pc[q] /\ picked'[q] = picked[q] /\ intent'[q] = intent[q]
          /\ evidence'[q] = evidence[q] /\ todo'[q] = todo[q]
          /\ results'[q] = results[q]
      BY <1>2, <2>2, QuietLeavesOthers DEF CourseInv
    <3> QED
      BY <1>0, <3>1, CourseFrame
  <2> QED
    BY <2>1, <2>2
<1>3. ASSUME NEW r \in Requests, Ask(r) PROVE Course(q)'
  <2>1. CASE q = r
    BY <1>3, <2>1, AskCourse
  <2>2. CASE q # r
    <3>1. /\ pc'[q] = pc[q] /\ picked'[q] = picked[q] /\ intent'[q] = intent[q]
          /\ evidence'[q] = evidence[q] /\ todo'[q] = todo[q]
          /\ results'[q] = results[q]
      BY <1>3, <2>2
      DEF CourseInv, TypeOK, Ask, AskConnection, Goto, Agent!Answer
    <3> QED
      BY <1>0, <3>1, CourseFrame
  <2> QED
    BY <2>1, <2>2
<1>4. ASSUME NEW r \in Requests, Commit(r) PROVE Course(q)'
  <2>1. /\ UNCHANGED <<picked, intent, evidence, todo, results>>
        /\ pc[r] = "persist" /\ pc' = [pc EXCEPT ![r] = "done"]
    BY <1>4 DEF Commit, Goto, agents
  <2>2. CASE q = r
    <3>1. Routed(r) /\ Told(r) /\ (evidence[r] # {} => AsksKb(r))
      BY <1>0, <2>1, <2>2 DEF Course
    <3>2. Routed(r)' /\ Told(r)' /\ (evidence'[r] # {} => AsksKb(r)')
      BY <2>1, <3>1 DEF Routed, AsksDb, AsksKb, Told
    <3> QED
      BY <2>1, <2>2, <3>2 DEF Course, CourseInv, TypeOK
  <2>3. CASE q # r
    BY <1>0, <2>1, <2>3, CourseFrame DEF CourseInv, TypeOK
  <2> QED
    BY <2>2, <2>3
<1>5. CASE Deletion
  BY <1>0, <1>5, CourseFrame
  DEF Deletion, DeleteConversation, DeleteConnection, DeleteFile, agents
<1>6. CASE Crash
  BY <1>0, <1>6, CourseFrame DEF Crash
<1> QED
  BY <1>1, <1>2, <1>3, <1>4, <1>5, <1>6, Actions

LEMMA CourseInvInit == Init => CourseInv
  BY TypeOKInit DEF Init, CourseInv, Course, Agent!Init

\* A committed turn has asked what was selected, every connection in its
\* order, and nothing else, for every answer of the classifier.
THEOREM SourcesAreAsked == Spec => []SelectedSourcesAreAsked
<1>1. CourseInv => SelectedSourcesAreAsked
  <2> SUFFICES ASSUME CourseInv, NEW r \in Requests, pc[r] = "done"
               PROVE  /\ AsksDb(r) => picked[r].list # <<>>
                      /\ AsksKb(r) => picked[r].kb
                      /\ picked[r].list # <<>> \/ picked[r].kb =>
                             AsksDb(r) \/ AsksKb(r)
                      /\ [i \in DOMAIN results[r] |-> results[r][i].connection] =
                             IF AsksDb(r) THEN picked[r].list ELSE <<>>
                      /\ ~AsksKb(r) => evidence[r] = {}
    BY DEF SelectedSourcesAreAsked, AsksDb, AsksKb
  <2>1. Routed(r) /\ Told(r) /\ (evidence[r] # {} => AsksKb(r))
    BY DEF CourseInv, Course
  <2>2. picked[r].list \in Seq(Conns)
    <3>1. picked[r].list \in ConnectionLists \cup {<<>>}
      BY DEF CourseInv, TypeOK
    <3> QED
      BY <3>1, NoConnections, TurnAssumption DEF TurnAssumption
  <2>3. results[r] \in Seq(Agent!Result)
    BY DEF CourseInv, TypeOK
  <2>4. [i \in DOMAIN results[r] |-> results[r][i].connection] =
            IF AsksDb(r) THEN picked[r].list ELSE <<>>
    <3>1. CASE AsksDb(r)
      <4> DEFINE list == picked[r].list
      <4>1. /\ DOMAIN results[r] = 1 .. Len(list)
            /\ \A i \in 1 .. Len(list) : results[r][i].connection = list[i]
        BY <2>1, <2>3, <3>1 DEF Told
      <4>2. list = [i \in 1 .. Len(list) |-> list[i]]
        BY <2>2
      <4> HIDE DEF list
      <4>3. [i \in DOMAIN results[r] |-> results[r][i].connection] = list
        BY <4>1, <4>2
      <4> QED
        BY <3>1, <4>3 DEF list
    <3>2. CASE ~AsksDb(r)
      BY <2>1, <3>2 DEF Told
    <3> QED
      BY <3>1, <3>2
  <2> QED
    BY <2>1, <2>4 DEF Routed
<1> QED
  BY <1>1, CourseInvInit, CourseInductive, PTL DEF Spec

----------------------------------------------------------------------------
(* Turns as single steps.                                                  *)

\* The rows of a turn are all in the conversation of its request.
OneConversation == \A x \in messages \cup citations : x.conv = conv[x.req]

\* A citation of a database leads to one connection.
OneRecord ==
    \A p, q \in audit : p.req = q.req /\ p.at = q.at => p.connection = q.connection

LogInv == TurnInv /\ References /\ OneConversation /\ OneRecord

\* A turn commits rows of its own conversation, and one record a result.
LEMMA CommitRows ==
    ASSUME TurnInv, NEW r \in Requests, Commit(r)
    PROVE  /\ \A x \in messages \cup citations \cup audit : x.req # r
           /\ \A x \in Messages(r) \cup Citations(r) : x.req = r /\ x.conv = conv[r]
           /\ \A q \in AuditRecords(r) :
                  /\ q.req = r /\ q.at \in DOMAIN results[r]
                  /\ q.connection = results[r][q.at].connection
           /\ \A i \in DOMAIN results[r] : \E q \in AuditRecords(r) : q.at = i
<1>1. WholeTurn(r) /\ pc[r] = "persist"
  BY WholeTurns DEF TurnInv, Commit
<1>2. \A x \in Messages(r) \cup Citations(r) : x.req = r /\ x.conv = conv[r]
  BY DEF Messages, Citations
<1>3. ASSUME NEW i \in DOMAIN results[r]
      PROVE  /\ AuditRecord(r, i).req = r
             /\ AuditRecord(r, i).at = i
             /\ AuditRecord(r, i).connection = results[r][i].connection
  BY DEF AuditRecord
<1>4. AuditRecords(r) = {AuditRecord(r, i) : i \in DOMAIN results[r]}
  BY DEF AuditRecords
<1>5. \A x \in messages \cup citations \cup audit : x.req # r
  BY <1>1 DEF WholeTurn
<1>6. ASSUME NEW q \in AuditRecords(r)
      PROVE  /\ q.req = r /\ q.at \in DOMAIN results[r]
             /\ q.connection = results[r][q.at].connection
  <2>1. PICK i \in DOMAIN results[r] : q = AuditRecord(r, i)
    BY <1>4
  <2> QED
    BY <1>3, <2>1
<1>7. ASSUME NEW i \in DOMAIN results[r]
      PROVE  \E q \in AuditRecords(r) : q.at = i
  <2>1. AuditRecord(r, i) \in AuditRecords(r) /\ AuditRecord(r, i).at = i
    BY <1>3, <1>4
  <2> QED
    BY <2>1
<1> QED
  BY <1>2, <1>5, <1>6, <1>7

LEMMA OneConversationInductive ==
    TurnInv /\ OneConversation /\ [Next]_vars => OneConversation'
<1> SUFFICES ASSUME TurnInv, OneConversation, [Next]_vars PROVE OneConversation'
  OBVIOUS
<1> USE DEF OneConversation
<1>0. /\ TypeOK
      /\ \A q \in Requests : WholeTurn(q)
      /\ \A x \in messages \cup citations : x.req \in Requests
  BY WholeTurns DEF TurnInv, TypeOK, Message, Citation
<1>1. CASE UNCHANGED <<messages, citations, conv>>
  BY <1>1
<1>2. ASSUME NEW r \in Requests, Quiet(r) PROVE OneConversation'
  <2>1. /\ UNCHANGED <<messages, citations>>
        /\ \A q \in Requests \ {r} : conv'[q] = conv[q]
        /\ pc[r] # "done"
    BY <1>0, <1>2, QuietFrame DEF rows
  <2> QED
    BY <1>0, <2>1 DEF WholeTurn
<1>3. ASSUME NEW r \in Requests, Ask(r) PROVE OneConversation'
  BY <1>0, <1>1, <1>3, AskFrame DEF rows
<1>4. ASSUME NEW r \in Requests, Commit(r) PROVE OneConversation'
  <2>1. /\ messages' = messages \cup Messages(r)
        /\ citations' = citations \cup Citations(r)
        /\ conv' = conv
    BY <1>4 DEF Commit
  <2> QED
    BY <1>4, <2>1, CommitRows
<1>5. CASE Deletion
  <2>1. /\ conv' = conv
        /\ messages' \subseteq messages
        /\ \A x \in citations' : \E y \in citations :
               x.conv = y.conv /\ x.req = y.req
    BY <1>0, <1>5
    DEF TypeOK, Citation, Deletion, DeleteConversation, DeleteConnection,
        DeleteFile
  <2> QED
    BY <2>1
<1> QED
  BY <1>1, <1>2, <1>3, <1>4, <1>5, Actions DEF vars, rows, Crash

LEMMA OneRecordInductive == TurnInv /\ OneRecord /\ [Next]_vars => OneRecord'
<1> SUFFICES ASSUME TurnInv, OneRecord, [Next]_vars PROVE OneRecord'
  OBVIOUS
<1> USE DEF OneRecord
<1>0. TypeOK
  BY DEF TurnInv
<1>1. CASE UNCHANGED audit
  BY <1>1
<1>2. ASSUME NEW r \in Requests, Quiet(r) \/ Ask(r) PROVE OneRecord'
  BY <1>0, <1>1, <1>2, QuietFrame, AskFrame DEF rows
<1>3. ASSUME NEW r \in Requests, Commit(r) PROVE OneRecord'
  <2>1. audit' = audit \cup AuditRecords(r)
    BY <1>3 DEF Commit
  <2> QED
    BY <1>3, <2>1, CommitRows
<1>4. CASE Deletion
  <2>1. \A p \in audit' : \E q \in audit :
            p.req = q.req /\ p.at = q.at /\ p.connection = q.connection
    <3>1. ASSUME NEW c \in ConvIds, DeleteConversation(c), NEW p \in audit'
          PROVE  \E q \in audit :
                     p.req = q.req /\ p.at = q.at /\ p.connection = q.connection
      <4> PICK q \in audit : p = IF q.conv = c THEN [q EXCEPT !.conv = Deleted]
                                ELSE q
        BY <3>1 DEF DeleteConversation
      <4> QED
        BY <1>0 DEF TypeOK, QueryExecution
    <3> QED
      BY <1>4, <3>1 DEF Deletion, DeleteConnection, DeleteFile
  <2> QED
    BY <2>1
<1> QED
  BY <1>1, <1>2, <1>3, <1>4, Actions DEF vars, rows, Crash

LEMMA LogInvInductive == LogInv /\ [Next]_vars => LogInv'
  BY TurnInvInductive, ReferencesInductive, OneConversationInductive,
     OneRecordInductive
  DEF LogInv

LEMMA LogInvInit == Init => LogInv
  BY TurnInvInit DEF Init, LogInv, References, OneConversation, OneRecord

----------------------------------------------------------------------------
(* Steps of turns and deletions are steps of the log, or none.             *)

\* Without a new row and a new answer the log stays.
LEMMA LogFrame ==
    ASSUME UNCHANGED rows,
           \A q \in Requests : pc'[q] = "done" <=> pc[q] = "done"
    PROVE  UNCHANGED Log!logVars
<1>1. {q \in Requests : pc'[q] = "done"} = {q \in Requests : pc[q] = "done"}
  OBVIOUS
<1>2. LiveDocuments' = LiveDocuments /\ LiveRecords' = LiveRecords
  BY DEF rows, LiveDocuments, LiveRecords
<1>3. /\ {UseOfFile(x) : x \in LiveDocuments}'
             = {UseOfFile(x) : x \in LiveDocuments}
      /\ {UseOfConnection(q) : q \in LiveRecords}'
             = {UseOfConnection(q) : q \in LiveRecords}
      /\ {UseOfConnection(q) : q \in audit}' = {UseOfConnection(q) : q \in audit}
  BY <1>2 DEF rows, UseOfFile, UseOfConnection, Document, Database
<1> QED
  BY <1>1, <1>3 DEF rows, Log!logVars

\* The sources request r drew on.
Drawn(r) ==
    {Database(results[r][i].connection) : i \in DOMAIN results[r]}
    \cup {Document(f) : f \in evidence[r]}

\* What a commit adds to the citations that are live.
LEMMA CommitCites ==
    ASSUME TurnInv, NEW r \in Requests, Commit(r)
    PROVE  /\ {UseOfFile(x) : x \in LiveDocuments}' =
                  {UseOfFile(x) : x \in LiveDocuments}
                  \cup {[req |-> r, source |-> Document(f)] : f \in evidence[r]}
           /\ LiveRecords' = LiveRecords \cup AuditRecords(r)
           /\ {UseOfConnection(q) : q \in AuditRecords(r)} =
                  {[req |-> r, source |-> Database(results[r][i].connection)] :
                       i \in DOMAIN results[r]}
<1>0. /\ citations' = citations \cup Citations(r)
      /\ audit' = audit \cup AuditRecords(r)
  BY DEF Commit
<1>1. {UseOfFile(x) : x \in LiveDocuments}' =
          {UseOfFile(x) : x \in LiveDocuments}
          \cup {[req |-> r, source |-> Document(f)] : f \in evidence[r]}
  <2> DEFINE of(f) == [req |-> r, type |-> "document", source |-> f,
                       live |-> TRUE, conv |-> conv[r]]
  <2>1. LiveDocuments' = LiveDocuments \cup {of(f) : f \in evidence[r]}
    BY <1>0 DEF LiveDocuments, Citations
  <2>2. \A f : UseOfFile(of(f)) = [req |-> r, source |-> Document(f)]
    BY DEF UseOfFile
  <2> HIDE DEF of
  <2>3. {UseOfFile(x) : x \in LiveDocuments'} =
            {UseOfFile(x) : x \in LiveDocuments}
            \cup {[req |-> r, source |-> Document(f)] : f \in evidence[r]}
    BY <2>1, <2>2, Zenon
  <2> QED
    BY <2>3 DEF UseOfFile, Document
<1>2. LiveRecords' = LiveRecords \cup AuditRecords(r)
  <2>1. ASSUME NEW q \in audit
        PROVE  q \in LiveRecords' <=> q \in LiveRecords
    <3>1. q.req # r
      BY CommitRows
    <3>2. \A x \in Citations(r) : x.req = r
      BY CommitRows
    <3> QED
      BY <1>0, <3>1, <3>2 DEF LiveRecords
  <2>2. ASSUME NEW q \in AuditRecords(r) PROVE q \in LiveRecords'
    <3> DEFINE x == [req |-> r, type |-> "database", source |-> q.at,
                     live |-> TRUE, conv |-> conv[r]]
    <3>1. q.req = r /\ q.at \in DOMAIN results[r]
      BY CommitRows
    <3>2. x \in citations'
      BY <1>0, <3>1 DEF Citations
    <3> QED
      BY <1>0, <3>1, <3>2 DEF LiveRecords
  <2>3. LiveRecords \subseteq audit /\ LiveRecords' \subseteq audit'
    BY DEF LiveRecords
  <2> QED
    BY <1>0, <2>1, <2>2, <2>3
<1>3. {UseOfConnection(q) : q \in AuditRecords(r)} =
          {[req |-> r, source |-> Database(results[r][i].connection)] :
               i \in DOMAIN results[r]}
  <2>1. \A q \in AuditRecords(r) :
            /\ q.at \in DOMAIN results[r]
            /\ UseOfConnection(q) =
                   [req |-> r, source |-> Database(results[r][q.at].connection)]
    BY CommitRows DEF UseOfConnection
  <2>2. \A i \in DOMAIN results[r] : \E q \in AuditRecords(r) : q.at = i
    BY CommitRows
  <2> QED
    BY <2>1, <2>2
<1> QED
  BY <1>1, <1>2, <1>3

\* To its readers the database goes from before the turn to after it at once.
LEMMA CommitAnswers ==
    ASSUME TurnInv, NEW r \in Requests, Commit(r)
    PROVE  \E c \in Convs \cup Requests :
               \E used \in SUBSET ([type : {"database"}, id : conns]
                                       \cup [type : {"document"}, id : files]) :
                   Log!AnswerTurn(r, c, used)
<1>0. /\ Persistable(r) /\ pc[r] = "persist" /\ pc' = [pc EXCEPT ![r] = "done"]
      /\ convs' = convs \cup {conv[r]}
      /\ messages' = messages \cup Messages(r)
      /\ audit' = audit \cup AuditRecords(r)
      /\ UNCHANGED <<conns, files>>
  BY DEF Commit, Goto
<1>1. conv[r] \in convs \cup {r}
  BY <1>0 DEF TurnInv, HeldConversations, Holding, HasConversation, InFlight
<1>2. Drawn(r) \subseteq [type : {"database"}, id : conns]
                             \cup [type : {"document"}, id : files]
  BY <1>0 DEF Drawn, Persistable, Database, Document
<1>3. {q \in Requests : pc'[q] = "done"} =
          {q \in Requests : pc[q] = "done"} \cup {r}
  BY <1>0 DEF TurnInv, TypeOK
<1>4. /\ Log!Uses(r, Drawn(r)) =
             {[req |-> r, source |-> Document(f)] : f \in evidence[r]} \cup
             {[req |-> r, source |-> Database(results[r][i].connection)] :
                  i \in DOMAIN results[r]}
      /\ Log!Uses(r, Drawn(r) \cap Log!Databases) =
             {[req |-> r, source |-> Database(results[r][i].connection)] :
                  i \in DOMAIN results[r]}
  <2>1. Log!Uses(r, Drawn(r)) =
             {[req |-> r, source |-> Document(f)] : f \in evidence[r]} \cup
             {[req |-> r, source |-> Database(results[r][i].connection)] :
                  i \in DOMAIN results[r]}
    BY DEF Log!Uses, Drawn
  <2>2. Drawn(r) \cap Log!Databases =
            {Database(results[r][i].connection) : i \in DOMAIN results[r]}
    BY <1>0
    DEF Drawn, Log!Databases, Database, Document, Persistable, TurnInv, TypeOK
  <2> QED
    BY <2>1, <2>2 DEF Log!Uses
<1>5. /\ {UseOfFile(x) : x \in LiveDocuments}' \cup
             {UseOfConnection(q) : q \in LiveRecords}' =
         {UseOfFile(x) : x \in LiveDocuments} \cup
             {UseOfConnection(q) : q \in LiveRecords} \cup
             Log!Uses(r, Drawn(r))
      /\ {UseOfConnection(q) : q \in audit}' =
             {UseOfConnection(q) : q \in audit} \cup
             Log!Uses(r, Drawn(r) \cap Log!Databases)
  <2>1. /\ {UseOfConnection(q) : q \in LiveRecords'} =
               {UseOfConnection(q) : q \in LiveRecords} \cup
               {UseOfConnection(q) : q \in AuditRecords(r)}
        /\ {UseOfConnection(q) : q \in audit'} =
               {UseOfConnection(q) : q \in audit} \cup
               {UseOfConnection(q) : q \in AuditRecords(r)}
    BY <1>0, CommitCites
  <2>2. /\ {UseOfConnection(q) : q \in LiveRecords}' =
               {UseOfConnection(q) : q \in LiveRecords'}
        /\ {UseOfConnection(q) : q \in audit}' =
               {UseOfConnection(q) : q \in audit'}
    BY DEF UseOfConnection, Database
  <2> QED
    BY <1>4, <2>1, <2>2, CommitCites
<1> PICK c \in Convs \cup Requests : c = conv[r]
  BY DEF TurnInv, TypeOK, ConvIds
<1> PICK used \in SUBSET ([type : {"database"}, id : conns]
                              \cup [type : {"document"}, id : files]) :
         used = Drawn(r)
  BY <1>2
<1>6. r \notin {q \in Requests : pc[q] = "done"}
  BY <1>0
<1>7. /\ Log!Uses(r, used) = Log!Uses(r, Drawn(r))
      /\ Log!Uses(r, used \cap Log!Databases) =
             Log!Uses(r, Drawn(r) \cap Log!Databases)
  OBVIOUS
<1>8. messages' = messages \cup {[req |-> r, role |-> role, conv |-> c] :
                                     role \in {"user", "assistant"}}
  BY <1>0 DEF Messages
<1>9. /\ {q \in Requests : pc[q] = "done"}' = {q \in Requests : pc'[q] = "done"}
      /\ UNCHANGED ([type : {"database"}, id : conns]
                        \cup [type : {"document"}, id : files])
  BY <1>0
<1>10. Log!AnswerTurn(r, c, used)
  BY <1>0, <1>1, <1>3, <1>5, <1>6, <1>7, <1>8, <1>9, Zenon DEF Log!AnswerTurn
<1> QED
  BY <1>10

\* A deleted conversation takes its messages and citations along and leaves
\* the records.
LEMMA DeletionDropsConversation ==
    ASSUME LogInv, NEW c \in ConvIds, DeleteConversation(c)
    PROVE  Log!DropConversation(c)
<1>0. /\ c \in convs /\ convs' = convs \ {c}
      /\ messages' = {m \in messages : m.conv # c}
      /\ citations' = {x \in citations : x.conv # c}
      /\ UNCHANGED <<conns, files, pc>>
  BY DEF DeleteConversation
<1>1. ASSUME NEW x \in citations
      PROVE  x.conv # c <=> \E m \in messages' : m.req = x.req
  <2>1. PICK m \in messages : m.req = x.req /\ m.conv = x.conv
    BY DEF LogInv, References, CitedBy
  <2>2. \A n \in messages : n.req = x.req => n.conv = x.conv
    BY DEF LogInv, OneConversation
  <2> QED
    BY <1>0, <2>1, <2>2
<1> DEFINE kept(q) == IF q.conv = c THEN [q EXCEPT !.conv = Deleted] ELSE q
<1>2. /\ audit' = {kept(q) : q \in audit}
      /\ \A q \in audit : /\ kept(q).req = q.req /\ kept(q).at = q.at
                          /\ UseOfConnection(kept(q)) = UseOfConnection(q)
  <2>1. \A q \in audit : /\ kept(q).req = q.req /\ kept(q).at = q.at
                         /\ kept(q).connection = q.connection
    BY DEF LogInv, TurnInv, TypeOK, QueryExecution
  <2>2. audit' = {kept(q) : q \in audit}
    BY DEF DeleteConversation
  <2> HIDE DEF kept
  <2> QED
    BY <2>1, <2>2 DEF UseOfConnection
<1> HIDE DEF kept
<1>3. LiveDocuments' =
          {x \in LiveDocuments : \E m \in messages' : m.req = x.req}
  BY <1>0, <1>1 DEF LiveDocuments
<1>4. LiveRecords' =
          {kept(q) : q \in {p \in LiveRecords :
                                \E m \in messages' : m.req = p.req}}
  BY <1>0, <1>1, <1>2 DEF LiveRecords
<1>5. \A x : UseOfFile(x).req = x.req /\ UseOfConnection(x).req = x.req
  BY DEF UseOfFile, UseOfConnection
<1> DEFINE cited == {UseOfFile(x) : x \in LiveDocuments}
                    \cup {UseOfConnection(q) : q \in LiveRecords}
<1>6. {UseOfFile(x) : x \in LiveDocuments'} \cup
      {UseOfConnection(q) : q \in LiveRecords'} =
          {u \in cited : \E m \in messages' : m.req = u.req}
  <2>1. {UseOfFile(x) : x \in LiveDocuments'} =
            {u \in {UseOfFile(x) : x \in LiveDocuments} :
                 \E m \in messages' : m.req = u.req}
    BY <1>3, <1>5
  <2>2. {UseOfConnection(q) : q \in LiveRecords'} =
            {u \in {UseOfConnection(q) : q \in LiveRecords} :
                 \E m \in messages' : m.req = u.req}
    <3>1. \A q \in LiveRecords : UseOfConnection(kept(q)) = UseOfConnection(q)
      BY <1>2 DEF LiveRecords
    <3> QED
      BY <1>4, <1>5, <3>1
  <2> QED
    BY <2>1, <2>2
<1>7. {UseOfConnection(q) : q \in audit'} = {UseOfConnection(q) : q \in audit}
  BY <1>2
<1>8. /\ {UseOfFile(x) : x \in LiveDocuments}' =
             {UseOfFile(x) : x \in LiveDocuments'}
      /\ {UseOfConnection(q) : q \in LiveRecords}' =
             {UseOfConnection(q) : q \in LiveRecords'}
      /\ {UseOfConnection(q) : q \in audit}' =
             {UseOfConnection(q) : q \in audit'}
  BY DEF UseOfConnection, UseOfFile, Database, Document
<1> QED
  BY <1>0, <1>6, <1>7, <1>8 DEF Log!DropConversation

\* A deleted connection takes its records along; what cites them is no longer
\* live, and every other citation is as live as before.
LEMMA DeletionDropsConnection ==
    ASSUME LogInv, NEW c \in Conns, DeleteConnection(c)
    PROVE  Log!DropSource(Database(c))
<1> DEFINE gone == {q \in audit : q.connection = c}
           loses(x) == /\ x.type = "database"
                       /\ \E q \in gone : q.req = x.req /\ q.at = x.source
           kept(x) == IF loses(x) THEN [x EXCEPT !.live = FALSE] ELSE x
<1>0. /\ c \in conns /\ conns' = conns \ {c}
      /\ audit' = audit \ gone
      /\ citations' = {kept(x) : x \in citations}
      /\ UNCHANGED <<convs, files, messages, pc>>
  BY DEF DeleteConnection
<1>1. \A x \in citations :
          /\ kept(x).type = x.type
          /\ ~loses(x) => kept(x) = x
          /\ loses(x) => x.type = "database" /\ ~kept(x).live
  BY DEF LogInv, TurnInv, TypeOK, Citation
<1>2. ASSUME NEW x \in citations, NEW q \in audit,
             x.type = "database", x.req = q.req, x.source = q.at
      PROVE  loses(x) <=> q.connection = c
  <2>1. q.connection = c => q \in gone
    OBVIOUS
  <2>2. \A p \in gone : p.req = q.req /\ p.at = q.at => q.connection = c
    BY DEF LogInv, OneRecord
  <2> QED
    BY <1>2, <2>1, <2>2
<1>3. audit' = {q \in audit : q.connection # c}
  BY <1>0
<1> HIDE DEF kept, loses, gone
<1>4. LiveDocuments' = LiveDocuments
  BY <1>0, <1>1 DEF LiveDocuments
<1>5. LiveRecords' = {q \in LiveRecords : q.connection # c}
  <2>1. ASSUME NEW q \in LiveRecords' PROVE q \in LiveRecords
    <3>1. PICK y \in citations' : /\ y.type = "database" /\ y.live
                                  /\ y.req = q.req /\ y.source = q.at
      BY DEF LiveRecords
    <3>2. PICK x \in citations : y = kept(x)
      BY <1>0
    <3>3. y = x
      BY <1>1, <3>1, <3>2
    <3> QED
      BY <1>3, <3>1, <3>3 DEF LiveRecords
  <2>2. ASSUME NEW q \in LiveRecords, q.connection # c PROVE q \in LiveRecords'
    <3>1. PICK x \in citations : /\ x.type = "database" /\ x.live
                                 /\ x.req = q.req /\ x.source = q.at
      BY DEF LiveRecords
    <3>2. q \in audit /\ ~loses(x)
      BY <1>2, <2>2, <3>1 DEF LiveRecords
    <3>3. x \in citations'
      BY <1>0, <1>1, <3>2
    <3> QED
      BY <1>3, <2>2, <3>1, <3>2, <3>3 DEF LiveRecords
  <2>3. \A q \in LiveRecords' : q.connection # c
    BY <1>3 DEF LiveRecords
  <2> QED
    BY <2>1, <2>2, <2>3
<1>6. /\ \A x : UseOfFile(x).source # Database(c)
      /\ \A q : UseOfConnection(q).source = Database(c) <=> q.connection = c
  BY DEF UseOfFile, UseOfConnection, Database, Document
<1>7. /\ {UseOfConnection(q) : q \in LiveRecords'} =
             {u \in {UseOfConnection(q) : q \in LiveRecords} :
                  u.source # Database(c)}
      /\ {UseOfConnection(q) : q \in audit'} =
             {u \in {UseOfConnection(q) : q \in audit} :
                  u.source # Database(c)}
  BY <1>3, <1>5, <1>6
<1>8. /\ {UseOfFile(x) : x \in LiveDocuments}' =
             {UseOfFile(x) : x \in LiveDocuments}
      /\ {UseOfConnection(q) : q \in LiveRecords}' =
             {UseOfConnection(q) : q \in LiveRecords'}
      /\ {UseOfConnection(q) : q \in audit}' =
             {UseOfConnection(q) : q \in audit'}
  BY <1>4 DEF UseOfConnection, UseOfFile, Database, Document
<1>9. /\ Database(c) \in [type : {"database"}, id : conns]
      /\ [type : {"database"}, id : conns'] \cup [type : {"document"}, id : files]
             = ([type : {"database"}, id : conns]
                   \cup [type : {"document"}, id : files]) \ {Database(c)}
  BY <1>0 DEF Database
<1>10. {u \in {UseOfFile(x) : x \in LiveDocuments} : u.source # Database(c)} =
           {UseOfFile(x) : x \in LiveDocuments}
  BY <1>6
<1> QED
  BY <1>0, <1>7, <1>8, <1>9, <1>10 DEF Log!DropSource

\* A deleted file leaves every citation of another source as live as before.
LEMMA DeletionDropsFile ==
    ASSUME LogInv, NEW f \in Files, DeleteFile(f)
    PROVE  Log!DropSource(Document(f))
<1> DEFINE loses(x) == x.type = "document" /\ x.source = f
           kept(x) == IF loses(x) THEN [x EXCEPT !.live = FALSE] ELSE x
<1>0. /\ f \in files /\ files' = files \ {f}
      /\ citations' = {kept(x) : x \in citations}
      /\ UNCHANGED <<convs, conns, messages, audit, pc>>
  BY DEF DeleteFile
<1>1. \A x \in citations :
          /\ kept(x).type = x.type
          /\ ~loses(x) => kept(x) = x
          /\ loses(x) => ~kept(x).live
  BY DEF LogInv, TurnInv, TypeOK, Citation
<1> HIDE DEF kept
<1>2. LiveDocuments' = {x \in LiveDocuments : x.source # f}
  BY <1>0, <1>1 DEF LiveDocuments
<1>3. LiveRecords' = LiveRecords
  BY <1>0, <1>1 DEF LiveRecords
<1>4. /\ \A x : UseOfFile(x).source = Document(f) <=> x.source = f
      /\ \A q : UseOfConnection(q).source # Document(f)
  BY DEF UseOfFile, UseOfConnection, Database, Document
<1>5. {UseOfFile(x) : x \in LiveDocuments'} =
          {u \in {UseOfFile(x) : x \in LiveDocuments} :
               u.source # Document(f)}
  BY <1>2, <1>4
<1>6. /\ {UseOfFile(x) : x \in LiveDocuments}' =
             {UseOfFile(x) : x \in LiveDocuments'}
      /\ {UseOfConnection(q) : q \in LiveRecords}' =
             {UseOfConnection(q) : q \in LiveRecords}
      /\ {UseOfConnection(q) : q \in audit}' = {UseOfConnection(q) : q \in audit}
  BY <1>0, <1>3 DEF UseOfConnection, UseOfFile, Database, Document
<1>7. /\ Document(f) \in [type : {"document"}, id : files]
      /\ [type : {"database"}, id : conns] \cup [type : {"document"}, id : files']
             = ([type : {"database"}, id : conns]
                   \cup [type : {"document"}, id : files]) \ {Document(f)}
  BY <1>0 DEF Document
<1>8. /\ {u \in {UseOfConnection(q) : q \in LiveRecords} :
              u.source # Document(f)} = {UseOfConnection(q) : q \in LiveRecords}
      /\ {u \in {UseOfConnection(q) : q \in audit} : u.source # Document(f)}
             = {UseOfConnection(q) : q \in audit}
  BY <1>4
<1> QED
  BY <1>0, <1>5, <1>6, <1>7, <1>8 DEF Log!DropSource

\* Every step of a turn, of a deletion and of a crash is, to the readers of the
\* platform database, a whole turn, a whole deletion or nothing at all.
THEOREM TurnsAreSingleSteps == Spec => ImplementsTurnLog
<1>1. Init => Log!Init
  BY DEF Init, Log!Init, Log!Databases, Log!Documents, LiveDocuments,
         LiveRecords
<1>2. LogInv /\ [Next]_vars => [Log!Next]_(Log!logVars)
  <2> SUFFICES ASSUME LogInv, [Next]_vars
               PROVE  Log!Next \/ UNCHANGED Log!logVars
    OBVIOUS
  <2>0. TurnInv /\ TypeOK
    BY DEF LogInv, TurnInv
  <2>1. CASE UNCHANGED vars
    BY <2>1, LogFrame DEF vars
  <2>2. ASSUME NEW r \in Requests, Quiet(r) \/ Ask(r)
        PROVE  UNCHANGED Log!logVars
    <3>1. UNCHANGED rows
      BY <2>0, <2>2, QuietFrame, AskFrame
    <3>2. \A q \in Requests : pc'[q] = "done" <=> pc[q] = "done"
      BY <2>0, <2>2, QuietFrame, AskFrame DEF TypeOK
    <3> QED
      BY <3>1, <3>2, LogFrame
  <2>3. ASSUME NEW r \in Requests, Commit(r) PROVE Log!Next
    BY <2>0, <2>3, CommitAnswers, Zenon DEF Log!Next
  <2>4. CASE Deletion
    <3>1. ASSUME NEW c \in ConvIds, DeleteConversation(c) PROVE Log!Next
      BY <3>1, DeletionDropsConversation DEF ConvIds, Log!Next
    <3>2. ASSUME NEW c \in Conns, DeleteConnection(c) PROVE Log!Next
      <4>1. Database(c) \in Log!Databases
        BY DEF Database, Log!Databases
      <4> QED
        BY <3>2, <4>1, DeletionDropsConnection DEF Log!Next
    <3>3. ASSUME NEW f \in Files, DeleteFile(f) PROVE Log!Next
      <4>1. Document(f) \in Log!Documents
        BY DEF Document, Log!Documents
      <4> QED
        BY <3>3, <4>1, DeletionDropsFile DEF Log!Next
    <3> QED
      BY <2>4, <3>1, <3>2, <3>3 DEF Deletion
  <2>5. CASE Crash
    <3>1. UNCHANGED rows /\ \A q \in Requests : pc'[q] = "done" <=> pc[q] = "done"
      BY <2>0, <2>5 DEF Crash, InFlight
    <3> QED
      BY <3>1, LogFrame
  <2> QED
    BY <2>1, <2>2, <2>3, <2>4, <2>5, Actions
<1> QED
  BY <1>1, <1>2, LogInvInit, LogInvInductive, PTL
  DEF Spec, ImplementsTurnLog, Log!Spec
=============================================================================
