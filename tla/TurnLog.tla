------------------------------ MODULE TurnLog ------------------------------
(***************************************************************************)
(* What the platform database shows of chat turns, without saying how a    *)
(* turn is run: a turn takes effect at one instant or never.  At that      *)
(* instant its conversation gets question and answer, every connection and *)
(* file it drew on exists and is cited, and its statements are on record.  *)
(* What is deleted later takes along what hangs on it, and nothing else.   *)
(*                                                                         *)
(* ChatTurn, where a turn is many awaits among other turns, deletions and  *)
(* crashes, implements this specification.                                 *)
(***************************************************************************)
CONSTANTS
    Requests,  \* chat requests
    Convs,     \* ids of conversations that exist at the start
    Conns,     \* ids of customer database connections
    Files      \* files of the selected knowledge bases

VARIABLES
    convs,     \* conversations
    sources,   \* what can be drawn on: connections and files
    answered,  \* the requests whose turn took effect
    messages,  \* messages
    cited,     \* the sources cited by the answers, while they exist
    audited    \* the connections on record for each turn, while they exist

logVars == <<convs, sources, answered, messages, cited, audited>>

Databases == [type : {"database"}, id : Conns]

Documents == [type : {"document"}, id : Files]

\* Each of the sources, as one that request r drew on.
Uses(r, used) == {[req |-> r, source |-> s] : s \in used}

Init ==
    /\ convs = Convs
    /\ sources = Databases \cup Documents
    /\ answered = {}
    /\ messages = {}
    /\ cited = {}
    /\ audited = {}

\* POST /chat, as everybody else sees it.
AnswerTurn(r, c, used) ==
    /\ r \notin answered
    /\ c \in convs \cup {r}
    /\ used \subseteq sources
    /\ answered' = answered \cup {r}
    /\ convs' = convs \cup {c}
    /\ messages' = messages \cup
           {[req |-> r, role |-> role, conv |-> c] :
                role \in {"user", "assistant"}}
    /\ cited' = cited \cup Uses(r, used)
    /\ audited' = audited \cup Uses(r, used \cap Databases)
    /\ UNCHANGED sources

\* DELETE /conversations/{id}: the records of what was asked of the databases
\* survive the conversation.
DropConversation(c) ==
    /\ c \in convs
    /\ convs' = convs \ {c}
    /\ messages' = {m \in messages : m.conv # c}
    /\ cited' = {u \in cited : \E m \in messages' : m.req = u.req}
    /\ UNCHANGED <<sources, answered, audited>>

\* DELETE of a connection or a file.
DropSource(s) ==
    /\ s \in sources
    /\ sources' = sources \ {s}
    /\ cited' = {u \in cited : u.source # s}
    /\ audited' = {u \in audited : u.source # s}
    /\ UNCHANGED <<convs, answered, messages>>

Next ==
    \/ \E r \in Requests :
           \E c \in Convs \cup Requests, used \in SUBSET sources :
               AnswerTurn(r, c, used)
    \/ \E c \in Convs \cup Requests : DropConversation(c)
    \/ \E s \in Databases \cup Documents : DropSource(s)

Spec == Init /\ [][Next]_logVars
=============================================================================
