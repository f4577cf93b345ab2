----------------------------- MODULE QueryAgent -----------------------------
(***************************************************************************)
(* What the database node of the chat graph (agents/graph.py) promises to  *)
(* the rest of the turn, without saying how it decides: it walks the       *)
(* request's connections in order, gives exactly one result for each, runs *)
(* at most one statement for each, and either finishes the walk or raises. *)
(*                                                                         *)
(* DatabaseAgent is the detailed node and implements this specification;   *)
(* ChatTurn builds the whole turn on it.                                   *)
(***************************************************************************)
EXTENDS Sequences, Naturals

CONSTANTS
    Requests,        \* chat requests
    Conns,           \* ids of customer database connections
    ConnectionLists  \* the sequences of connections a request may name, a
                     \* subset of Seq(Conns)

VARIABLES
    phase,     \* [Requests -> Phases]
    todo,      \* the connections the node has still to ask
    results,   \* sql_results: one entry per connection asked
    executed   \* the statements that took effect in a customer database

agentVars == <<phase, todo, results, executed>>

Phases == {"idle", "busy", "done", "aborted"}

Statuses == {"success", "failed", "rejected"}

Result == [connection : Conns, status : Statuses]

\* The statement run for the at-th connection of request req.
Execution == [req : Requests, at : Nat, connection : Conns]

\* A success ran, a rejection did not; after an error it may have.
CouldHaveRun(status) ==
    {ran \in BOOLEAN : /\ status = "success" => ran
                       /\ status = "rejected" => ~ran}

Init ==
    /\ phase = [r \in Requests |-> "idle"]
    /\ todo = [r \in Requests |-> <<>>]
    /\ results = [r \in Requests |-> <<>>]
    /\ executed = {}

\* The graph enters the node.
Start(r, list) ==
    /\ phase[r] = "idle"
    /\ phase' = [phase EXCEPT ![r] = "busy"]
    /\ todo' = [todo EXCEPT ![r] = list]
    /\ UNCHANGED <<results, executed>>

\* One iteration of the loop over the connections.
Answer(r, status, ran) ==
    /\ phase[r] = "busy"
    /\ todo[r] # <<>>
    /\ results' = [results EXCEPT ![r] =
                      Append(@, [connection |-> Head(todo[r]),
                                 status |-> status])]
    /\ todo' = [todo EXCEPT ![r] = Tail(@)]
    /\ executed' = executed \cup
           (IF ran THEN {[req |-> r, at |-> Len(results[r]) + 1,
                          connection |-> Head(todo[r])]}
                   ELSE {})
    /\ UNCHANGED phase

\* state["sql_results"] = sql_results; return state
Finish(r) ==
    /\ phase[r] = "busy"
    /\ todo[r] = <<>>
    /\ phase' = [phase EXCEPT ![r] = "done"]
    /\ UNCHANGED <<todo, results, executed>>

\* An exception leaves the node: no such connection, or the model failed.
Abort(r) ==
    /\ phase[r] = "busy"
    /\ phase' = [phase EXCEPT ![r] = "aborted"]
    /\ UNCHANGED <<todo, results, executed>>

Next ==
    \E r \in Requests :
        \/ \E list \in ConnectionLists : Start(r, list)
        \/ \E status \in Statuses : \E ran \in CouldHaveRun(status) :
               Answer(r, status, ran)
        \/ Finish(r)
        \/ Abort(r)

Spec == Init /\ [][Next]_agentVars
============================================================================
