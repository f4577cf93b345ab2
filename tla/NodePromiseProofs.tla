------------------------- MODULE NodePromiseProofs -------------------------
(***************************************************************************)
(* The database node keeps its promise to the rest of the turn, for every  *)
(* catalogue, every set of requests and statements and whatever the        *)
(* administrators do: its results tell what took effect, and it implements *)
(* QueryAgent.                                                             *)
(*                                                                         *)
(* Both theorems rest on one fact: a step that gives a result gives exactly*)
(* one, for the current connection, and what it adds to the statements     *)
(* that took effect fits the status; every other step leaves results and   *)
(* statements alone.                                                       *)
(***************************************************************************)
EXTENDS DatabaseAgentProofs

\* The entry of sql_results for the current connection.
Entry(r, status, sql, errors) ==
    [connection |-> Current(r), status |-> status, sql |-> sql,
     validation_errors |-> errors]

\* The statement that took effect for the current connection.
Effect(r, sql, read_only) ==
    [req |-> r, at |-> Len(results[r]) + 1, connection |-> Current(r),
     sql |-> sql, read_only |-> read_only]

\* Request r gets a result; it ran tells whether its statement took effect.
Answered(r, status, sql, errors, ran) ==
    /\ pc[r] \in Busy \ {"connection"}
    /\ Reply(r, status, sql, errors)
    /\ ran \in Agent!CouldHaveRun(status)
    /\ IF ran
       THEN \E read_only \in BOOLEAN :
                executed' = executed \cup {Effect(r, sql, read_only)}
       ELSE executed' = executed

SomeAnswer(r) ==
    \E status \in Agent!Statuses, sql \in Statements \cup {NoSql},
       errors \in BOOLEAN, ran \in BOOLEAN :
        Answered(r, status, sql, errors, ran)

\* A request stays where the rest of the turn sees it.
SamePhase(r) == pc[r] \in Busy /\ pc' = [pc EXCEPT ![r] = pc'[r]] /\ pc'[r] \in Busy

\* The ways a node that was not answering may move.
OtherMove(r) ==
    /\ UNCHANGED <<results, executed>>
    /\ \/ \E list \in ConnectionLists : Begin(r, list)
       \/ SamePhase(r) /\ UNCHANGED todo
       \/ Finish(r)
       \/ pc[r] \in Busy /\ Goto(r, "aborted") /\ UNCHANGED todo

----------------------------------------------------------------------------
(* What a step of the node is.                                             *)

\* A result without a statement, or with one that is rejected, runs nothing.
LEMMA RepliesWithoutEffect ==
    ASSUME NEW r \in Requests,
           \/ NoTables(r) \/ NothingPermitted(r) \/ ModelDeclines(r)
           \/ \E s \in Statements : RejectQuery(r, s)
    PROVE  SomeAnswer(r)
<1>1. CASE NoTables(r) \/ NothingPermitted(r) \/ ModelDeclines(r)
  <2>1. Answered(r, "failed", NoSql, FALSE, FALSE)
    BY <1>1
    DEF Answered, NoTables, NothingPermitted, AllColumnsRead, ModelDeclines,
        Busy, Agent!CouldHaveRun
  <2> QED
    BY <2>1 DEF SomeAnswer, Agent!Statuses
<1>2. ASSUME NEW s \in Statements, RejectQuery(r, s) PROVE SomeAnswer(r)
  <2>1. Answered(r, "rejected", s, TRUE, FALSE)
    BY <1>2 DEF Answered, RejectQuery, Busy, Agent!CouldHaveRun
  <2> QED
    BY <2>1 DEF SomeAnswer, Agent!Statuses
<1> QED
  BY <1>1, <1>2

\* An execution that is reported as a success took effect; one that is
\* reported as a failure may have.
LEMMA ExecutionsAnswer ==
    ASSUME NEW r \in Requests, NEW s \in Statements,
           NEW status \in {"success", "failed"}, ExecuteQuery(r, s, status)
    PROVE  SomeAnswer(r)
<1> DEFINE type == ValidateSql(s, allowed[r]).query_type
<1>1. PICK ran \in CouldTakeEffect(status, type) :
          executed' = executed \cup
              (IF ran THEN {Effect(r, s, ReadOnly(Current(r), type))} ELSE {})
  BY DEF ExecuteQuery, Effect
<1>2. ran \in BOOLEAN /\ ran \in Agent!CouldHaveRun(status)
  BY DEF CouldTakeEffect, Agent!CouldHaveRun
<1>3. ReadOnly(Current(r), type) \in BOOLEAN
  BY DEF ReadOnly
<1>4. Answered(r, status, s, FALSE, ran)
  <2>1. pc[r] \in Busy \ {"connection"} /\ Reply(r, status, s, FALSE)
    BY DEF ExecuteQuery, Busy
  <2> HIDE DEF type
  <2> QED
    BY <1>1, <1>2, <1>3, <2>1 DEF Answered
<1> QED
  BY <1>2, <1>4 DEF SomeAnswer, Agent!Statuses

\* A step of the node gives one result or leaves results and effects alone.
LEMMA NodeStep ==
    ASSUME TypeInv, NEW r \in Requests, Node(r)
    PROVE  SomeAnswer(r) \/ OtherMove(r)
<1> USE DEF TypeInv, TypeOK
<1>1. CASE \E list \in ConnectionLists : Begin(r, list)
  BY <1>1 DEF Begin, OtherMove
<1>2. CASE GetConnection(r) \/ ReadTables(r) \/ SchemaResolved(r)
  BY <1>2
  DEF GetConnection, ReadTables, SchemaResolved, AllColumnsRead, OtherMove,
      SamePhase, Goto, Busy, local
<1>3. CASE ReadGrants(r)
  BY <1>3 DEF ReadGrants, OtherMove, SamePhase, Goto, Busy
<1>4. CASE \/ \E p \in pending[r] : ReadColumns(r, p)
           \/ \E t \in tables[r] : ReadAdminColumns(r, t)
  <2>1. /\ UNCHANGED <<results, executed, todo, pc>>
        /\ pc[r] \in Busy
    BY <1>4 DEF ReadColumns, ReadAdminColumns, Busy
  <2> QED
    BY <2>1 DEF OtherMove, SamePhase
<1>5. CASE ConnectionNotFound(r) \/ NodeRaises(r)
  BY <1>5 DEF ConnectionNotFound, NodeRaises, OtherMove, Busy, local
<1>6. CASE Finish(r)
  BY <1>6 DEF Finish, OtherMove, local
<1>7. CASE \/ NoTables(r) \/ NothingPermitted(r) \/ ModelDeclines(r)
           \/ \E s \in Statements : RejectQuery(r, s)
  BY <1>7, RepliesWithoutEffect
<1>8. CASE \E s \in Statements, status \in {"success", "failed"} :
               ExecuteQuery(r, s, status)
  BY <1>8, ExecutionsAnswer
<1> QED
  BY <1>1, <1>2, <1>3, <1>4, <1>5, <1>6, <1>7, <1>8 DEF Node

\* Everything else leaves the walk, its results and its effects alone.
LEMMA OtherSteps ==
    ASSUME [Next]_vars, ~\E r \in Requests : Node(r)
    PROVE  UNCHANGED <<pc, todo, results, executed>>
  BY DEF Next, vars, AllOver, Administration, GrantTablePermission,
         RevokeTablePermission, DeleteConnection, local

----------------------------------------------------------------------------
(* The results tell what took effect.                                      *)

\* An answer appends one entry to the results of its request and leaves those
\* of the others alone.
LEMMA AnswerAppends ==
    ASSUME TypeInv, NEW r \in Requests, NEW status \in Agent!Statuses,
           NEW sql \in Statements \cup {NoSql}, NEW errors \in BOOLEAN,
           Reply(r, status, sql, errors), pc[r] \in Busy \ {"connection"}
    PROVE  /\ Entry(r, status, sql, errors) \in Result
           /\ \A q \in Requests :
                  results'[q] = IF q = r
                                THEN Append(results[r],
                                            Entry(r, status, sql, errors))
                                ELSE results[q]
           /\ Len(results'[r]) = Len(results[r]) + 1
           /\ results'[r][Len(results[r]) + 1] = Entry(r, status, sql, errors)
           /\ \A i \in DOMAIN results[r] : results'[r][i] = results[r][i]
           /\ DOMAIN results[r] = 1 .. Len(results[r])
           /\ DOMAIN results'[r] = 1 .. Len(results[r]) + 1
<1>1. Entry(r, status, sql, errors) \in Result
  BY CurrentType DEF TypeInv, HasCurrent, Entry, Result, Agent!Statuses
<1>2. results[r] \in Seq(Result)
  BY DEF TypeInv, TypeOK
<1>3. \A q \in Requests :
          results'[q] = IF q = r
                        THEN Append(results[r], Entry(r, status, sql, errors))
                        ELSE results[q]
  BY DEF TypeInv, TypeOK, Reply, Entry
<1>4. ASSUME NEW s \in Seq(Result), NEW x \in Result
      PROVE  /\ Len(Append(s, x)) = Len(s) + 1
             /\ Append(s, x)[Len(s) + 1] = x
             /\ \A i \in DOMAIN s : Append(s, x)[i] = s[i]
             /\ DOMAIN s = 1 .. Len(s)
             /\ DOMAIN Append(s, x) = 1 .. Len(s) + 1
  OBVIOUS
<1>5. results'[r] = Append(results[r], Entry(r, status, sql, errors))
  BY <1>3
<1> QED
  BY <1>1, <1>2, <1>3, <1>4, <1>5

\* One result for one effect, at the same place of the walk.
LEMMA AnswersTell ==
    ASSUME TypeInv, ResultsTellExecutions, NEW r \in Requests, SomeAnswer(r)
    PROVE  ResultsTellExecutions'
<1> PICK status \in Agent!Statuses, sql \in Statements \cup {NoSql},
         errors \in BOOLEAN, ran \in BOOLEAN :
             Answered(r, status, sql, errors, ran)
  BY DEF SomeAnswer
<1> DEFINE n == Len(results[r]) + 1
<1>1. /\ \A q \in Requests \ {r} : results'[q] = results[q]
      /\ \A i \in DOMAIN results[r] : results'[r][i] = results[r][i]
      /\ DOMAIN results[r] = 1 .. n - 1
      /\ DOMAIN results'[r] = 1 .. n
      /\ results'[r][n] = Entry(r, status, sql, errors)
      /\ n \in Nat
  <2>1. Reply(r, status, sql, errors) /\ pc[r] \in Busy \ {"connection"}
    BY DEF Answered
  <2>2. Len(results[r]) \in Nat
    BY DEF TypeInv, TypeOK
  <2> QED
    BY <2>1, <2>2, AnswerAppends
<1>2. \/ executed' = executed /\ status # "success"
      \/ /\ status # "rejected"
         /\ \E read_only : executed' = executed \cup {Effect(r, sql, read_only)}
  BY DEF Answered, Agent!CouldHaveRun, Agent!Statuses
<1>3. executed \subseteq Execution
  BY DEF TypeInv, TypeOK
<1>4. \A e \in executed' :
          /\ e.at \in DOMAIN results'[e.req]
          /\ results'[e.req][e.at].connection = e.connection
          /\ results'[e.req][e.at].sql = e.sql
          /\ results'[e.req][e.at].status # "rejected"
  <2> TAKE e \in executed'
  <2>1. CASE e \in executed
    <3>1. /\ e.req \in Requests
          /\ e.at \in DOMAIN results[e.req]
          /\ results[e.req][e.at].connection = e.connection
          /\ results[e.req][e.at].sql = e.sql
          /\ results[e.req][e.at].status # "rejected"
      BY <2>1, <1>3 DEF ResultsTellExecutions, Execution
    <3>2. /\ e.at \in DOMAIN results'[e.req]
          /\ results'[e.req][e.at] = results[e.req][e.at]
      BY <1>1, <3>1
    <3> QED
      BY <3>1, <3>2
  <2>2. CASE e \notin executed
    <3>1. /\ status # "rejected"
          /\ e.req = r /\ e.at = n /\ e.connection = Current(r) /\ e.sql = sql
      BY <1>2, <2>2 DEF Effect
    <3> QED
      BY <1>1, <3>1 DEF Entry
  <2> QED
    BY <2>1, <2>2
<1>5. ASSUME NEW q \in Requests, NEW i \in DOMAIN results'[q],
             results'[q][i].status = "success"
      PROVE  \E e \in executed' : e.req = q /\ e.at = i
  <2>1. CASE q # r \/ i # n
    <3>1. i \in DOMAIN results[q] /\ results[q][i].status = "success"
      BY <1>1, <1>5, <2>1
    <3> QED
      BY <1>2, <3>1 DEF ResultsTellExecutions
  <2>2. CASE q = r /\ i = n
    <3>1. status = "success"
      BY <1>1, <1>5, <2>2 DEF Entry
    <3>2. PICK read_only : Effect(r, sql, read_only) \in executed'
      BY <1>2, <3>1
    <3>3. /\ Effect(r, sql, read_only).req = r
          /\ Effect(r, sql, read_only).at = n
      BY DEF Effect
    <3> QED
      BY <2>2, <3>2, <3>3
  <2> QED
    BY <2>1, <2>2
<1> QED
  BY <1>4, <1>5 DEF ResultsTellExecutions

\* The results a request has are the truth about the customer databases: a
\* success took effect, a rejected statement did not, and what took effect is
\* reported for its connection, at its place, with its text.
THEOREM ResultsTell == Spec => []ResultsTellExecutions
<1>1. Init => ResultsTellExecutions
  BY DEF Init, ResultsTellExecutions
<1>2. TypeInv /\ ResultsTellExecutions /\ [Next]_vars => ResultsTellExecutions'
  <2> SUFFICES ASSUME TypeInv, ResultsTellExecutions, [Next]_vars
               PROVE  ResultsTellExecutions'
    OBVIOUS
  <2>1. CASE \E r \in Requests : SomeAnswer(r)
    BY <2>1, AnswersTell
  <2>2. CASE UNCHANGED <<results, executed>>
    BY <2>2 DEF ResultsTellExecutions
  <2> QED
    BY <2>1, <2>2, NodeStep, OtherSteps DEF OtherMove
<1> QED
  BY <1>1, <1>2, TypeInvInit, TypeInvInductive, PTL DEF Spec

----------------------------------------------------------------------------
(* The node implements QueryAgent.                                         *)

\* What the rest of the turn sees of the node: the mapping of the refinement.
PhaseOf(r) == IF pc[r] \in Busy THEN "busy" ELSE pc[r]

PhaseBar == [r \in Requests |-> PhaseOf(r)]

Shown(x) == [connection |-> x.connection, status |-> x.status]

ShownResults(r) == [i \in DOMAIN results[r] |-> Shown(results[r][i])]

ResultsBar == [r \in Requests |-> ShownResults(r)]

ShownEffect(e) == [req |-> e.req, at |-> e.at, connection |-> e.connection]

ExecutedBar == {ShownEffect(e) : e \in executed}

\* The shown results grow by the shown entry.
LEMMA ShownAppend ==
    ASSUME NEW s \in Seq(Result), NEW x \in Result
    PROVE  /\ [i \in DOMAIN Append(s, x) |-> Shown(Append(s, x)[i])] =
                  Append([i \in DOMAIN s |-> Shown(s[i])], Shown(x))
           /\ Len([i \in DOMAIN s |-> Shown(s[i])]) = Len(s)
<1> DEFINE R == {Shown(y) : y \in Result}
           t == [i \in DOMAIN s |-> Shown(s[i])]
           u == [i \in DOMAIN Append(s, x) |-> Shown(Append(s, x)[i])]
<1>1. /\ DOMAIN s = 1 .. Len(s)
      /\ DOMAIN Append(s, x) = 1 .. Len(s) + 1
      /\ Len(s) \in Nat
      /\ \A i \in 1 .. Len(s) : s[i] \in Result /\ Append(s, x)[i] = s[i]
      /\ Append(s, x)[Len(s) + 1] = x
  OBVIOUS
<1>2. \A y \in Result : Shown(y) \in R
  OBVIOUS
<1> HIDE DEF R
<1>3. t \in Seq(R) /\ Len(t) = Len(s) /\ Shown(x) \in R
  BY <1>1, <1>2
<1>4. u \in Seq(R) /\ Len(u) = Len(s) + 1
  BY <1>1, <1>2
<1>5. Append(t, Shown(x)) \in Seq(R) /\ Len(Append(t, Shown(x))) = Len(s) + 1
  BY <1>3
<1>6. \A i \in 1 .. Len(s) + 1 : u[i] = Append(t, Shown(x))[i]
  <2> TAKE i \in 1 .. Len(s) + 1
  <2>1. CASE i = Len(s) + 1
    BY <1>1, <1>3, <2>1
  <2>2. CASE i \in 1 .. Len(s)
    BY <1>1, <1>3, <2>2
  <2> QED
    BY <1>1, <2>1, <2>2
<1>7. u = Append(t, Shown(x))
  BY <1>4, <1>5, <1>6
<1> QED
  BY <1>3, <1>7

\* A step that gives a result is an answer of the abstract node.
LEMMA AnswerImplements ==
    ASSUME TypeInv, NEW r \in Requests, SomeAnswer(r)
    PROVE  Agent!Next
<1> PICK status \in Agent!Statuses, sql \in Statements \cup {NoSql},
         errors \in BOOLEAN, ran \in BOOLEAN :
             Answered(r, status, sql, errors, ran)
  BY DEF SomeAnswer
<1>1. /\ todo[r] # <<>>
      /\ Current(r) = Head(todo[r])
      /\ todo' = [todo EXCEPT ![r] = Tail(@)]
  BY DEF Answered, Reply, TypeInv, HasCurrent, Current
<1>2. PhaseBar[r] = "busy" /\ PhaseBar' = PhaseBar
  BY DEF Answered, Reply, Goto, PhaseBar, PhaseOf, Busy, TypeInv, TypeOK
<1>3. /\ ResultsBar' =
             [ResultsBar EXCEPT ![r] =
                 Append(@, [connection |-> Head(todo[r]), status |-> status])]
      /\ Len(ResultsBar[r]) = Len(results[r])
  <2> DEFINE x == Entry(r, status, sql, errors)
  <2>1. /\ x \in Result
        /\ \A q \in Requests :
               results'[q] = IF q = r THEN Append(results[r], x) ELSE results[q]
    BY AnswerAppends DEF Answered
  <2>2. results[r] \in Seq(Result)
    BY DEF TypeInv, TypeOK
  <2>3. Shown(x) = [connection |-> Head(todo[r]), status |-> status]
    BY <1>1 DEF Shown, Entry
  <2> HIDE DEF x
  <2>4. /\ ShownResults(r)' = Append(ShownResults(r), Shown(x))
        /\ Len(ShownResults(r)) = Len(results[r])
    BY <2>1, <2>2, ShownAppend DEF ShownResults
  <2>5. \A q \in Requests \ {r} : ShownResults(q)' = ShownResults(q)
    BY <2>1 DEF ShownResults
  <2> QED
    BY <2>3, <2>4, <2>5 DEF ResultsBar
<1>4. ExecutedBar' = ExecutedBar \cup
          (IF ran THEN {[req |-> r, at |-> Len(ResultsBar[r]) + 1,
                         connection |-> Head(todo[r])]} ELSE {})
  <2>1. CASE ran
    <3> PICK read_only \in BOOLEAN :
            executed' = executed \cup {Effect(r, sql, read_only)}
      BY <2>1 DEF Answered
    <3>1. ShownEffect(Effect(r, sql, read_only)) =
              [req |-> r, at |-> Len(ResultsBar[r]) + 1,
               connection |-> Head(todo[r])]
      BY <1>1, <1>3 DEF ShownEffect, Effect
    <3> HIDE DEF ShownEffect
    <3> QED
      BY <2>1, <3>1 DEF ExecutedBar
  <2>2. CASE ~ran
    BY <2>2 DEF Answered, ExecutedBar
  <2> QED
    BY <2>1, <2>2
<1>5. Agent!Answer(r, status, ran)
  BY <1>1, <1>2, <1>3, <1>4
  DEF Agent!Answer, PhaseBar, PhaseOf, ResultsBar, ShownResults, Shown,
      ExecutedBar, ShownEffect
<1> QED
  BY <1>5 DEF Agent!Next, Answered

\* Any other move of a node starts, finishes or aborts the walk, or is not
\* seen from outside.
LEMMA MoveImplements ==
    ASSUME TypeInv, NEW r \in Requests, OtherMove(r)
    PROVE  Agent!Next \/ UNCHANGED Agent!agentVars
<1> USE DEF TypeInv, TypeOK
<1>1. ResultsBar' = ResultsBar /\ ExecutedBar' = ExecutedBar
  BY DEF OtherMove, ResultsBar, ShownResults, ExecutedBar
<1>2. ASSUME NEW list \in ConnectionLists, Begin(r, list)
      PROVE  Agent!Start(r, list)
  <2>1. PhaseBar[r] = "idle" /\ PhaseBar' = [PhaseBar EXCEPT ![r] = "busy"]
    BY <1>2 DEF Begin, Goto, PhaseBar, PhaseOf, Busy
  <2> QED
    BY <1>1, <1>2, <2>1
    DEF Begin, Agent!Start, PhaseBar, PhaseOf, ResultsBar, ShownResults,
        Shown, ExecutedBar, ShownEffect
<1>3. ASSUME SamePhase(r), UNCHANGED todo PROVE UNCHANGED Agent!agentVars
  <2>1. PhaseBar' = PhaseBar
    BY <1>3 DEF SamePhase, PhaseBar, PhaseOf
  <2> QED
    BY <1>1, <1>3, <2>1
    DEF Agent!agentVars, PhaseBar, PhaseOf, ResultsBar, ShownResults, Shown,
        ExecutedBar, ShownEffect
<1>4. ASSUME Finish(r) PROVE Agent!Finish(r)
  <2>1. PhaseBar[r] = "busy" /\ PhaseBar' = [PhaseBar EXCEPT ![r] = "done"]
    BY <1>4 DEF Finish, Goto, PhaseBar, PhaseOf, Busy
  <2> QED
    BY <1>1, <1>4, <2>1
    DEF Finish, local, Agent!Finish, PhaseBar, PhaseOf, ResultsBar,
        ShownResults, Shown, ExecutedBar, ShownEffect
<1>5. ASSUME pc[r] \in Busy, Goto(r, "aborted"), UNCHANGED todo
      PROVE  Agent!Abort(r)
  <2>1. PhaseBar[r] = "busy" /\ PhaseBar' = [PhaseBar EXCEPT ![r] = "aborted"]
    BY <1>5 DEF Goto, PhaseBar, PhaseOf, Busy
  <2> QED
    BY <1>1, <1>5, <2>1
    DEF Agent!Abort, PhaseBar, PhaseOf, ResultsBar, ShownResults, Shown,
        ExecutedBar, ShownEffect
<1> QED
  BY <1>2, <1>3, <1>4, <1>5 DEF OtherMove, Agent!Next

\* Whatever resolver, validator and executor do, and whatever administrators
\* do to them, the node asks the connections in order, answers each once, runs
\* at most one statement for each, and stops at the first exception.
THEOREM NodeKeepsPromise == Spec => ImplementsQueryAgent
<1>1. Init => Agent!Init
  BY DEF Init, Agent!Init, Busy
<1>2. TypeInv /\ [Next]_vars => [Agent!Next]_(Agent!agentVars)
  <2> SUFFICES ASSUME TypeInv, [Next]_vars
               PROVE  Agent!Next \/ UNCHANGED Agent!agentVars
    OBVIOUS
  <2>1. CASE \E r \in Requests : Node(r)
    BY <2>1, NodeStep, AnswerImplements, MoveImplements
  <2>2. CASE ~\E r \in Requests : Node(r)
    BY <2>2, OtherSteps DEF Agent!agentVars
  <2> QED
    BY <2>1, <2>2
<1> QED
  BY <1>1, <1>2, TypeInvInit, TypeInvInductive, PTL
  DEF Spec, ImplementsQueryAgent, Agent!Spec
=============================================================================
