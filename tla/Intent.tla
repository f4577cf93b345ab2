------------------------------- MODULE Intent -------------------------------
(***************************************************************************)
(* Which way a chat turn takes through the graph: classify_intent of       *)
(* services/llm/answer_generator.py and the routing functions of           *)
(* agents/graph.py.                                                        *)
(***************************************************************************)

Intents == {"general", "database", "document", "hybrid", "clarification"}

\* What the classifier may answer: an intent, or anything else.
ClassifierAnswers == Intents \cup {"something else"}

\* The most capable path the selected sources allow.
BestPath(has_db, has_kb) ==
    CASE has_db /\ has_kb   -> "hybrid"
      [] has_db /\ ~has_kb  -> "database"
      [] ~has_db /\ has_kb  -> "document"
      [] ~has_db /\ ~has_kb -> "general"

\* Seeded fault: an answer that ignores the selected sources is accepted.
ClassifyIntentTrusting(answer, has_db, has_kb) ==
    IF answer \notin Intents THEN BestPath(has_db, has_kb) ELSE answer

ClassifyIntent(answer, has_db, has_kb) ==
    CASE \/ answer \notin Intents
         \/ answer \in {"general", "clarification"} /\ (has_db \/ has_kb)
            -> BestPath(has_db, has_kb)
      [] answer \in {"database", "hybrid"} /\ ~has_db
            -> IF has_kb THEN "document" ELSE "general"
      [] answer \in {"document", "hybrid"} /\ has_db /\ ~has_kb -> "database"
      [] answer = "document" /\ ~has_db /\ ~has_kb -> "general"
      [] OTHER -> answer

\* The node entered after classify, and the one after the database node.
RouteAfterClassify(intent) ==
    CASE intent \in {"database", "hybrid"}       -> "database"
      [] intent = "document"                     -> "documents"
      [] intent \in {"general", "clarification"} -> "answer"

RouteAfterDatabase(intent) == IF intent = "hybrid" THEN "documents" ELSE "answer"
=============================================================================
