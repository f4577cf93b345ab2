------------------------------ MODULE FileLife ------------------------------
(***************************************************************************)
(* What users and retrieval see of an uploaded file: it appears once, its  *)
(* chunks and the status completed come at one instant and once, it can be *)
(* searched from then on, and when it is deleted it is gone for good,      *)
(* whoever still works on it.                                              *)
(*                                                                         *)
(* Ingestion, with its overlapping jobs and crashes, implements this.      *)
(***************************************************************************)
CONSTANT Files  \* files, each named by its upload

VARIABLES
    status,     \* [Files -> processing_status, or "none" without a row]
    searchable, \* files with chunks
    uploaded    \* files whose upload made its row, or never will

lifeVars == <<status, searchable, uploaded>>

Init ==
    /\ status = [f \in Files |-> "none"]
    /\ searchable = {}
    /\ uploaded = {}

\* POST /files/upload commits the row.
Appear(f) ==
    /\ f \notin uploaded
    /\ status[f] = "none"
    /\ status' = [status EXCEPT ![f] = "pending"]
    /\ uploaded' = uploaded \cup {f}
    /\ UNCHANGED searchable

\* Uploads fail, or the process dies with them.
GiveUp(uploads) ==
    /\ uploads \cap uploaded = {}
    /\ uploaded' = uploaded \cup uploads
    /\ UNCHANGED <<status, searchable>>

\* A request or a task reports where it stands, of a file that is there.
Report(f, s) ==
    /\ status[f] # "none"
    /\ status' = [status EXCEPT ![f] = s]
    /\ UNCHANGED <<searchable, uploaded>>

Complete(f) ==
    /\ status[f] # "none"
    /\ f \notin searchable
    /\ status' = [status EXCEPT ![f] = "completed"]
    /\ searchable' = searchable \cup {f}
    /\ UNCHANGED uploaded

\* DELETE /files/{id}.
Delete(f) ==
    /\ status[f] # "none"
    /\ status' = [status EXCEPT ![f] = "none"]
    /\ searchable' = searchable \ {f}
    /\ UNCHANGED uploaded

Next ==
    \/ \E f \in Files : \/ Appear(f)
                        \/ \E s \in {"pending", "processing", "failed"} :
                               Report(f, s)
                        \/ Complete(f)
                        \/ Delete(f)
    \/ \E uploads \in SUBSET Files : GiveUp(uploads)

Spec == Init /\ [][Next]_lifeVars
=============================================================================
