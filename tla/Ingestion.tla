----------------------------- MODULE Ingestion -----------------------------
(***************************************************************************)
(* The life of an uploaded file (api/routes/files.py, upload_service.py,   *)
(* document_processor.py): its bytes on disk, its row, its chunks.         *)
(*                                                                         *)
(* An upload or a reprocess request answers first and then ingests the     *)
(* file in the same coroutine, as a background task kept in memory only.   *)
(* One job is one such request with its task.  Several jobs may work on a  *)
(* file at once while it is deleted, the process may die, and the platform *)
(* database may fail any call.  Actions are the code between two awaits;   *)
(* parsing and chunking are plain calls.                                   *)
(***************************************************************************)
EXTENDS Naturals, FiniteSets

CONSTANTS
    Files,        \* files; the upload of a file is the job of the same name
    Reprocesses,  \* requests to reprocess a file
    Outages,      \* may the platform database fail a call?
    MaxCrashes    \* bound: how often the process may die

Jobs == Files \cup Reprocesses

ASSUME IngestionAssumption ==
    /\ Files \cap Reprocesses = {}
    /\ Outages \in BOOLEAN
    /\ MaxCrashes \in Nat

\* What the parser makes of a file: it raises, finds no text, or finds some.
Contents == {"broken", "blank", "text"}

VARIABLES
    content,   \* [Files -> Contents]
    disk,      \* files whose bytes are in the storage directory
    row,       \* [Files -> processing_status, or "none" without a row]
    chunked,   \* files with rows in document_chunks: all of them or none
    pc,        \* [Jobs -> where the job stands]
    target,    \* [Jobs -> its file]
    loaded,    \* [Jobs -> the status its session read]
    deleting,  \* files whose bytes a delete request removed, not yet the row
    gutted,    \* files whose deletion was broken off there
    crashes    \* how often the process died

jobVars == <<pc, target, loaded>>
deletions == <<deleting, gutted>>
vars == <<content, disk, row, chunked, jobVars, deletions, crashes>>

Statuses == {"pending", "processing", "completed", "failed"}

Labels == {"idle", "writing", "insert", "refresh", "selected", "queued",
           "loaded", "marked", "embedding", "storing", "failing", "over",
           "lost"}

\* Job j has committed to settle the status of its file.
Working(j) == pc[j] \in {"marked", "embedding", "storing", "failing"}

\* Job j will yet settle the status, or mark the file as in processing first.
UnderWay(j) == Working(j) \/ pc[j] \in {"refresh", "queued", "loaded"}

Exists(f) == row[f] # "none"

Init ==
    /\ content \in [Files -> Contents]
    /\ disk = {}
    /\ row = [f \in Files |-> "none"]
    /\ chunked = {}
    /\ pc = [j \in Jobs |-> "idle"]
    /\ target \in [Jobs -> Files]
    /\ \A f \in Files : target[f] = f
    /\ loaded = [j \in Jobs |-> "none"]
    /\ deleting = {}
    /\ gutted = {}
    /\ crashes = 0

Goto(j, label) == pc' = [pc EXCEPT ![j] = label]

\* An UPDATE by primary key, as the unit of work sends it.
SetStatus(f, status) == row' = [row EXCEPT ![f] = status]

\* A step of job j that touches neither the platform database nor the disk.
Proceed(j, label) ==
    /\ Goto(j, label)
    /\ UNCHANGED <<content, disk, row, chunked, target, loaded, deletions,
                   crashes>>

----------------------------------------------------------------------------
(* POST /files/upload: save_uploaded_file.                                 *)

OpenFile(f) ==
    /\ pc[f] = "idle"
    /\ disk' = disk \cup {f}
    /\ Goto(f, "writing")
    /\ UNCHANGED <<content, row, chunked, target, loaded, deletions, crashes>>

\* The upload exceeds the limit: the bytes written so far are removed.
RefuseTooLarge(f) ==
    /\ pc[f] = "writing"
    /\ disk' = disk \ {f}
    /\ Goto(f, "over")
    /\ UNCHANGED <<content, row, chunked, target, loaded, deletions, crashes>>

AllWritten(f) == pc[f] = "writing" /\ Proceed(f, "insert")

\* Seeded fault: a status nobody else knows.
InsertRowAsUploaded(f) ==
    /\ pc[f] = "insert"
    /\ SetStatus(f, "uploaded")
    /\ Goto(f, "refresh")
    /\ UNCHANGED <<content, disk, chunked, target, loaded, deletions, crashes>>

InsertRow(f) ==
    /\ pc[f] = "insert"
    /\ SetStatus(f, "pending")
    /\ Goto(f, "refresh")
    /\ UNCHANGED <<content, disk, chunked, target, loaded, deletions, crashes>>

\* The disk is full, or no knowledge base has the id given: the request fails
\* and the bytes stay.
UploadFails(f) == pc[f] \in {"writing", "insert"} /\ Proceed(f, "over")

\* db.refresh fails when the row is gone again; the task is queued otherwise.
Respond(f) ==
    /\ pc[f] = "refresh"
    /\ Proceed(f, IF Exists(f) THEN "queued" ELSE "over")

----------------------------------------------------------------------------
(* POST /files/{id}/reprocess.                                             *)

SelectForReprocess(j) ==
    LET f == target[j]
    IN /\ j \in Reprocesses
       /\ pc[j] = "idle"
       /\ Exists(f)
       /\ Goto(j, "selected")
       /\ loaded' = [loaded EXCEPT ![j] = row[f]]
       /\ UNCHANGED <<content, disk, row, chunked, target, deletions, crashes>>

\* Assigning the status that was read changes nothing and sends no UPDATE; an
\* UPDATE of a row that is gone raises StaleDataError.
Requeue(j) ==
    LET f == target[j]
    IN /\ pc[j] = "selected"
       /\ IF loaded[j] = "pending" THEN Proceed(j, "queued")
          ELSE IF ~Exists(f) THEN Proceed(j, "over")
          ELSE /\ SetStatus(f, "pending")
               /\ Goto(j, "queued")
               /\ UNCHANGED <<content, disk, chunked, target, loaded,
                              deletions, crashes>>

----------------------------------------------------------------------------
(* _process_file_in_background and process_file.                           *)

LoadFile(j) ==
    LET f == target[j]
    IN /\ pc[j] = "queued"
       /\ Goto(j, IF Exists(f) THEN "loaded" ELSE "over")
       /\ loaded' = [loaded EXCEPT ![j] = row[f]]
       /\ UNCHANGED <<content, disk, row, chunked, target, deletions, crashes>>

\* Seeded fault: the old chunks are dropped before there are new ones.
MarkProcessingAfresh(j) ==
    LET f == target[j]
    IN /\ pc[j] = "loaded"
       /\ Exists(f)
       /\ SetStatus(f, "processing")
       /\ chunked' = chunked \ {f}
       /\ Goto(j, "marked")
       /\ UNCHANGED <<content, disk, target, loaded, deletions, crashes>>

\* Outside the try: an exception here ends the task.
MarkProcessing(j) ==
    LET f == target[j]
    IN /\ pc[j] = "loaded"
       /\ IF loaded[j] = "processing" THEN Proceed(j, "marked")
          ELSE IF ~Exists(f) THEN Proceed(j, "over")
          ELSE /\ SetStatus(f, "processing")
               /\ Goto(j, "marked")
               /\ UNCHANGED <<content, disk, chunked, target, loaded,
                              deletions, crashes>>

\* Seeded fault: a file without text is left as it is.
ParseSkippingBlank(j) ==
    LET f == target[j]
    IN /\ pc[j] = "marked"
       /\ Proceed(j, IF f \notin disk \/ content[f] = "broken" THEN "failing"
                     ELSE IF content[f] = "blank" THEN "over" ELSE "embedding")

\* parse_file raises without the bytes or on bytes it cannot read; a file
\* without text is recorded as failed just like one that cannot be read.
Parse(j) ==
    /\ pc[j] = "marked"
    /\ Proceed(j, IF target[j] \in disk /\ content[target[j]] = "text"
                  THEN "embedding" ELSE "failing")

Embed(j) == pc[j] = "embedding" /\ Proceed(j, "storing")

\* The embedding model, or the database on storing a value, raises.
EmbedFails(j) == pc[j] = "embedding" /\ Proceed(j, "failing")

\* The row is there and no chunk of the file has its index yet.
Storable(f) == Exists(f) /\ f \notin chunked

\* Seeded fault: the status is committed before the chunks are.
StoreChunksLater(j) ==
    /\ pc[j] = "storing"
    /\ Storable(target[j])
    /\ SetStatus(target[j], "completed")
    /\ Goto(j, "over")
    /\ UNCHANGED <<content, disk, chunked, target, loaded, deletions, crashes>>

\* All chunks and the status, in one transaction.  When the answer to its
\* commit is lost the exception handler runs all the same.
StoreChunks(j) ==
    LET f == target[j]
    IN /\ pc[j] = "storing"
       /\ Storable(f)
       /\ chunked' = chunked \cup {f}
       /\ SetStatus(f, "completed")
       /\ \/ Goto(j, "over")
          \/ Outages /\ Goto(j, "failing")
       /\ UNCHANGED <<content, disk, target, loaded, deletions, crashes>>

\* StaleDataError, or IntegrityError from uq_document_chunk, or an outage.
StoreFails(j) ==
    /\ pc[j] = "storing"
    /\ Outages \/ ~Storable(target[j])
    /\ Proceed(j, "failing")

\* Seeded fault: the failure is recorded only if the job found
\* the file pending.
RecordFailureOfPending(j) ==
    LET f == target[j]
    IN /\ pc[j] = "failing"
       /\ IF Exists(f) /\ loaded[j] = "pending"
          THEN SetStatus(f, "failed") ELSE UNCHANGED row
       /\ Goto(j, "over")
       /\ UNCHANGED <<content, disk, chunked, target, loaded, deletions,
                      crashes>>

\* Seeded fault: the row is written again if it is gone.
RecordFailureAnyway(j) ==
    /\ pc[j] = "failing"
    /\ SetStatus(target[j], "failed")
    /\ Goto(j, "over")
    /\ UNCHANGED <<content, disk, chunked, target, loaded, deletions, crashes>>

\* The exception handler.  If the row is gone the UPDATE raises once more;
\* whatever else it raises is TaskBreaksOff.
RecordFailure(j) ==
    LET f == target[j]
    IN /\ pc[j] = "failing"
       /\ IF Exists(f) THEN SetStatus(f, "failed") ELSE UNCHANGED row
       /\ Goto(j, "over")
       /\ UNCHANGED <<content, disk, chunked, target, loaded, deletions,
                      crashes>>

----------------------------------------------------------------------------
(* The platform database fails where no try is around the call.            *)

\* A reprocess request raises before it has promised anything.
ReprocessFails(j) == Outages /\ pc[j] = "selected" /\ Proceed(j, "over")

\* So does db.refresh of an upload, the first query or the first commit of a
\* task, or the commit of its exception handler: what was promised of the file
\* is left as it stands.
TaskBreaksOff(j) ==
    /\ Outages
    /\ pc[j] \in {"refresh", "queued", "loaded", "failing"}
    /\ Proceed(j, "lost")

\* The commit of a status before the try takes effect, its answer is lost.
CommitUnanswered(j) ==
    LET f == target[j]
    IN /\ Outages
       /\ Exists(f)
       /\ \/ /\ pc[j] = "selected" /\ loaded[j] # "pending"
             /\ SetStatus(f, "pending")
          \/ /\ pc[j] = "loaded" /\ loaded[j] # "processing"
             /\ SetStatus(f, "processing")
       /\ Goto(j, "lost")
       /\ UNCHANGED <<content, disk, chunked, target, loaded, deletions,
                      crashes>>

----------------------------------------------------------------------------
(* DELETE /files/{id}.  Two of them at once do what one does.              *)

\* Seeded fault: only the row is deleted.
RemoveNoBytes(f) ==
    /\ Exists(f)
    /\ f \notin deleting
    /\ deleting' = deleting \cup {f}
    /\ UNCHANGED <<content, disk, row, chunked, jobVars, gutted, crashes>>

RemoveBytes(f) ==
    /\ Exists(f)
    /\ f \notin deleting
    /\ disk' = disk \ {f}
    /\ deleting' = deleting \cup {f}
    /\ UNCHANGED <<content, row, chunked, jobVars, gutted, crashes>>

\* The chunks go with the row.
DeleteRow(f) ==
    /\ f \in deleting
    /\ row' = [row EXCEPT ![f] = "none"]
    /\ chunked' = chunked \ {f}
    /\ deleting' = deleting \ {f}
    /\ gutted' = gutted \ {f}
    /\ UNCHANGED <<content, disk, jobVars, crashes>>

\* The DELETE or its commit raises: the bytes are gone all the same.
DeletionFails(f) ==
    /\ Outages
    /\ f \in deleting
    /\ deleting' = deleting \ {f}
    /\ gutted' = gutted \cup {f}
    /\ UNCHANGED <<content, disk, row, chunked, jobVars, crashes>>

----------------------------------------------------------------------------
\* The process dies and starts again: requests and tasks are gone, nothing
\* looks for files that were being processed.
Crash ==
    /\ crashes < MaxCrashes
    /\ crashes' = crashes + 1
    /\ pc' = [j \in Jobs |-> IF UnderWay(j) THEN "lost"
                              ELSE IF pc[j] \in {"idle", "lost"} THEN pc[j]
                              ELSE "over"]
    /\ deleting' = {}
    /\ gutted' = gutted \cup deleting
    /\ UNCHANGED <<content, disk, row, chunked, target, loaded>>

\* What a job does by itself once it has begun.
Job(j) ==
    \/ j \in Files /\ \/ RefuseTooLarge(j)
                      \/ AllWritten(j)
                      \/ InsertRow(j)
                      \/ UploadFails(j)
                      \/ Respond(j)
    \/ Requeue(j)
    \/ LoadFile(j)
    \/ MarkProcessing(j)
    \/ Parse(j)
    \/ Embed(j)
    \/ EmbedFails(j)
    \/ StoreChunks(j)
    \/ StoreFails(j)
    \/ RecordFailure(j)
    \/ ReprocessFails(j)
    \/ TaskBreaksOff(j)
    \/ CommitUnanswered(j)

\* Nothing is under way: the server waits for the next request.
Quiet ==
    /\ \A j \in Jobs : pc[j] \in {"idle", "over", "lost"}
    /\ UNCHANGED vars

Next ==
    \/ \E f \in Files : \/ OpenFile(f)
                        \/ RemoveBytes(f)
                        \/ DeleteRow(f)
                        \/ DeletionFails(f)
    \/ \E j \in Jobs : SelectForReprocess(j) \/ Job(j)
    \/ Crash
    \/ Quiet

Spec == Init /\ [][Next]_vars

\* The event loop runs every coroutine that can go on, and the awaited calls
\* return or raise.
FairSpec ==
    /\ Spec
    /\ \A j \in Jobs : WF_vars(Job(j))
    /\ \A f \in Files : WF_vars(DeleteRow(f) \/ DeletionFails(f))

----------------------------------------------------------------------------
(* Properties.                                                             *)

TypeOK ==
    /\ content \in [Files -> Contents]
    /\ disk \subseteq Files
    /\ row \in [Files -> Statuses \cup {"none"}]
    /\ chunked \subseteq Files
    /\ pc \in [Jobs -> Labels]
    /\ target \in [Jobs -> Files]
    /\ loaded \in [Jobs -> Statuses \cup {"none"}]
    /\ deleting \subseteq Files
    /\ gutted \subseteq Files
    /\ crashes \in 0 .. MaxCrashes

\* A file reported completed can be searched, whatever jobs and crashes met on
\* it; chunks never outlive the row and come from a file with text.
CompletedIsSearchable ==
    /\ \A f \in Files : row[f] = "completed" => f \in chunked
    /\ \A f \in chunked : Exists(f) /\ content[f] = "text"

\* A status that promises work has a job that will do it, or had one that was
\* lost with the process or to the database: a pending file one that gets
\* there, a file in processing one that already works on it.  Jobs that
\* overlap on a file do not rob it of its last one.
PromisedWorkHasAJob ==
    \A f \in Files :
        /\ row[f] = "pending" =>
               \E j \in Jobs : target[j] = f /\ (UnderWay(j) \/ pc[j] = "lost")
        /\ row[f] = "processing" =>
               \E j \in Jobs : target[j] = f /\ (Working(j) \/ pc[j] = "lost")

\* Bytes and row go together: bytes without a row are those of an upload that
\* has not got to its row or failed; a row without bytes is being deleted, or
\* its deletion was broken off between the two.
BytesMatchRows ==
    \A f \in Files :
        /\ f \in disk /\ ~Exists(f) => /\ f \notin deleting
                                       /\ loaded[f] = "none"
                                       /\ pc[f] \in {"writing", "insert", "over"}
        /\ Exists(f) /\ f \notin disk => f \in deleting \cup gutted

\* What was searchable stays so until the file is deleted, also when it is
\* reprocessed, and however that ends.
ChunksStayUntilDeletion ==
    [][\A f \in chunked \ chunked' : f \in deleting /\ row'[f] = "none"]_vars

\* The promise of uploads and their tasks to users and to retrieval.
Life == INSTANCE FileLife WITH
    status <- row,
    searchable <- chunked,
    uploaded <- {f \in Files : pc[f] \notin {"idle", "writing", "insert"}}

\* A file appears once and is gone for good: no task that outlives a deletion,
\* and no crash, brings its row or chunks back; and of several jobs on a file
\* one completes it, with all its chunks at that instant.
ImplementsFileLife == Life!Spec

\* A file does not stay pending or in processing, unless a job on it was lost
\* with the process or to the database.
StatusSettles ==
    \A f \in Files : row[f] \in {"pending", "processing"} ~>
        \/ row[f] \in {"none", "completed", "failed"}
        \/ \E j \in Jobs : target[j] = f /\ pc[j] = "lost"

\* README, section 3.4: after a few seconds the status is completed.  At least
\* it would not stay pending or in processing for ever.
StatusSettlesDespiteCrash ==
    \A f \in Files : row[f] \in {"pending", "processing"} ~>
        row[f] \in {"none", "completed", "failed"}
=============================================================================
