-------------------------- MODULE IngestionProofs --------------------------
(***************************************************************************)
(* Proofs about the life of uploaded files, for any number of files, of    *)
(* requests to reprocess them and of crashes, whatever the files contain.  *)
(*                                                                         *)
(* The argument needs four facts the properties do not state: the job of   *)
(* an upload works on its own file; a job embeds or stores only what was   *)
(* parsed into some text; an upload that has not got to its row has its    *)
(* bytes and no row; and a file being deleted has a row and no bytes.      *)
(***************************************************************************)
EXTENDS Ingestion, TLAPS

UploadsTheirOwn == \A f \in Files : target[f] = f

TextWhenEmbedding ==
    \A j \in Jobs : pc[j] \in {"embedding", "storing"} =>
        content[target[j]] = "text"

UploadsBeforeTheirRow ==
    \A f \in Files :
        /\ pc[f] \in {"idle", "writing", "insert"} => /\ ~Exists(f)
                                                      /\ loaded[f] = "none"
        /\ pc[f] \in {"writing", "insert"} => f \in disk

DeletionsUnderWay == \A f \in deleting : Exists(f) /\ f \notin disk

TypeInv == TypeOK /\ UploadsTheirOwn

\* Every action of a job is one of these, and so is its effect on the job.
LEMMA Actions ==
    ASSUME [Next]_vars
    PROVE  \/ UNCHANGED vars
           \/ \E f \in Files : \/ OpenFile(f) \/ RefuseTooLarge(f)
                               \/ AllWritten(f) \/ InsertRow(f)
                               \/ UploadFails(f) \/ Respond(f)
                               \/ RemoveBytes(f) \/ DeleteRow(f)
                               \/ DeletionFails(f)
           \/ \E j \in Jobs : \/ SelectForReprocess(j) \/ Requeue(j)
                              \/ LoadFile(j) \/ MarkProcessing(j) \/ Parse(j)
                              \/ Embed(j) \/ EmbedFails(j) \/ StoreChunks(j)
                              \/ StoreFails(j) \/ RecordFailure(j)
                              \/ ReprocessFails(j) \/ TaskBreaksOff(j)
                              \/ CommitUnanswered(j)
           \/ Crash
  BY DEF Next, Job, Quiet, Jobs

----------------------------------------------------------------------------
(* Type correctness.                                                       *)

LEMMA TypeInvInductive == TypeInv /\ [Next]_vars => TypeInv'
<1> SUFFICES ASSUME TypeInv, [Next]_vars PROVE TypeInv'
  OBVIOUS
<1> USE DEF TypeInv, TypeOK, UploadsTheirOwn, Statuses, Labels, Jobs, deletions
<1>1. CASE UNCHANGED vars
  BY <1>1 DEF vars, jobVars
<1>2. ASSUME NEW f \in Files,
             \/ OpenFile(f) \/ RefuseTooLarge(f) \/ AllWritten(f)
             \/ InsertRow(f) \/ UploadFails(f) \/ Respond(f)
             \/ RemoveBytes(f) \/ DeleteRow(f) \/ DeletionFails(f)
      PROVE  TypeInv'
  BY <1>2
  DEF OpenFile, RefuseTooLarge, AllWritten, InsertRow, UploadFails, Respond,
      RemoveBytes, DeleteRow, DeletionFails, Proceed, Goto, SetStatus, jobVars
<1>3. ASSUME NEW j \in Jobs,
             \/ SelectForReprocess(j) \/ Requeue(j) \/ LoadFile(j)
             \/ MarkProcessing(j)
      PROVE  TypeInv'
  BY <1>3
  DEF SelectForReprocess, Requeue, LoadFile, MarkProcessing, Proceed, Goto,
      SetStatus
<1>4. ASSUME NEW j \in Jobs,
             \/ Parse(j) \/ Embed(j) \/ EmbedFails(j) \/ StoreChunks(j)
             \/ StoreFails(j) \/ RecordFailure(j)
      PROVE  TypeInv'
  BY <1>4
  DEF Parse, Embed, EmbedFails, StoreChunks, StoreFails, RecordFailure,
      Proceed, Goto, SetStatus
<1>5. ASSUME NEW j \in Jobs,
             ReprocessFails(j) \/ TaskBreaksOff(j) \/ CommitUnanswered(j)
      PROVE  TypeInv'
  BY <1>5
  DEF ReprocessFails, TaskBreaksOff, CommitUnanswered, Proceed, Goto, SetStatus
<1>6. CASE Crash
  BY <1>6, IngestionAssumption DEF Crash, IngestionAssumption
<1> QED
  BY <1>1, <1>2, <1>3, <1>4, <1>5, <1>6, Actions

LEMMA TypeInvInit == Init => TypeInv
  BY IngestionAssumption
  DEF Init, TypeInv, TypeOK, UploadsTheirOwn, Statuses, Labels, Jobs, Contents,
      IngestionAssumption

\* Every variable keeps its type, however jobs, deletions and crashes mix.
THEOREM TypeCorrect == Spec => []TypeOK
  BY TypeInvInit, TypeInvInductive, PTL DEF Spec, TypeInv

----------------------------------------------------------------------------
(* Completed files are searchable.                                         *)

SearchInv == TypeInv /\ CompletedIsSearchable /\ TextWhenEmbedding

LEMMA SearchInvInductive == SearchInv /\ [Next]_vars => SearchInv'
<1> SUFFICES ASSUME SearchInv, [Next]_vars
             PROVE  CompletedIsSearchable' /\ TextWhenEmbedding'
  BY TypeInvInductive DEF SearchInv
<1> USE DEF SearchInv, TypeInv, TypeOK, UploadsTheirOwn, CompletedIsSearchable,
            TextWhenEmbedding, Exists, Jobs, deletions
<1>1. CASE UNCHANGED vars
  BY <1>1 DEF vars, jobVars
<1>2. ASSUME NEW f \in Files,
             \/ OpenFile(f) \/ RefuseTooLarge(f) \/ AllWritten(f)
             \/ InsertRow(f) \/ UploadFails(f) \/ Respond(f)
             \/ RemoveBytes(f) \/ DeleteRow(f) \/ DeletionFails(f)
      PROVE  CompletedIsSearchable' /\ TextWhenEmbedding'
  BY <1>2
  DEF OpenFile, RefuseTooLarge, AllWritten, InsertRow, UploadFails, Respond,
      RemoveBytes, DeleteRow, DeletionFails, Proceed, Goto, SetStatus, jobVars
<1>3. ASSUME NEW j \in Jobs,
             \/ SelectForReprocess(j) \/ Requeue(j) \/ LoadFile(j)
             \/ MarkProcessing(j)
      PROVE  CompletedIsSearchable' /\ TextWhenEmbedding'
  BY <1>3
  DEF SelectForReprocess, Requeue, LoadFile, MarkProcessing, Proceed, Goto,
      SetStatus
<1>4. ASSUME NEW j \in Jobs,
             \/ Parse(j) \/ Embed(j) \/ EmbedFails(j) \/ StoreFails(j)
             \/ RecordFailure(j)
      PROVE  CompletedIsSearchable' /\ TextWhenEmbedding'
  BY <1>4
  DEF Parse, Embed, EmbedFails, StoreFails, RecordFailure, Proceed, Goto,
      SetStatus
<1>5. ASSUME NEW j \in Jobs, StoreChunks(j)
      PROVE  CompletedIsSearchable' /\ TextWhenEmbedding'
  BY <1>5 DEF StoreChunks, Storable, Goto, SetStatus
<1>6. ASSUME NEW j \in Jobs,
             ReprocessFails(j) \/ TaskBreaksOff(j) \/ CommitUnanswered(j)
      PROVE  CompletedIsSearchable' /\ TextWhenEmbedding'
  BY <1>6
  DEF ReprocessFails, TaskBreaksOff, CommitUnanswered, Proceed, Goto, SetStatus
<1>7. CASE Crash
  BY <1>7 DEF Crash, UnderWay
<1> QED
  BY <1>1, <1>2, <1>3, <1>4, <1>5, <1>6, <1>7, Actions

\* A file reported completed can be searched, and what is searched belongs to a
\* file that exists and has text, however many jobs work on it at once.
THEOREM CompletedSearchable == Spec => []CompletedIsSearchable
<1>1. Init => SearchInv
  BY TypeInvInit
  DEF Init, SearchInv, CompletedIsSearchable, TextWhenEmbedding, Exists
<1> QED
  BY <1>1, SearchInvInductive, PTL DEF Spec, SearchInv

----------------------------------------------------------------------------
(* Chunks go only with their file.                                         *)

\* Reprocessing a file, successfully or not, and a crash at any point leave
\* what is searchable alone: only a deletion of the file takes it away.
THEOREM ChunksStay == Spec => ChunksStayUntilDeletion
<1>1. TypeInv /\ [Next]_vars =>
          \A f \in chunked \ chunked' : f \in deleting /\ row'[f] = "none"
  <2> SUFFICES ASSUME TypeInv, [Next]_vars, chunked' # chunked,
                      NEW f \in chunked \ chunked'
               PROVE  f \in deleting /\ row'[f] = "none"
    OBVIOUS
  <2>1. \/ \E g \in Files : DeleteRow(g)
        \/ \E j \in Jobs : StoreChunks(j)
    BY Actions
    DEF vars, OpenFile, RefuseTooLarge, AllWritten, InsertRow, UploadFails,
        Respond, RemoveBytes, SelectForReprocess, Requeue, LoadFile,
        MarkProcessing, Parse, Embed, EmbedFails, StoreFails, RecordFailure,
        DeletionFails, ReprocessFails, TaskBreaksOff, CommitUnanswered,
        Proceed, Crash
  <2> QED
    BY <2>1 DEF TypeInv, TypeOK, DeleteRow, StoreChunks
<1> QED
  BY <1>1, TypeInvInit, TypeInvInductive, PTL
  DEF Spec, ChunksStayUntilDeletion

----------------------------------------------------------------------------
(* Bytes and rows.                                                         *)

BytesInv ==
    TypeInv /\ BytesMatchRows /\ UploadsBeforeTheirRow /\ DeletionsUnderWay

LEMMA BytesInvInductive == BytesInv /\ [Next]_vars => BytesInv'
<1> DEFINE Goal == BytesMatchRows /\ UploadsBeforeTheirRow /\ DeletionsUnderWay
<1> SUFFICES ASSUME BytesInv, [Next]_vars PROVE Goal'
  BY TypeInvInductive DEF BytesInv
<1> USE DEF BytesInv, TypeInv, TypeOK, UploadsTheirOwn, BytesMatchRows,
            UploadsBeforeTheirRow, DeletionsUnderWay, Exists, Jobs, deletions
<1>1. CASE UNCHANGED vars
  BY <1>1 DEF vars, jobVars
<1>2. ASSUME NEW f \in Files,
             \/ OpenFile(f) \/ RefuseTooLarge(f) \/ AllWritten(f)
             \/ InsertRow(f)
      PROVE  Goal'
  BY <1>2
  DEF OpenFile, RefuseTooLarge, AllWritten, InsertRow, Proceed, Goto, SetStatus
<1>3. ASSUME NEW f \in Files, UploadFails(f) \/ Respond(f) PROVE Goal'
  BY <1>3 DEF UploadFails, Respond, Proceed, Goto
<1>4. ASSUME NEW f \in Files,
             RemoveBytes(f) \/ DeleteRow(f) \/ DeletionFails(f)
      PROVE  Goal'
  BY <1>4 DEF RemoveBytes, DeleteRow, DeletionFails, jobVars
<1>5. ASSUME NEW j \in Jobs,
             \/ SelectForReprocess(j) \/ Requeue(j) \/ LoadFile(j)
             \/ MarkProcessing(j)
      PROVE  Goal'
  BY <1>5, IngestionAssumption
  DEF SelectForReprocess, Requeue, LoadFile, MarkProcessing, Proceed, Goto,
      SetStatus, IngestionAssumption
<1>6. ASSUME NEW j \in Jobs,
             \/ Parse(j) \/ Embed(j) \/ EmbedFails(j) \/ StoreChunks(j)
             \/ StoreFails(j) \/ RecordFailure(j)
      PROVE  Goal'
  BY <1>6
  DEF Parse, Embed, EmbedFails, StoreChunks, StoreFails, Storable,
      RecordFailure, Proceed, Goto, SetStatus
<1>7. ASSUME NEW j \in Jobs,
             ReprocessFails(j) \/ TaskBreaksOff(j) \/ CommitUnanswered(j)
      PROVE  Goal'
  BY <1>7, IngestionAssumption
  DEF ReprocessFails, TaskBreaksOff, CommitUnanswered, Proceed, Goto,
      SetStatus, IngestionAssumption
<1>8. CASE Crash
  BY <1>8 DEF Crash, UnderWay, Working
<1> QED
  BY <1>1, <1>2, <1>3, <1>4, <1>5, <1>6, <1>7, <1>8, Actions

LEMMA BytesInvInit == Init => BytesInv
  BY TypeInvInit
  DEF Init, BytesInv, BytesMatchRows, UploadsBeforeTheirRow, DeletionsUnderWay,
      Exists, Jobs

\* Bytes without a row are those of an upload that failed or is under way; a
\* row without bytes is being deleted, or its deletion was broken off.
THEOREM BytesAndRowsMatch == Spec => []BytesMatchRows
  BY BytesInvInit, BytesInvInductive, PTL DEF Spec, BytesInv

----------------------------------------------------------------------------
(* Promised work has a job.                                                *)

\* Job j will settle the status of f, or was lost on the way.
Settling(j, f) == target[j] = f /\ (Working(j) \/ pc[j] = "lost")

\* The same, or it may yet have to mark the file.
Engaged(j, f) == target[j] = f /\ (UnderWay(j) \/ pc[j] = "lost")

\* What it means that j does not leave f in the lurch.
Stands(j, f) ==
    /\ Engaged(j, f) =>
           Engaged(j, f)' \/ row'[f] \notin {"pending", "processing"}
    /\ Settling(j, f) =>
           Settling(j, f)' \/ row'[f] \notin {"pending", "processing"}

\* A job that leaves a file leaves it settled, or gone.
LEMMA JobsDoNotLeave ==
    ASSUME TypeInv, [Next]_vars, NEW f \in Files, NEW j \in Jobs
    PROVE  Stands(j, f)
<1> USE DEF TypeInv, TypeOK, UploadsTheirOwn, Stands, Engaged, Settling,
            Working, UnderWay, Exists, Jobs
<1>1. CASE UNCHANGED vars
  BY <1>1 DEF vars, jobVars
<1>2. ASSUME NEW g \in Files,
             \/ OpenFile(g) \/ RefuseTooLarge(g) \/ AllWritten(g)
             \/ InsertRow(g) \/ UploadFails(g) \/ Respond(g)
             \/ RemoveBytes(g) \/ DeleteRow(g) \/ DeletionFails(g)
      PROVE  Stands(j, f)
  BY <1>2
  DEF OpenFile, RefuseTooLarge, AllWritten, InsertRow, UploadFails, Respond,
      RemoveBytes, DeleteRow, DeletionFails, Proceed, Goto, SetStatus, jobVars
<1>3. ASSUME NEW k \in Jobs,
             \/ SelectForReprocess(k) \/ Requeue(k) \/ LoadFile(k)
             \/ MarkProcessing(k) \/ Parse(k) \/ Embed(k) \/ EmbedFails(k)
             \/ StoreChunks(k) \/ StoreFails(k) \/ RecordFailure(k)
      PROVE  Stands(j, f)
  BY <1>3
  DEF SelectForReprocess, Requeue, LoadFile, MarkProcessing, Parse, Embed,
      EmbedFails, StoreChunks, StoreFails, RecordFailure, Proceed, Goto,
      SetStatus
<1>4. ASSUME NEW k \in Jobs,
             ReprocessFails(k) \/ TaskBreaksOff(k) \/ CommitUnanswered(k)
      PROVE  Stands(j, f)
  BY <1>4
  DEF ReprocessFails, TaskBreaksOff, CommitUnanswered, Proceed, Goto, SetStatus
<1>5. CASE Crash
  BY <1>5 DEF Crash
<1> QED
  BY <1>1, <1>2, <1>3, <1>4, <1>5, Actions

\* Whoever makes a file pending, or marks it as in processing, is engaged, or
\* lost by the same step.
LEMMA StatusHasAnAuthor ==
    ASSUME TypeInv, [Next]_vars, NEW f \in Files, row'[f] # row[f]
    PROVE  /\ row'[f] = "pending" => \E j \in Jobs : Engaged(j, f)'
           /\ row'[f] = "processing" => \E j \in Jobs : Settling(j, f)'
<1> USE DEF TypeInv, TypeOK, UploadsTheirOwn, Engaged, Settling, Working,
            UnderWay, Jobs
<1>1. \/ InsertRow(f) \/ DeleteRow(f)
      \/ \E j \in Jobs : /\ target[j] = f
                          /\ \/ Requeue(j) \/ MarkProcessing(j)
                             \/ StoreChunks(j) \/ RecordFailure(j)
                             \/ CommitUnanswered(j)
  BY Actions
  DEF vars, OpenFile, RefuseTooLarge, AllWritten, InsertRow, UploadFails,
      Respond, RemoveBytes, DeleteRow, DeletionFails, SelectForReprocess,
      Requeue, LoadFile, MarkProcessing, Parse, Embed, EmbedFails, StoreChunks,
      StoreFails, RecordFailure, ReprocessFails, TaskBreaksOff,
      CommitUnanswered, Proceed, SetStatus, Crash
<1>2. CASE InsertRow(f) \/ DeleteRow(f)
  BY <1>2 DEF InsertRow, DeleteRow, Goto, SetStatus
<1>3. ASSUME NEW j \in Jobs, target[j] = f,
             \/ Requeue(j) \/ MarkProcessing(j) \/ StoreChunks(j)
             \/ RecordFailure(j) \/ CommitUnanswered(j)
      PROVE  /\ row'[f] = "pending" => Engaged(j, f)'
             /\ row'[f] = "processing" => Settling(j, f)'
  BY <1>3
  DEF Requeue, MarkProcessing, StoreChunks, RecordFailure, CommitUnanswered,
      Proceed, Goto, SetStatus
<1> QED
  BY <1>1, <1>2, <1>3

\* A pending file has a job that will get to it and a file in processing one
\* that works on it, however jobs overlap, unless that job was lost with the
\* process or to the database.
THEOREM WorkHasAJob == Spec => []PromisedWorkHasAJob
<1>1. Init => PromisedWorkHasAJob
  BY DEF Init, PromisedWorkHasAJob
<1>2. TypeInv /\ PromisedWorkHasAJob /\ [Next]_vars => PromisedWorkHasAJob'
  <2> SUFFICES ASSUME TypeInv, PromisedWorkHasAJob, [Next]_vars,
                      NEW f \in Files
               PROVE  /\ row'[f] = "pending" =>
                             \E j \in Jobs : Engaged(j, f)'
                      /\ row'[f] = "processing" =>
                             \E j \in Jobs : Settling(j, f)'
    BY DEF PromisedWorkHasAJob, Engaged, Settling
  <2>1. CASE row'[f] # row[f]
    BY <2>1, StatusHasAnAuthor
  <2>2. CASE row'[f] = row[f]
    <3>1. /\ row[f] = "pending" => \E j \in Jobs : Engaged(j, f)
          /\ row[f] = "processing" => \E j \in Jobs : Settling(j, f)
      BY DEF PromisedWorkHasAJob, Engaged, Settling
    <3> QED
      BY <2>2, <3>1, JobsDoNotLeave DEF Stands
  <2> QED
    BY <2>1, <2>2
<1> QED
  BY <1>1, <1>2, TypeInvInit, TypeInvInductive, PTL DEF Spec

----------------------------------------------------------------------------
(* The life of a file.                                                     *)

\* The upload of the file has made its row, or never will.
Uploaded == {f \in Files : pc[f] \notin {"idle", "writing", "insert"}}

\* A job past its upload does not come back to it.
LEMMA JobsLeaveUploads ==
    ASSUME TypeInv, NEW j \in Jobs, NEW label,
           pc[j] \notin {"idle", "writing", "insert"} \/ j \notin Files,
           label \notin {"idle", "writing", "insert"}, Goto(j, label)
    PROVE  Uploaded' = Uploaded
<1>1. pc' = [pc EXCEPT ![j] = label]
  BY DEF Goto
<1>2. \A f \in Files : pc'[f] \in {"idle", "writing", "insert"}
                           <=> pc[f] \in {"idle", "writing", "insert"}
  BY <1>1 DEF TypeInv, TypeOK, Jobs
<1> QED
  BY <1>2 DEF Uploaded

\* The steps of a job past the upload: the file that is there is reported on or
\* completed, or nothing is to be seen.
LEMMA JobsReport ==
    ASSUME TypeInv, NEW j \in Jobs,
           \/ SelectForReprocess(j) \/ Requeue(j) \/ LoadFile(j)
           \/ MarkProcessing(j) \/ Parse(j) \/ Embed(j) \/ EmbedFails(j)
           \/ StoreChunks(j) \/ StoreFails(j) \/ RecordFailure(j)
           \/ ReprocessFails(j) \/ TaskBreaksOff(j) \/ CommitUnanswered(j)
    PROVE  Life!Next \/ UNCHANGED Life!lifeVars
<1> PICK f \in Files : f = target[j]
  BY DEF TypeInv, TypeOK
<1>1. Uploaded' = Uploaded
  <2>1. CASE SelectForReprocess(j)
    <3>1. j \notin Files
      BY <2>1, IngestionAssumption DEF SelectForReprocess, IngestionAssumption
    <3> QED
      BY <2>1, <3>1, JobsLeaveUploads DEF SelectForReprocess
  <2>2. CASE ~SelectForReprocess(j)
    <3>1. /\ pc[j] \notin {"idle", "writing", "insert"}
          /\ \E label \in Labels \ {"idle", "writing", "insert"} :
                 Goto(j, label)
      BY <2>2
      DEF Requeue, LoadFile, MarkProcessing, Parse, Embed, EmbedFails,
          StoreChunks, StoreFails, RecordFailure, ReprocessFails,
          TaskBreaksOff, CommitUnanswered, Proceed, Labels
    <3> QED
      BY <3>1, JobsLeaveUploads
  <2> QED
    BY <2>1, <2>2
<1>2. \/ UNCHANGED <<row, chunked>>
      \/ /\ Exists(f) /\ chunked' = chunked
         /\ \E s \in {"pending", "processing", "failed"} : SetStatus(f, s)
      \/ /\ Exists(f) /\ f \notin chunked
         /\ SetStatus(f, "completed") /\ chunked' = chunked \cup {f}
  BY DEF SelectForReprocess, Requeue, LoadFile, MarkProcessing, Parse, Embed,
         EmbedFails, StoreChunks, StoreFails, Storable, RecordFailure,
         ReprocessFails, TaskBreaksOff, CommitUnanswered, Proceed
<1>3. CASE UNCHANGED <<row, chunked>>
  BY <1>1, <1>3 DEF Life!lifeVars, Uploaded
<1>4. ASSUME NEW s \in {"pending", "processing", "failed"},
             Exists(f), chunked' = chunked, SetStatus(f, s)
      PROVE  Life!Next
  <2>1. Life!Report(f, s)
    BY <1>1, <1>4 DEF Life!Report, Exists, SetStatus, Uploaded
  <2> QED
    BY <2>1 DEF Life!Next
<1>5. CASE /\ Exists(f) /\ f \notin chunked
           /\ SetStatus(f, "completed") /\ chunked' = chunked \cup {f}
  <2>1. Life!Complete(f)
    BY <1>1, <1>5 DEF Life!Complete, Exists, SetStatus, Uploaded
  <2> QED
    BY <2>1 DEF Life!Next
<1> QED
  BY <1>2, <1>3, <1>4, <1>5

\* The steps of uploads and deletions.
LEMMA UploadsAppear ==
    ASSUME BytesInv, NEW f \in Files,
           \/ OpenFile(f) \/ RefuseTooLarge(f) \/ AllWritten(f) \/ InsertRow(f)
           \/ UploadFails(f) \/ Respond(f) \/ RemoveBytes(f) \/ DeleteRow(f)
           \/ DeletionFails(f)
    PROVE  Life!Next \/ UNCHANGED Life!lifeVars
<1> USE DEF BytesInv, TypeInv, TypeOK, Jobs
<1>1. CASE \/ OpenFile(f) \/ AllWritten(f) \/ Respond(f) \/ RemoveBytes(f)
           \/ DeletionFails(f)
  <2>1. /\ UNCHANGED <<row, chunked>>
        /\ \A g \in Files : pc'[g] \in {"idle", "writing", "insert"}
                                <=> pc[g] \in {"idle", "writing", "insert"}
    BY <1>1
    DEF OpenFile, AllWritten, Respond, RemoveBytes, DeletionFails, Proceed,
        Goto, jobVars
  <2> QED
    BY <2>1 DEF Life!lifeVars
<1>2. CASE RefuseTooLarge(f) \/ UploadFails(f)
  <2>1. /\ UNCHANGED <<row, chunked>> /\ f \notin Uploaded
        /\ Uploaded' = Uploaded \cup {f}
    BY <1>2 DEF RefuseTooLarge, UploadFails, Proceed, Goto, Uploaded
  <2>2. Life!GiveUp({f})
    BY <2>1 DEF Life!GiveUp, Uploaded
  <2> QED
    BY <2>2 DEF Life!Next
<1>3. CASE InsertRow(f)
  <2>1. /\ row' = [row EXCEPT ![f] = "pending"] /\ chunked' = chunked
        /\ f \notin Uploaded /\ Uploaded' = Uploaded \cup {f}
    BY <1>3 DEF InsertRow, SetStatus, Goto, Uploaded
  <2>2. row[f] = "none"
    BY <1>3 DEF InsertRow, UploadsBeforeTheirRow, Exists
  <2>3. Life!Appear(f)
    BY <2>1, <2>2 DEF Life!Appear, Uploaded
  <2> QED
    BY <2>3 DEF Life!Next
<1>4. CASE DeleteRow(f)
  <2>1. /\ row' = [row EXCEPT ![f] = "none"] /\ chunked' = chunked \ {f}
        /\ row[f] # "none" /\ pc' = pc
    BY <1>4 DEF DeleteRow, DeletionsUnderWay, Exists, jobVars
  <2>2. Life!Delete(f)
    BY <2>1 DEF Life!Delete
  <2> QED
    BY <2>2 DEF Life!Next
<1> QED
  BY <1>1, <1>2, <1>3, <1>4

\* Whatever jobs, deletions and crashes meet on it, a file appears once, gets
\* its chunks and the status completed at one instant and once, and is gone for
\* good when it is deleted.
THEOREM FilesLiveOnce == Spec => ImplementsFileLife
<1>1. Init => Life!Init
  BY DEF Init, Life!Init, Jobs
<1>2. BytesInv /\ [Next]_vars => [Life!Next]_(Life!lifeVars)
  <2> SUFFICES ASSUME BytesInv, [Next]_vars
               PROVE  Life!Next \/ UNCHANGED Life!lifeVars
    OBVIOUS
  <2>1. CASE UNCHANGED vars
    BY <2>1 DEF vars, jobVars, Life!lifeVars
  <2>2. CASE Crash
    <3> PICK uploads \in SUBSET Files :
            uploads = {f \in Files : pc[f] \in {"writing", "insert"}}
      OBVIOUS
    <3>1. /\ UNCHANGED <<row, chunked>>
          /\ \A f \in Files :
                 pc'[f] \in {"idle", "writing", "insert"} <=> pc[f] = "idle"
      BY <2>2 DEF Crash, UnderWay, Working, Jobs
    <3>2. uploads \cap Uploaded = {} /\ Uploaded' = Uploaded \cup uploads
      BY <3>1 DEF Uploaded
    <3>3. Life!GiveUp(uploads)
      BY <3>1, <3>2 DEF Life!GiveUp, Uploaded
    <3> QED
      BY <3>3 DEF Life!Next
  <2>3. TypeInv
    BY DEF BytesInv
  <2> QED
    BY <2>1, <2>2, <2>3, JobsReport, UploadsAppear, Actions
<1> QED
  BY <1>1, <1>2, BytesInvInit, BytesInvInductive, PTL
  DEF Spec, ImplementsFileLife, Life!Spec
=============================================================================
