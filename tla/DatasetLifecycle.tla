-------------------------- MODULE DatasetLifecycle --------------------------
(***************************************************************************)
(* The life of a dataset: a request creates a record and streams the file, *)
(* a worker of the processing queue extracts it in a thread, requests      *)
(* confirm, describe, disclose, publish and delete it.                     *)
(*                                                                         *)
(* Everything runs on one event loop, so the steps between two awaits are  *)
(* one action.  What a handler read before an await it may write after it: *)
(* _save_record writes every column of the copy it is given and inserts    *)
(* the row again when it is gone.  Row locks are short and not modelled.   *)
(***************************************************************************)
EXTENDS Naturals, Sequences, FiniteSets, SequencesExt

CONSTANTS
  Datasets,      \* ids of uploads, never reused
  Workers,       \* tasks of the processing queue
  Requests,      \* requests in flight across an await
  Batch,         \* datasets uploaded in the batch that may be confirmed
  Sold,          \* datasets their seller describes, discloses and publishes
  NoRow, NoDataset,
  MaxFaults      \* restarts, failed saves and failed deletions considered

Statuses == {"uploaded", "extracting", "preview_ready", "cancelled", "error"}
Row == [status : Statuses, listed : BOOLEAN, confirmed : BOOLEAN, processed : BOOLEAN]

ASSUME ConstantsAssumption ==
  /\ Batch \subseteq Datasets /\ Sold \subseteq Datasets
  /\ NoRow \notin Row /\ NoDataset \notin Datasets
  /\ MaxFaults \in Nat

VARIABLES
  row,                        \* the table dataset_records
  upload, partial, parquet,   \* its upload, its .partial and its Parquet file
  queue, current,             \* of the processing queue
  wpc, wds, wcopy,            \* workers: step, dataset, its record in memory
  rpc, rds, rcopy,            \* requests: likewise
  \* history: ids given out, ids of which a deletion removed the row or the Parquet
  \* file, rows that a disclosure snapshot set back to extracting
  created, deleted, setBack,
  faults

files    == <<upload, partial, parquet>>
line     == <<queue, current>>
workers  == <<wpc, wds, wcopy>>
requests == <<rpc, rds, rcopy>>
history  == <<created, deleted, setBack>>
vars == <<row, files, line, workers, requests, history, faults>>

Fresh == [status |-> "uploaded", listed |-> FALSE, confirmed |-> FALSE, processed |-> FALSE]

Init ==
  /\ row = [d \in Datasets |-> NoRow]
  /\ upload = [d \in Datasets |-> FALSE]
  /\ partial = [d \in Datasets |-> FALSE]
  /\ parquet = [d \in Datasets |-> "none"]
  /\ queue = <<>> /\ current = NoDataset
  /\ wpc = [w \in Workers |-> "idle"]
  /\ wds = [w \in Workers |-> NoDataset]
  /\ wcopy = [w \in Workers |-> Fresh]
  /\ rpc = [r \in Requests |-> "idle"]
  /\ rds = [r \in Requests |-> NoDataset]
  /\ rcopy = [r \in Requests |-> Fresh]
  /\ created = {} /\ deleted = {} /\ setBack = {}
  /\ faults = 0

Exists(d) == row[d] # NoRow
Fault == faults < MaxFaults /\ faults' = faults + 1

\* _save_record: all columns of the copy; a row that is gone is inserted again.
Save(d, copy) == row' = [row EXCEPT ![d] = copy]

WithStatus(copy, s) == [copy EXCEPT !.status = s]

-----------------------------------------------------------------------------
(* Uploads and imports *)

EndRequest(r) ==
  /\ rpc' = [rpc EXCEPT ![r] = "idle"]
  /\ rds' = [rds EXCEPT ![r] = NoDataset]
  /\ rcopy' = [rcopy EXCEPT ![r] = Fresh]

Hold(r, d, copy, step) ==
  /\ rpc[r] = "idle"
  /\ rpc' = [rpc EXCEPT ![r] = step]
  /\ rds' = [rds EXCEPT ![r] = d]
  /\ rcopy' = [rcopy EXCEPT ![r] = copy]

\* create_dataset.
BeginUpload(r, d) ==
  /\ d \notin created
  /\ created' = created \cup {d}
  /\ Save(d, Fresh)
  /\ Hold(r, d, Fresh, "upload")
  /\ UNCHANGED <<files, line, workers, deleted, setBack, faults>>

\* The file is opened and chunks arrive.
WriteUpload(r) ==
  /\ rpc[r] = "upload"
  /\ rpc' = [rpc EXCEPT ![r] = "written"]
  /\ upload' = [upload EXCEPT ![rds[r]] = TRUE]
  /\ UNCHANGED <<row, partial, parquet, line, workers, rds, rcopy, history, faults>>

Submit(d) == queue' = Append(queue, d) /\ UNCHANGED current

\* upload_dataset and batch_upload save the record again, with its size; an
\* import submits at once.
FinishUpload(r) ==
  /\ rpc[r] = "written"
  /\ Save(rds[r], rcopy[r]) \/ UNCHANGED row
  /\ Submit(rds[r])
  /\ EndRequest(r)
  /\ UNCHANGED <<files, workers, history, faults>>

\* delete_dataset: the files the row names, then the row.
Discard(d) ==
  /\ row' = [row EXCEPT ![d] = NoRow]
  /\ upload' = [upload EXCEPT ![d] = FALSE]
  /\ parquet' = [parquet EXCEPT ![d] = IF Exists(d) /\ row[d].processed THEN "none" ELSE @]
  /\ deleted' = deleted \cup {d}
  /\ UNCHANGED partial

\* delete_dataset raises: at the first file, at the second, or at the row, when
\* the files it names are gone already.
DiscardFails(d) ==
  /\ Exists(d) /\ Fault
  /\ \/ UNCHANGED <<upload, parquet, deleted>>
     \/ row[d].processed /\ upload' = [upload EXCEPT ![d] = FALSE] /\ UNCHANGED <<parquet, deleted>>
     \/ /\ upload' = [upload EXCEPT ![d] = FALSE]
        /\ parquet' = [parquet EXCEPT ![d] = IF row[d].processed THEN "none" ELSE @]
        /\ deleted' = IF row[d].processed THEN deleted \cup {d} ELSE deleted
  /\ UNCHANGED partial

\* Content that does not match the extension, or an upload that is aborted; a
\* batch does not look for the file when the record is gone.  A deletion that
\* fails leaves the row.
RejectUpload(r) ==
  /\ rpc[r] \in {"upload", "written"}
  /\ \/ Discard(rds[r]) /\ UNCHANGED faults
     \/ ~Exists(rds[r]) /\ UNCHANGED <<row, files, deleted, faults>>
     \/ DiscardFails(rds[r]) /\ UNCHANGED row
  /\ EndRequest(r)
  /\ UNCHANGED <<line, workers, created, setBack>>

\* An import that fails, or a batch whose client goes away, leaves its record.
LeaveUpload(r) ==
  /\ rpc[r] \in {"upload", "written"}
  /\ EndRequest(r)
  /\ UNCHANGED <<row, files, line, workers, history, faults>>

-----------------------------------------------------------------------------
(* The processing queue: worker_loop and process_file *)

\* Mutant: the current item is only reset after a success.
FinishKeepsCurrent(w) ==
  /\ current' = IF wpc[w] = "done" THEN NoDataset ELSE current
  /\ wpc' = [wpc EXCEPT ![w] = "idle"]
  /\ wds' = [wds EXCEPT ![w] = NoDataset]
  /\ wcopy' = [wcopy EXCEPT ![w] = Fresh]

\* The finally clause; all workers share one current item.
Finish(w) ==
  /\ current' = NoDataset
  /\ wpc' = [wpc EXCEPT ![w] = "idle"]
  /\ wds' = [wds EXCEPT ![w] = NoDataset]
  /\ wcopy' = [wcopy EXCEPT ![w] = Fresh]

\* _ensure_error_status reads the row again and spares a settled one.
EnsureErrorStatus(d) ==
  \/ /\ Exists(d) /\ row[d].status \notin {"error", "preview_ready", "cancelled"}
     /\ Save(d, WithStatus(row[d], "error"))
  \/ UNCHANGED row

\* Mutant: a file that fails at the start takes its worker with it.
TakeAndStopOnError(w) ==
  /\ wpc[w] = "idle" /\ queue # <<>>
  /\ queue' = Tail(queue)
  /\ LET d == Head(queue) IN
     \/ /\ Exists(d) /\ upload[d] /\ row[d].status # "cancelled"
        /\ Save(d, WithStatus(row[d], "extracting"))
        /\ current' = d
        /\ wpc' = [wpc EXCEPT ![w] = "extract"]
        /\ wds' = [wds EXCEPT ![w] = d]
        /\ wcopy' = [wcopy EXCEPT ![w] = WithStatus(row[d], "extracting")]
     \/ /\ ~Exists(d) \/ ~upload[d]
        /\ wpc' = [wpc EXCEPT ![w] = "dead"]
        /\ wds' = [wds EXCEPT ![w] = d]
        /\ current' = d
        /\ UNCHANGED <<row, wcopy>>
  /\ UNCHANGED <<files, requests, history, faults>>

\* A record that is gone raises, a file that is gone is an error, a cancelled
\* dataset is left alone; otherwise the extraction starts in a thread.
Take(w) ==
  /\ wpc[w] = "idle" /\ queue # <<>>
  /\ queue' = Tail(queue)
  /\ LET d == Head(queue) IN
     \/ /\ Exists(d) /\ upload[d] /\ row[d].status # "cancelled"
        /\ Save(d, WithStatus(row[d], "extracting"))
        /\ current' = d
        /\ wpc' = [wpc EXCEPT ![w] = "extract"]
        /\ wds' = [wds EXCEPT ![w] = d]
        /\ wcopy' = [wcopy EXCEPT ![w] = WithStatus(row[d], "extracting")]
        /\ UNCHANGED faults
     \/ /\ \/ Exists(d) /\ ~upload[d] /\ Save(d, WithStatus(row[d], "error")) /\ UNCHANGED faults
           \/ ~Exists(d) /\ UNCHANGED <<row, faults>>
           \/ Exists(d) /\ upload[d] /\ row[d].status = "cancelled" /\ UNCHANGED <<row, faults>>
           \/ Fault /\ EnsureErrorStatus(d)
        /\ Finish(w)
  /\ UNCHANGED <<files, requests, history>>

\* The thread; only its own step, its copy and the files of its dataset change.
Thread(w, from, to) ==
  /\ wpc[w] \in from
  /\ wpc' = [wpc EXCEPT ![w] = to]
  /\ UNCHANGED <<row, upload, line, wds, requests, history, faults>>

Processed(w) == wcopy' = [wcopy EXCEPT ![w].processed = TRUE]

\* _extract_streaming writes <id>.parquet.partial ...
StartStreaming(w) ==
  /\ Thread(w, {"extract"}, "streaming")
  /\ partial' = [partial EXCEPT ![wds[w]] = TRUE]
  /\ UNCHANGED <<parquet, wcopy>>

\* Mutant: the rename is forgotten.
FinishStreamingInPlace(w) ==
  /\ Thread(w, {"streaming"}, "done")
  /\ Processed(w)
  /\ UNCHANGED <<partial, parquet>>

\* ... and renames it at the end.
FinishStreaming(w) ==
  /\ Thread(w, {"streaming"}, "done")
  /\ partial' = [partial EXCEPT ![wds[w]] = FALSE]
  /\ parquet' = [parquet EXCEPT ![wds[w]] = "good"]
  /\ Processed(w)

\* A subprocess that gives up on the full queue says "cancelled" and exits with 0:
\* the stream ends early, and what came before is renamed like the rest.
StreamCutShort(w) ==
  /\ Thread(w, {"streaming"}, "done")
  /\ partial' = [partial EXCEPT ![wds[w]] = FALSE]
  /\ parquet' = [parquet EXCEPT ![wds[w]] = "cut"]
  /\ Processed(w)

\* A large document without text, or a subprocess that gives up at once, yields no
\* block: nothing is written, the path is recorded all the same.
StreamNothing(w) ==
  /\ Thread(w, {"extract"}, "done")
  /\ parquet' = [parquet EXCEPT ![wds[w]] = "empty"]
  /\ Processed(w)
  /\ UNCHANGED partial

\* A failed stream removes its partial file; small files start again in memory.
StreamingFails(w) ==
  /\ \E to \in {"fallback", "failed"} : Thread(w, {"extract", "streaming"}, to)
  /\ partial' = [partial EXCEPT ![wds[w]] = FALSE]
  /\ UNCHANGED <<parquet, wcopy>>

\* In memory the Parquet file is written at its final place.
StartInMemory(w) ==
  /\ Thread(w, {"extract", "fallback"}, "inmemory")
  /\ parquet' = [parquet EXCEPT ![wds[w]] = "torn"]
  /\ UNCHANGED <<partial, wcopy>>

FinishInMemory(w) ==
  /\ Thread(w, {"inmemory"}, "done")
  /\ parquet' = [parquet EXCEPT ![wds[w]] = "good"]
  /\ Processed(w)
  /\ UNCHANGED partial

\* What a failed conversion leaves behind is the converter's business.
InMemoryFails(w) ==
  /\ Thread(w, {"inmemory"}, "failed")
  /\ \E left \in {"none", "torn"} : parquet' = [parquet EXCEPT ![wds[w]] = left]
  /\ Processed(w) \/ UNCHANGED wcopy
  /\ UNCHANGED partial

\* Mutant: nobody saves the error.
RecordWithoutError(w) ==
  /\ wpc[w] \in {"done", "failed"}
  /\ LET d == wds[w]
         outcome == IF Exists(d) /\ row[d].status = "cancelled" THEN "cancelled" ELSE "preview_ready"
     IN IF wpc[w] = "done" THEN Save(d, WithStatus(wcopy[w], outcome)) ELSE UNCHANGED row
  /\ Finish(w)
  /\ UNCHANGED <<files, queue, requests, history, faults>>

\* Mutant: a file that failed is queued again.
RecordRetries(w) ==
  /\ wpc[w] \in {"done", "failed"}
  /\ Save(wds[w], WithStatus(wcopy[w], IF wpc[w] = "failed" THEN "error" ELSE "preview_ready"))
  /\ queue' = IF wpc[w] = "failed" THEN Append(queue, wds[w]) ELSE queue
  /\ Finish(w)
  /\ UNCHANGED <<files, requests, history, faults>>

\* The end of process_file, on the copy read before the extraction.
Record(w) ==
  /\ wpc[w] \in {"done", "failed"}
  /\ LET d == wds[w]
         outcome == IF wpc[w] = "failed" THEN "error"
                    ELSE IF Exists(d) /\ row[d].status = "cancelled" THEN "cancelled"
                    ELSE "preview_ready"
     IN \/ Save(d, WithStatus(wcopy[w], outcome)) /\ UNCHANGED faults
        \/ Fault /\ EnsureErrorStatus(d)
  /\ Finish(w)
  /\ UNCHANGED <<files, queue, requests, history>>

-----------------------------------------------------------------------------
(* Requests on a dataset *)

\* create_disclosure_snapshot, whatever the status: saved as pending before the
\* request to the marketplace and again, the same copy, after it.
BeginSnapshot(r, d) ==
  /\ rpc[r] = "idle"
  /\ Exists(d)
  /\ LET copy == [row[d] EXCEPT !.listed = TRUE] IN
       /\ Save(d, copy)
       /\ Hold(r, d, copy, "snapshot") \/ UNCHANGED requests
  /\ UNCHANGED <<files, line, workers, history, faults>>

EndSnapshot(r) ==
  /\ rpc[r] = "snapshot"
  /\ \/ /\ Save(rds[r], rcopy[r])
        /\ setBack' = IF rcopy[r].status = "extracting" THEN setBack \cup {rds[r]} ELSE setBack
     \/ UNCHANGED <<row, setBack>>
  /\ EndRequest(r)
  /\ UNCHANGED <<files, line, workers, created, deleted, faults>>

\* generate_listing_metadata saves the record it read before the model answered.
BeginMetadata(r, d) ==
  /\ Exists(d) /\ row[d].status = "preview_ready"
  /\ Hold(r, d, row[d], "metadata")
  /\ UNCHANGED <<row, files, line, workers, history, faults>>

EndMetadata(r) ==
  /\ rpc[r] = "metadata"
  /\ Save(rds[r], rcopy[r]) \/ UNCHANGED row
  /\ EndRequest(r)
  /\ UNCHANGED <<files, line, workers, history, faults>>

\* publish_to_marketplace reads the row again after the request.
BeginPublish(r, d) ==
  /\ Exists(d) /\ row[d].status = "preview_ready"
  /\ Hold(r, d, row[d], "publish")
  /\ UNCHANGED <<row, files, line, workers, history, faults>>

\* Mutant: the listing is saved with the record read before the request.
EndPublishSavesCopy(r) ==
  /\ rpc[r] = "publish"
  /\ Save(rds[r], [rcopy[r] EXCEPT !.listed = TRUE])
  /\ EndRequest(r)
  /\ UNCHANGED <<files, line, workers, history, faults>>

EndPublish(r) ==
  /\ rpc[r] = "publish"
  /\ \/ Exists(rds[r]) /\ row' = [row EXCEPT ![rds[r]].listed = TRUE]
     \/ UNCHANGED row
  /\ EndRequest(r)
  /\ UNCHANGED <<files, line, workers, history, faults>>

ConfirmDataset(d) ==
  /\ Exists(d) /\ row[d].status = "preview_ready"
  /\ row' = [row EXCEPT ![d].confirmed = TRUE]
  /\ UNCHANGED <<files, line, workers, requests, history, faults>>

\* confirm_batch also stamps the rows still being processed.
ConfirmBatch ==
  /\ row' = [d \in Datasets |->
       IF d \in Batch /\ Exists(d) /\ row[d].status \in {"uploaded", "extracting", "preview_ready"}
       THEN [row[d] EXCEPT !.confirmed = TRUE] ELSE row[d]]
  /\ UNCHANGED <<files, line, workers, requests, history, faults>>

\* Marking it cancelled and removing it are one step for everyone else.
DeleteDataset(d) ==
  /\ Exists(d)
  /\ Discard(d)
  /\ UNCHANGED <<line, workers, requests, created, setBack, faults>>

\* The row stays, cancelled unless it was settled, with or without its files.
DeleteFails(d) ==
  /\ DiscardFails(d)
  /\ row' = IF row[d].status \in {"uploaded", "extracting", "preview_ready"}
            THEN [row EXCEPT ![d].status = "cancelled"] ELSE row
  /\ UNCHANGED <<line, workers, requests, created, setBack>>

\* The container stops and starts: the queue and every request are gone, and
\* nothing looks for what they left (recover_stuck_records is never called).
Restart ==
  /\ Fault
  /\ queue' = <<>> /\ current' = NoDataset
  /\ wpc' = [w \in Workers |-> "idle"]
  /\ wds' = [w \in Workers |-> NoDataset]
  /\ wcopy' = [w \in Workers |-> Fresh]
  /\ rpc' = [r \in Requests |-> "idle"]
  /\ rds' = [r \in Requests |-> NoDataset]
  /\ rcopy' = [r \in Requests |-> Fresh]
  /\ UNCHANGED <<row, files, history>>

-----------------------------------------------------------------------------
\* What the loop and a streamed extraction do.
LoopStep(w) ==
  \/ Take(w) \/ Record(w) \/ StartInMemory(w)
  \/ StartStreaming(w) \/ FinishStreaming(w) \/ StreamCutShort(w) \/ StreamNothing(w)
  \/ StreamingFails(w)

WorkerStep(w) == LoopStep(w) \/ FinishInMemory(w) \/ InMemoryFails(w)

RequestStep(r) ==
  \/ WriteUpload(r) \/ FinishUpload(r) \/ RejectUpload(r) \/ LeaveUpload(r)
  \/ EndSnapshot(r) \/ EndMetadata(r) \/ EndPublish(r)
  \/ \E d \in Datasets : BeginUpload(r, d)
  \/ \E d \in Sold : BeginSnapshot(r, d) \/ BeginMetadata(r, d) \/ BeginPublish(r, d)

Next ==
  \/ \E w \in Workers : WorkerStep(w)
  \/ \E r \in Requests : RequestStep(r)
  \/ \E d \in Sold : ConfirmDataset(d)
  \/ \E d \in Datasets : DeleteDataset(d) \/ DeleteFails(d)
  \/ ConfirmBatch \/ Restart

Spec == Init /\ [][Next]_vars

\* Every task of the loop runs when it can, and a stream ends: iter_data cancels
\* the subprocess after process_worker_timeout_s.  Nothing bounds a conversion in
\* memory (EXTRACT_TIMEOUT_S gives up on the DuckDB COPY, but leaving the
\* executor's with block waits for it): that it ends is not assumed.
FairSpec == Spec /\ \A w \in Workers : WF_vars(LoopStep(w))

-----------------------------------------------------------------------------
(* Properties *)

TypeOK ==
  /\ row \in [Datasets -> Row \cup {NoRow}]
  /\ upload \in [Datasets -> BOOLEAN] /\ partial \in [Datasets -> BOOLEAN]
  /\ parquet \in [Datasets -> {"none", "torn", "good", "cut", "empty"}]
  /\ queue \in Seq(Datasets) /\ current \in Datasets \cup {NoDataset}
  /\ wpc \in [Workers -> {"idle", "extract", "streaming", "fallback", "inmemory", "done", "failed"}]
  /\ wds \in [Workers -> Datasets \cup {NoDataset}]
  /\ wcopy \in [Workers -> Row]
  /\ rpc \in [Requests -> {"idle", "upload", "written", "snapshot", "metadata", "publish"}]
  /\ rds \in [Requests -> Datasets \cup {NoDataset}]
  /\ rcopy \in [Requests -> Row]
  /\ created \subseteq Datasets /\ deleted \subseteq created /\ setBack \subseteq created
  /\ faults \in 0 .. MaxFaults

\* A dataset that may be listed has a Parquet file that was closed and put in its
\* place, or whose stream gave nothing, whatever was saved over the row meanwhile:
\* never a torn or a missing one.  Excepted is a dataset of which a deletion removed
\* the row or the file: an older copy saved later brings preview_ready back.  The
\* file may be cut short, without a word, by a subprocess that gave up.
ReadyHasData == \A d \in Datasets \ deleted :
  Exists(d) /\ row[d].status = "preview_ready" => parquet[d] \in {"good", "cut", "empty"}

\* Without a fault a dataset says extracting only while a worker has it, or
\* because a disclosure snapshot saved an older copy of it.
ExtractingIsHeld == \A d \in Datasets :
  Exists(d) /\ row[d].status = "extracting" =>
    \/ \E w \in Workers : wds[w] = d
    \/ d \in setBack \/ faults > 0

\* A partial file belongs to the stream that writes it, except after a restart.
PartialIsOwned == \A d \in Datasets :
  partial[d] => faults > 0 \/ \E w \in Workers : wds[w] = d /\ wpc[w] = "streaming"

\* What get_position calls "processing now" is being processed, although all
\* workers write the same current item.
CurrentIsRunning == current # NoDataset => \E w \in Workers : wds[w] = current

\* The copies of a record that a later save will write back.
HasOldCopy(d) ==
  \/ \E w \in Workers : wds[w] = d /\ wpc[w] \in {"done", "failed"}
  \/ \E r \in Requests : rds[r] = d /\ rpc[r] \in {"written", "snapshot", "metadata"}

\* A deleted record returns, and a confirmation or listing id is lost, only by
\* a save of a copy that some worker or request has held since before.
UndoneOnlyByOldCopy == [][\A d \in created :
  \/ ~Exists(d) /\ Exists(d)'
  \/ Exists(d) /\ Exists(d)' /\ row[d].confirmed /\ ~row'[d].confirmed
  \/ Exists(d) /\ Exists(d)' /\ row[d].listed /\ ~row'[d].listed
  => HasOldCopy(d)]_vars

\* A failing, missing or deleted file never stops the queue: whatever is queued is
\* taken and finished by some worker, but for conversions in memory that do not
\* end, its own or those that hold all the workers.
Waiting(d) == d \in ToSet(queue) \/ \E w \in Workers : wds[w] = d
Converting(w) == wpc[w] = "inmemory"
QueuedIsFinished == \A d \in Datasets :
  Waiting(d) ~> \/ ~Waiting(d)
                \/ \E w \in Workers : wds[w] = d /\ Converting(w)
                \/ \A w \in Workers : Converting(w)

\* A deletion sets cancelled "so background tasks abort": a worker that has the
\* dataset when it is deleted does not bring it back.
DeletionAborts == [][\A w \in Workers, d \in deleted :
  wds[w] = d /\ ~Exists(d) => ~Exists(d)']_vars

\* A given id that is not uploaded, queued or extracted any more has had its turn.
Uploading(r) == rpc[r] \in {"upload", "written"}
WorkQueue == INSTANCE WorkQueue WITH
  Jobs    <- Datasets,
  NoJob   <- NoDataset,
  waiting <- queue,
  doing   <- wds,
  past    <- {d \in created : ~Waiting(d) /\ \A r \in Requests : Uploading(r) => rds[r] # d}

\* A file is queued once and taken in its turn by one worker, and never again, although
\* its record may come back from old copies and requests go on with it.
RefinesQueue == WorkQueue!QueueSpec
=============================================================================
