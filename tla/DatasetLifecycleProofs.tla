----------------------- MODULE DatasetLifecycleProofs -----------------------
(***************************************************************************)
(* Proofs about DatasetLifecycle for any number of datasets, workers,      *)
(* requests and faults.                                                    *)
(***************************************************************************)
EXTENDS DatasetLifecycle, TLAPS

USE ConstantsAssumption DEF ConstantsAssumption

\* An id that was not given out is nowhere.
Known == \A d \in Datasets \ created :
  /\ row[d] = NoRow
  /\ \A i \in 1 .. Len(queue) : queue[i] # d
  /\ \A w \in Workers : wds[w] # d
  /\ \A r \in Requests : rds[r] # d

IdleSound ==
  /\ \A w \in Workers : wpc[w] = "idle" <=> wds[w] = NoDataset
  /\ \A r \in Requests : rpc[r] = "idle" <=> rds[r] = NoDataset

\* A dataset is processed once: it is uploaded by one request, or queued once, or
\* with one worker.
OnePlace ==
  /\ \A r, s \in Requests : Uploading(r) /\ Uploading(s) /\ rds[r] = rds[s] => r = s
  /\ \A i, j \in 1 .. Len(queue) : queue[i] = queue[j] => i = j
  /\ \A v, w \in Workers : wds[v] = wds[w] /\ wds[v] # NoDataset => v = w
  /\ \A r \in Requests : Uploading(r) =>
       /\ \A i \in 1 .. Len(queue) : queue[i] # rds[r]
       /\ \A w \in Workers : wds[w] # rds[r]
  /\ \A w \in Workers, i \in 1 .. Len(queue) : wds[w] # queue[i]

\* The processing of d is over.
Free(d) ==
  /\ \A i \in 1 .. Len(queue) : queue[i] # d
  /\ \A w \in Workers : wds[w] # d
  /\ \A r \in Requests : Uploading(r) => rds[r] # d

HasData(d) == parquet[d] \in {"good", "cut", "empty"}

\* Whatever says preview_ready, the row or a copy of it that may be saved later,
\* says so of a dataset that has its file and whose processing is over.
CopiesSound ==
  /\ \A d \in Datasets \ deleted :
       row[d] # NoRow /\ row[d].status = "preview_ready" => Free(d) /\ HasData(d)
  /\ \A r \in Requests :
       rpc[r] # "idle" /\ rds[r] \notin deleted /\ rcopy[r].status = "preview_ready"
         => Free(rds[r]) /\ HasData(rds[r])
  /\ \A w \in Workers : wpc[w] = "done" /\ wds[w] \notin deleted => HasData(wds[w])

RequestsSound == \A r \in Requests :
  /\ Uploading(r) => rcopy[r].status = "uploaded"
  /\ rpc[r] \in {"metadata", "publish"} => rcopy[r].status = "preview_ready"

IInv ==
  /\ TypeOK
  /\ Known /\ IdleSound
  /\ OnePlace
  /\ CopiesSound
  /\ RequestsSound /\ ExtractingIsHeld
  /\ PartialIsOwned /\ CurrentIsRunning

USE DEF files, line, workers, requests, history, Exists

LEMMA InitHolds == Init => IInv
<1> SUFFICES ASSUME Init PROVE IInv
  OBVIOUS
<1>1. TypeOK
  BY DEF Init, TypeOK, Fresh, Row, Statuses
<1>2. Known /\ IdleSound /\ OnePlace /\ CopiesSound
  BY DEF Init, Known, IdleSound, OnePlace, CopiesSound, Uploading
<1>3. RequestsSound /\ ExtractingIsHeld /\ PartialIsOwned /\ CurrentIsRunning
  BY DEF Init, RequestsSound, ExtractingIsHeld, PartialIsOwned, CurrentIsRunning, Uploading
<1> QED  BY <1>1, <1>2, <1>3 DEF IInv

\* The changes a handler makes to a record leave it a record.
LEMMA Statused ==
  ASSUME NEW c \in Row, NEW s \in Statuses
  PROVE  WithStatus(c, s) \in Row /\ WithStatus(c, s).status = s
BY DEF Row, WithStatus

\* A row keeps its type and its other fields.
LEMMA RowChanges ==
  ASSUME NEW c \in Row
  PROVE  /\ \A s \in Statuses : WithStatus(c, s) \in Row /\ WithStatus(c, s).status = s
         /\ [c EXCEPT !.listed = TRUE] \in Row
         /\ [c EXCEPT !.confirmed = TRUE] \in Row
         /\ [c EXCEPT !.listed = TRUE].status = c.status
         /\ [c EXCEPT !.confirmed = TRUE].status = c.status
         /\ [c EXCEPT !.listed = TRUE].listed /\ [c EXCEPT !.listed = TRUE].confirmed = c.confirmed
BY DEF Row, WithStatus

LEMMA FreshIsRow == Fresh \in Row /\ Fresh.status = "uploaded"
BY DEF Fresh, Row, Statuses

\* A request that is under way has a dataset, a worker that works too.
LEMMA Held ==
  ASSUME TypeOK, IdleSound
  PROVE  /\ \A r \in Requests : rpc[r] # "idle" => rds[r] \in Datasets /\ rcopy[r] \in Row
         /\ \A w \in Workers : wpc[w] # "idle" => wds[w] \in Datasets /\ wcopy[w] \in Row
BY DEF TypeOK, IdleSound

\* Uploads and imports.
LEMMA BeginUploadKeeps ==
  ASSUME IInv, NEW r \in Requests, NEW d \in Datasets, BeginUpload(r, d)
  PROVE  IInv'
<1>1. TypeOK'
  BY DEF IInv, TypeOK, Row, Statuses, BeginUpload, Save, Hold, Fresh
<1>2. Known' /\ IdleSound'
  BY DEF IInv, TypeOK, Known, IdleSound, BeginUpload, Save, Hold, Fresh
<1>3. OnePlace'
  BY DEF IInv, TypeOK, Known, IdleSound, OnePlace, Uploading, BeginUpload, Save,
  Hold, Fresh
<1>4. CopiesSound'
  BY DEF IInv, TypeOK, Row, Known, IdleSound, OnePlace, CopiesSound,
  RequestsSound, Free, HasData, Uploading, BeginUpload, Save, Hold, Fresh
<1>5. RequestsSound' /\ ExtractingIsHeld'
  BY DEF IInv, TypeOK, Row, IdleSound, RequestsSound, ExtractingIsHeld,
  Uploading, BeginUpload, Save, Hold, Fresh
<1>6. PartialIsOwned' /\ CurrentIsRunning'
  BY DEF IInv, TypeOK, IdleSound, PartialIsOwned, CurrentIsRunning, BeginUpload,
  Save, Hold, Fresh
<1> QED  BY <1>1, <1>2, <1>3, <1>4, <1>5, <1>6 DEF IInv

LEMMA WriteUploadKeeps ==
  ASSUME IInv, NEW r \in Requests, WriteUpload(r)
  PROVE  IInv'
<1>1. TypeOK'
  BY DEF IInv, TypeOK, Row, Statuses, WriteUpload
<1>2. Known' /\ IdleSound'
  BY DEF IInv, TypeOK, Known, IdleSound, WriteUpload
<1>3. OnePlace'
  BY DEF IInv, TypeOK, Known, IdleSound, OnePlace, Uploading, WriteUpload
<1>4. CopiesSound'
  BY DEF IInv, TypeOK, Row, Known, IdleSound, OnePlace, CopiesSound,
  RequestsSound, Free, HasData, Uploading, WriteUpload
<1>5. RequestsSound' /\ ExtractingIsHeld'
  BY DEF IInv, TypeOK, Row, IdleSound, RequestsSound, ExtractingIsHeld,
  Uploading, WriteUpload
<1>6. PartialIsOwned' /\ CurrentIsRunning'
  BY DEF IInv, TypeOK, IdleSound, PartialIsOwned, CurrentIsRunning, WriteUpload
<1> QED  BY <1>1, <1>2, <1>3, <1>4, <1>5, <1>6 DEF IInv

LEMMA FinishUploadKeeps ==
  ASSUME IInv, NEW r \in Requests, FinishUpload(r)
  PROVE  IInv'
<1>1. TypeOK'
  <2>1. rds[r] \in Datasets /\ rcopy[r] \in Row
    BY Held DEF IInv, FinishUpload
  <2>2. row' \in [Datasets -> Row \cup {NoRow}]
    BY <2>1 DEF IInv, TypeOK, FinishUpload, Save
  <2> QED  BY <2>1, <2>2, FreshIsRow DEF IInv, TypeOK, FinishUpload, Submit, EndRequest
<1>2. Known' /\ IdleSound'
  BY DEF IInv, TypeOK, Known, IdleSound, FinishUpload, Save, Submit, EndRequest,
  Fresh
<1>3. OnePlace'
  BY DEF IInv, TypeOK, Known, IdleSound, OnePlace, Uploading, FinishUpload,
  Save, Submit, EndRequest, Fresh
<1>4. CopiesSound'
  BY DEF IInv, TypeOK, Row, Known, IdleSound, OnePlace, CopiesSound,
  RequestsSound, Free, HasData, Uploading, FinishUpload, Save, Submit,
  EndRequest, Fresh
<1>5. RequestsSound' /\ ExtractingIsHeld'
  BY DEF IInv, TypeOK, Row, IdleSound, RequestsSound, ExtractingIsHeld,
  Uploading, FinishUpload, Save, Submit, EndRequest, Fresh
<1>6. PartialIsOwned' /\ CurrentIsRunning'
  BY DEF IInv, TypeOK, IdleSound, PartialIsOwned, CurrentIsRunning,
  FinishUpload, Save, Submit, EndRequest, Fresh
<1> QED  BY <1>1, <1>2, <1>3, <1>4, <1>5, <1>6 DEF IInv

\* A deletion that fails takes a Parquet file only from a dataset it then counts as
\* deleted, and costs a fault.
LEMMA FailedDiscard ==
  ASSUME IInv, NEW d \in Datasets, DiscardFails(d)
  PROVE  /\ row[d] \in Row /\ d \in created
         /\ upload' \in [Datasets -> BOOLEAN] /\ partial' = partial
         /\ parquet' \in [Datasets -> {"none", "torn", "good", "cut", "empty"}]
         /\ deleted \subseteq deleted' /\ deleted' \subseteq created
         /\ \A e \in Datasets \ deleted' : parquet'[e] = parquet[e]
         /\ faults' \in 0 .. MaxFaults /\ faults' > 0
<1>1. row[d] \in Row /\ d \in created /\ deleted \subseteq created
  BY DEF IInv, TypeOK, Known, DiscardFails
<1>2. faults' \in 0 .. MaxFaults /\ faults' > 0
  BY DEF IInv, TypeOK, DiscardFails, Fault
<1>3. upload' = upload \/ upload' = [upload EXCEPT ![d] = FALSE]
  BY DEF DiscardFails
<1>4. upload' \in [Datasets -> BOOLEAN] /\ partial' = partial
  BY <1>3 DEF IInv, TypeOK, DiscardFails
<1>5. CASE UNCHANGED <<parquet, deleted>>
  BY <1>1, <1>2, <1>4, <1>5 DEF IInv, TypeOK
<1>6. CASE /\ parquet' = [parquet EXCEPT ![d] = IF row[d].processed THEN "none" ELSE @]
           /\ deleted' = IF row[d].processed THEN deleted \cup {d} ELSE deleted
  <2>1. parquet' \in [Datasets -> {"none", "torn", "good", "cut", "empty"}]
    BY <1>6 DEF IInv, TypeOK
  <2>2. \A e \in Datasets \ deleted' : parquet'[e] = parquet[e]
    BY <1>6 DEF IInv, TypeOK
  <2> QED  BY <1>1, <1>2, <1>4, <1>6, <2>1, <2>2
<1> QED  BY <1>5, <1>6 DEF DiscardFails

LEMMA RejectUploadKeeps ==
  ASSUME IInv, NEW r \in Requests, RejectUpload(r)
  PROVE  IInv'
<1>0. rds[r] \in Datasets /\ rds[r] \in created
  BY Held DEF IInv, Known, RejectUpload
<1>a. /\ EndRequest(r) /\ rpc[r] \in {"upload", "written"}
      /\ UNCHANGED <<line, workers, created, setBack>>
  BY DEF RejectUpload
<1>b. /\ row' \in [Datasets -> Row \cup {NoRow}]
      /\ \A e \in Datasets : row'[e] = row[e] \/ row'[e] = NoRow
      /\ upload' \in [Datasets -> BOOLEAN] /\ partial' = partial
      /\ parquet' \in [Datasets -> {"none", "torn", "good", "cut", "empty"}]
      /\ deleted \subseteq deleted' /\ deleted' \subseteq created
      /\ \A e \in Datasets \ deleted' : parquet'[e] = parquet[e]
      /\ faults' \in 0 .. MaxFaults /\ (faults > 0 => faults' > 0)
  <2>1. CASE Discard(rds[r]) /\ UNCHANGED faults
    <3>1. /\ row' \in [Datasets -> Row \cup {NoRow}]
          /\ \A e \in Datasets : row'[e] = row[e] \/ row'[e] = NoRow
          /\ upload' \in [Datasets -> BOOLEAN] /\ partial' = partial
      BY <1>0, <2>1 DEF IInv, TypeOK, Discard
    <3>2. /\ parquet' \in [Datasets -> {"none", "torn", "good", "cut", "empty"}]
          /\ deleted \subseteq deleted' /\ deleted' \subseteq created
          /\ \A e \in Datasets \ deleted' : parquet'[e] = parquet[e]
      BY <1>0, <2>1 DEF IInv, TypeOK, Discard
    <3> QED  BY <2>1, <3>1, <3>2 DEF IInv, TypeOK
  <2>2. CASE UNCHANGED <<row, files, deleted, faults>>
    BY <2>2 DEF IInv, TypeOK
  <2>3. CASE DiscardFails(rds[r]) /\ UNCHANGED row
    BY <1>0, <2>3, FailedDiscard DEF IInv, TypeOK
  <2> QED  BY <2>1, <2>2, <2>3 DEF RejectUpload
<1>1. TypeOK'
  BY <1>0, <1>a, <1>b, FreshIsRow DEF IInv, TypeOK, EndRequest
<1>2. Known' /\ IdleSound'
  BY <1>a, <1>b DEF IInv, TypeOK, Known, IdleSound, EndRequest
<1>3. OnePlace'
  BY <1>a DEF IInv, TypeOK, IdleSound, OnePlace, Uploading, EndRequest
<1>4. CopiesSound'
  <2>1. \A e \in Datasets : Free(e) => Free(e)'
    BY <1>a DEF IInv, TypeOK, Free, Uploading, EndRequest
  <2>2. \A q \in Requests : rpc'[q] # "idle" =>
          rpc[q] # "idle" /\ rds'[q] = rds[q] /\ rds[q] \in Datasets /\ rcopy'[q] = rcopy[q]
    BY <1>a, Held DEF IInv, TypeOK, EndRequest
  <2>3. \A v \in Workers : wpc[v] = "done" => wds[v] \in Datasets
    BY Held DEF IInv
  <2>4. \A e \in Datasets \ deleted' : e \notin deleted /\ (HasData(e) => HasData(e)')
    BY <1>b DEF HasData
  <2> QED  BY <1>a, <1>b, <2>1, <2>2, <2>3, <2>4 DEF IInv, CopiesSound
<1>5. RequestsSound' /\ ExtractingIsHeld'
  BY <1>a, <1>b DEF IInv, TypeOK, RequestsSound, ExtractingIsHeld, Uploading, EndRequest
<1>6. PartialIsOwned' /\ CurrentIsRunning'
  BY <1>a, <1>b DEF IInv, TypeOK, PartialIsOwned, CurrentIsRunning
<1> QED  BY <1>1, <1>2, <1>3, <1>4, <1>5, <1>6 DEF IInv

LEMMA LeaveUploadKeeps ==
  ASSUME IInv, NEW r \in Requests, LeaveUpload(r)
  PROVE  IInv'
<1>1. TypeOK'
  BY DEF IInv, TypeOK, Row, Statuses, LeaveUpload, EndRequest, Fresh
<1>2. Known' /\ IdleSound'
  BY DEF IInv, TypeOK, Known, IdleSound, LeaveUpload, EndRequest, Fresh
<1>3. OnePlace'
  BY DEF IInv, TypeOK, Known, IdleSound, OnePlace, Uploading, LeaveUpload,
  EndRequest, Fresh
<1>4. CopiesSound'
  BY DEF IInv, TypeOK, Row, Known, IdleSound, OnePlace, CopiesSound,
  RequestsSound, Free, HasData, Uploading, LeaveUpload, EndRequest, Fresh
<1>5. RequestsSound' /\ ExtractingIsHeld'
  BY DEF IInv, TypeOK, Row, IdleSound, RequestsSound, ExtractingIsHeld,
  Uploading, LeaveUpload, EndRequest, Fresh
<1>6. PartialIsOwned' /\ CurrentIsRunning'
  BY DEF IInv, TypeOK, IdleSound, PartialIsOwned, CurrentIsRunning, LeaveUpload,
  EndRequest, Fresh
<1> QED  BY <1>1, <1>2, <1>3, <1>4, <1>5, <1>6 DEF IInv

\* The workers.
LEMMA TakeStarts ==
  ASSUME IInv, NEW w \in Workers, NEW d \in Datasets, wpc[w] = "idle",
         queue' \in Seq(Datasets), Len(queue) \in Nat,
         \A i \in 1 .. Len(queue') : i + 1 \in 2 .. Len(queue) /\ queue'[i] = queue[i + 1],
         1 \in 1 .. Len(queue), d = queue[1],
         Exists(d), row' = [row EXCEPT ![d] = WithStatus(row[d], "extracting")],
         current' = d, wpc' = [wpc EXCEPT ![w] = "extract"], wds' = [wds EXCEPT ![w] = d],
         wcopy' = [wcopy EXCEPT ![w] = WithStatus(row[d], "extracting")],
         UNCHANGED <<files, requests, history, faults>>
  PROVE  IInv'
<1>1. d \in created /\ \A v \in Workers : wds[v] # d
  BY DEF IInv, Known, OnePlace
<1>0. \A i \in 1 .. Len(queue') : i + 1 \in 1 .. Len(queue) /\ i + 1 # 1 /\ queue'[i] = queue[i + 1]
  OBVIOUS
<1>2. \A i \in 1 .. Len(queue') : queue'[i] # d
  BY <1>0 DEF IInv, OnePlace
<1>3. /\ WithStatus(row[d], "extracting") \in Row
      /\ WithStatus(row[d], "extracting").status = "extracting"
  <2>1. row[d] \in Row
    BY DEF IInv, TypeOK
  <2>2. "extracting" \in Statuses
    BY DEF Statuses
  <2> QED  BY ONLY <2>1, <2>2, Statused
<1>4. \A r \in Requests : Uploading(r) => rds[r] # d
  BY DEF IInv, OnePlace
<1>5. TypeOK'
  BY <1>3 DEF IInv, TypeOK
<1>6. Known' /\ IdleSound'
  <2>1. \A e \in Datasets \ created : \A i \in 1 .. Len(queue') : queue'[i] # e
    BY <1>0 DEF IInv, Known
  <2> QED  BY <1>1, <2>1 DEF IInv, TypeOK, Known, IdleSound
<1>7. OnePlace'
  <2>1. \A i, j \in 1 .. Len(queue') : queue'[i] = queue'[j] => i = j
    <3> SUFFICES ASSUME NEW i \in 1 .. Len(queue'), NEW j \in 1 .. Len(queue'),
                        queue'[i] = queue'[j]
                 PROVE  i = j
      OBVIOUS
    <3>1. i + 1 = j + 1
      BY <1>0 DEF IInv, OnePlace
    <3> QED  BY <3>1
  <2>2. \A u, v \in Workers : wds'[u] = wds'[v] /\ wds'[u] # NoDataset => u = v
    BY <1>1 DEF IInv, TypeOK, OnePlace
  <2>3. \A r \in Requests : Uploading(r)' =>
          /\ \A i \in 1 .. Len(queue') : queue'[i] # rds'[r]
          /\ \A v \in Workers : wds'[v] # rds'[r]
    <3> SUFFICES ASSUME NEW r \in Requests, Uploading(r)
                 PROVE  /\ \A i \in 1 .. Len(queue') : queue'[i] # rds[r]
                        /\ \A v \in Workers : wds'[v] # rds[r]
      BY DEF Uploading
    <3>1. \A i \in 1 .. Len(queue) : queue[i] # rds[r]
      BY DEF IInv, OnePlace
    <3>2. \A v \in Workers : wds[v] # rds[r]
      BY DEF IInv, OnePlace
    <3> QED  BY <1>0, <3>1, <3>2 DEF IInv, TypeOK
  <2>4. \A v \in Workers, i \in 1 .. Len(queue') : wds'[v] # queue'[i]
    BY <1>0, <1>2 DEF IInv, TypeOK, OnePlace
  <2> QED  BY <2>1, <2>2, <2>3, <2>4 DEF IInv, OnePlace, Uploading
<1>8. CopiesSound'
  <2>1. \A e \in Datasets : Free(e) => e # d /\ Free(e)'
    BY DEF IInv, TypeOK, Free, Uploading
  <2>2. \A e \in Datasets : e # d => row'[e] = row[e]
    BY DEF IInv, TypeOK
  <2>3. row'[d].status = "extracting"
    BY <1>3 DEF IInv, TypeOK
  <2>4. \A v \in Workers : wpc'[v] = "done" => wpc[v] = "done" /\ wds'[v] = wds[v]
    BY DEF IInv, TypeOK
  <2>5. \A r \in Requests : rpc[r] # "idle" => rds[r] \in Datasets
    BY Held DEF IInv
  <2> QED  BY <2>1, <2>2, <2>3, <2>4, <2>5 DEF IInv, CopiesSound, HasData
<1>9. RequestsSound' /\ ExtractingIsHeld'
  <2>1. \A e \in Datasets, v \in Workers : wds[v] = e => wds'[v] = e
    BY DEF IInv, TypeOK, IdleSound
  <2>2. wds'[w] = d /\ \A e \in Datasets : e # d => row'[e] = row[e]
    BY DEF IInv, TypeOK
  <2> QED  BY <2>1, <2>2 DEF IInv, RequestsSound, ExtractingIsHeld, Uploading
<1>10. PartialIsOwned' /\ CurrentIsRunning'
  BY DEF IInv, TypeOK, IdleSound, PartialIsOwned, CurrentIsRunning
<1> QED  BY <1>5, <1>6, <1>7, <1>8, <1>9, <1>10 DEF IInv

LEMMA TakeSkips ==
  ASSUME IInv, NEW w \in Workers, NEW d \in Datasets, wpc[w] = "idle",
         queue' \in Seq(Datasets), Len(queue) \in Nat,
         \A i \in 1 .. Len(queue') : i + 1 \in 2 .. Len(queue) /\ queue'[i] = queue[i + 1],
         d \in created,
         \/ UNCHANGED row
         \/ Exists(d) /\ row' = [row EXCEPT ![d] = WithStatus(row[d], "error")],
         faults' \in 0 .. MaxFaults, faults' >= faults,
         Finish(w),
         UNCHANGED <<files, requests, history>>
  PROVE  IInv'
<1>1. Exists(d) => /\ WithStatus(row[d], "error") \in Row
                   /\ WithStatus(row[d], "error").status = "error"
  <2>1. Exists(d) => row[d] \in Row
    BY DEF IInv, TypeOK
  <2>2. "error" \in Statuses
    BY DEF Statuses
  <2> QED  BY ONLY <2>1, <2>2, Statused
<1>2. wds' = wds /\ wpc' = wpc
  BY DEF IInv, TypeOK, IdleSound, Finish
<1>3. /\ row' \in [Datasets -> Row \cup {NoRow}]
      /\ \A e \in Datasets : row'[e] = row[e] \/ (row[e] # NoRow /\ row'[e].status = "error")
  <2>1. row \in [Datasets -> Row \cup {NoRow}]
    BY DEF IInv, TypeOK
  <2>2. CASE UNCHANGED row
    BY <2>1, <2>2
  <2>3. CASE Exists(d) /\ row' = [row EXCEPT ![d] = WithStatus(row[d], "error")]
    <3>1. row' \in [Datasets -> Row \cup {NoRow}]
      BY <1>1, <2>1, <2>3
    <3>2. \A e \in Datasets : row'[e] = IF e = d THEN WithStatus(row[d], "error") ELSE row[e]
      BY <2>1, <2>3
    <3> QED  BY <1>1, <2>3, <3>1, <3>2
  <2> QED  BY <2>2, <2>3
<1>4. TypeOK'
  BY <1>2, <1>3, FreshIsRow DEF IInv, TypeOK, Finish
<1>5. Known' /\ IdleSound'
  <2>1. \A e \in Datasets \ created : \A i \in 1 .. Len(queue') : queue'[i] # e
    BY DEF IInv, Known
  <2>2. \A e \in Datasets \ created : row'[e] = row[e]
    BY <1>3 DEF IInv, Known
  <2> QED  BY <1>2, <2>1, <2>2 DEF IInv, Known, IdleSound
<1>6. OnePlace'
  BY <1>2 DEF IInv, OnePlace, Uploading
<1>7. CopiesSound'
  <2>1. \A e \in Datasets : Free(e) => Free(e)'
    BY <1>2 DEF Free, Uploading
  <2>2. \A r \in Requests : rpc[r] # "idle" => rds[r] \in Datasets
    BY Held DEF IInv
  <2> QED  BY <1>2, <1>3, <2>1, <2>2 DEF IInv, CopiesSound, HasData
<1>8. RequestsSound' /\ ExtractingIsHeld'
  <2>1. RequestsSound'
    BY <1>2 DEF IInv, RequestsSound, Uploading
  <2>2. ExtractingIsHeld'
    <3>1. faults > 0 => faults' > 0
      BY DEF IInv, TypeOK
    <3>2. \A e \in Datasets : row'[e] # NoRow /\ row'[e].status = "extracting" =>
            row'[e] = row[e]
      BY <1>3
    <3> QED  BY <1>2, <3>1, <3>2 DEF IInv, ExtractingIsHeld
  <2> QED  BY <2>1, <2>2
<1>9. PartialIsOwned' /\ CurrentIsRunning'
  BY <1>2 DEF IInv, TypeOK, PartialIsOwned, CurrentIsRunning, Finish
<1> QED  BY <1>4, <1>5, <1>6, <1>7, <1>8, <1>9 DEF IInv

LEMMA TakeKeeps ==
  ASSUME IInv, NEW w \in Workers, Take(w)
  PROVE  IInv'
<1> DEFINE d == Head(queue)
<1>1. /\ queue' \in Seq(Datasets) /\ d \in Datasets /\ Len(queue) \in Nat
      /\ \A i \in 1 .. Len(queue') : i + 1 \in 2 .. Len(queue) /\ queue'[i] = queue[i + 1]
      /\ 1 \in 1 .. Len(queue) /\ d = queue[1] /\ wpc[w] = "idle"
      /\ UNCHANGED <<files, requests, history>>
  BY DEF IInv, TypeOK, Take
<1>2. d \in created
  BY <1>1 DEF IInv, Known
<1>3. \/ /\ Exists(d) /\ row' = [row EXCEPT ![d] = WithStatus(row[d], "extracting")]
         /\ current' = d /\ wpc' = [wpc EXCEPT ![w] = "extract"] /\ wds' = [wds EXCEPT ![w] = d]
         /\ wcopy' = [wcopy EXCEPT ![w] = WithStatus(row[d], "extracting")]
         /\ UNCHANGED faults
      \/ /\ \/ UNCHANGED row
            \/ Exists(d) /\ row' = [row EXCEPT ![d] = WithStatus(row[d], "error")]
         /\ UNCHANGED faults \/ Fault
         /\ Finish(w)
  BY DEF Take, Save, EnsureErrorStatus
<1> HIDE DEF d
<1>4. CASE /\ Exists(d) /\ row' = [row EXCEPT ![d] = WithStatus(row[d], "extracting")]
           /\ current' = d /\ wpc' = [wpc EXCEPT ![w] = "extract"] /\ wds' = [wds EXCEPT ![w] = d]
           /\ wcopy' = [wcopy EXCEPT ![w] = WithStatus(row[d], "extracting")]
           /\ UNCHANGED faults
  BY <1>1, <1>4, TakeStarts
<1>5. CASE /\ \/ UNCHANGED row
              \/ Exists(d) /\ row' = [row EXCEPT ![d] = WithStatus(row[d], "error")]
           /\ UNCHANGED faults \/ Fault
           /\ Finish(w)
  <2>1. faults' \in 0 .. MaxFaults /\ faults' >= faults
    BY <1>5 DEF IInv, TypeOK, Fault
  <2> QED  BY <1>1, <1>2, <1>5, <2>1, TakeSkips
<1> QED  BY <1>3, <1>4, <1>5

\* What the steps of an extraction have in common: they change only their own
\* worker and the files of its dataset, end in "done" only with a file, and
\* leave a partial file only where a stream goes on or a restart left one.
ThreadStep(w) ==
  \/ StartStreaming(w) \/ FinishStreaming(w) \/ StreamCutShort(w)
  \/ StreamNothing(w) \/ StreamingFails(w)
  \/ StartInMemory(w) \/ FinishInMemory(w) \/ InMemoryFails(w)

LEMMA ProcessedIsARow ==
  ASSUME wcopy \in [Workers -> Row], NEW w \in Workers, Processed(w)
  PROVE  wcopy' \in [Workers -> Row]
<1> DEFINE r == [wcopy[w] EXCEPT !.processed = TRUE]
<1>1. wcopy[w] \in Row
  OBVIOUS
<1>2. r \in Row
  BY <1>1 DEF Row
<1>3. wcopy' = [wcopy EXCEPT ![w] = r]
  BY DEF Processed
<1> HIDE DEF r
<1> QED  BY <1>2, <1>3

LEMMA ThreadFacts ==
  ASSUME TypeOK, NEW w \in Workers, wds[w] \in Datasets, ThreadStep(w)
  PROVE  /\ wpc[w] \in {"extract", "streaming", "fallback", "inmemory"}
         /\ wpc'[w] \in {"streaming", "fallback", "inmemory", "done", "failed"}
         /\ wpc' = [wpc EXCEPT ![w] = wpc'[w]]
         /\ UNCHANGED <<row, upload, queue, current, wds, rpc, rds, rcopy>>
         /\ UNCHANGED <<created, deleted, setBack, faults>>
         /\ wcopy' \in [Workers -> Row]
         /\ parquet' \in [Datasets -> {"none", "torn", "good", "cut", "empty"}]
         /\ \A d \in Datasets : d # wds[w] => parquet'[d] = parquet[d] /\ partial'[d] = partial[d]
         /\ wpc'[w] = "done" => parquet'[wds[w]] \in {"good", "cut", "empty"}
         /\ partial' \in [Datasets -> BOOLEAN]
         /\ partial'[wds[w]] => wpc'[w] = "streaming" \/ (partial[wds[w]] /\ wpc[w] # "streaming")
<1>0. wcopy' \in [Workers -> Row]
  <2>1. wcopy' = wcopy \/ Processed(w)
    BY DEF ThreadStep, StartStreaming, FinishStreaming, StreamCutShort, StreamNothing, StreamingFails,
       StartInMemory, FinishInMemory, InMemoryFails
  <2> QED  BY <2>1, ProcessedIsARow DEF TypeOK
<1> USE <1>0 DEF TypeOK, Thread
<1>1. CASE StartStreaming(w)
  BY <1>1 DEF StartStreaming
<1>2. CASE FinishStreaming(w)
  BY <1>2 DEF FinishStreaming
<1>3. CASE StreamNothing(w)
  BY <1>3 DEF StreamNothing
<1>4. CASE StreamingFails(w)
  BY <1>4 DEF StreamingFails
<1>5. CASE StartInMemory(w)
  BY <1>5 DEF StartInMemory
<1>6. CASE FinishInMemory(w)
  BY <1>6 DEF FinishInMemory
<1>8. CASE StreamCutShort(w)
  BY <1>8 DEF StreamCutShort
<1>7. CASE InMemoryFails(w)
  <2>1. PICK left \in {"none", "torn"} : parquet' = [parquet EXCEPT ![wds[w]] = left]
    BY <1>7 DEF InMemoryFails
  <2> QED  BY <1>7, <2>1 DEF InMemoryFails
<1> QED  BY <1>1, <1>2, <1>3, <1>4, <1>5, <1>6, <1>7, <1>8 DEF ThreadStep

LEMMA ThreadKeeps ==
  ASSUME IInv, NEW w \in Workers, ThreadStep(w)
  PROVE  IInv'
<1>0. wds[w] \in Datasets
  <2>1. wpc[w] # "idle"
    BY DEF IInv, TypeOK, ThreadStep, Thread, StartStreaming, FinishStreaming, StreamCutShort, StreamNothing,
       StreamingFails, StartInMemory, FinishInMemory, InMemoryFails
  <2> QED  BY <2>1 DEF IInv, TypeOK, IdleSound
<1>a. /\ wpc[w] \in {"extract", "streaming", "fallback", "inmemory"}
      /\ wpc'[w] \in {"streaming", "fallback", "inmemory", "done", "failed"}
      /\ wpc' = [wpc EXCEPT ![w] = wpc'[w]]
      /\ UNCHANGED <<row, upload, queue, current, wds, rpc, rds, rcopy>>
      /\ UNCHANGED <<created, deleted, setBack, faults>>
      /\ wcopy' \in [Workers -> Row]
  BY <1>0, ThreadFacts DEF IInv
<1>b. /\ parquet' \in [Datasets -> {"none", "torn", "good", "cut", "empty"}]
      /\ \A d \in Datasets : d # wds[w] => parquet'[d] = parquet[d] /\ partial'[d] = partial[d]
      /\ wpc'[w] = "done" => parquet'[wds[w]] \in {"good", "cut", "empty"}
      /\ partial' \in [Datasets -> BOOLEAN]
      /\ partial'[wds[w]] => wpc'[w] = "streaming" \/ (partial[wds[w]] /\ wpc[w] # "streaming")
  BY <1>0, ThreadFacts DEF IInv
<1>1. TypeOK'
  BY <1>a, <1>b DEF IInv, TypeOK
<1>2. Known' /\ IdleSound'
  BY <1>a DEF IInv, TypeOK, Known, IdleSound
<1>3. OnePlace'
  BY <1>a DEF IInv, OnePlace, Uploading
<1>4. CopiesSound'
  <2>1. \A d \in Datasets : Free(d) => d # wds[w] /\ Free(d)'
    BY <1>a DEF Free, Uploading
  <2>2. \A v \in Workers : wpc'[v] = "done" /\ v # w => wpc[v] = "done" /\ wds[v] # wds[w] /\ wds[v] \in Datasets
    BY <1>0, <1>a, Held DEF IInv, TypeOK, OnePlace
  <2>3. \A r \in Requests : rpc[r] # "idle" => rds[r] \in Datasets
    BY Held DEF IInv
  <2> QED  BY <1>0, <1>a, <1>b, <2>1, <2>2, <2>3 DEF IInv, CopiesSound, HasData
<1>5. RequestsSound' /\ ExtractingIsHeld'
  BY <1>a DEF IInv, RequestsSound, ExtractingIsHeld, Uploading
<1>6. PartialIsOwned' /\ CurrentIsRunning'
  BY <1>0, <1>a, <1>b DEF IInv, TypeOK, OnePlace, PartialIsOwned, CurrentIsRunning
<1> QED  BY <1>1, <1>2, <1>3, <1>4, <1>5, <1>6 DEF IInv

LEMMA RecordKeeps ==
  ASSUME IInv, NEW w \in Workers, Record(w)
  PROVE  IInv'
<1>1. TypeOK'
  <2>1. wds[w] \in Datasets /\ wcopy[w] \in Row
    BY Held DEF IInv, Record
  <2>2. \A s \in Statuses : WithStatus(wcopy[w], s) \in Row
    BY <2>1, RowChanges
  <2>3. Exists(wds[w]) => \A s \in Statuses : WithStatus(row[wds[w]], s) \in Row
    <3>1. Exists(wds[w]) => row[wds[w]] \in Row
      BY <2>1 DEF IInv, TypeOK
    <3> QED  BY <3>1, RowChanges
  <2>4. row' \in [Datasets -> Row \cup {NoRow}]
    <3>1. CASE EnsureErrorStatus(wds[w])
      BY <2>1, <2>3, <3>1 DEF IInv, TypeOK, EnsureErrorStatus, Save, Statuses
    <3>2. ASSUME NEW s \in Statuses, Save(wds[w], WithStatus(wcopy[w], s))
          PROVE  row' \in [Datasets -> Row \cup {NoRow}]
      BY <2>1, <2>2, <3>2 DEF IInv, TypeOK, Save
    <3> QED  BY <3>1, <3>2 DEF Record, Statuses
  <2>5. faults' \in 0 .. MaxFaults
    BY DEF IInv, TypeOK, Record, Fault
  <2> QED  BY <2>4, <2>5, FreshIsRow DEF IInv, TypeOK, Record, Finish
<1>2. Known' /\ IdleSound'
  BY DEF IInv, TypeOK, Known, IdleSound, Record, Save, WithStatus, Fault,
  EnsureErrorStatus, Finish, Fresh
<1>3. OnePlace'
  BY DEF IInv, TypeOK, Known, IdleSound, OnePlace, Uploading, Record, Save,
  WithStatus, Fault, EnsureErrorStatus, Finish, Fresh
<1>4. CopiesSound'
  BY DEF IInv, TypeOK, Row, Known, IdleSound, OnePlace, CopiesSound,
  RequestsSound, Free, HasData, Uploading, Record, Save, WithStatus, Fault,
  EnsureErrorStatus, Finish, Fresh
<1>5. RequestsSound' /\ ExtractingIsHeld'
  BY DEF IInv, TypeOK, Row, IdleSound, RequestsSound, ExtractingIsHeld,
  Uploading, Record, Save, WithStatus, Fault, EnsureErrorStatus, Finish, Fresh
<1>6. PartialIsOwned' /\ CurrentIsRunning'
  BY DEF IInv, TypeOK, IdleSound, PartialIsOwned, CurrentIsRunning, Record,
  Save, WithStatus, Fault, EnsureErrorStatus, Finish, Fresh
<1> QED  BY <1>1, <1>2, <1>3, <1>4, <1>5, <1>6 DEF IInv

\* Requests on a dataset.
LEMMA BeginSnapshotKeeps ==
  ASSUME IInv, NEW r \in Requests, NEW d \in Datasets, BeginSnapshot(r, d)
  PROVE  IInv'
<1>1. TypeOK'
  <2>1. row[d] \in Row
    BY DEF IInv, TypeOK, BeginSnapshot
  <2>2. [row[d] EXCEPT !.listed = TRUE] \in Row
    BY <2>1, RowChanges
  <2>3. row' \in [Datasets -> Row \cup {NoRow}]
    BY <2>2 DEF IInv, TypeOK, BeginSnapshot, Save
  <2>4. /\ rpc' \in [Requests -> {"idle", "upload", "written", "snapshot", "metadata", "publish"}]
        /\ rds' \in [Requests -> Datasets \cup {NoDataset}] /\ rcopy' \in [Requests -> Row]
    <3>1. CASE UNCHANGED requests
      BY <3>1 DEF IInv, TypeOK
    <3>2. CASE Hold(r, d, [row[d] EXCEPT !.listed = TRUE], "snapshot")
      BY <2>2, <3>2 DEF IInv, TypeOK, Hold
    <3> QED  BY <3>1, <3>2 DEF BeginSnapshot
  <2> QED  BY <2>3, <2>4 DEF IInv, TypeOK, BeginSnapshot
<1>2. Known' /\ IdleSound'
  BY DEF IInv, TypeOK, Known, IdleSound, BeginSnapshot, Save, Hold
<1>3. OnePlace'
  BY DEF IInv, TypeOK, Known, IdleSound, OnePlace, Uploading, BeginSnapshot,
  Save, Hold
<1>4. CopiesSound'
  <2> DEFINE copy == [row[d] EXCEPT !.listed = TRUE]
  <2>1. row[d] \in Row
    BY DEF IInv, TypeOK, BeginSnapshot
  <2>2. copy \in Row /\ copy.status = row[d].status
    BY <2>1, RowChanges
  <2>3. /\ Save(d, copy) /\ (Hold(r, d, copy, "snapshot") \/ UNCHANGED requests)
        /\ row[d] # NoRow /\ rpc[r] = "idle" /\ UNCHANGED <<files, line, workers, history, faults>>
    BY DEF BeginSnapshot
  <2> HIDE DEF copy
  <2>4. \A e \in Datasets : row'[e] # NoRow => row[e] # NoRow /\ row'[e].status = row[e].status
    BY <2>2, <2>3 DEF IInv, TypeOK, Save
  <2>5. \A e \in Datasets : Free(e) => Free(e)'
    BY <2>3 DEF IInv, TypeOK, Hold, Free, Uploading
  <2>6. \A s \in Requests : rpc'[s] # "idle" =>
          \/ rpc[s] # "idle" /\ rds'[s] = rds[s] /\ rcopy'[s] = rcopy[s]
          \/ rds'[s] = d /\ rcopy'[s].status = row[d].status
    BY <2>2, <2>3 DEF IInv, TypeOK, Hold
  <2>7. \A s \in Requests : rpc'[s] # "idle" => rds'[s] \in Datasets
    BY <2>6, Held DEF IInv
  <2> QED  BY <2>3, <2>4, <2>5, <2>6, <2>7 DEF IInv, CopiesSound, HasData
<1>5. RequestsSound' /\ ExtractingIsHeld'
  <2> DEFINE copy == [row[d] EXCEPT !.listed = TRUE]
  <2>1. row[d] \in Row
    BY DEF IInv, TypeOK, BeginSnapshot
  <2>2. copy \in Row /\ copy.status = row[d].status
    BY <2>1, RowChanges
  <2>3. /\ Save(d, copy) /\ (Hold(r, d, copy, "snapshot") \/ UNCHANGED requests)
        /\ row[d] # NoRow /\ rpc[r] = "idle" /\ UNCHANGED <<files, line, workers, history, faults>>
    BY DEF BeginSnapshot
  <2> HIDE DEF copy
  <2>4. RequestsSound'
    BY <2>3 DEF IInv, TypeOK, Hold, RequestsSound, Uploading
  <2>5. \A e \in Datasets : row'[e] # NoRow => row[e] # NoRow /\ row'[e].status = row[e].status
    BY <2>2, <2>3 DEF IInv, TypeOK, Save
  <2> QED  BY <2>3, <2>4, <2>5 DEF IInv, ExtractingIsHeld
<1>6. PartialIsOwned' /\ CurrentIsRunning'
  BY DEF IInv, TypeOK, IdleSound, PartialIsOwned, CurrentIsRunning,
  BeginSnapshot, Save, Hold
<1> QED  BY <1>1, <1>2, <1>3, <1>4, <1>5, <1>6 DEF IInv

\* A request that ends, and perhaps writes back its copy, leaves the copies sound.
LEMMA CopyWrittenBack ==
  ASSUME IInv, NEW r \in Requests, rpc[r] # "idle", EndRequest(r),
         Save(rds[r], rcopy[r]) \/ UNCHANGED row,
         UNCHANGED <<files, line, workers, deleted>>
  PROVE  CopiesSound'
<1>1. \A e \in Datasets : Free(e) => Free(e)'
  BY DEF IInv, TypeOK, Free, Uploading, EndRequest
<1>2. \A q \in Requests : rpc'[q] # "idle" =>
        rpc[q] # "idle" /\ rds'[q] = rds[q] /\ rds[q] \in Datasets /\ rcopy'[q] = rcopy[q]
  BY Held DEF IInv, TypeOK, EndRequest
<1>3. rds[r] \in Datasets
  BY Held DEF IInv
<1>4. \A e \in Datasets : row'[e] = row[e] \/ (e = rds[r] /\ row'[e] = rcopy[r])
  BY <1>3 DEF IInv, TypeOK, Save
<1> QED  BY <1>1, <1>2, <1>3, <1>4 DEF IInv, CopiesSound, HasData

LEMMA EndSnapshotKeeps ==
  ASSUME IInv, NEW r \in Requests, EndSnapshot(r)
  PROVE  IInv'
<1>1. TypeOK'
  <2>1. rds[r] \in Datasets /\ rcopy[r] \in Row
    BY Held DEF IInv, EndSnapshot
  <2>2. row' \in [Datasets -> Row \cup {NoRow}]
    BY <2>1 DEF IInv, TypeOK, EndSnapshot, Save
  <2> QED  BY <2>1, <2>2, FreshIsRow DEF IInv, TypeOK, EndSnapshot, EndRequest, Known
<1>2. Known' /\ IdleSound'
  BY DEF IInv, TypeOK, Known, IdleSound, EndSnapshot, Save, EndRequest, Fresh
<1>3. OnePlace'
  BY DEF IInv, TypeOK, Known, IdleSound, OnePlace, Uploading, EndSnapshot, Save,
  EndRequest, Fresh
<1>4. CopiesSound'
  BY CopyWrittenBack DEF EndSnapshot
<1>5. RequestsSound' /\ ExtractingIsHeld'
  BY DEF IInv, TypeOK, Row, IdleSound, RequestsSound, ExtractingIsHeld,
  Uploading, EndSnapshot, Save, EndRequest, Fresh
<1>6. PartialIsOwned' /\ CurrentIsRunning'
  BY DEF IInv, TypeOK, IdleSound, PartialIsOwned, CurrentIsRunning, EndSnapshot,
  Save, EndRequest, Fresh
<1> QED  BY <1>1, <1>2, <1>3, <1>4, <1>5, <1>6 DEF IInv

LEMMA BeginMetadataKeeps ==
  ASSUME IInv, NEW r \in Requests, NEW d \in Datasets, BeginMetadata(r, d)
  PROVE  IInv'
<1>1. TypeOK'
  BY DEF IInv, TypeOK, Row, Statuses, BeginMetadata, Hold
<1>2. Known' /\ IdleSound'
  BY DEF IInv, TypeOK, Known, IdleSound, BeginMetadata, Hold
<1>3. OnePlace'
  BY DEF IInv, TypeOK, Known, IdleSound, OnePlace, Uploading, BeginMetadata,
  Hold
<1>4. CopiesSound'
  BY DEF IInv, TypeOK, Row, Known, IdleSound, OnePlace, CopiesSound,
  RequestsSound, Free, HasData, Uploading, BeginMetadata, Hold
<1>5. RequestsSound' /\ ExtractingIsHeld'
  BY DEF IInv, TypeOK, Row, IdleSound, RequestsSound, ExtractingIsHeld,
  Uploading, BeginMetadata, Hold
<1>6. PartialIsOwned' /\ CurrentIsRunning'
  BY DEF IInv, TypeOK, IdleSound, PartialIsOwned, CurrentIsRunning,
  BeginMetadata, Hold
<1> QED  BY <1>1, <1>2, <1>3, <1>4, <1>5, <1>6 DEF IInv

LEMMA EndMetadataKeeps ==
  ASSUME IInv, NEW r \in Requests, EndMetadata(r)
  PROVE  IInv'
<1>1. TypeOK'
  <2>1. rds[r] \in Datasets /\ rcopy[r] \in Row
    BY Held DEF IInv, EndMetadata
  <2>2. row' \in [Datasets -> Row \cup {NoRow}]
    BY <2>1 DEF IInv, TypeOK, EndMetadata, Save
  <2> QED  BY <2>1, <2>2, FreshIsRow DEF IInv, TypeOK, EndMetadata, EndRequest
<1>2. Known' /\ IdleSound'
  BY DEF IInv, TypeOK, Known, IdleSound, EndMetadata, Save, EndRequest, Fresh
<1>3. OnePlace'
  BY DEF IInv, TypeOK, Known, IdleSound, OnePlace, Uploading, EndMetadata, Save,
  EndRequest, Fresh
<1>4. CopiesSound'
  BY CopyWrittenBack DEF EndMetadata
<1>5. RequestsSound' /\ ExtractingIsHeld'
  BY DEF IInv, TypeOK, Row, IdleSound, RequestsSound, ExtractingIsHeld,
  Uploading, EndMetadata, Save, EndRequest, Fresh
<1>6. PartialIsOwned' /\ CurrentIsRunning'
  BY DEF IInv, TypeOK, IdleSound, PartialIsOwned, CurrentIsRunning, EndMetadata,
  Save, EndRequest, Fresh
<1> QED  BY <1>1, <1>2, <1>3, <1>4, <1>5, <1>6 DEF IInv

LEMMA BeginPublishKeeps ==
  ASSUME IInv, NEW r \in Requests, NEW d \in Datasets, BeginPublish(r, d)
  PROVE  IInv'
<1>1. TypeOK'
  BY DEF IInv, TypeOK, Row, Statuses, BeginPublish, Hold
<1>2. Known' /\ IdleSound'
  BY DEF IInv, TypeOK, Known, IdleSound, BeginPublish, Hold
<1>3. OnePlace'
  BY DEF IInv, TypeOK, Known, IdleSound, OnePlace, Uploading, BeginPublish, Hold
<1>4. CopiesSound'
  BY DEF IInv, TypeOK, Row, Known, IdleSound, OnePlace, CopiesSound,
  RequestsSound, Free, HasData, Uploading, BeginPublish, Hold
<1>5. RequestsSound' /\ ExtractingIsHeld'
  BY DEF IInv, TypeOK, Row, IdleSound, RequestsSound, ExtractingIsHeld,
  Uploading, BeginPublish, Hold
<1>6. PartialIsOwned' /\ CurrentIsRunning'
  BY DEF IInv, TypeOK, IdleSound, PartialIsOwned, CurrentIsRunning,
  BeginPublish, Hold
<1> QED  BY <1>1, <1>2, <1>3, <1>4, <1>5, <1>6 DEF IInv

LEMMA EndPublishKeeps ==
  ASSUME IInv, NEW r \in Requests, EndPublish(r)
  PROVE  IInv'
<1>1. TypeOK'
  <2>1. rds[r] \in Datasets
    BY Held DEF IInv, EndPublish
  <2>2. CASE UNCHANGED row
    BY <2>1, <2>2, FreshIsRow DEF IInv, TypeOK, EndPublish, EndRequest
  <2>3. CASE Exists(rds[r]) /\ row' = [row EXCEPT ![rds[r]].listed = TRUE]
    <3>1. row[rds[r]] \in Row
      BY <2>1, <2>3 DEF IInv, TypeOK
    <3>2. [row[rds[r]] EXCEPT !.listed = TRUE] \in Row
      BY <3>1, RowChanges
    <3> QED  BY <2>1, <2>3, <3>2, FreshIsRow DEF IInv, TypeOK, EndPublish, EndRequest
  <2> QED  BY <2>2, <2>3 DEF EndPublish
<1>2. Known' /\ IdleSound'
  BY DEF IInv, TypeOK, Known, IdleSound, EndPublish, EndRequest, Fresh
<1>3. OnePlace'
  BY DEF IInv, TypeOK, Known, IdleSound, OnePlace, Uploading, EndPublish,
  EndRequest, Fresh
<1>4. CopiesSound'
  <2>1. rds[r] \in Datasets
    BY Held DEF IInv, EndPublish
  <2>2. \A e \in Datasets : row'[e] # NoRow => row[e] # NoRow /\ row'[e].status = row[e].status
    <3>1. CASE Exists(rds[r]) /\ row' = [row EXCEPT ![rds[r]].listed = TRUE]
      <4>1. row[rds[r]] \in Row
        BY <2>1, <3>1 DEF IInv, TypeOK
      <4>2. [row[rds[r]] EXCEPT !.listed = TRUE].status = row[rds[r]].status
        BY <4>1, RowChanges
      <4> QED  BY <2>1, <3>1, <4>2 DEF IInv, TypeOK
    <3> QED  BY <3>1 DEF EndPublish
  <2>3. \A e \in Datasets : Free(e) => Free(e)'
    BY DEF IInv, TypeOK, Free, Uploading, EndPublish, EndRequest
  <2>4. \A q \in Requests : rpc'[q] # "idle" =>
          rpc[q] # "idle" /\ rds'[q] = rds[q] /\ rds[q] \in Datasets /\ rcopy'[q] = rcopy[q]
    BY Held DEF IInv, TypeOK, EndPublish, EndRequest
  <2> QED  BY <2>1, <2>2, <2>3, <2>4 DEF IInv, CopiesSound, HasData, EndPublish
<1>5. RequestsSound' /\ ExtractingIsHeld'
  <2>1. rds[r] \in Datasets
    BY Held DEF IInv, EndPublish
  <2>2. RequestsSound'
    BY FreshIsRow DEF IInv, TypeOK, EndPublish, EndRequest, RequestsSound, Uploading
  <2>3. CASE UNCHANGED row
    BY <2>2, <2>3 DEF IInv, EndPublish, ExtractingIsHeld
  <2>4. CASE Exists(rds[r]) /\ row' = [row EXCEPT ![rds[r]].listed = TRUE]
    <3>1. row[rds[r]] \in Row
      BY <2>1, <2>4 DEF IInv, TypeOK
    <3>2. [row[rds[r]] EXCEPT !.listed = TRUE].status = row[rds[r]].status
      BY <3>1, RowChanges
    <3>3. \A e \in Datasets : row'[e] # NoRow => row[e] # NoRow /\ row'[e].status = row[e].status
      BY <2>1, <2>4, <3>2 DEF IInv, TypeOK
    <3> QED  BY <2>2, <3>3 DEF IInv, EndPublish, ExtractingIsHeld
  <2> QED  BY <2>3, <2>4 DEF EndPublish
<1>6. PartialIsOwned' /\ CurrentIsRunning'
  BY DEF IInv, TypeOK, IdleSound, PartialIsOwned, CurrentIsRunning, EndPublish,
  EndRequest, Fresh
<1> QED  BY <1>1, <1>2, <1>3, <1>4, <1>5, <1>6 DEF IInv

LEMMA ConfirmDatasetKeeps ==
  ASSUME IInv, NEW d \in Datasets, ConfirmDataset(d)
  PROVE  IInv'
<1>1. TypeOK'
  <2>1. row[d] \in Row
    BY DEF IInv, TypeOK, ConfirmDataset
  <2>2. [row[d] EXCEPT !.confirmed = TRUE] \in Row
    BY <2>1, RowChanges
  <2> QED  BY <2>2 DEF IInv, TypeOK, ConfirmDataset
<1>2. Known' /\ IdleSound'
  BY DEF IInv, TypeOK, Known, IdleSound, ConfirmDataset
<1>3. OnePlace'
  BY DEF IInv, TypeOK, Known, IdleSound, OnePlace, Uploading, ConfirmDataset
<1>4. CopiesSound'
  BY DEF IInv, TypeOK, Row, Known, IdleSound, OnePlace, CopiesSound,
  RequestsSound, Free, HasData, Uploading, ConfirmDataset
<1>5. RequestsSound' /\ ExtractingIsHeld'
  BY DEF IInv, TypeOK, Row, IdleSound, RequestsSound, ExtractingIsHeld,
  Uploading, ConfirmDataset
<1>6. PartialIsOwned' /\ CurrentIsRunning'
  BY DEF IInv, TypeOK, IdleSound, PartialIsOwned, CurrentIsRunning,
  ConfirmDataset
<1> QED  BY <1>1, <1>2, <1>3, <1>4, <1>5, <1>6 DEF IInv

LEMMA ConfirmBatchKeeps ==
  ASSUME IInv, ConfirmBatch
  PROVE  IInv'
<1>1. TypeOK'
  <2>1. ASSUME NEW d \in Datasets, Exists(d)
        PROVE  [row[d] EXCEPT !.confirmed = TRUE] \in Row
    <3>1. row[d] \in Row
      BY <2>1 DEF IInv, TypeOK
    <3> QED  BY <3>1, RowChanges
  <2> QED  BY <2>1 DEF IInv, TypeOK, ConfirmBatch
<1>2. Known' /\ IdleSound'
  BY DEF IInv, TypeOK, Known, IdleSound, ConfirmBatch
<1>3. OnePlace'
  BY DEF IInv, TypeOK, Known, IdleSound, OnePlace, Uploading, ConfirmBatch
<1>4. CopiesSound'
  BY DEF IInv, TypeOK, Row, Known, IdleSound, OnePlace, CopiesSound,
  RequestsSound, Free, HasData, Uploading, ConfirmBatch
<1>5. RequestsSound' /\ ExtractingIsHeld'
  BY DEF IInv, TypeOK, Row, IdleSound, RequestsSound, ExtractingIsHeld,
  Uploading, ConfirmBatch
<1>6. PartialIsOwned' /\ CurrentIsRunning'
  BY DEF IInv, TypeOK, IdleSound, PartialIsOwned, CurrentIsRunning, ConfirmBatch
<1> QED  BY <1>1, <1>2, <1>3, <1>4, <1>5, <1>6 DEF IInv

LEMMA DeleteDatasetKeeps ==
  ASSUME IInv, NEW d \in Datasets, DeleteDataset(d)
  PROVE  IInv'
<1>1. TypeOK'
  <2>1. d \in created
    BY DEF IInv, Known, DeleteDataset
  <2> QED  BY <2>1 DEF IInv, TypeOK, DeleteDataset, Discard
<1>2. Known' /\ IdleSound'
  BY DEF IInv, TypeOK, Known, IdleSound, DeleteDataset, Discard
<1>3. OnePlace'
  BY DEF IInv, TypeOK, Known, IdleSound, OnePlace, Uploading, DeleteDataset,
  Discard
<1>4. CopiesSound'
  BY DEF IInv, TypeOK, Row, Known, IdleSound, OnePlace, CopiesSound,
  RequestsSound, Free, HasData, Uploading, DeleteDataset, Discard
<1>5. RequestsSound' /\ ExtractingIsHeld'
  BY DEF IInv, TypeOK, Row, IdleSound, RequestsSound, ExtractingIsHeld,
  Uploading, DeleteDataset, Discard
<1>6. PartialIsOwned' /\ CurrentIsRunning'
  BY DEF IInv, TypeOK, IdleSound, PartialIsOwned, CurrentIsRunning,
  DeleteDataset, Discard
<1> QED  BY <1>1, <1>2, <1>3, <1>4, <1>5, <1>6 DEF IInv

LEMMA DeleteFailsKeeps ==
  ASSUME IInv, NEW d \in Datasets, DeleteFails(d)
  PROVE  IInv'
<1>0. /\ row[d] \in Row /\ d \in created
      /\ upload' \in [Datasets -> BOOLEAN] /\ partial' = partial
      /\ parquet' \in [Datasets -> {"none", "torn", "good", "cut", "empty"}]
      /\ deleted \subseteq deleted' /\ deleted' \subseteq created
      /\ \A e \in Datasets \ deleted' : parquet'[e] = parquet[e]
      /\ faults' \in 0 .. MaxFaults /\ faults' > 0
  BY FailedDiscard DEF DeleteFails
<1>a. /\ row' = IF row[d].status \in {"uploaded", "extracting", "preview_ready"}
                THEN [row EXCEPT ![d].status = "cancelled"] ELSE row
      /\ UNCHANGED <<line, workers, requests, created, setBack>>
  BY DEF DeleteFails
<1>b. /\ row' \in [Datasets -> Row \cup {NoRow}]
      /\ \A e \in Datasets : row'[e] = row[e] \/ (e = d /\ row'[e].status = "cancelled")
  <2>1. /\ [row[d] EXCEPT !.status = "cancelled"] \in Row
        /\ [row[d] EXCEPT !.status = "cancelled"].status = "cancelled"
    BY <1>0 DEF Row, Statuses
  <2>2. row' = row \/ row' = [row EXCEPT ![d] = [row[d] EXCEPT !.status = "cancelled"]]
    BY <1>a DEF IInv, TypeOK
  <2>3. PICK c \in Row : c.status = "cancelled" /\ (row' = row \/ row' = [row EXCEPT ![d] = c])
    BY <2>1, <2>2
  <2>4. row \in [Datasets -> Row \cup {NoRow}]
    BY DEF IInv, TypeOK
  <2>5. CASE row' = row
    BY <2>4, <2>5
  <2>6. CASE row' = [row EXCEPT ![d] = c]
    <3>1. \A e \in Datasets : row'[e] = IF e = d THEN c ELSE row[e]
      BY <2>4, <2>6
    <3> QED  BY <2>3, <2>4, <2>6, <3>1
  <2> QED  BY <2>3, <2>5, <2>6
<1>1. TypeOK'
  BY <1>0, <1>a, <1>b DEF IInv, TypeOK
<1>2. Known' /\ IdleSound'
  BY <1>0, <1>a, <1>b DEF IInv, TypeOK, Known, IdleSound
<1>3. OnePlace'
  BY <1>a DEF IInv, OnePlace, Uploading
<1>4. CopiesSound'
  <2>1. \A e \in Datasets : Free(e) => Free(e)'
    BY <1>a DEF Free, Uploading
  <2>2. /\ \A q \in Requests : rpc[q] # "idle" => rds[q] \in Datasets
        /\ \A v \in Workers : wpc[v] = "done" => wds[v] \in Datasets
    BY Held DEF IInv
  <2>3. \A e \in Datasets \ deleted' : e \notin deleted /\ (HasData(e) => HasData(e)')
    BY <1>0 DEF HasData
  <2> QED  BY <1>0, <1>a, <1>b, <2>1, <2>2, <2>3 DEF IInv, CopiesSound
<1>5. RequestsSound' /\ ExtractingIsHeld'
  BY <1>0, <1>a, <1>b DEF IInv, TypeOK, RequestsSound, ExtractingIsHeld, Uploading
<1>6. PartialIsOwned' /\ CurrentIsRunning'
  BY <1>0, <1>a DEF IInv, TypeOK, PartialIsOwned, CurrentIsRunning
<1> QED  BY <1>1, <1>2, <1>3, <1>4, <1>5, <1>6 DEF IInv

LEMMA RestartKeeps ==
  ASSUME IInv, Restart
  PROVE  IInv'
<1>1. TypeOK'
  BY DEF IInv, TypeOK, Row, Statuses, Restart, Fault, Fresh
<1>2. Known' /\ IdleSound'
  BY DEF IInv, TypeOK, Known, IdleSound, Restart, Fault, Fresh
<1>3. OnePlace'
  BY DEF IInv, TypeOK, Known, IdleSound, OnePlace, Uploading, Restart, Fault,
  Fresh
<1>4. CopiesSound'
  BY DEF IInv, TypeOK, Row, Known, IdleSound, OnePlace, CopiesSound,
  RequestsSound, Free, HasData, Uploading, Restart, Fault, Fresh
<1>5. RequestsSound' /\ ExtractingIsHeld'
  BY DEF IInv, TypeOK, Row, IdleSound, RequestsSound, ExtractingIsHeld,
  Uploading, Restart, Fault, Fresh
<1>6. PartialIsOwned' /\ CurrentIsRunning'
  BY DEF IInv, TypeOK, IdleSound, PartialIsOwned, CurrentIsRunning, Restart,
  Fault, Fresh
<1> QED  BY <1>1, <1>2, <1>3, <1>4, <1>5, <1>6 DEF IInv

\* Every step keeps the invariant.
LEMMA NextHolds ==
  ASSUME IInv, [Next]_vars
  PROVE  IInv'
<1>1. CASE UNCHANGED vars
  <2>1. TypeOK' /\ Known' /\ IdleSound' /\ OnePlace'
    BY <1>1 DEF vars, IInv, TypeOK, Known, IdleSound, OnePlace, Uploading
  <2>2. CopiesSound' /\ RequestsSound' /\ ExtractingIsHeld'
    BY <1>1 DEF vars, IInv, CopiesSound, Free, HasData, RequestsSound, ExtractingIsHeld, Uploading
  <2>3. PartialIsOwned' /\ CurrentIsRunning'
    BY <1>1 DEF vars, IInv, PartialIsOwned, CurrentIsRunning
  <2> QED  BY <2>1, <2>2, <2>3 DEF IInv
<1>2. ASSUME NEW w \in Workers, WorkerStep(w)
      PROVE  IInv'
  BY <1>2, TakeKeeps, RecordKeeps, ThreadKeeps DEF WorkerStep, LoopStep, ThreadStep
<1>3. ASSUME NEW r \in Requests, RequestStep(r)
      PROVE  IInv'
  <2>1. CASE WriteUpload(r) \/ FinishUpload(r) \/ RejectUpload(r) \/ LeaveUpload(r)
    BY <2>1, WriteUploadKeeps, FinishUploadKeeps, RejectUploadKeeps, LeaveUploadKeeps
  <2>2. CASE EndSnapshot(r) \/ EndMetadata(r) \/ EndPublish(r)
    BY <2>2, EndSnapshotKeeps, EndMetadataKeeps, EndPublishKeeps
  <2>3. CASE \E d \in Datasets : BeginUpload(r, d)
    BY <2>3, BeginUploadKeeps
  <2>4. CASE \E d \in Sold : BeginSnapshot(r, d) \/ BeginMetadata(r, d) \/ BeginPublish(r, d)
    <3>1. PICK d \in Datasets : BeginSnapshot(r, d) \/ BeginMetadata(r, d) \/ BeginPublish(r, d)
      BY <2>4
    <3> QED  BY <3>1, BeginSnapshotKeeps, BeginMetadataKeeps, BeginPublishKeeps
  <2> QED  BY <1>3, <2>1, <2>2, <2>3, <2>4 DEF RequestStep
<1>4. ASSUME NEW d \in Sold, ConfirmDataset(d)
      PROVE  IInv'
  BY <1>4, ConfirmDatasetKeeps
<1> QED
  BY <1>1, <1>2, <1>3, <1>4, DeleteDatasetKeeps, DeleteFailsKeeps, ConfirmBatchKeeps,
     RestartKeeps DEF Next

\* The inductive invariant holds in every reachable state.
THEOREM Inductive == Spec => []IInv
BY InitHolds, NextHolds, PTL DEF Spec

\* Every variable keeps its type.
THEOREM TypeCorrect == Spec => []TypeOK
<1>1. IInv => TypeOK
  BY DEF IInv
<1> QED  BY <1>1, Inductive, PTL

\* A dataset that may be listed has a Parquet file that was put in its place, though
\* perhaps cut short, whatever stale copies are saved; excepted is one of which a
\* deletion, even one that failed, removed the row or the file.
THEOREM ReadyHasFile == Spec => []ReadyHasData
<1>1. IInv => ReadyHasData
  BY DEF IInv, CopiesSound, HasData, ReadyHasData
<1> QED  BY <1>1, Inductive, PTL

\* Without a fault or a disclosure snapshot no dataset is extracting for ever.
THEOREM ExtractingStaysHeld == Spec => []ExtractingIsHeld
<1>1. IInv => ExtractingIsHeld
  BY DEF IInv
<1> QED  BY <1>1, Inductive, PTL

\* Without a restart no partial file is left behind.
THEOREM PartialStaysOwned == Spec => []PartialIsOwned
<1>1. IInv => PartialIsOwned
  BY DEF IInv
<1> QED  BY <1>1, Inductive, PTL

\* The shared current item is never one that nobody processes.
THEOREM CurrentRuns == Spec => []CurrentIsRunning
<1>1. IInv => CurrentIsRunning
  BY DEF IInv
<1> QED  BY <1>1, Inductive, PTL

-----------------------------------------------------------------------------
(* The action property: what a save may undo *)

\* The step takes nothing back that row d had: its existence, confirmation or listing.
Undoes(d) ==
  \/ ~Exists(d) /\ Exists(d)'
  \/ Exists(d) /\ Exists(d)' /\ row[d].confirmed /\ ~row'[d].confirmed
  \/ Exists(d) /\ Exists(d)' /\ row[d].listed /\ ~row'[d].listed

\* A record changed from what the row says now undoes nothing.
LEMMA FreshChange ==
  ASSUME TypeOK, NEW d \in Datasets, NEW e \in Datasets,
         NEW c \in Row, Exists(e), row' = [row EXCEPT ![e] = c],
         row[e].listed => c.listed, row[e].confirmed => c.confirmed
  PROVE  ~Undoes(d)
BY DEF TypeOK, Undoes

\* Saving a copy can only undo what its own row had.
LEMMA OtherRow ==
  ASSUME TypeOK, NEW d \in Datasets, NEW e \in Datasets, d # e,
         NEW c, row' = [row EXCEPT ![e] = c]
  PROVE  ~Undoes(d)
BY DEF TypeOK, Undoes

LEMMA WorkerUndoes ==
  ASSUME IInv, NEW w \in Workers, WorkerStep(w), NEW d \in created, Undoes(d)
  PROVE  HasOldCopy(d)
<1> USE DEF IInv
<1>1. d \in Datasets
  BY DEF TypeOK
<1>2. \A c \in Row, s \in Statuses : /\ WithStatus(c, s) \in Row
                                     /\ WithStatus(c, s).listed = c.listed
                                     /\ WithStatus(c, s).confirmed = c.confirmed
  BY DEF Row, WithStatus
<1>3. UNCHANGED row => FALSE
  BY DEF Undoes
<1>4. ASSUME NEW e \in Datasets, NEW s \in Statuses, Exists(e), Save(e, WithStatus(row[e], s))
      PROVE  FALSE
  <2>1. row[e] \in Row
    BY <1>4 DEF TypeOK
  <2> QED  BY <1>1, <1>2, <1>4, <2>1, FreshChange DEF Save
<1>5. CASE Take(w)
  <2>1. Head(queue) \in Datasets
    BY <1>5 DEF TypeOK, Take
  <2> QED  BY <1>3, <1>4, <1>5, <2>1 DEF Take, EnsureErrorStatus, Statuses
<1>6. CASE Record(w)
  <2>1. wds[w] \in Datasets /\ wpc[w] \in {"done", "failed"}
    BY <1>6, Held DEF Record
  <2>2. CASE EnsureErrorStatus(wds[w])
    BY <1>3, <1>4, <2>1, <2>2 DEF EnsureErrorStatus, Statuses
  <2>3. CASE \E c : Save(wds[w], c)
    <3>1. d = wds[w]
      BY <1>1, <2>1, <2>3, OtherRow DEF Save
    <3> QED  BY <2>1, <3>1 DEF HasOldCopy
  <2> QED  BY <1>6, <2>2, <2>3 DEF Record
<1>7. CASE ThreadStep(w)
  BY <1>3, <1>7 DEF ThreadStep, Thread, StartStreaming, FinishStreaming, StreamCutShort, StreamNothing,
     StreamingFails, StartInMemory, FinishInMemory, InMemoryFails
<1> QED  BY <1>5, <1>6, <1>7 DEF WorkerStep, LoopStep, ThreadStep

LEMMA RequestUndoes ==
  ASSUME IInv, NEW r \in Requests, RequestStep(r), NEW d \in created, Undoes(d)
  PROVE  HasOldCopy(d)
<1> USE DEF IInv
<1>1. d \in Datasets
  BY DEF TypeOK
<1>2. UNCHANGED row => FALSE
  BY DEF Undoes
<1>3. CASE rpc[r] \in {"written", "snapshot", "metadata"} /\ \E c : Save(rds[r], c)
  <2>1. rds[r] \in Datasets
    BY <1>3, Held
  <2>2. d = rds[r]
    BY <1>1, <1>3, <2>1, OtherRow DEF Save
  <2> QED  BY <1>3, <2>2 DEF HasOldCopy
<1>4. CASE WriteUpload(r) \/ FinishUpload(r) \/ LeaveUpload(r) \/ EndSnapshot(r) \/ EndMetadata(r)
  BY <1>2, <1>3, <1>4 DEF WriteUpload, FinishUpload, LeaveUpload, EndSnapshot, EndMetadata
<1>5. CASE RejectUpload(r)
  <2>1. rds[r] \in Datasets
    BY <1>5, Held DEF RejectUpload
  <2>2. CASE Discard(rds[r])
    BY <1>1, <2>1, <2>2 DEF TypeOK, Discard, Undoes
  <2> QED  BY <1>2, <1>5, <2>2 DEF RejectUpload
<1>6. CASE EndPublish(r)
  <2>1. rds[r] \in Datasets
    BY <1>6, Held DEF EndPublish
  <2>2. CASE Exists(rds[r]) /\ row' = [row EXCEPT ![rds[r]].listed = TRUE]
    <3>1. row[rds[r]] \in Row
      BY <2>1, <2>2 DEF TypeOK
    <3>2. row' = [row EXCEPT ![rds[r]] = [row[rds[r]] EXCEPT !.listed = TRUE]]
      BY <2>1, <2>2 DEF TypeOK
    <3> QED  BY <1>1, <2>1, <2>2, <3>1, <3>2, FreshChange, RowChanges
  <2> QED  BY <1>2, <1>6, <2>2 DEF EndPublish
<1>7. CASE \E e \in Datasets : BeginUpload(r, e)
  BY <1>1, <1>7, OtherRow DEF BeginUpload, Save
<1>8. CASE \E e \in Sold : BeginSnapshot(r, e) \/ BeginMetadata(r, e) \/ BeginPublish(r, e)
  <2>1. PICK e \in Datasets : BeginSnapshot(r, e) \/ BeginMetadata(r, e) \/ BeginPublish(r, e)
    BY <1>8
  <2>2. CASE BeginSnapshot(r, e)
    <3>1. row[e] \in Row
      BY <2>2 DEF TypeOK, BeginSnapshot
    <3> QED  BY <1>1, <2>2, <3>1, FreshChange, RowChanges DEF BeginSnapshot, Save
  <2> QED  BY <1>2, <2>1, <2>2 DEF BeginMetadata, BeginPublish
<1> QED  BY <1>4, <1>5, <1>6, <1>7, <1>8 DEF RequestStep

LEMMA UndoneStep ==
  ASSUME IInv, [Next]_vars, NEW d \in created, Undoes(d)
  PROVE  HasOldCopy(d)
<1> USE DEF IInv
<1>1. d \in Datasets
  BY DEF TypeOK
<1>2. UNCHANGED row => FALSE
  BY DEF Undoes
<1>3. ASSUME NEW w \in Workers, WorkerStep(w)
      PROVE  HasOldCopy(d)
  BY <1>3, WorkerUndoes
<1>4. ASSUME NEW r \in Requests, RequestStep(r)
      PROVE  HasOldCopy(d)
  BY <1>4, RequestUndoes
<1>5. ASSUME NEW e \in Sold, ConfirmDataset(e)
      PROVE  FALSE
  BY <1>1, <1>5 DEF ConfirmDataset, TypeOK, Undoes, Row
<1>6. ASSUME NEW e \in Datasets, DeleteDataset(e)
      PROVE  FALSE
  BY <1>1, <1>6 DEF DeleteDataset, Discard, TypeOK, Undoes
<1>7. ASSUME NEW e \in Datasets, DeleteFails(e)
      PROVE  FALSE
  <2>1. row[e] \in Row
    BY <1>7, FailedDiscard DEF DeleteFails
  <2>2. PICK c : c = [row[e] EXCEPT !.status = "cancelled"]
    OBVIOUS
  <2>3. c \in Row /\ c.listed = row[e].listed /\ c.confirmed = row[e].confirmed
    BY <2>1, <2>2 DEF Row, Statuses
  <2>4. row' = [row EXCEPT ![e] = c]
    BY <1>2, <1>7, <2>2 DEF DeleteFails, TypeOK
  <2>5. Exists(e)
    BY <1>7 DEF DeleteFails, DiscardFails
  <2> QED  BY <1>1, <2>3, <2>4, <2>5, FreshChange
<1>8. CASE ConfirmBatch
  BY <1>1, <1>8 DEF ConfirmBatch, TypeOK, Undoes, Row
<1>9. CASE Restart \/ UNCHANGED vars
  BY <1>2, <1>9 DEF Restart, vars
<1> QED  BY <1>3, <1>4, <1>5, <1>6, <1>7, <1>8, <1>9 DEF Next

\* A deleted record returns, and a confirmation or listing id is lost, only by
\* the save of a copy read before.
THEOREM UndoneByOldCopy == Spec => UndoneOnlyByOldCopy
<1>1. IInv /\ [Next]_vars => [\A d \in created :
        \/ ~Exists(d) /\ Exists(d)'
        \/ Exists(d) /\ Exists(d)' /\ row[d].confirmed /\ ~row'[d].confirmed
        \/ Exists(d) /\ Exists(d)' /\ row[d].listed /\ ~row'[d].listed
        => HasOldCopy(d)]_vars
  BY UndoneStep DEF Undoes
<1> QED  BY <1>1, Inductive, PTL DEF Spec, UndoneOnlyByOldCopy
-----------------------------------------------------------------------------
(* The queue of WorkQueue *)

\* Ids that had their turn.
Past == {d \in created : Free(d)}

LEMMA InQueue ==
  ASSUME IInv
  PROVE  \A d : d \in ToSet(queue) <=> \E i \in 1 .. Len(queue) : queue[i] = d
  BY DEF IInv, TypeOK, ToSet

LEMMA InNextQueue ==
  ASSUME IInv'
  PROVE  \A d : d \in ToSet(queue') <=> \E i \in 1 .. Len(queue') : queue'[i] = d
  BY DEF IInv, TypeOK, ToSet

\* What the abstract queue says of the variables, before and after a step.
HadTurn == {d \in created : ~Waiting(d) /\ \A r \in Requests : Uploading(r) => rds[r] # d}

LEMMA QueueMap ==
  ASSUME IInv
  PROVE  /\ HadTurn = Past
         /\ \A d : WorkQueue!Pending(d) <=>
              \/ \E i \in 1 .. Len(queue) : queue[i] = d
              \/ \E w \in Workers : wds[w] = d
<1>1. \A d : Waiting(d) <=> (\E i \in 1 .. Len(queue) : queue[i] = d) \/ \E w \in Workers : wds[w] = d
  BY InQueue DEF Waiting
<1>2. \A d : WorkQueue!Pending(d) <=> Waiting(d)
  BY DEF Waiting, WorkQueue!Pending, ToSet, WorkQueue!ToSet
<1>3. \A d \in created : Free(d) <=> ~Waiting(d) /\ \A r \in Requests : Uploading(r) => rds[r] # d
  BY <1>1 DEF Free
<1>4. HadTurn = Past
  BY <1>3 DEF HadTurn, Past
<1> QED  BY <1>1, <1>2, <1>4

LEMMA NextHadTurn ==
  ASSUME IInv'
  PROVE  HadTurn' = Past'
<1>1. \A d : Waiting(d)' <=> (\E i \in 1 .. Len(queue') : queue'[i] = d) \/ \E w \in Workers : wds'[w] = d
  BY InNextQueue DEF Waiting
<1>2. \A d \in created' : Free(d)' <=> ~Waiting(d)' /\ \A r \in Requests : Uploading(r)' => rds'[r] # d
  BY <1>1 DEF Free
<1> QED  BY <1>2 DEF HadTurn, Past

\* Steps that leave the line, the workers and the uploads alone.
LEMMA QueueRests ==
  ASSUME IInv, IInv', UNCHANGED <<queue, wds, created>>,
         \A d \in created : (\E r \in Requests : Uploading(r) /\ rds[r] = d)
                        <=> (\E r \in Requests : Uploading(r)' /\ rds'[r] = d)
  PROVE  UNCHANGED WorkQueue!queueVars
<1>1. Past' = Past
  BY DEF Past, Free
<1> QED  BY <1>1, QueueMap, NextHadTurn DEF HadTurn, WorkQueue!queueVars

LEMMA UploadRefines ==
  ASSUME IInv, IInv', NEW r \in Requests,
         \/ WriteUpload(r) \/ FinishUpload(r) \/ RejectUpload(r) \/ LeaveUpload(r)
         \/ \E d \in Datasets : BeginUpload(r, d)
  PROVE  [WorkQueue!QueueNext]_(WorkQueue!queueVars)
<1>1. CASE WriteUpload(r)
  BY <1>1, QueueRests DEF WriteUpload, Uploading, IInv, TypeOK
<1>2. ASSUME NEW d \in Datasets, BeginUpload(r, d)
      PROVE  UNCHANGED WorkQueue!queueVars
  <2>1. UNCHANGED <<queue, wds>> /\ created' = created \cup {d} /\ rpc'[r] = "upload" /\ rds'[r] = d
    BY <1>2 DEF BeginUpload, Hold, IInv, TypeOK
  <2>2. \A q \in Requests \ {r} : rpc'[q] = rpc[q] /\ rds'[q] = rds[q]
    BY <1>2 DEF BeginUpload, Hold, IInv, TypeOK
  <2>3. ~Uploading(r) /\ d \notin created
    BY <1>2 DEF BeginUpload, Hold, Uploading
  <2>4. Past' = Past
    BY <2>1, <2>2, <2>3 DEF Past, Free, Uploading
  <2> QED  BY <2>1, <2>4, QueueMap, NextHadTurn DEF HadTurn, WorkQueue!queueVars
<1>3. ASSUME Uploading(r), EndRequest(r), created' = created, wds' = wds
      PROVE  /\ rds[r] \in created /\ rds[r] \notin Past
             /\ ~WorkQueue!Pending(rds[r])
             /\ queue' = queue => Past' = Past \cup {rds[r]}
             /\ queue' = Append(queue, rds[r]) => Past' = Past
  <2>1. rds[r] \in Datasets /\ rds[r] \in created
    BY <1>3 DEF IInv, Known, TypeOK, IdleSound, Uploading
  <2>2. /\ \A i \in 1 .. Len(queue) : queue[i] # rds[r]
        /\ \A w \in Workers : wds[w] # rds[r]
        /\ \A q \in Requests : Uploading(q) /\ rds[q] = rds[r] => q = r
    BY <1>3 DEF IInv, OnePlace
  <2>3. /\ ~Uploading(r)'
        /\ \A q \in Requests \ {r} : rds'[q] = rds[q] /\ (Uploading(q)' <=> Uploading(q))
    BY <1>3 DEF EndRequest, Uploading, IInv, TypeOK
  <2>4. ~WorkQueue!Pending(rds[r])
    BY <2>2, QueueMap
  <2>5. queue' = queue => Past' = Past \cup {rds[r]}
    BY <1>3, <2>1, <2>2, <2>3 DEF Past, Free
  <2>6. ASSUME queue' = Append(queue, rds[r])
        PROVE  Past' = Past
    <3>1. /\ Len(queue) \in Nat /\ Len(queue') = Len(queue) + 1
          /\ \A i \in 1 .. Len(queue) : queue'[i] = queue[i]
          /\ queue'[Len(queue) + 1] = rds[r]
      BY <2>1, <2>6 DEF IInv, TypeOK
    <3>2. \A d : (\A i \in 1 .. Len(queue') : queue'[i] # d)
                 <=> d # rds[r] /\ \A i \in 1 .. Len(queue) : queue[i] # d
      BY <3>1
    <3> QED  BY <1>3, <2>1, <2>2, <2>3, <3>2 DEF Past, Free
  <2> QED  BY <1>3, <2>1, <2>4, <2>5, <2>6 DEF Past, Free
<1>4. ASSUME NEW d \in Datasets, d = rds[r], FinishUpload(r)
      PROVE  WorkQueue!Submit(d)
  <2>1. /\ ~WorkQueue!Pending(d) /\ d \notin Past
        /\ Past' = Past /\ wds' = wds /\ queue' = Append(queue, d)
    BY <1>3, <1>4 DEF FinishUpload, Submit, Uploading
  <2> QED  BY <2>1, QueueMap, NextHadTurn DEF HadTurn, WorkQueue!Submit
<1>5. ASSUME NEW d \in Datasets, d = rds[r], RejectUpload(r) \/ LeaveUpload(r)
      PROVE  WorkQueue!Withdraw(d)
  <2>1. /\ ~WorkQueue!Pending(d)
        /\ Past' = Past \cup {d} /\ wds' = wds /\ queue' = queue
    BY <1>3, <1>5 DEF RejectUpload, LeaveUpload, Discard, Uploading
  <2> QED  BY <2>1, QueueMap, NextHadTurn DEF HadTurn, WorkQueue!Withdraw
<1>6. FinishUpload(r) \/ RejectUpload(r) \/ LeaveUpload(r) => \E d \in Datasets : d = rds[r]
  BY Held DEF IInv, FinishUpload, RejectUpload, LeaveUpload
<1> QED  BY <1>1, <1>2, <1>4, <1>5, <1>6 DEF WorkQueue!QueueNext

\* Other requests hold copies of a record, not the dataset.
LEMMA CopyRefines ==
  ASSUME IInv, IInv', NEW r \in Requests,
         \/ EndSnapshot(r) \/ EndMetadata(r) \/ EndPublish(r)
         \/ \E d \in Sold : BeginSnapshot(r, d) \/ BeginMetadata(r, d) \/ BeginPublish(r, d)
  PROVE  UNCHANGED WorkQueue!queueVars
<1>1. UNCHANGED <<queue, wds, created>>
  BY DEF EndSnapshot, EndMetadata, EndPublish, BeginSnapshot, BeginMetadata, BeginPublish
<1>2. /\ rpc[r] \notin {"upload", "written"} /\ rpc'[r] \notin {"upload", "written"}
      /\ \A q \in Requests \ {r} : rds'[q] = rds[q] /\ rpc'[q] = rpc[q]
  <2>1. CASE EndSnapshot(r) \/ EndMetadata(r) \/ EndPublish(r)
    BY <2>1 DEF EndSnapshot, EndMetadata, EndPublish, EndRequest, IInv, TypeOK
  <2>2. ASSUME NEW d \in Sold, BeginSnapshot(r, d) \/ BeginMetadata(r, d) \/ BeginPublish(r, d)
        PROVE  /\ rpc[r] \notin {"upload", "written"} /\ rpc'[r] \notin {"upload", "written"}
               /\ \A q \in Requests \ {r} : rds'[q] = rds[q] /\ rpc'[q] = rpc[q]
    <3>1. rpc[r] = "idle"
      BY <2>2 DEF BeginSnapshot, BeginMetadata, BeginPublish, Hold
    <3>2. \/ UNCHANGED requests
          \/ \E c, to : to \in {"snapshot", "metadata", "publish"} /\ Hold(r, d, c, to)
      BY <2>2 DEF BeginSnapshot, BeginMetadata, BeginPublish
    <3> QED  BY <3>1, <3>2 DEF Hold, IInv, TypeOK
  <2> QED  BY <2>1, <2>2
<1> QED  BY <1>1, <1>2, QueueRests DEF Uploading

LEMMA TakeRefines ==
  ASSUME IInv, IInv', NEW w \in Workers, Take(w)
  PROVE  WorkQueue!QueueNext
<1>1. PICK d \in Datasets : d = queue[1] /\ d = Head(queue) /\ 1 \in 1 .. Len(queue)
  BY DEF Take, IInv, TypeOK
<1>2. /\ queue # <<>> /\ wds[w] = NoDataset /\ queue' = Tail(queue)
      /\ UNCHANGED <<created, rpc, rds>>
  BY DEF Take, IInv, IdleSound
<1>3. /\ Len(queue) \in Nat /\ Len(queue') = Len(queue) - 1
      /\ \A i \in 1 .. Len(queue') : queue'[i] = queue[i + 1]
  BY <1>2 DEF IInv, TypeOK
<1>4. \A e : (\A i \in 1 .. Len(queue') : queue'[i] # e)
             <=> e = d \/ \A i \in 1 .. Len(queue) : queue[i] # e
  <2>1. \A i \in 2 .. Len(queue) : i - 1 \in 1 .. Len(queue') /\ queue'[i - 1] = queue[i]
    BY <1>3
  <2>2. \A i \in 1 .. Len(queue') : i + 1 \in 1 .. Len(queue) /\ i + 1 # 1
    BY <1>3
  <2>3. \A i \in 1 .. Len(queue') : queue'[i] # d
    BY <1>1, <1>3, <2>2 DEF IInv, OnePlace
  <2>4. \A i \in 1 .. Len(queue) : i = 1 \/ i \in 2 .. Len(queue)
    BY <1>3
  <2> QED  BY <1>1, <1>3, <2>1, <2>2, <2>3, <2>4
<1>5. /\ d \in created
      /\ \A v \in Workers : wds[v] # d
      /\ \A r \in Requests : Uploading(r) => rds[r] # d
  BY <1>1 DEF IInv, Known, OnePlace
<1>6. ASSUME wds' = [wds EXCEPT ![w] = d]
      PROVE  WorkQueue!Start(w)
  <2>1. \A e \in created : (\A v \in Workers : wds'[v] # e) <=> e # d /\ \A v \in Workers : wds[v] # e
    BY <1>2, <1>6 DEF IInv, TypeOK
  <2>2. Past' = Past
    BY <1>1, <1>2, <1>4, <2>1 DEF Past, Free, Uploading
  <2> QED  BY <1>1, <1>2, <1>6, <2>2, QueueMap, NextHadTurn DEF HadTurn, WorkQueue!Start
<1>7. ASSUME Finish(w)
      PROVE  WorkQueue!Skip(w)
  <2>1. wds' = wds
    BY <1>2, <1>7 DEF Finish, IInv, TypeOK
  <2>2. Past' = Past \cup {d}
    BY <1>2, <1>4, <1>5, <2>1 DEF Past, Free, Uploading
  <2> QED  BY <1>1, <1>2, <2>1, <2>2, QueueMap, NextHadTurn DEF HadTurn, WorkQueue!Skip
<1> QED  BY <1>1, <1>6, <1>7 DEF Take, WorkQueue!QueueNext

LEMMA WorkerRefines ==
  ASSUME IInv, IInv', NEW w \in Workers, WorkerStep(w)
  PROVE  [WorkQueue!QueueNext]_(WorkQueue!queueVars)
<1>1. CASE Record(w)
  <2>1. wds[w] \in Datasets /\ wds[w] \in created /\ wds[w] # NoDataset
    BY <1>1, Held DEF IInv, Known, Record
  <2>2. /\ wds' = [wds EXCEPT ![w] = NoDataset]
        /\ UNCHANGED <<queue, rpc, rds, created>>
    BY <1>1 DEF Record, Finish
  <2>3. \A e \in created : (\A v \in Workers : wds'[v] # e) <=> e = wds[w] \/ \A v \in Workers : wds[v] # e
    BY <2>1, <2>2 DEF IInv, TypeOK, OnePlace
  <2>4. Past' = Past \cup {wds[w]}
    BY <2>1, <2>2, <2>3 DEF Past, Free, Uploading, IInv, OnePlace
  <2>5. WorkQueue!End(w)
    BY <2>1, <2>2, <2>4, QueueMap, NextHadTurn DEF HadTurn, WorkQueue!End
  <2> QED  BY <2>5 DEF WorkQueue!QueueNext
<1>2. CASE ThreadStep(w)
  <2>1. UNCHANGED <<queue, wds, created, rpc, rds>>
    BY <1>2 DEF ThreadStep, Thread, StartStreaming, FinishStreaming, StreamCutShort, StreamNothing,
       StreamingFails, StartInMemory, FinishInMemory, InMemoryFails
  <2> QED  BY <2>1, QueueRests DEF Uploading
<1> QED  BY <1>1, <1>2, TakeRefines DEF WorkerStep, LoopStep, ThreadStep

LEMMA RestartRefines ==
  ASSUME IInv, IInv', Restart
  PROVE  WorkQueue!QueueNext
<1>1. PICK lost \in SUBSET Datasets : lost = created
  BY DEF IInv, TypeOK
<1>2. \A d \in Datasets : WorkQueue!Pending(d) => d \in lost
  BY <1>1, QueueMap DEF IInv, Known
<1>3. queue' = <<>> /\ wds' = [w \in Workers |-> NoDataset] /\ created' = created
  BY DEF Restart
<1>4. Past' = Past \cup lost
  <2>1. \A r \in Requests : ~Uploading(r)'
    BY DEF Restart, Uploading
  <2>2. \A d \in created : Free(d)'
    BY <1>3, <2>1 DEF Free, IInv, TypeOK
  <2> QED  BY <1>1, <1>3, <2>2 DEF Past
<1>5. WorkQueue!Crash(lost)
  BY <1>2, <1>3, <1>4, QueueMap, NextHadTurn DEF HadTurn, WorkQueue!Crash
<1> QED  BY <1>5 DEF WorkQueue!QueueNext

LEMMA StepRefinesQueue ==
  ASSUME IInv, IInv', [Next]_vars
  PROVE  [WorkQueue!QueueNext]_(WorkQueue!queueVars)
<1>1. CASE ConfirmBatch \/ UNCHANGED vars \/ (\E d \in Sold : ConfirmDataset(d))
           \/ \E d \in Datasets : DeleteDataset(d) \/ DeleteFails(d)
  <2>1. UNCHANGED <<queue, wds, created, rpc, rds>>
    BY <1>1 DEF ConfirmBatch, vars, ConfirmDataset, DeleteDataset, DeleteFails
  <2> QED  BY <2>1, QueueRests DEF Uploading
<1> QED  BY <1>1, WorkerRefines, UploadRefines, CopyRefines, RestartRefines DEF Next, RequestStep

LEMMA InitRefinesQueue == Init => WorkQueue!QueueInit
  BY DEF Init, WorkQueue!QueueInit

\* An uploaded file is queued once, taken in its turn by one worker and never extracted
\* again, whatever fails, is deleted or comes back from an old copy.
THEOREM ProcessingRefinesQueue == Spec => RefinesQueue
<1>1. IInv /\ IInv' /\ [Next]_vars => [WorkQueue!QueueNext]_(WorkQueue!queueVars)
  BY StepRefinesQueue
<1> QED  BY <1>1, InitRefinesQueue, Inductive, PTL DEF Spec, RefinesQueue, WorkQueue!QueueSpec
=============================================================================
