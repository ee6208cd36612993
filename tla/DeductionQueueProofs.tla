------------------------ MODULE DeductionQueueProofs ------------------------
(***************************************************************************)
(* Proofs about DeductionQueue for every set of keys and calls, every      *)
(* limit and any number of faults.                                         *)
(***************************************************************************)
EXTENDS DeductionQueue, FiniteSetTheorems, TLAPS

(***************************************************************************)
(* The inductive invariant.  The properties speak of rows; what makes them *)
(* inductive is what each coroutine knows while it is suspended: a call    *)
(* that sent has a row, an answer "ok" in hand means the key is charged,   *)
(* and the count the processor read at the claim is the row's own or one   *)
(* less than it.                                                           *)
(***************************************************************************)
CallsSound == \A c \in Calls :
  /\ cpc[c] \in {"sending", "replied"} => KeyOf[c] \in Rows
  /\ creply[c] = "ok" => KeyOf[c] \in charged

WorkerSound ==
  /\ claimed \subseteq Rows
  /\ wpc \in {"sleep", "dead"} => claimed = {}
  /\ wpc \in {"sending", "replied", "reload"} => wcur \in claimed
  /\ wpc \in {"sleep", "next", "dead"} => wcur = NoKey
  /\ wpc # "reload" => locked = NoKey
  /\ wpc = "reload" => wreply = "ok"
  /\ wpc \notin {"replied", "reload"} => wreply = "network"
  /\ wreply = "ok" => wcur \in charged

CountsSound ==
  /\ \A k \in Keys \ Rows : attempt[k] = 0
  /\ \A k \in claimed :
       /\ snap[k] < MAX_ATTEMPTS + interrupted
       /\ attempt[k] \in {snap[k], snap[k] + 1}
       /\ status[k] = "processing" => attempt[k] = snap[k]

IInv ==
  /\ TypeOK
  /\ AttemptsBounded
  /\ CallsSound
  /\ WorkerSound
  /\ CountsSound
  /\ CompletedIsCharged
  /\ ChargedIsRecorded
  /\ LeasesAreHeld

USE ConstantsAssumption DEF ConstantsAssumption, table, worker, calls, loop, trouble

LEMMA RowsFinite == IsFiniteSet(Rows) /\ Cardinality(Rows) \in Nat
BY FS_Subset, FS_CardinalityType DEF Rows

\* Initially nothing is recorded, held or sent.
LEMMA InitHolds == Init => IInv
<1> SUFFICES ASSUME Init PROVE IInv
  OBVIOUS
<1>1. TypeOK
  <2>1. 0 \in 0 .. MAX_ATTEMPTS + 0 /\ 0 \in 0 .. MaxFaults /\ 0 \in 0 .. 0 + 0
    OBVIOUS
  <2> QED  BY <2>1 DEF Init, TypeOK, Statuses, Outcomes
<1>2. AttemptsBounded /\ CountsSound
  BY DEF Init, AttemptsBounded, CountsSound, Rows
<1>3. CallsSound /\ WorkerSound
  BY DEF Init, CallsSound, WorkerSound
<1>4. CompletedIsCharged /\ ChargedIsRecorded /\ LeasesAreHeld
  BY DEF Init, CompletedIsCharged, ChargedIsRecorded, LeasesAreHeld
<1> QED  BY <1>1, <1>2, <1>3, <1>4 DEF IInv

LEMMA EnqueueKeeps ==
  ASSUME IInv, NEW c \in Calls, Enqueue(c)
  PROVE  IInv'
<1>1. TypeOK'
  <2>1. CASE locked = KeyOf[c] /\ Block /\ EndCall(c)
    BY <2>1 DEF IInv, TypeOK, Outcomes, Enqueue, Block, EndCall
  <2>2. CASE Insert(KeyOf[c]) /\ cpc' = [cpc EXCEPT ![c] = "sending"] /\ UNCHANGED <<creply, loop>>
    <3>1. age' \in [Keys -> Nat]
      BY <2>2, RowsFinite DEF IInv, TypeOK, Insert
    <3>2. status' \in [Keys -> Statuses] /\ due' \in [Keys -> BOOLEAN] /\ attempt' = attempt
      BY <2>2 DEF IInv, TypeOK, Statuses, Insert
    <3> QED  BY <2>2, <3>1, <3>2 DEF IInv, TypeOK, Enqueue
  <2> QED  BY <2>1, <2>2 DEF Enqueue
<1>2. CallsSound'
  BY DEF IInv, TypeOK, CallsSound, Rows, Outcomes, Enqueue, Insert, Block,
  EndCall
<1>3. WorkerSound'
  BY DEF IInv, TypeOK, WorkerSound, Rows, Outcomes, Enqueue, Insert, Block,
  EndCall
<1>4. AttemptsBounded' /\ CountsSound'
  BY DEF IInv, TypeOK, AttemptsBounded, CountsSound, WorkerSound, Rows,
  Enqueue, Insert, Block, EndCall
<1>5. CompletedIsCharged' /\ ChargedIsRecorded'
  BY DEF IInv, TypeOK, CompletedIsCharged, ChargedIsRecorded, CallsSound,
  WorkerSound, Rows, Enqueue, Insert, Block, EndCall
<1>6. LeasesAreHeld'
  BY DEF IInv, TypeOK, LeasesAreHeld, WorkerSound, Rows, Enqueue, Insert,
  Block, EndCall
<1> QED  BY <1>1, <1>2, <1>3, <1>4, <1>5, <1>6 DEF IInv

LEMMA SkipUsageKeeps ==
  ASSUME IInv, NEW c \in Calls, SkipUsage(c)
  PROVE  IInv'
<1>1. TypeOK'
  BY DEF IInv, TypeOK, AttemptsBounded, WorkerSound, CountsSound, Statuses,
  Outcomes, SkipUsage, EndCall
<1>2. CallsSound'
  BY DEF IInv, TypeOK, CallsSound, Rows, Outcomes, SkipUsage, EndCall
<1>3. WorkerSound'
  BY DEF IInv, TypeOK, WorkerSound, Rows, Outcomes, SkipUsage, EndCall
<1>4. AttemptsBounded' /\ CountsSound'
  BY DEF IInv, TypeOK, AttemptsBounded, CountsSound, WorkerSound, Rows,
  SkipUsage, EndCall
<1>5. CompletedIsCharged' /\ ChargedIsRecorded'
  BY DEF IInv, TypeOK, CompletedIsCharged, ChargedIsRecorded, CallsSound,
  WorkerSound, Rows, SkipUsage, EndCall
<1>6. LeasesAreHeld'
  BY DEF IInv, TypeOK, LeasesAreHeld, WorkerSound, Rows, SkipUsage, EndCall
<1> QED  BY <1>1, <1>2, <1>3, <1>4, <1>5, <1>6 DEF IInv

LEMMA EnqueueErrorKeeps ==
  ASSUME IInv, NEW c \in Calls, EnqueueError(c)
  PROVE  IInv'
<1>1. TypeOK'
  BY DEF IInv, TypeOK, AttemptsBounded, WorkerSound, CountsSound, Statuses,
  Outcomes, EnqueueError, EndCall
<1>2. CallsSound'
  BY DEF IInv, TypeOK, CallsSound, Rows, Outcomes, EnqueueError, EndCall
<1>3. WorkerSound'
  BY DEF IInv, TypeOK, WorkerSound, Rows, Outcomes, EnqueueError, EndCall
<1>4. AttemptsBounded' /\ CountsSound'
  BY DEF IInv, TypeOK, AttemptsBounded, CountsSound, WorkerSound, Rows,
  EnqueueError, EndCall
<1>5. CompletedIsCharged' /\ ChargedIsRecorded'
  BY DEF IInv, TypeOK, CompletedIsCharged, ChargedIsRecorded, CallsSound,
  WorkerSound, Rows, EnqueueError, EndCall
<1>6. LeasesAreHeld'
  BY DEF IInv, TypeOK, LeasesAreHeld, WorkerSound, Rows, EnqueueError, EndCall
<1> QED  BY <1>1, <1>2, <1>3, <1>4, <1>5, <1>6 DEF IInv

LEMMA AnswerCallKeeps ==
  ASSUME IInv, NEW c \in Calls, NEW o \in Outcomes, AnswerCall(c, o)
  PROVE  IInv'
<1>1. TypeOK'
  BY DEF IInv, TypeOK, AttemptsBounded, WorkerSound, CountsSound, Statuses,
  Outcomes, AnswerCall, Deduct
<1>2. CallsSound'
  BY DEF IInv, TypeOK, CallsSound, Rows, Outcomes, AnswerCall, Deduct
<1>3. WorkerSound'
  BY DEF IInv, TypeOK, WorkerSound, Rows, Outcomes, AnswerCall, Deduct
<1>4. AttemptsBounded' /\ CountsSound'
  BY DEF IInv, TypeOK, AttemptsBounded, CountsSound, WorkerSound, Rows,
  AnswerCall, Deduct
<1>5. CompletedIsCharged' /\ ChargedIsRecorded'
  BY DEF IInv, TypeOK, CompletedIsCharged, ChargedIsRecorded, CallsSound,
  WorkerSound, Rows, AnswerCall, Deduct
<1>6. LeasesAreHeld'
  BY DEF IInv, TypeOK, LeasesAreHeld, WorkerSound, Rows, AnswerCall, Deduct
<1> QED  BY <1>1, <1>2, <1>3, <1>4, <1>5, <1>6 DEF IInv

LEMMA FinishCallKeeps ==
  ASSUME IInv, NEW c \in Calls, FinishCall(c)
  PROVE  IInv'
<1>1. TypeOK'
  <2>1. status' \in [Keys -> Statuses]
    BY DEF IInv, TypeOK, Statuses, FinishCall, Mark, Block
  <2>2. frozen' \in BOOLEAN /\ interrupted' \in 0 .. faults' + (IF frozen' THEN 1 ELSE 0)
    <3>1. frozen' \in {frozen, TRUE} /\ faults' = faults /\ interrupted' = interrupted
      BY DEF FinishCall, Block
    <3>2. frozen \in BOOLEAN /\ interrupted \in 0 .. faults + (IF frozen THEN 1 ELSE 0)
          /\ faults \in Nat
      BY DEF IInv, TypeOK
    <3>3. CASE frozen' = frozen
      BY <3>1, <3>2, <3>3
    <3>4. CASE frozen' = TRUE /\ frozen = FALSE
      BY <3>1, <3>2, <3>4
    <3> QED  BY <3>1, <3>2, <3>3, <3>4
  <2>3. UNCHANGED <<attempt, due, age, worker, charged, locked, trouble>>
    BY DEF FinishCall, Block
  <2> QED  BY <2>1, <2>2, <2>3 DEF IInv, TypeOK, Outcomes, FinishCall, EndCall
<1>2. CallsSound'
  BY DEF IInv, TypeOK, CallsSound, Rows, Outcomes, FinishCall, Mark, Block,
  EndCall
<1>3. WorkerSound'
  BY DEF IInv, TypeOK, WorkerSound, Rows, Outcomes, FinishCall, Mark, Block,
  EndCall
<1>4. AttemptsBounded' /\ CountsSound'
  BY DEF IInv, TypeOK, AttemptsBounded, CountsSound, WorkerSound, Rows,
  FinishCall, Mark, Block, EndCall
<1>5. CompletedIsCharged' /\ ChargedIsRecorded'
  BY DEF IInv, TypeOK, CompletedIsCharged, ChargedIsRecorded, CallsSound,
  WorkerSound, Rows, FinishCall, Mark, Block, EndCall
<1>6. LeasesAreHeld'
  BY DEF IInv, TypeOK, LeasesAreHeld, WorkerSound, Rows, FinishCall, Mark,
  Block, EndCall
<1> QED  BY <1>1, <1>2, <1>3, <1>4, <1>5, <1>6 DEF IInv

LEMMA CancelCallKeeps ==
  ASSUME IInv, NEW c \in Calls, CancelCall(c)
  PROVE  IInv'
<1>1. TypeOK'
  BY DEF IInv, TypeOK, AttemptsBounded, WorkerSound, CountsSound, Statuses,
  Outcomes, CancelCall, EndCall
<1>2. CallsSound'
  BY DEF IInv, TypeOK, CallsSound, Rows, Outcomes, CancelCall, EndCall
<1>3. WorkerSound'
  BY DEF IInv, TypeOK, WorkerSound, Rows, Outcomes, CancelCall, EndCall
<1>4. AttemptsBounded' /\ CountsSound'
  BY DEF IInv, TypeOK, AttemptsBounded, CountsSound, WorkerSound, Rows,
  CancelCall, EndCall
<1>5. CompletedIsCharged' /\ ChargedIsRecorded'
  BY DEF IInv, TypeOK, CompletedIsCharged, ChargedIsRecorded, CallsSound,
  WorkerSound, Rows, CancelCall, EndCall
<1>6. LeasesAreHeld'
  BY DEF IInv, TypeOK, LeasesAreHeld, WorkerSound, Rows, CancelCall, EndCall
<1> QED  BY <1>1, <1>2, <1>3, <1>4, <1>5, <1>6 DEF IInv

LEMMA ClaimKeeps ==
  ASSUME IInv, Claim
  PROVE  IInv'
<1>1. TypeOK'
  BY DEF IInv, TypeOK, AttemptsBounded, WorkerSound, CountsSound, Statuses,
  Outcomes, Claim, Eligible, OldestBatch
<1>2. CallsSound'
  BY DEF IInv, TypeOK, CallsSound, Rows, Outcomes, Claim, Eligible,
  OldestBatch
<1>3. WorkerSound'
  BY DEF IInv, TypeOK, WorkerSound, Rows, Outcomes, Claim, Eligible,
  OldestBatch
<1>4. AttemptsBounded' /\ CountsSound'
  BY DEF IInv, TypeOK, AttemptsBounded, CountsSound, WorkerSound, Rows, Claim,
  Eligible, OldestBatch
<1>5. CompletedIsCharged' /\ ChargedIsRecorded'
  BY DEF IInv, TypeOK, CompletedIsCharged, ChargedIsRecorded, CallsSound,
  WorkerSound, Rows, Claim, Eligible, OldestBatch
<1>6. LeasesAreHeld'
  BY DEF IInv, TypeOK, LeasesAreHeld, WorkerSound, Rows, Claim, Eligible,
  OldestBatch
<1> QED  BY <1>1, <1>2, <1>3, <1>4, <1>5, <1>6 DEF IInv

LEMMA SendNextKeeps ==
  ASSUME IInv, SendNext
  PROVE  IInv'
<1>1. TypeOK'
  BY DEF IInv, TypeOK, AttemptsBounded, WorkerSound, CountsSound, Statuses,
  Outcomes, SendNext
<1>2. CallsSound'
  BY DEF IInv, TypeOK, CallsSound, Rows, Outcomes, SendNext
<1>3. WorkerSound'
  BY DEF IInv, TypeOK, WorkerSound, Rows, Outcomes, SendNext
<1>4. AttemptsBounded' /\ CountsSound'
  BY DEF IInv, TypeOK, AttemptsBounded, CountsSound, WorkerSound, Rows,
  SendNext
<1>5. CompletedIsCharged' /\ ChargedIsRecorded'
  BY DEF IInv, TypeOK, CompletedIsCharged, ChargedIsRecorded, CallsSound,
  WorkerSound, Rows, SendNext
<1>6. LeasesAreHeld'
  BY DEF IInv, TypeOK, LeasesAreHeld, WorkerSound, Rows, SendNext
<1> QED  BY <1>1, <1>2, <1>3, <1>4, <1>5, <1>6 DEF IInv

LEMMA AnswerWorkerKeeps ==
  ASSUME IInv, NEW o \in Outcomes, AnswerWorker(o)
  PROVE  IInv'
<1>1. TypeOK'
  BY DEF IInv, TypeOK, AttemptsBounded, WorkerSound, CountsSound, Statuses,
  Outcomes, AnswerWorker, Deduct
<1>2. CallsSound'
  BY DEF IInv, TypeOK, CallsSound, Rows, Outcomes, AnswerWorker, Deduct
<1>3. WorkerSound'
  BY DEF IInv, TypeOK, WorkerSound, Rows, Outcomes, AnswerWorker, Deduct
<1>4. AttemptsBounded' /\ CountsSound'
  BY DEF IInv, TypeOK, AttemptsBounded, CountsSound, WorkerSound, Rows,
  AnswerWorker, Deduct
<1>5. CompletedIsCharged' /\ ChargedIsRecorded'
  BY DEF IInv, TypeOK, CompletedIsCharged, ChargedIsRecorded, CallsSound,
  WorkerSound, Rows, AnswerWorker, Deduct
<1>6. LeasesAreHeld'
  BY DEF IInv, TypeOK, LeasesAreHeld, WorkerSound, Rows, AnswerWorker, Deduct
<1> QED  BY <1>1, <1>2, <1>3, <1>4, <1>5, <1>6 DEF IInv

LEMMA RecordOkReloadKeeps ==
  ASSUME IInv, RecordOkReload
  PROVE  IInv'
<1>1. TypeOK'
  BY DEF IInv, TypeOK, AttemptsBounded, WorkerSound, CountsSound, Statuses,
  Outcomes, RecordOkReload
<1>2. CallsSound'
  BY DEF IInv, TypeOK, CallsSound, Rows, Outcomes, RecordOkReload
<1>3. WorkerSound'
  BY DEF IInv, TypeOK, WorkerSound, Rows, Outcomes, RecordOkReload
<1>4. AttemptsBounded' /\ CountsSound'
  BY DEF IInv, TypeOK, AttemptsBounded, CountsSound, WorkerSound, Rows,
  RecordOkReload
<1>5. CompletedIsCharged' /\ ChargedIsRecorded'
  BY DEF IInv, TypeOK, CompletedIsCharged, ChargedIsRecorded, CallsSound,
  WorkerSound, Rows, RecordOkReload
<1>6. LeasesAreHeld'
  BY DEF IInv, TypeOK, LeasesAreHeld, WorkerSound, Rows, RecordOkReload
<1> QED  BY <1>1, <1>2, <1>3, <1>4, <1>5, <1>6 DEF IInv

LEMMA FinishReloadKeeps ==
  ASSUME IInv, FinishReload
  PROVE  IInv'
<1>1. TypeOK'
  BY DEF IInv, TypeOK, AttemptsBounded, WorkerSound, CountsSound, Statuses,
  Outcomes, FinishReload, RowDone
<1>2. CallsSound'
  BY DEF IInv, TypeOK, CallsSound, Rows, Outcomes, FinishReload, RowDone
<1>3. WorkerSound'
  BY DEF IInv, TypeOK, WorkerSound, Rows, Outcomes, FinishReload, RowDone
<1>4. AttemptsBounded' /\ CountsSound'
  BY DEF IInv, TypeOK, AttemptsBounded, CountsSound, WorkerSound, Rows,
  FinishReload, RowDone
<1>5. CompletedIsCharged' /\ ChargedIsRecorded'
  BY DEF IInv, TypeOK, CompletedIsCharged, ChargedIsRecorded, CallsSound,
  WorkerSound, Rows, FinishReload, RowDone
<1>6. LeasesAreHeld'
  BY DEF IInv, TypeOK, LeasesAreHeld, WorkerSound, Rows, FinishReload, RowDone
<1> QED  BY <1>1, <1>2, <1>3, <1>4, <1>5, <1>6 DEF IInv

LEMMA RecordOkKeeps ==
  ASSUME IInv, RecordOk
  PROVE  IInv'
<1>1. TypeOK'
  BY DEF IInv, TypeOK, AttemptsBounded, WorkerSound, CountsSound, Statuses,
  Outcomes, RecordOk, RowDone
<1>2. CallsSound'
  BY DEF IInv, TypeOK, CallsSound, Rows, Outcomes, RecordOk, RowDone
<1>3. WorkerSound'
  BY DEF IInv, TypeOK, WorkerSound, Rows, Outcomes, RecordOk, RowDone
<1>4. AttemptsBounded' /\ CountsSound'
  BY DEF IInv, TypeOK, AttemptsBounded, CountsSound, WorkerSound, Rows,
  RecordOk, RowDone
<1>5. CompletedIsCharged' /\ ChargedIsRecorded'
  BY DEF IInv, TypeOK, CompletedIsCharged, ChargedIsRecorded, CallsSound,
  WorkerSound, Rows, RecordOk, RowDone
<1>6. LeasesAreHeld'
  BY DEF IInv, TypeOK, LeasesAreHeld, WorkerSound, Rows, RecordOk, RowDone
<1> QED  BY <1>1, <1>2, <1>3, <1>4, <1>5, <1>6 DEF IInv

LEMMA RecordTerminalKeeps ==
  ASSUME IInv, RecordTerminal
  PROVE  IInv'
<1>1. TypeOK'
  BY DEF IInv, TypeOK, AttemptsBounded, WorkerSound, CountsSound, Statuses,
  Outcomes, RecordTerminal, RowDone
<1>2. CallsSound'
  BY DEF IInv, TypeOK, CallsSound, Rows, Outcomes, RecordTerminal, RowDone
<1>3. WorkerSound'
  BY DEF IInv, TypeOK, WorkerSound, Rows, Outcomes, RecordTerminal, RowDone
<1>4. AttemptsBounded' /\ CountsSound'
  BY DEF IInv, TypeOK, AttemptsBounded, CountsSound, WorkerSound, Rows,
  RecordTerminal, RowDone
<1>5. CompletedIsCharged' /\ ChargedIsRecorded'
  BY DEF IInv, TypeOK, CompletedIsCharged, ChargedIsRecorded, CallsSound,
  WorkerSound, Rows, RecordTerminal, RowDone
<1>6. LeasesAreHeld'
  BY DEF IInv, TypeOK, LeasesAreHeld, WorkerSound, Rows, RecordTerminal,
  RowDone
<1> QED  BY <1>1, <1>2, <1>3, <1>4, <1>5, <1>6 DEF IInv

LEMMA RecordRetryableKeeps ==
  ASSUME IInv, RecordRetryable
  PROVE  IInv'
<1>1. TypeOK'
  <2>1. wcur \in claimed /\ wcur \in Keys
    BY DEF IInv, TypeOK, WorkerSound, RecordRetryable
  <2>2. snap[wcur] + 1 \in 0 .. MAX_ATTEMPTS + interrupted
    BY <2>1 DEF IInv, TypeOK, CountsSound
  <2>3. attempt' \in [Keys -> 0 .. MAX_ATTEMPTS + interrupted]
    BY <2>1, <2>2 DEF IInv, TypeOK, RecordRetryable
  <2>4. status' \in [Keys -> Statuses] /\ due' \in [Keys -> BOOLEAN]
    BY ZenonT(40), <2>1 DEF IInv, TypeOK, RecordRetryable, RowDone, Statuses
  <2>5. snap' \in [Keys -> 0 .. MAX_ATTEMPTS + interrupted]
    BY <2>1 DEF IInv, TypeOK, RecordRetryable, RowDone
  <2> QED  BY <2>1, <2>3, <2>4, <2>5 DEF IInv, TypeOK, WorkerSound, RecordRetryable, RowDone, Outcomes
<1>2. CallsSound'
  BY DEF IInv, TypeOK, CallsSound, Rows, Outcomes, RecordRetryable, RowDone
<1>3. WorkerSound'
  BY DEF IInv, TypeOK, WorkerSound, Rows, Outcomes, RecordRetryable, RowDone
<1>4. AttemptsBounded' /\ CountsSound'
  BY DEF IInv, TypeOK, AttemptsBounded, CountsSound, WorkerSound, Rows,
  RecordRetryable, RowDone
<1>5. CompletedIsCharged' /\ ChargedIsRecorded'
  BY DEF IInv, TypeOK, CompletedIsCharged, ChargedIsRecorded, CallsSound,
  WorkerSound, Rows, RecordRetryable, RowDone
<1>6. LeasesAreHeld'
  BY DEF IInv, TypeOK, LeasesAreHeld, WorkerSound, Rows, RecordRetryable,
  RowDone
<1> QED  BY <1>1, <1>2, <1>3, <1>4, <1>5, <1>6 DEF IInv

LEMMA RequeueKeeps ==
  ASSUME IInv, Requeue
  PROVE  IInv'
<1>1. TypeOK'
  BY DEF IInv, TypeOK, AttemptsBounded, WorkerSound, CountsSound, Statuses,
  Outcomes, Requeue
<1>2. CallsSound'
  BY DEF IInv, TypeOK, CallsSound, Rows, Outcomes, Requeue
<1>3. WorkerSound'
  BY DEF IInv, TypeOK, WorkerSound, Rows, Outcomes, Requeue
<1>4. AttemptsBounded' /\ CountsSound'
  BY DEF IInv, TypeOK, AttemptsBounded, CountsSound, WorkerSound, Rows,
  Requeue
<1>5. CompletedIsCharged' /\ ChargedIsRecorded'
  BY DEF IInv, TypeOK, CompletedIsCharged, ChargedIsRecorded, CallsSound,
  WorkerSound, Rows, Requeue
<1>6. LeasesAreHeld'
  BY DEF IInv, TypeOK, LeasesAreHeld, WorkerSound, Rows, Requeue
<1> QED  BY <1>1, <1>2, <1>3, <1>4, <1>5, <1>6 DEF IInv

LEMMA BackoffElapsesKeeps ==
  ASSUME IInv, NEW k \in Keys, BackoffElapses(k)
  PROVE  IInv'
<1>1. TypeOK'
  BY DEF IInv, TypeOK, AttemptsBounded, WorkerSound, CountsSound, Statuses,
  Outcomes, BackoffElapses
<1>2. CallsSound'
  BY DEF IInv, TypeOK, CallsSound, Rows, Outcomes, BackoffElapses
<1>3. WorkerSound'
  BY DEF IInv, TypeOK, WorkerSound, Rows, Outcomes, BackoffElapses
<1>4. AttemptsBounded' /\ CountsSound'
  BY DEF IInv, TypeOK, AttemptsBounded, CountsSound, WorkerSound, Rows,
  BackoffElapses
<1>5. CompletedIsCharged' /\ ChargedIsRecorded'
  BY DEF IInv, TypeOK, CompletedIsCharged, ChargedIsRecorded, CallsSound,
  WorkerSound, Rows, BackoffElapses
<1>6. LeasesAreHeld'
  BY DEF IInv, TypeOK, LeasesAreHeld, WorkerSound, Rows, BackoffElapses
<1> QED  BY <1>1, <1>2, <1>3, <1>4, <1>5, <1>6 DEF IInv

\* What a pass of the monitor, whole or cut, does to a row, and what it leaves
\* alone: a row counts another attempt only if it was processing, one without
\* attempts left is pending only if the pass was cut.
CountedRow(k) ==
  \/ status'[k] = status[k] /\ attempt'[k] = attempt[k]
  \/ /\ status[k] = "pending" /\ status'[k] = "dead_letter"
     /\ attempt'[k] = attempt[k] /\ attempt[k] >= MAX_ATTEMPTS
  \/ /\ status[k] = "processing" /\ attempt'[k] = attempt[k] + 1
     /\ \/ status'[k] = "dead_letter" /\ attempt[k] + 1 >= MAX_ATTEMPTS
        \/ status'[k] = "pending" /\ attempt[k] + 1 < MAX_ATTEMPTS + interrupted'

RowsCounted ==
  /\ status' \in [Keys -> Statuses]
  /\ attempt' \in [Keys -> 0 .. MAX_ATTEMPTS + interrupted']
  /\ \A k \in Keys : CountedRow(k)
  /\ UNCHANGED <<due, age>>

LEMMA ResetRows ==
  ASSUME IInv, NEW S \in Expirable, Reset(S), interrupted' = interrupted + 1
  PROVE  RowsCounted
<1> USE DEF IInv, TypeOK, AttemptsBounded
<1>1. \A k \in S : k \in Keys /\ status[k] = "processing"
  BY DEF Expirable
<1>2. \A k \in Keys : attempt[k] + 1 \in Nat
                      /\ (status[k] = "processing" => attempt[k] + 1 < MAX_ATTEMPTS + interrupted')
  OBVIOUS
<1>3. attempt' \in [Keys -> 0 .. MAX_ATTEMPTS + interrupted']
  BY <1>1, <1>2 DEF Reset
<1>4. status' \in [Keys -> Statuses]
  BY DEF Reset, Statuses
<1> QED  BY <1>1, <1>2, <1>3, <1>4 DEF Reset, RowsCounted, CountedRow

LEMMA ExpiredRows ==
  ASSUME IInv, NEW S \in Expirable, Expire(S), interrupted' = interrupted
  PROVE  RowsCounted
<1> USE DEF IInv, TypeOK, AttemptsBounded
<1>1. \A k \in S : k \in Keys /\ status[k] = "processing"
  BY DEF Expirable
<1>2. \A k \in Keys : attempt[k] \in Nat
                      /\ (status[k] = "processing" => attempt[k] + 1 <= MAX_ATTEMPTS + interrupted')
  OBVIOUS
<1>3. attempt' \in [Keys -> 0 .. MAX_ATTEMPTS + interrupted']
  BY <1>1, <1>2 DEF Expire
<1>4. status' \in [Keys -> Statuses]
  BY DEF Expire, Statuses
<1>5. \A k \in Keys : CountedRow(k)
  BY <1>1, <1>2 DEF Expire, CountedRow
<1> QED  BY <1>3, <1>4, <1>5 DEF Expire, RowsCounted

\* The monitor, whole, cut by an error or blocked, counts rows and no more.
LEMMA MonitorCounts ==
  ASSUME IInv, MonitorExpiredLeases \/ MonitorFails
  PROVE  /\ RowsCounted \/ UNCHANGED <<table, interrupted>>
         /\ LeaseMonitor
         /\ frozen' \in BOOLEAN
         /\ faults' \in 0 .. MaxFaults
         /\ interrupted' \in 0 .. faults' + (IF frozen' THEN 1 ELSE 0)
         /\ interrupted' >= interrupted /\ faults' >= faults
         /\ UNCHANGED <<worker, calls, charged, locked>>
<1> USE DEF IInv, TypeOK
<1>1. CASE MonitorExpiredLeases
  <2>1. PICK S \in Expirable :
          \/ Block /\ UNCHANGED <<calls, interrupted>>
          \/ Expire(S) /\ UNCHANGED <<calls, loop, interrupted>>
          \/ Reset(S) /\ frozen' = TRUE /\ interrupted' = interrupted + 1
             /\ UNCHANGED <<calls, locked>>
    BY <1>1 DEF MonitorExpiredLeases
  <2>2. LeaseMonitor /\ ~frozen /\ UNCHANGED <<worker, charged, faults>>
    BY <1>1 DEF MonitorExpiredLeases
  <2>3. CASE Block /\ UNCHANGED <<calls, interrupted>>
    BY <2>2, <2>3 DEF Block
  <2>4. CASE Expire(S) /\ UNCHANGED <<calls, loop, interrupted>>
    BY <2>2, <2>4, ExpiredRows
  <2>5. CASE Reset(S) /\ frozen' = TRUE /\ interrupted' = interrupted + 1
             /\ UNCHANGED <<calls, locked>>
    BY <2>2, <2>5, ResetRows
  <2> QED  BY <2>1, <2>3, <2>4, <2>5
<1>2. CASE MonitorFails
  BY <1>2, ResetRows DEF MonitorFails, ResetOnly
<1> QED  BY <1>1, <1>2

LEMMA MonitorKeeps ==
  ASSUME IInv, MonitorExpiredLeases \/ MonitorFails
  PROVE  IInv'
<1>1. TypeOK'
  BY MonitorCounts DEF RowsCounted, IInv, TypeOK, WorkerSound, Outcomes
<1>2. Rows' = Rows
  BY MonitorCounts DEF RowsCounted, CountedRow, IInv, TypeOK, Rows
<1>3. CallsSound' /\ WorkerSound'
  BY <1>2, MonitorCounts DEF IInv, CallsSound, WorkerSound
<1>4. AttemptsBounded'
  BY MonitorCounts DEF RowsCounted, CountedRow, IInv, TypeOK, AttemptsBounded
<1>5. CountsSound'
  BY <1>2, MonitorCounts DEF RowsCounted, CountedRow, IInv, TypeOK, CountsSound, WorkerSound, Rows
<1>6. CompletedIsCharged' /\ ChargedIsRecorded'
  BY <1>2, MonitorCounts DEF RowsCounted, CountedRow, IInv, TypeOK, CompletedIsCharged,
     ChargedIsRecorded
<1>7. LeasesAreHeld'
  BY MonitorCounts DEF LeasesAreHeld
<1> QED  BY <1>1, <1>3, <1>4, <1>5, <1>6, <1>7 DEF IInv

LEMMA WorkerFailsKeeps ==
  ASSUME IInv, WorkerFails
  PROVE  IInv'
<1>1. TypeOK'
  BY DEF IInv, TypeOK, AttemptsBounded, WorkerSound, CountsSound, Statuses,
  Outcomes, WorkerFails, Abandon
<1>2. CallsSound'
  BY DEF IInv, TypeOK, CallsSound, Rows, Outcomes, WorkerFails, Abandon
<1>3. WorkerSound'
  BY DEF IInv, TypeOK, WorkerSound, Rows, Outcomes, WorkerFails, Abandon
<1>4. AttemptsBounded' /\ CountsSound'
  BY DEF IInv, TypeOK, AttemptsBounded, CountsSound, WorkerSound, Rows,
  WorkerFails, Abandon
<1>5. CompletedIsCharged' /\ ChargedIsRecorded'
  BY DEF IInv, TypeOK, CompletedIsCharged, ChargedIsRecorded, CallsSound,
  WorkerSound, Rows, WorkerFails, Abandon
<1>6. LeasesAreHeld'
  BY DEF IInv, TypeOK, LeasesAreHeld, WorkerSound, Rows, WorkerFails, Abandon
<1> QED  BY <1>1, <1>2, <1>3, <1>4, <1>5, <1>6 DEF IInv

\* What the table is after a crash: as it was, or reset by a pass that was cut.
LEMMA CrashCounts ==
  ASSUME IInv, Crash
  PROVE  /\ RowsCounted \/ UNCHANGED <<table, interrupted>>
         /\ UNCHANGED table \/ LeaseMonitor
         /\ faults' \in 0 .. MaxFaults /\ faults' > 0
         /\ interrupted' \in 0 .. faults'
         /\ interrupted' >= interrupted
         /\ Rows' = Rows
<1> USE DEF IInv, TypeOK
<1>1. ASSUME ResetOnly PROVE RowsCounted
  BY <1>1, ResetRows DEF ResetOnly
<1>2. CASE ResetOnly
  BY <1>1, <1>2 DEF Crash, ResetOnly, RowsCounted, CountedRow, Rows
<1>3. CASE UNCHANGED <<table, interrupted>>
  BY <1>3 DEF Crash, Rows
<1> QED  BY <1>2, <1>3 DEF Crash

LEMMA CrashKeeps ==
  ASSUME IInv, Crash
  PROVE  IInv'
<1>0. claimed' = {} /\ wcur' = NoKey /\ wpc' = "sleep" /\ wreply' = "network" /\ locked' = NoKey
      /\ frozen' = FALSE /\ charged \subseteq charged'
  BY DEF Crash, Abandon
<1>1. TypeOK'
  <2>1. charged' \subseteq Keys
    BY DEF IInv, TypeOK, WorkerSound, Crash
  <2>2. cpc' \in [Calls -> {"idle", "sending", "replied", "done"}] /\ creply' \in [Calls -> Outcomes]
    BY DEF IInv, TypeOK, Outcomes, Crash
  <2>3. snap' \in [Keys -> 0 .. MAX_ATTEMPTS + interrupted']
    <3>1. snap' = [k \in Keys |-> 0]
      BY DEF Crash, Abandon
    <3>2. interrupted' \in Nat
      <4>1. interrupted' \in 0 .. faults'
        BY CrashCounts
      <4> QED  BY <4>1
    <3>3. 0 \in 0 .. MAX_ATTEMPTS + interrupted'
      <4>1. \A a, b \in Nat : 0 \in 0 .. a + b
        OBVIOUS
      <4>2. MAX_ATTEMPTS \in Nat
        OBVIOUS
      <4> QED  BY <3>2, <4>1, <4>2
    <3> QED  BY <3>1, <3>3
  <2>4. /\ status' \in [Keys -> Statuses] /\ attempt' \in [Keys -> 0 .. MAX_ATTEMPTS + interrupted']
        /\ due' \in [Keys -> BOOLEAN] /\ age' \in [Keys -> Nat]
    BY CrashCounts DEF RowsCounted, IInv, TypeOK
  <2>5. /\ wpc' = "sleep" /\ claimed' \subseteq Keys /\ wcur' \in Keys \cup {NoKey}
        /\ wreply' \in Outcomes /\ locked' \in {NoKey, wcur'} /\ frozen' = FALSE
    BY <1>0 DEF Outcomes
  <2>6. faults' \in 0 .. MaxFaults /\ interrupted' \in 0 .. faults' + (IF frozen' THEN 1 ELSE 0)
    BY <1>0, CrashCounts
  <2>7. ~LeaseMonitor => interrupted' = 0
    BY DEF IInv, TypeOK, Crash, ResetOnly
  <2> QED  BY <2>1, <2>2, <2>3, <2>4, <2>5, <2>6, <2>7 DEF TypeOK
<1>2. CallsSound'
  <2>1. \A c \in Calls : cpc'[c] \notin {"sending", "replied"} /\ creply'[c] = "network"
    BY DEF IInv, TypeOK, Crash
  <2> QED  BY <2>1 DEF CallsSound
<1>3. WorkerSound'
  BY <1>0 DEF WorkerSound
<1>4. AttemptsBounded'
  BY CrashCounts DEF RowsCounted, CountedRow, IInv, TypeOK, AttemptsBounded
<1>5. CountsSound'
  BY <1>0, CrashCounts DEF RowsCounted, CountedRow, IInv, TypeOK, CountsSound, Rows
<1>6. CompletedIsCharged'
  BY <1>0, CrashCounts DEF RowsCounted, CountedRow, IInv, TypeOK, CompletedIsCharged
<1>7. ChargedIsRecorded'
  <2>1. {KeyOf[c] : c \in {d \in Calls : cpc[d] = "sending"}}
          \cup (IF wpc = "sending" THEN {wcur} ELSE {}) \subseteq Rows
    BY DEF IInv, CallsSound, WorkerSound
  <2>2. charged' \subseteq Rows
    BY <2>1 DEF IInv, ChargedIsRecorded, Crash
  <2> QED  BY <2>2, CrashCounts DEF ChargedIsRecorded
<1>8. LeasesAreHeld'
  BY <1>0, CrashCounts DEF IInv, TypeOK, LeasesAreHeld
<1> QED  BY <1>1, <1>2, <1>3, <1>4, <1>5, <1>6, <1>7, <1>8 DEF IInv

\* Every step keeps the invariant.
LEMMA NextHolds ==
  ASSUME IInv, [Next]_vars
  PROVE  IInv'
<1>1. CASE UNCHANGED vars
  BY <1>1 DEF vars, IInv, TypeOK, AttemptsBounded, CallsSound, WorkerSound, CountsSound,
     CompletedIsCharged, ChargedIsRecorded, LeasesAreHeld, Rows
<1>2. CASE CallStep
  BY <1>2, EnqueueKeeps, SkipUsageKeeps, EnqueueErrorKeeps, FinishCallKeeps,
     CancelCallKeeps, AnswerCallKeeps DEF CallStep
<1>3. CASE WorkerStep
  BY <1>3, ClaimKeeps, SendNextKeeps, RecordOkReloadKeeps, FinishReloadKeeps, RecordOkKeeps,
     RecordTerminalKeeps, RecordRetryableKeeps, RequeueKeeps, AnswerWorkerKeeps DEF WorkerStep
<1> QED
  BY <1>1, <1>2, <1>3, BackoffElapsesKeeps, MonitorKeeps, WorkerFailsKeeps,
     CrashKeeps DEF Next

\* The inductive invariant holds in every reachable state.
THEOREM Inductive == Spec => []IInv
BY InitHolds, NextHolds, PTL DEF Spec

\* Every variable keeps its type: in particular no row counts more than
\* MAX_ATTEMPTS attempts and one for each monitor pass that was cut in two, and
\* there is at most one such pass for each fault, and one more while the loop
\* is blocked.  Without the monitor, which the app does not schedule, there is none.
THEOREM TypeCorrect == Spec => []TypeOK
<1>1. IInv => TypeOK
  BY DEF IInv
<1> QED  BY <1>1, Inductive, PTL

\* A row says completed only if the marketplace deducted its key.
THEOREM CompletedCharged == Spec => []CompletedIsCharged
<1>1. IInv => CompletedIsCharged
  BY DEF IInv
<1> QED  BY <1>1, Inductive, PTL

\* No key is deducted that the device has no row for.
THEOREM ChargedRecorded == Spec => []ChargedIsRecorded
<1>1. IInv => ChargedIsRecorded
  BY DEF IInv
<1> QED  BY <1>1, Inductive, PTL

\* A row waiting for its retry has attempts left, and so does every open row
\* but for what monitor passes cut in two have cost; a dead letter has none.
THEOREM AttemptsStayBounded == Spec => []AttemptsBounded
<1>1. IInv => AttemptsBounded
  BY DEF IInv
<1> QED  BY <1>1, Inductive, PTL

\* Without faults every processing row is held by the processor.
THEOREM LeasesStayHeld == Spec => []LeasesAreHeld
<1>1. IInv => LeasesAreHeld
  BY DEF IInv
<1> QED  BY <1>1, Inductive, PTL

-----------------------------------------------------------------------------
(* The action properties: what one step from a good state may never do *)

\* Only the late answer of the processor's own request reopens a settled row.
LEMMA SettledStep ==
  ASSUME IInv, [Next]_vars, NEW k \in Keys,
         status[k] \in {"completed", "failed_terminal", "dead_letter"},
         status'[k] # status[k]
  PROVE  wpc \in {"replied", "reload"} /\ k = wcur
<1> USE DEF IInv, TypeOK
<1>1. CASE CallStep
  BY <1>1 DEF CallStep, Enqueue, Insert, Block, EndCall, SkipUsage, EnqueueError,
     FinishCall, Mark, CancelCall, AnswerCall
<1>2. CASE WorkerStep
  BY <1>2 DEF WorkerStep, Claim, Eligible, OldestBatch, SendNext, RecordOkReload, FinishReload,
     RecordOk, RecordTerminal, RecordRetryable, RowDone, Requeue, AnswerWorker
<1>3. CASE MonitorExpiredLeases \/ MonitorFails
  BY <1>3, MonitorCounts DEF RowsCounted, CountedRow
<1>4. CASE Crash
  BY <1>4, CrashCounts DEF RowsCounted, CountedRow
<1> QED
  BY <1>1, <1>2, <1>3, <1>4 DEF Next, vars, BackoffElapses, WorkerFails, Abandon

\* A settled row changes only by the late answer of the processor's own request.
THEOREM SettledReopened == Spec => SettledReopenedOnlyInFlight
<1>1. IInv /\ [Next]_vars =>
        [\A k \in Keys :
           /\ status[k] \in {"completed", "failed_terminal", "dead_letter"}
           /\ status'[k] # status[k]
           => wpc \in {"replied", "reload"} /\ k = wcur]_vars
  BY SettledStep
<1> QED  BY <1>1, Inductive, PTL DEF Spec, SettledReopenedOnlyInFlight

\* Nothing leaves dead_letter unless a lease monitor runs.
THEOREM DeadLetterFinal == Spec => DeadLetterIsFinal
<1>1. IInv /\ [Next]_vars =>
        [\A k \in Keys : status[k] = "dead_letter" /\ ~LeaseMonitor
           => status'[k] = "dead_letter"]_vars
  BY SettledStep DEF IInv, WorkerSound, LeasesAreHeld
<1> QED  BY <1>1, Inductive, PTL DEF Spec, DeadLetterIsFinal

\* No step forgets an attempt: the count the processor writes is at least the
\* row's own, whatever the monitor did since the claim.
LEMMA AttemptStep ==
  ASSUME IInv, [Next]_vars, NEW k \in Keys
  PROVE  attempt'[k] >= attempt[k]
<1> USE DEF IInv, TypeOK
<1>1. CASE CallStep
  BY <1>1 DEF CallStep, Enqueue, Insert, Block, EndCall, SkipUsage, EnqueueError,
     FinishCall, CancelCall, AnswerCall
<1>2. CASE RecordRetryable
  <2>1. wcur \in claimed
    BY <1>2 DEF WorkerSound, RecordRetryable
  <2>2. attempt[wcur] <= snap[wcur] + 1
    BY <2>1 DEF CountsSound
  <2> QED  BY <1>2, <2>1, <2>2 DEF RecordRetryable
<1>3. CASE WorkerStep /\ ~RecordRetryable
  BY <1>3 DEF WorkerStep, Claim, SendNext, RecordOkReload, FinishReload, RecordOk,
     RecordTerminal, Requeue, AnswerWorker
<1>4. CASE MonitorExpiredLeases \/ MonitorFails
  BY <1>4, MonitorCounts DEF RowsCounted, CountedRow
<1>5. CASE Crash
  BY <1>5, CrashCounts DEF RowsCounted, CountedRow
<1> QED
  BY <1>1, <1>2, <1>3, <1>4, <1>5 DEF Next, WorkerStep, vars, BackoffElapses, WorkerFails, Abandon

\* No step forgets an attempt, whatever the monitor did since the claim.
THEOREM AttemptsKept == Spec => AttemptsNeverLost
<1>1. IInv /\ [Next]_vars => [\A k \in Keys : attempt'[k] >= attempt[k]]_vars
  BY AttemptStep
<1> QED  BY <1>1, Inductive, PTL DEF Spec, AttemptsNeverLost

-----------------------------------------------------------------------------
(* The queue implements the ledger: every step is a ledger step or a stutter *)

Paid == {k \in Keys : status[k] = "completed"}

\* A step that leaves the three images alone, or is one of the ledger's actions.
LEMMA ChargeStep ==
  ASSUME IInv, Rows' = Rows, Paid' = Paid,
         NEW S \in SUBSET Rows, charged' = charged \cup S
  PROVE  [Ledger!LedgerNext]_(Ledger!ledgerVars)
BY DEF Ledger!LedgerNext, Ledger!Charge, Ledger!ledgerVars, Paid, Rows

LEMMA SettleStep ==
  ASSUME IInv, NEW k \in Rows, NEW s \in Statuses \ {"none"},
         status' = [status EXCEPT ![k] = s], charged' = charged,
         s = "completed" => k \in charged
  PROVE  [Ledger!LedgerNext]_(Ledger!ledgerVars)
<1>1. Rows' = Rows
  BY DEF IInv, TypeOK, Rows
<1>2. CASE s = "completed"
  <2>1. Paid' = Paid \cup {k}
    BY <1>2 DEF IInv, TypeOK, Paid, Rows
  <2> QED  BY <1>1, <1>2, <2>1 DEF Ledger!LedgerNext, Ledger!ReportPaid, Paid, Rows
<1>3. CASE s # "completed"
  <2>1. Paid' = Paid \ {k}
    BY <1>3 DEF IInv, TypeOK, Paid, Rows
  <2> QED  BY <1>1, <2>1 DEF Ledger!LedgerNext, Ledger!Reopen, Paid, Rows
<1> QED  BY <1>2, <1>3

LEMMA RefinementStep ==
  ASSUME IInv, [Next]_vars
  PROVE  [Ledger!LedgerNext]_(Ledger!ledgerVars)
<1> USE DEF IInv, TypeOK
<1>1. ASSUME NEW c \in Calls, Enqueue(c)
      PROVE  [Ledger!LedgerNext]_(Ledger!ledgerVars)
  <2>1. CASE status' = status
    BY <1>1, <2>1 DEF Enqueue, Ledger!ledgerVars, Rows
  <2>2. CASE status[KeyOf[c]] = "none" /\ status' = [status EXCEPT ![KeyOf[c]] = "pending"]
    <3>1. KeyOf[c] \notin Rows /\ Rows' = Rows \cup {KeyOf[c]} /\ Paid' = Paid
      BY <2>2 DEF Rows, Paid
    <3> QED  BY <1>1, <3>1 DEF Enqueue, Ledger!LedgerNext, Ledger!Record, Paid
  <2> QED  BY <1>1, <2>1, <2>2 DEF Enqueue, Insert, Block
<1>2. ASSUME NEW c \in Calls, CancelCall(c) \/ \E o \in Outcomes : AnswerCall(c, o)
      PROVE  [Ledger!LedgerNext]_(Ledger!ledgerVars)
  <2>1. cpc[c] = "sending" => KeyOf[c] \in Rows
    BY DEF CallsSound
  <2>2. charged' \in {charged, charged \cup {KeyOf[c]}}
    BY <1>2 DEF AnswerCall, CancelCall, Deduct
  <2>3. \E S \in SUBSET Rows : charged' = charged \cup S
    <3>1. CASE charged' = charged
      <4>1. charged' = charged \cup {} /\ {} \in SUBSET Rows
        BY <3>1
      <4> QED  BY <4>1
    <3>2. CASE charged' # charged
      BY <1>2, <2>1, <2>2, <3>2 DEF AnswerCall, CancelCall
    <3> QED  BY <3>1, <3>2
  <2>4. Rows' = Rows /\ Paid' = Paid
    BY <1>2 DEF AnswerCall, CancelCall, Rows, Paid
  <2> QED  BY <2>3, <2>4, ChargeStep
<1>3. ASSUME NEW c \in Calls, FinishCall(c)
      PROVE  [Ledger!LedgerNext]_(Ledger!ledgerVars)
  <2>1. KeyOf[c] \in Rows /\ (creply[c] = "ok" => KeyOf[c] \in charged) /\ charged' = charged
    BY <1>3 DEF FinishCall, CallsSound
  <2>2. CASE status' = status
    BY <2>1, <2>2 DEF Ledger!ledgerVars, Rows
  <2>3. CASE status' = [status EXCEPT ![KeyOf[c]] = IF creply[c] = "ok" THEN "completed" ELSE "failed_terminal"]
    BY <2>1, <2>3, SettleStep DEF Statuses
  <2> QED  BY <1>3, <2>2, <2>3 DEF FinishCall, Mark, Block
<1>4. ASSUME RecordOk \/ FinishReload \/ RecordTerminal \/ RecordRetryable
      PROVE  [Ledger!LedgerNext]_(Ledger!ledgerVars)
  <2>1. wcur \in Rows /\ charged' = charged /\ (wreply = "ok" => wcur \in charged)
    BY <1>4 DEF WorkerSound, RecordOk, FinishReload, RecordTerminal, RecordRetryable
  <2>2. \E s \in Statuses \ {"none"} :
          status' = [status EXCEPT ![wcur] = s] /\ (s = "completed" => wreply = "ok")
    BY <1>4 DEF WorkerSound, RecordOk, FinishReload, RecordTerminal, RecordRetryable, RowDone, Statuses
  <2> QED  BY <2>1, <2>2, SettleStep
<1>5. CASE Claim \/ Requeue
  <2>1. Rows' = Rows /\ Paid' = Paid /\ charged' = charged
    BY ZenonT(40), <1>5 DEF Claim, Eligible, Requeue, Rows, Paid
  <2> QED  BY <2>1 DEF Ledger!ledgerVars, Paid
<1>9. CASE MonitorExpiredLeases \/ MonitorFails
  <2>1. Rows' = Rows /\ Paid' = Paid /\ charged' = charged
    BY <1>9, MonitorCounts DEF RowsCounted, CountedRow, Rows, Paid
  <2> QED  BY <2>1 DEF Ledger!ledgerVars, Paid
<1>6. CASE \E o \in Outcomes : AnswerWorker(o)
  <2>1. wcur \in Rows /\ charged' \in {charged, charged \cup {wcur}}
    BY <1>6 DEF AnswerWorker, Deduct, WorkerSound
  <2>2. \E S \in SUBSET Rows : charged' = charged \cup S
    <3>1. CASE charged' = charged
      <4>1. charged' = charged \cup {} /\ {} \in SUBSET Rows
        BY <3>1
      <4> QED  BY <4>1
    <3>2. CASE charged' = charged \cup {wcur}
      BY <2>1, <3>2
    <3> QED  BY <2>1, <3>1, <3>2
  <2>3. Rows' = Rows /\ Paid' = Paid
    BY <1>6 DEF AnswerWorker, Rows, Paid
  <2> QED  BY <2>2, <2>3, ChargeStep
<1>7. CASE Crash
  <2>1. {KeyOf[c] : c \in {d \in Calls : cpc[d] = "sending"}}
          \cup (IF wpc = "sending" THEN {wcur} ELSE {}) \subseteq Rows
    BY DEF CallsSound, WorkerSound
  <2>2. \E S \in SUBSET Rows : charged' = charged \cup S
    BY <1>7, <2>1 DEF Crash
  <2>3. Rows' = Rows /\ Paid' = Paid
    BY <1>7, CrashCounts DEF RowsCounted, CountedRow, Rows, Paid
  <2> QED  BY <2>2, <2>3, ChargeStep
<1>8. CASE UNCHANGED <<status, charged>>
  BY <1>8 DEF Ledger!ledgerVars, Rows
<1> QED
  BY <1>1, <1>2, <1>3, <1>4, <1>5, <1>6, <1>7, <1>8, <1>9 DEF Next, CallStep, WorkerStep, vars,
     SkipUsage, EnqueueError, SendNext, RecordOkReload, BackoffElapses, WorkerFails

\* The detailed billing path keeps the ledger's promise.
THEOREM QueueRefinesLedger == Spec => RefinesLedger
<1>1. Init => Ledger!LedgerInit
  BY DEF Init, Ledger!LedgerInit, Rows
<1>2. IInv /\ [Next]_vars => [Ledger!LedgerNext]_(Ledger!ledgerVars)
  BY RefinementStep
<1> QED  BY <1>1, <1>2, Inductive, PTL DEF Spec, RefinesLedger, Ledger!LedgerSpec
=============================================================================
