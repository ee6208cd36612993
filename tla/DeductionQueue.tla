--------------------------- MODULE DeductionQueue ---------------------------
(***************************************************************************)
(* Credit deductions: MeteringService.report_usage, the persistent queue   *)
(* of app/services/deduction_queue.py and its one consumer, the            *)
(* queue_processor_loop of app/main.py, on the shipped PostgreSQL.         *)
(*                                                                         *)
(* All of them share one asyncio event loop and one table.  A call runs up *)
(* to its next await; a database statement is synchronous, so one that     *)
(* waits for a row lock stops the whole loop (frozen).                     *)
(***************************************************************************)
EXTENDS Naturals, FiniteSets

CONSTANTS
  Keys,          \* idempotency keys
  Calls,         \* executions of report_usage
  KeyOf,         \* the key of each; a client that repeats a message repeats it
  MAX_ATTEMPTS,
  BatchSize,     \* CLAIM_BATCH_SIZE
  AutoReload,    \* auto reload is on: its check may await HTTP
  LeaseMonitor,  \* monitor_expired_leases is scheduled (nothing in app/ does)
  MaxFaults,     \* bound: process crashes and database errors
  NoKey

ASSUME ConstantsAssumption ==
  /\ IsFiniteSet(Keys)
  /\ KeyOf \in [Calls -> Keys]
  /\ MAX_ATTEMPTS \in Nat \ {0}
  /\ BatchSize \in Nat \ {0}
  /\ AutoReload \in BOOLEAN
  /\ LeaseMonitor \in BOOLEAN
  /\ MaxFaults \in Nat
  /\ NoKey \notin Keys

VARIABLES
  \* the deductions table
  status, attempt, due, age,
  \* the queue processor: where it is, the rows it still holds, the attempt
  \* counts it read when it claimed them, the row it is sending, its answer
  wpc, claimed, snap, wcur, wreply,
  \* the report_usage calls
  cpc, creply,
  \* the marketplace: keys it has deducted (it honours the Idempotency-Key)
  charged,
  \* the row locked by the processor's open transaction; the event loop
  locked, frozen,
  \* history: the faults so far; monitor passes cut between their transactions
  faults, interrupted

table  == <<status, attempt, due, age>>
worker == <<wpc, claimed, snap, wcur, wreply>>
calls  == <<cpc, creply>>
loop   == <<locked, frozen>>
trouble == <<faults, interrupted>>
vars   == <<table, worker, calls, charged, loop, trouble>>

Statuses == {"none", "pending", "processing", "completed",
             "failed_terminal", "failed_retryable", "dead_letter"}

\* Answers, by what the code tells apart: 200; 402; 400, 401, 403 or 404; any
\* other status below 500; a body that is not JSON, below 500; 5xx; no answer.
Outcomes == {"ok", "funds", "client", "other", "garbled", "server", "network"}

Init ==
  /\ status = [k \in Keys |-> "none"]
  /\ attempt = [k \in Keys |-> 0]
  /\ due = [k \in Keys |-> FALSE]
  /\ age = [k \in Keys |-> 0]
  /\ wpc = "sleep" /\ claimed = {} /\ wcur = NoKey /\ wreply = "network"
  /\ snap = [k \in Keys |-> 0]
  /\ cpc = [c \in Calls |-> "idle"]
  /\ creply = [c \in Calls |-> "network"]
  /\ charged = {}
  /\ locked = NoKey /\ frozen = FALSE
  /\ faults = 0 /\ interrupted = 0

Rows == {k \in Keys : status[k] # "none"}

-----------------------------------------------------------------------------
(***************************************************************************)
(* The marketplace, POST /credits/deduct.  A repeated key is answered from *)
(* the first deduction, so a key already charged is never refused for lack *)
(* of funds; an answer of 5xx, a garbled body or silence says nothing of   *)
(* what was done.                                                          *)
(***************************************************************************)
Deduct(k, o) ==
  /\ o = "funds" => k \notin charged
  /\ \/ o # "ok" /\ charged' = charged
     \/ o \in {"ok", "garbled", "server", "network"} /\ charged' = charged \cup {k}

\* A statement of another connection on the locked row waits for a coroutine
\* that only this thread could resume; whoever issued it never goes on.
Block == frozen' = TRUE /\ UNCHANGED <<table, locked>>

EndCall(c) ==
  /\ cpc' = [cpc EXCEPT ![c] = "done"]
  /\ creply' = [creply EXCEPT ![c] = "network"]

-----------------------------------------------------------------------------
(* MeteringService.report_usage *)

\* Mutant: the insert is an upsert and revives the row of a repeated key.
InsertUpserts(k) ==
  /\ status' = [status EXCEPT ![k] = "pending"]
  /\ due' = [due EXCEPT ![k] = TRUE]
  /\ age' = [age EXCEPT ![k] = Cardinality(Rows)]
  /\ UNCHANGED attempt

\* The key is new: the row is inserted, due at once.  It is known: nothing changes.
Insert(k) ==
  IF status[k] = "none"
  THEN /\ status' = [status EXCEPT ![k] = "pending"]
       /\ due' = [due EXCEPT ![k] = TRUE]
       /\ age' = [age EXCEPT ![k] = Cardinality(Rows)]
       /\ UNCHANGED attempt
  ELSE UNCHANGED table

Enqueue(c) ==
  /\ ~frozen
  /\ cpc[c] = "idle"
  /\ \/ locked = KeyOf[c] /\ Block /\ EndCall(c)
     \/ /\ locked # KeyOf[c]
        /\ Insert(KeyOf[c])
        /\ cpc' = [cpc EXCEPT ![c] = "sending"]
        /\ UNCHANGED <<creply, loop>>
  /\ UNCHANGED <<worker, charged, trouble>>

\* Authentication is off or the cost is zero: there is nothing to report.
SkipUsage(c) ==
  /\ ~frozen
  /\ cpc[c] = "idle"
  /\ EndCall(c)
  /\ UNCHANGED <<table, worker, charged, loop, trouble>>

\* Mutant: the error of the insert is swallowed and the call goes on.
EnqueueErrorGoesOn(c) ==
  /\ ~frozen
  /\ cpc[c] = "idle"
  /\ faults < MaxFaults /\ faults' = faults + 1
  /\ cpc' = [cpc EXCEPT ![c] = "sending"]
  /\ UNCHANGED <<table, worker, creply, charged, loop, interrupted>>

\* The insert raises: the caller logs it and the usage is never billed.
EnqueueError(c) ==
  /\ ~frozen
  /\ cpc[c] = "idle"
  /\ faults < MaxFaults /\ faults' = faults + 1
  /\ EndCall(c)
  /\ UNCHANGED <<table, worker, charged, loop, interrupted>>

AnswerCall(c, o) ==
  /\ cpc[c] = "sending"
  /\ Deduct(KeyOf[c], o)
  /\ cpc' = [cpc EXCEPT ![c] = "replied"]
  /\ creply' = [creply EXCEPT ![c] = o]
  /\ UNCHANGED <<table, worker, loop, trouble>>

\* mark_completed and mark_failed_terminal change only an open row.
Mark(k, s) ==
  status' = IF status[k] \in {"pending", "processing"}
            THEN [status EXCEPT ![k] = s] ELSE status

FinishCall(c) ==
  LET k == KeyOf[c]
      settles == creply[c] \in {"ok", "funds", "client"}
  IN /\ ~frozen
     /\ cpc[c] = "replied"
     /\ \/ settles /\ locked = k /\ Block
        \/ /\ settles /\ locked # k
           /\ Mark(k, IF creply[c] = "ok" THEN "completed" ELSE "failed_terminal")
           /\ UNCHANGED <<attempt, due, age, loop>>
        \/ ~settles /\ UNCHANGED <<table, loop>>
     /\ EndCall(c)
     /\ UNCHANGED <<worker, charged, trouble>>

\* The user stops the answer, or the socket drops, while the call awaits; a
\* request already sent may still be served.
CancelCall(c) ==
  /\ ~frozen
  /\ cpc[c] \in {"sending", "replied"}
  /\ EndCall(c)
  /\ charged' \in {charged} \cup
       (IF cpc[c] = "sending" THEN {charged \cup {KeyOf[c]}} ELSE {})
  /\ UNCHANGED <<table, worker, loop, trouble>>

-----------------------------------------------------------------------------
(* DeductionQueue.process_all_pending, run every 30 seconds *)

Eligible == {k \in Keys : status[k] = "pending" /\ due[k]}

\* ORDER BY created_at LIMIT CLAIM_BATCH_SIZE
OldestBatch(S) ==
  /\ S \subseteq Eligible
  /\ Cardinality(S) <= BatchSize
  /\ \A k \in Eligible \ S : Cardinality(S) = BatchSize /\ \A j \in S : age[j] <= age[k]

\* Mutant: only rows that were never sent are looked for.
ClaimFresh ==
  /\ ~frozen
  /\ wpc = "sleep"
  /\ \E S \in SUBSET {k \in Eligible : attempt[k] = 0} :
       /\ S # {} /\ Cardinality(S) <= BatchSize
       /\ claimed' = S
       /\ status' = [k \in Keys |-> IF k \in S THEN "processing" ELSE status[k]]
       /\ snap' = [k \in Keys |-> 0]
  /\ wpc' = "next"
  /\ UNCHANGED <<attempt, due, age, wcur, wreply, calls, charged, loop, trouble>>

\* With nothing to claim the pass returns at once, and the loop sleeps again.
Claim ==
  /\ ~frozen
  /\ wpc = "sleep"
  /\ Eligible # {}
  /\ \E S \in SUBSET Eligible :
       /\ OldestBatch(S)
       /\ claimed' = S
       /\ status' = [k \in Keys |-> IF k \in S THEN "processing" ELSE status[k]]
       /\ snap' = [k \in Keys |-> IF k \in S THEN attempt[k] ELSE snap[k]]
  /\ wpc' = "next"
  /\ UNCHANGED <<attempt, due, age, wcur, wreply, calls, charged, loop, trouble>>

SendNext ==
  /\ ~frozen
  /\ wpc = "next"
  /\ \E k \in claimed :
       /\ \A j \in claimed : age[k] <= age[j]
       /\ wcur' = k
  /\ wpc' = "sending"
  /\ UNCHANGED <<table, claimed, snap, wreply, calls, charged, loop, trouble>>

AnswerWorker(o) ==
  /\ wpc = "sending"
  /\ Deduct(wcur, o)
  /\ wpc' = "replied"
  /\ wreply' = o
  /\ UNCHANGED <<table, claimed, snap, wcur, calls, loop, trouble>>

\* The row is overwritten by id: whatever its status has become meanwhile.
RowDone(s) ==
  /\ status' = [status EXCEPT ![wcur] = s]
  /\ claimed' = claimed \ {wcur}
  /\ snap' = [snap EXCEPT ![wcur] = 0]
  /\ wpc' = "next" /\ wcur' = NoKey /\ wreply' = "network"

\* The task loses all it holds.
Abandon(pc) ==
  /\ wpc' = pc /\ claimed' = {} /\ wcur' = NoKey /\ wreply' = "network"
  /\ snap' = [k \in Keys |-> 0]
  /\ locked' = NoKey

\* 200, with auto reload in the way: the update stays uncommitted while
\* check_auto_reload awaits the marketplace.
RecordOkReload ==
  /\ ~frozen
  /\ wpc = "replied" /\ wreply = "ok" /\ AutoReload
  /\ locked' = wcur
  /\ wpc' = "reload"
  /\ UNCHANGED <<table, claimed, snap, wcur, wreply, calls, charged, frozen, trouble>>

FinishReload ==
  /\ ~frozen
  /\ wpc = "reload"
  /\ RowDone("completed")
  /\ locked' = NoKey
  /\ UNCHANGED <<attempt, due, age, calls, charged, frozen, trouble>>

\* 200, and auto reload is off or returns at once: a checkout is pending, or the
\* serial is not usable.
RecordOk ==
  /\ ~frozen
  /\ wpc = "replied" /\ wreply = "ok"
  /\ RowDone("completed")
  /\ UNCHANGED <<attempt, due, age, calls, charged, loop, trouble>>

RecordTerminal ==
  /\ ~frozen
  /\ wpc = "replied" /\ wreply \in {"funds", "client", "other", "garbled"}
  /\ RowDone("failed_terminal")
  /\ UNCHANGED <<attempt, due, age, calls, charged, loop, trouble>>

\* Mutant: the limit is off by one and the row goes straight back to pending.
RecordRetryableOffByOne ==
  /\ ~frozen
  /\ wpc = "replied" /\ wreply \in {"server", "network"}
  /\ attempt' = [attempt EXCEPT ![wcur] = snap[wcur] + 1]
  /\ RowDone(IF snap[wcur] + 1 > MAX_ATTEMPTS THEN "dead_letter" ELSE "pending")
  /\ UNCHANGED <<due, age, calls, charged, loop, trouble>>

\* Mutant: a request that failed is repeated until it succeeds.
RecordRetryableAtOnce ==
  /\ ~frozen
  /\ wpc = "replied" /\ wreply \in {"server", "network"}
  /\ wpc' = "sending"
  /\ UNCHANGED <<table, claimed, snap, wcur, wreply, calls, charged, loop, trouble>>

\* The new count is the one read at the claim plus one.
RecordRetryable ==
  /\ ~frozen
  /\ wpc = "replied" /\ wreply \in {"server", "network"}
  /\ attempt' = [attempt EXCEPT ![wcur] = snap[wcur] + 1]
  /\ \/ /\ snap[wcur] + 1 >= MAX_ATTEMPTS
        /\ RowDone("dead_letter")
        /\ UNCHANGED due
     \/ /\ snap[wcur] + 1 < MAX_ATTEMPTS
        /\ RowDone("failed_retryable")
        /\ due' = [due EXCEPT ![wcur] = FALSE]
  /\ UNCHANGED <<age, calls, charged, loop, trouble>>

\* Mutant: the sweep takes refused rows for retryable ones.
RequeueRefused ==
  /\ ~frozen
  /\ wpc = "next" /\ claimed = {}
  /\ status' = [k \in Keys |->
       IF status[k] \in {"failed_retryable", "failed_terminal"}
         /\ due[k] /\ attempt[k] < MAX_ATTEMPTS
       THEN "pending" ELSE status[k]]
  /\ wpc' = "sleep"
  /\ UNCHANGED <<attempt, due, age, claimed, snap, wcur, wreply, calls, charged,
                 loop, trouble>>

\* Mutant: a row that goes back to pending starts over.
RequeueStartsOver ==
  /\ ~frozen
  /\ wpc = "next" /\ claimed = {}
  /\ LET T == {k \in Keys : status[k] = "failed_retryable" /\ due[k]}
     IN /\ status' = [k \in Keys |-> IF k \in T THEN "pending" ELSE status[k]]
        /\ attempt' = [k \in Keys |-> IF k \in T THEN 0 ELSE attempt[k]]
  /\ wpc' = "sleep"
  /\ UNCHANGED <<due, age, claimed, snap, wcur, wreply, calls, charged, loop, trouble>>

\* The end of a pass that had claimed something.
Requeue ==
  /\ ~frozen
  /\ wpc = "next" /\ claimed = {}
  /\ status' = [k \in Keys |->
       IF status[k] = "failed_retryable" /\ due[k] /\ attempt[k] < MAX_ATTEMPTS
       THEN "pending" ELSE status[k]]
  /\ wpc' = "sleep"
  /\ UNCHANGED <<attempt, due, age, claimed, snap, wcur, wreply, calls, charged,
                 loop, trouble>>

\* next_retry_at passes.
BackoffElapses(k) ==
  /\ status[k] = "failed_retryable" /\ ~due[k]
  /\ due' = [due EXCEPT ![k] = TRUE]
  /\ UNCHANGED <<status, attempt, age, worker, calls, charged, loop, trouble>>

-----------------------------------------------------------------------------
(***************************************************************************)
(* monitor_expired_leases: one transaction returns the rows whose lease is *)
(* over to pending and counts an attempt, and when it changed any, another *)
(* buries every pending row that has no attempts left.  What stops it in   *)
(* between leaves rows that are claimed again.                             *)
(***************************************************************************)
Reset(S) ==
  /\ status' = [k \in Keys |-> IF k \in S THEN "pending" ELSE status[k]]
  /\ attempt' = [k \in Keys |-> IF k \in S THEN attempt[k] + 1 ELSE attempt[k]]
  /\ UNCHANGED <<due, age>>

\* Both transactions.
Expire(S) ==
  LET count(k) == IF k \in S THEN attempt[k] + 1 ELSE attempt[k]
      back == S \cup {k \in Keys : status[k] = "pending"}
  IN /\ status' = [k \in Keys |-> IF k \notin back THEN status[k]
                                  ELSE IF count(k) >= MAX_ATTEMPTS THEN "dead_letter"
                                  ELSE "pending"]
     /\ attempt' = [k \in Keys |-> count(k)]
     /\ UNCHANGED <<due, age>>

\* The rows of one claim share leased_at, and an abandoned row is older than any
\* the processor still holds.
Expirable ==
  LET processing == {k \in Keys : status[k] = "processing"}
  IN {S \in SUBSET processing \ {{}} : S \cap claimed # {} => S = processing}

\* The row that auto reload keeps locked is one the second transaction would bury.
BurialBlocks ==
  locked # NoKey /\ status[locked] = "pending" /\ attempt[locked] >= MAX_ATTEMPTS

MonitorExpiredLeases ==
  /\ LeaseMonitor
  /\ ~frozen
  /\ \E S \in Expirable :
       \/ locked \in S /\ Block /\ UNCHANGED <<calls, interrupted>>
       \/ /\ locked \notin S /\ ~BurialBlocks
          /\ Expire(S)
          /\ UNCHANGED <<calls, loop, interrupted>>
       \/ /\ locked \notin S /\ BurialBlocks
          /\ Reset(S)
          /\ frozen' = TRUE
          /\ interrupted' = interrupted + 1
          /\ UNCHANGED <<calls, locked>>
  /\ UNCHANGED <<worker, charged, faults>>

\* A pass of the monitor that ends after its first transaction.
ResetOnly ==
  /\ LeaseMonitor
  /\ ~frozen
  /\ \E S \in Expirable : locked \notin S /\ Reset(S)
  /\ interrupted' = interrupted + 1

\* The second transaction raises.
MonitorFails ==
  /\ faults < MaxFaults /\ faults' = faults + 1
  /\ ResetOnly
  /\ UNCHANGED <<worker, calls, charged, loop>>

-----------------------------------------------------------------------------
\* A database error ends the task for good: it is logged, never restarted.
WorkerFails ==
  /\ ~frozen
  /\ wpc \in {"sleep", "next", "replied", "reload"}
  /\ faults < MaxFaults /\ faults' = faults + 1
  /\ Abandon("dead")
  /\ UNCHANGED <<table, calls, charged, frozen, interrupted>>

\* Mutant: a start reports what the last process left in progress as paid.
CrashSettles ==
  /\ faults < MaxFaults /\ faults' = faults + 1
  /\ status' = [k \in Keys |-> IF status[k] = "processing" THEN "completed" ELSE status[k]]
  /\ cpc' = [c \in Calls |-> IF cpc[c] \in {"sending", "replied"} THEN "done" ELSE cpc[c]]
  /\ creply' = [c \in Calls |-> "network"]
  /\ Abandon("sleep") /\ frozen' = FALSE
  /\ UNCHANGED <<attempt, due, age, charged, interrupted>>

\* The process dies, perhaps within a pass of the monitor, and starts again: an
\* open transaction is rolled back, the rows it held stay processing, and
\* requests on their way may be served.
Crash ==
  /\ faults < MaxFaults /\ faults' = faults + 1
  /\ LET sent == {KeyOf[c] : c \in {d \in Calls : cpc[d] = "sending"}}
                   \cup (IF wpc = "sending" THEN {wcur} ELSE {})
     IN \E S \in SUBSET sent : charged' = charged \cup S
  /\ cpc' = [c \in Calls |-> IF cpc[c] \in {"sending", "replied"} THEN "done" ELSE cpc[c]]
  /\ creply' = [c \in Calls |-> "network"]
  /\ Abandon("sleep") /\ frozen' = FALSE
  /\ ResetOnly \/ UNCHANGED <<table, interrupted>>

CallStep == \E c \in Calls :
  \/ Enqueue(c) \/ SkipUsage(c) \/ EnqueueError(c) \/ FinishCall(c) \/ CancelCall(c)
  \/ \E o \in Outcomes : AnswerCall(c, o)

WorkerStep ==
  \/ Claim \/ SendNext \/ RecordOkReload \/ FinishReload \/ RecordOk
  \/ RecordTerminal \/ RecordRetryable \/ Requeue
  \/ \E o \in Outcomes : AnswerWorker(o)

Next ==
  \/ CallStep \/ WorkerStep
  \/ \E k \in Keys : BackoffElapses(k)
  \/ MonitorExpiredLeases \/ MonitorFails \/ WorkerFails \/ Crash

Spec == Init /\ [][Next]_vars

\* The loop runs what is ready, requests time out after ten seconds and time
\* passes; nothing is assumed of the monitor, which nothing in app/ schedules.
FairSpec ==
  /\ Spec
  /\ WF_vars(WorkerStep)
  /\ \A k \in Keys : WF_vars(BackoffElapses(k))
  /\ \A c \in Calls : /\ WF_vars(\E o \in Outcomes : AnswerCall(c, o))
                      /\ WF_vars(FinishCall(c))
-----------------------------------------------------------------------------
(* Properties *)

TypeOK ==
  /\ status \in [Keys -> Statuses]
  /\ attempt \in [Keys -> 0 .. MAX_ATTEMPTS + interrupted]
  /\ due \in [Keys -> BOOLEAN]
  /\ age \in [Keys -> Nat]
  /\ wpc \in {"sleep", "next", "sending", "replied", "reload", "dead"}
  /\ claimed \subseteq Keys
  /\ snap \in [Keys -> 0 .. MAX_ATTEMPTS + interrupted]
  /\ wcur \in Keys \cup {NoKey}
  /\ wreply \in Outcomes
  /\ cpc \in [Calls -> {"idle", "sending", "replied", "done"}]
  /\ creply \in [Calls -> Outcomes]
  /\ charged \subseteq Keys
  /\ locked \in {NoKey, wcur}
  /\ frozen \in BOOLEAN
  /\ faults \in 0 .. MaxFaults
  /\ interrupted \in 0 .. faults + (IF frozen THEN 1 ELSE 0)
  /\ ~LeaseMonitor => interrupted = 0

\* A row says completed only if the marketplace deducted its key, whichever of
\* report_usage and the queue processor wrote it, and in whatever order.
CompletedIsCharged == \A k \in Keys : status[k] = "completed" => k \in charged

\* The marketplace is never asked for a charge the device has no record of, so
\* a crash between the request and its answer leaves a row to settle it by.
ChargedIsRecorded == charged \subseteq Rows

\* A row that waits for its retry has attempts left, one that is sent has some
\* left too unless a pass of the monitor was cut between its two transactions, and
\* a dead letter has none; each such pass costs at most one attempt too many.
AttemptsBounded == \A k \in Keys :
  /\ status[k] = "failed_retryable" => attempt[k] < MAX_ATTEMPTS
  /\ status[k] \in {"pending", "processing"} => attempt[k] < MAX_ATTEMPTS + interrupted
  /\ status[k] = "dead_letter" => attempt[k] \in MAX_ATTEMPTS .. MAX_ATTEMPTS + interrupted

\* While nothing fails, every row marked processing is held by the processor,
\* and every row it holds is processing or was settled by its own call.
LeasesAreHeld ==
  ~LeaseMonitor =>
    /\ faults = 0 => \A k \in Keys : status[k] = "processing" => k \in claimed
    /\ \A k \in claimed : status[k] \in {"processing", "completed", "failed_terminal"}

\* No step forgets an attempt, although the processor writes the count it read
\* when it claimed the row and the monitor counts in between.
AttemptsNeverLost == [][\A k \in Keys : attempt'[k] >= attempt[k]]_vars

\* A settled row changes only by the late answer to the request the processor
\* has out for it: no sweep, monitor or repeated call reopens one.
SettledReopenedOnlyInFlight ==
  [][\A k \in Keys :
       /\ status[k] \in {"completed", "failed_terminal", "dead_letter"}
       /\ status'[k] # status[k]
       => wpc \in {"replied", "reload"} /\ k = wcur]_vars

\* Without the lease monitor a dead letter is final.
DeadLetterIsFinal ==
  [][\A k \in Keys : status[k] = "dead_letter" /\ ~LeaseMonitor
       => status'[k] = "dead_letter"]_vars

\* The queue implements the ledger's promise.
Ledger == INSTANCE BillingLedger WITH
  recorded <- Rows, reportedPaid <- {k \in Keys : status[k] = "completed"}
RefinesLedger == Ledger!LedgerSpec

Stopped == wpc = "dead" \/ frozen

\* A pending row that is due is claimed by some pass, whatever the processor is
\* busy with and whatever crashed before, unless a database error ended its task
\* or it blocked the loop.
DueIsClaimed == \A k \in Keys :
  (status[k] = "pending" /\ due[k]) ~> (status[k] # "pending" \/ Stopped)

\* A row the processor has claimed is sent and recorded, on the same terms: it
\* never keeps one.
ClaimedIsSettled == \A k \in Keys : k \in claimed ~> (k \notin claimed \/ Stopped)

\* failed_retryable -> pending of the docstring: a row that may be retried
\* returns after its backoff.
RetryableReturns == \A k \in Keys :
  status[k] = "failed_retryable" ~> status[k] # "failed_retryable"
=============================================================================
