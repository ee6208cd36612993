----------------------------- MODULE Fulfillment -----------------------------
(***************************************************************************)
(* Delivery of purchased files over the Trust Channel.  FulfillmentService *)
(* takes one delivery at a time and streams its file in windows of chunks, *)
(* each but the last acknowledged; TrustChannelClient keeps the websocket, *)
(* hands an acknowledgement to the coroutine that waits for it and drops   *)
(* the others.  The marketplace is external.                               *)
(*                                                                         *)
(* One event loop: an action is the code between two awaits.  A message is *)
(* [t, kind, n]: its transfer, its action, and a chunk index, a number of  *)
(* chunks or an acknowledged index.                                        *)
(***************************************************************************)
EXTENDS Integers, Sequences, SequencesExt, FiniteSets

CONSTANTS
  Deliveries,    \* deliver messages the marketplace sends, each its own transfer
  Total,         \* total_chunks of a file
  WINDOW_SIZE,
  AckPoints,     \* chunk indices the marketplace acknowledges through
  NoDelivery, Nothing, Waiting,
  MaxDown,       \* messages in flight from the marketplace
  MaxDrops,      \* connections lost
  MaxFaults      \* restarts and failed writes of the log

Final == {"completed", "failed", "timed_out"}
Message == [t : Deliveries, n : -1 .. Total, kind : {"metadata", "chunk", "url",
  "complete", "error", "deliver", "continue", "refuse"}]

ASSUME FulfillmentAssumption ==
  /\ IsFiniteSet(Deliveries)
  /\ Total \in Nat \ {0} /\ WINDOW_SIZE \in Nat \ {0}
  /\ AckPoints \subseteq -1 .. Total - 1
  /\ MaxDown \in Nat /\ MaxDrops \in Nat /\ MaxFaults \in Nat
  /\ NoDelivery \notin Deliveries /\ Nothing # Waiting
  /\ {Nothing, Waiting} \cap Message = {}

VARIABLES
  queue, pc, cur,      \* FulfillmentService: _queue, its worker, the delivery it handles
  start, next,         \* window_start and the next chunk to send
  retried, verdict,    \* the window was sent again; the status to record
  waiter,              \* TrustChannelClient._waiters: Nothing, Waiting or the answer
  link,                \* _ws: "none", "open", or a "stale" connection that is closed
  up, down,            \* messages in flight
  log,                 \* FulfillmentLog.status of each transfer
  \* marketplace: deliveries sent, chunks it got, those whose last chunk it has
  \* not answered, acknowledged index, outcome it was told
  sent, got, owing, acked, told,
  drops, faults

worker == <<pc, cur, start, next, retried, verdict>>
market == <<sent, got, owing, acked, told>>
vars == <<queue, worker, waiter, link, up, down, log, market, drops, faults>>

Init ==
  /\ queue = <<>> /\ pc = "idle" /\ cur = NoDelivery
  /\ start = 0 /\ next = 0 /\ retried = FALSE /\ verdict = "failed"
  /\ waiter = Nothing
  /\ link = "none" /\ up = <<>> /\ down = <<>>
  /\ log = [d \in Deliveries |-> "none"]
  /\ sent = {}
  /\ got = [d \in Deliveries |-> {}]
  /\ owing = {}
  /\ acked = [d \in Deliveries |-> -1]
  /\ told = [d \in Deliveries |-> Nothing]
  /\ drops = 0 /\ faults = 0

WindowEnd == IF start + WINDOW_SIZE < Total THEN start + WINDOW_SIZE ELSE Total
Fault == faults < MaxFaults /\ faults' = faults + 1

-----------------------------------------------------------------------------
(* The worker *)

Msg(kind, n) == [t |-> cur, kind |-> kind, n |-> n]

\* send_action raises with no connection or on a closed one.
Send(kind, n) == link = "open" /\ up' = Append(up, Msg(kind, n))

\* _send_error: what it raises is swallowed.
SendError(status) ==
  /\ up' = IF link = "open" THEN Append(up, Msg("error", 0)) ELSE up
  /\ verdict' = status
  /\ pc' = "record"

\* The log entry is saved before anything can fail; if saving raises, the
\* delivery is forgotten.
Take ==
  /\ pc = "idle" /\ queue # <<>>
  /\ queue' = Tail(queue)
  /\ \/ /\ cur' = Head(queue)
        /\ log' = [log EXCEPT ![Head(queue)] = "received"]
        /\ pc' = "resolve" /\ start' = 0 /\ next' = 0 /\ retried' = FALSE
        /\ UNCHANGED <<verdict, faults>>
     \/ Fault /\ UNCHANGED <<worker, log>>
  /\ UNCHANGED <<waiter, link, up, down, market, drops>>

\* Mutant: the return after the error message is missing.
RefuseAndSend ==
  /\ pc = "resolve" /\ link = "open"
  /\ up' = Append(up, Msg("error", 0)) /\ pc' = "send"
  /\ UNCHANGED <<queue, cur, start, next, retried, verdict, waiter, link, down, log, market, drops, faults>>

\* No artifact, no file, too large; an S3 object is refused while uploading.
Refuse ==
  /\ pc = "resolve"
  /\ \E s \in {"received", "uploading"} : log' = [log EXCEPT ![cur] = s]
  /\ SendError("failed")
  /\ UNCHANGED <<queue, cur, start, next, retried, waiter, link, down, market, drops, faults>>

Uploading == log' = [log EXCEPT ![cur] = "uploading"]

DeliverS3Object ==
  /\ pc = "resolve"
  /\ Uploading
  /\ Send("url", 0) /\ pc' = "complete"
  /\ UNCHANGED <<queue, cur, start, next, retried, verdict, waiter, link, down, market, drops, faults>>

SendMetadata ==
  /\ pc = "resolve"
  /\ Uploading
  /\ Send("metadata", Total) /\ pc' = "send"
  /\ UNCHANGED <<queue, cur, start, next, retried, verdict, waiter, link, down, market, drops, faults>>

\* Hashing, opening or reading the file fails. A read of a later window has the same
\* outcome, whoever waits, and is not a case of its own.
ReadFails ==
  /\ \/ pc = "resolve"
     \/ pc = "send" /\ next = 0 /\ ~retried
  /\ SendError("failed")
  /\ UNCHANGED <<queue, cur, start, next, retried, waiter, link, down, log, market, drops, faults>>

\* Mutant: a window has one chunk too many.
SendChunkTooMany ==
  /\ pc = "send"
  /\ Send("chunk", next)
  /\ next' = next + 1
  /\ pc' = IF next + 1 <= WindowEnd THEN "send"
           ELSE IF WindowEnd < Total THEN "await" ELSE "complete"
  /\ UNCHANGED <<queue, cur, start, retried, verdict, waiter, link, down, log, market, drops, faults>>

SendChunk ==
  /\ pc = "send"
  /\ Send("chunk", next)
  /\ next' = next + 1
  /\ pc' = IF next + 1 < WindowEnd THEN "send"
           ELSE IF WindowEnd < Total THEN "await" ELSE "complete"
  /\ UNCHANGED <<queue, cur, start, retried, verdict, waiter, link, down, log, market, drops, faults>>

\* The acknowledgement is awaited only once the last send has returned.
WaitForAck ==
  /\ pc = "await"
  /\ waiter' = Waiting /\ pc' = "wait"
  /\ UNCHANGED <<queue, cur, start, next, retried, verdict, link, up, down, log, market, drops, faults>>

\* Mutant: the retry is not counted.
TimeoutForever ==
  /\ pc = "wait" /\ waiter = Waiting /\ ~retried
  /\ waiter' = Nothing
  /\ pc' = "send" /\ next' = start
  /\ UNCHANGED <<queue, cur, start, retried, verdict, link, up, down, log, market, drops, faults>>

\* 30 s: the window is sent again, once.
Timeout ==
  /\ pc = "wait" /\ waiter = Waiting /\ ~retried
  /\ waiter' = Nothing
  /\ pc' = "send" /\ next' = start /\ retried' = TRUE
  /\ UNCHANGED <<queue, cur, start, verdict, link, up, down, log, market, drops, faults>>

\* Mutant: the TimeoutError is left to _process_queue.
GiveUpUnrecorded ==
  /\ pc = "wait" /\ waiter = Waiting /\ retried
  /\ waiter' = Nothing
  /\ pc' = "idle" /\ cur' = NoDelivery
  /\ start' = 0 /\ next' = 0 /\ retried' = FALSE
  /\ UNCHANGED <<queue, verdict, link, up, down, log, market, drops, faults>>

GiveUp ==
  /\ pc = "wait" /\ waiter = Waiting /\ retried
  /\ waiter' = Nothing
  /\ SendError("timed_out")
  /\ UNCHANGED <<queue, cur, start, next, retried, link, down, log, market, drops, faults>>

\* Mutants: any continue will do; off by a window.
AcknowledgesAnything(ack) == ack.kind = "continue"
AcknowledgesStart(ack) == ack.kind = "continue" /\ ack.n >= start - 1

\* _validate_ack.
Acknowledges(ack) == ack.kind = "continue" /\ ack.n >= WindowEnd - 1

ReceiveAck ==
  /\ pc = "wait" /\ waiter # Waiting
  /\ Acknowledges(waiter)
  /\ waiter' = Nothing
  /\ pc' = "send" /\ start' = WindowEnd /\ retried' = FALSE
  /\ UNCHANGED <<queue, cur, next, verdict, link, up, down, log, market, drops, faults>>

\* ConnectionError: recorded, and no error message is sent.
RejectAck ==
  /\ pc = "wait" /\ waiter # Waiting
  /\ ~Acknowledges(waiter)
  /\ waiter' = Nothing
  /\ pc' = "record" /\ verdict' = "failed"
  /\ UNCHANGED <<queue, cur, start, next, retried, link, up, down, log, market, drops, faults>>

SendComplete ==
  /\ pc = "complete"
  /\ Send("complete", next)
  /\ pc' = "record" /\ verdict' = "completed"
  /\ UNCHANGED <<queue, cur, start, next, retried, waiter, link, down, log, market, drops, faults>>

\* A send that cannot be made, or that breaks while it is awaited.
SendFails ==
  /\ link # "open"
  /\ \/ pc \in {"send", "complete"} /\ UNCHANGED log
     \/ pc = "resolve" /\ Uploading
     \/ pc = "await" /\ UNCHANGED log
     \/ pc = "record" /\ verdict = "completed" /\ UNCHANGED log
  /\ pc' = "record" /\ verdict' = "failed"
  /\ UNCHANGED <<queue, cur, start, next, retried, waiter, link, up, down, market, drops, faults>>

\* _update_log; what it raises ends in _process_queue.
RecordOutcome ==
  /\ pc = "record"
  /\ \/ log' = [log EXCEPT ![cur] = verdict] /\ UNCHANGED faults
     \/ Fault /\ UNCHANGED log
  /\ pc' = "idle" /\ cur' = NoDelivery
  /\ start' = 0 /\ next' = 0 /\ retried' = FALSE /\ verdict' = "failed"
  /\ UNCHANGED <<queue, waiter, link, up, down, market, drops>>

WorkerStep ==
  \/ Take \/ Refuse \/ DeliverS3Object \/ SendMetadata \/ ReadFails
  \/ SendChunk \/ WaitForAck \/ Timeout \/ GiveUp \/ ReceiveAck \/ RejectAck
  \/ SendComplete \/ SendFails \/ RecordOutcome

-----------------------------------------------------------------------------
(* The client *)

Connect ==
  /\ link # "open"
  /\ link' = "open"
  /\ UNCHANGED <<queue, worker, waiter, up, down, log, market, drops, faults>>

\* A normal close forgets the connection, an abnormal one leaves it in _ws.
\* What is in flight is lost.
Disconnect ==
  /\ link = "open" /\ drops < MaxDrops
  /\ drops' = drops + 1
  /\ link' \in {"none", "stale"}
  /\ up' = <<>> /\ down' = <<>>
  /\ UNCHANGED <<queue, worker, waiter, log, market, faults>>

\* _connect_and_listen: to the waiter of the transfer, to the deliver
\* handler, or dropped.
Dispatch ==
  /\ down # <<>>
  /\ down' = Tail(down)
  /\ LET m == Head(down) IN
       /\ waiter' = IF waiter = Waiting /\ m.kind # "deliver" /\ m.t = cur THEN m ELSE waiter
       /\ queue' = IF m.kind = "deliver" THEN Append(queue, m.t) ELSE queue
  /\ UNCHANGED <<worker, link, up, log, market, drops, faults>>

\* The process ends: queue, worker and connection are gone, the log stays.
Restart ==
  /\ Fault
  /\ queue' = <<>> /\ waiter' = Nothing
  /\ pc' = "idle" /\ cur' = NoDelivery
  /\ start' = 0 /\ next' = 0 /\ retried' = FALSE /\ verdict' = "failed"
  /\ link' = "none" /\ up' = <<>> /\ down' = <<>>
  /\ UNCHANGED <<log, market, drops>>

-----------------------------------------------------------------------------
(* The marketplace, external *)

CanReply == link = "open" /\ Len(down) < MaxDown

MarketDeliver(d) ==
  /\ CanReply /\ d \notin sent
  /\ sent' = sent \cup {d}
  /\ down' = Append(down, [t |-> d, kind |-> "deliver", n |-> 0])
  /\ UNCHANGED <<queue, worker, waiter, link, up, log, got, owing, acked, told, drops, faults>>

MarketReceive ==
  /\ up # <<>>
  /\ up' = Tail(up)
  /\ LET m == Head(up) IN
       /\ got' = IF m.kind = "chunk" THEN [got EXCEPT ![m.t] = @ \cup {m.n}] ELSE got
       /\ owing' = IF m.kind = "chunk" THEN owing \cup {m.t} ELSE owing
       /\ told' = IF m.kind \in {"complete", "error"} THEN [told EXCEPT ![m.t] = m] ELSE told
  /\ UNCHANGED <<queue, worker, waiter, link, down, log, sent, acked, drops, faults>>

\* It answers what it got, soon or late: it acknowledges through the last chunk
\* before the first gap, or refuses to go on.
Through(d) == CHOOSE n \in -1 .. Total - 1 : 0 .. n \subseteq got[d] /\ n + 1 \notin got[d]

MarketAck(d) ==
  /\ CanReply /\ d \in owing /\ Through(d) \in AckPoints
  /\ owing' = owing \ {d}
  /\ \/ /\ acked' = [acked EXCEPT ![d] = Through(d)]
        /\ down' = Append(down, [t |-> d, kind |-> "continue", n |-> Through(d)])
     \/ /\ down' = Append(down, [t |-> d, kind |-> "refuse", n |-> Through(d)])
        /\ UNCHANGED acked
  /\ UNCHANGED <<queue, worker, waiter, link, up, log, sent, got, told, drops, faults>>

Market == MarketReceive \/ \E d \in Deliveries : MarketDeliver(d) \/ MarketAck(d)

Next == WorkerStep \/ Connect \/ Disconnect \/ Dispatch \/ Restart \/ Market

Spec == Init /\ [][Next]_vars

\* The loop runs a coroutine that can go on, and a wait has a timeout.
FairSpec == Spec /\ WF_vars(WorkerStep)

-----------------------------------------------------------------------------
(* Properties *)

TypeOK ==
  /\ queue \in Seq(Deliveries) /\ cur \in Deliveries \cup {NoDelivery}
  /\ pc \in {"idle", "resolve", "send", "await", "wait", "complete", "record"}
  /\ start \in 0 .. Total /\ next \in 0 .. Total
  /\ retried \in BOOLEAN /\ verdict \in Final
  /\ waiter \in Message \cup {Nothing, Waiting}
  /\ link \in {"none", "open", "stale"}
  /\ up \in Seq(Message) /\ down \in Seq(Message)
  /\ log \in [Deliveries -> Final \cup {"none", "received", "uploading"}]
  /\ sent \subseteq Deliveries /\ owing \subseteq Deliveries
  /\ got \in [Deliveries -> SUBSET (0 .. Total - 1)]
  /\ acked \in [Deliveries -> -1 .. Total - 1]
  /\ told \in [Deliveries -> Message \cup {Nothing}]
  /\ drops \in Nat /\ faults \in Nat

\* Backpressure: no chunk leaves that is more than a window ahead of what the
\* marketplace acknowledged, whatever was lost, sent again or answered late.
Chunks(d) == got[d] \cup {m.n : m \in {x \in ToSet(up) : x.t = d /\ x.kind = "chunk"}}
NeverAWindowAhead ==
  \A d \in Deliveries : \A c \in Chunks(d) : c <= acked[d] + WINDOW_SIZE

\* A file the marketplace is told complete is whole there, but for the last
\* window, which nobody acknowledges and a lost connection may have taken.
Complete(d) == told[d] # Nothing /\ told[d].kind = "complete"
CompleteIsWhole ==
  \A d \in Deliveries : Complete(d) =>
    \A c \in 0 .. told[d].n - 1 \ got[d] :
      drops > 0 /\ c \div WINDOW_SIZE = (Total - 1) \div WINDOW_SIZE

\* A transfer keeps its promise to the receiver: flow control, one outcome and
\* nothing after it, complete only when whole or behind a link.
Outcome(d) ==
  IF told[d] = Nothing THEN "open"
  ELSE IF told[d].kind # "complete" THEN "failed"
  ELSE IF told[d].n = 0 THEN "link" ELSE "file"
Transfer == INSTANCE FileTransfer WITH
  Transfers <- Deliveries, Size <- Total, Window <- WINDOW_SIZE,
  have <- got, through <- acked, lossy <- drops > 0,
  outcome <- [d \in Deliveries |-> Outcome(d)]
RefinesTransfer == Transfer!TransferSpec

\* Only a restart or a failed write leaves a transfer in the log without an
\* outcome: no error path of the handler forgets it.
UnfinishedOnlyByFault ==
  Cardinality({d \in Deliveries \ {cur} : log[d] \in {"received", "uploading"}}) <= faults

\* "failure of one does not block the next": a delivery that is queued is
\* handled and let go, whatever the connection, the file and the answers do.
Pending(d) == d \in ToSet(queue) \/ cur = d
EveryDeliveryIsLetGo == \A d \in Deliveries : Pending(d) ~> ~Pending(d)
=============================================================================
