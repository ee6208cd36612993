-------------------------- MODULE FulfillmentProofs --------------------------
(***************************************************************************)
(* Proofs about Fulfillment for any number of deliveries, any file and     *)
(* window size, and any number of lost connections and restarts.           *)
(***************************************************************************)
EXTENDS Fulfillment, FiniteSetTheorems, WellFoundedInduction, TLAPS

USE FulfillmentAssumption DEF FulfillmentAssumption

\* The window being sent starts right after what was acknowledged.
WorkerSound ==
  /\ pc = "idle" <=> cur = NoDelivery
  /\ pc = "resolve" => start = 0 /\ next = 0
  /\ pc = "send" => start <= next /\ next < WindowEnd
  /\ pc \in {"await", "wait"} => next = WindowEnd /\ WindowEnd < Total
  /\ cur # NoDelivery => start - 1 <= acked[cur]

\* A waiter exists only during its wait and gets only answers to its transfer,
\* which acknowledge no more than the marketplace did.
WaiterSound ==
  /\ waiter # Nothing <=> pc = "wait"
  /\ waiter \notin {Nothing, Waiting} =>
       waiter.t = cur /\ (waiter.kind = "continue" => waiter.n <= acked[cur])

\* What is in flight or has arrived, in terms of what was acknowledged.
AckedIsGot == \A d \in Deliveries : 0 .. acked[d] \subseteq got[d]
GotSound == \A d \in Deliveries : \A c \in got[d] : c <= acked[d] + WINDOW_SIZE
DownSound == \A i \in 1 .. Len(down) :
  down[i].kind = "continue" => down[i].n <= acked[down[i].t]
UpSound == \A i \in 1 .. Len(up) : up[i].kind = "chunk" =>
  up[i].n \in 0 .. Total - 1 /\ up[i].n <= acked[up[i].t] + WINDOW_SIZE
MarketSound == AckedIsGot /\ GotSound /\ DownSound /\ UpSound

\* The inductive invariant.
IInv ==
  /\ TypeOK
  /\ WorkerSound /\ WaiterSound
  /\ MarketSound
  /\ UnfinishedOnlyByFault

Unfinished == {d \in Deliveries \ {cur} : log[d] \in {"received", "uploading"}}

Kinds == {"metadata", "chunk", "url", "complete", "error", "deliver", "continue", "refuse"}

USE DEF worker, market

-----------------------------------------------------------------------------
(* Lemmas about the data *)

\* The window is never empty and never longer than WINDOW_SIZE or the file.
LEMMA WindowBounds ==
  ASSUME start \in 0 .. Total
  PROVE  /\ WindowEnd \in 0 .. Total
         /\ start <= WindowEnd /\ WindowEnd <= start + WINDOW_SIZE
         /\ start < Total => start < WindowEnd
BY DEF WindowEnd

LEMMA MessageFields ==
  /\ \A m \in Message : m.t \in Deliveries /\ m.n \in -1 .. Total /\ m.kind \in Kinds
  /\ \A d \in Deliveries, n \in -1 .. Total, k \in Kinds :
       [t |-> d, kind |-> k, n |-> n] \in Message
BY DEF Message, Kinds

LEMMA Appended ==
  ASSUME NEW S, NEW s \in Seq(S), NEW e \in S
  PROVE  /\ Append(s, e) \in Seq(S)
         /\ Len(s) \in Nat /\ Len(Append(s, e)) = Len(s) + 1
         /\ \A i \in 1 .. Len(s) : Append(s, e)[i] = s[i]
         /\ Append(s, e)[Len(s) + 1] = e
OBVIOUS

LEMMA Popped ==
  ASSUME NEW S, NEW s \in Seq(S), s # <<>>
  PROVE  /\ Tail(s) \in Seq(S) /\ Head(s) \in S
         /\ Len(s) \in Nat /\ Len(s) >= 1 /\ Head(s) = s[1]
         /\ \A i \in 1 .. Len(Tail(s)) : i + 1 \in 1 .. Len(s) /\ Tail(s)[i] = s[i + 1]
OBVIOUS

\* What the marketplace acknowledges: all before the first gap, of a file of
\* which it has at most Total chunks.
LEMMA ThroughIs ==
  ASSUME NEW d \in Deliveries, got[d] \subseteq 0 .. Total - 1
  PROVE  /\ Through(d) \in -1 .. Total - 1
         /\ 0 .. Through(d) \subseteq got[d]
         /\ Through(d) + 1 \notin got[d]
<1> DEFINE T == {n \in 0 .. Total : n \notin got[d]}
<1>1. T \subseteq Nat /\ T # {}
  <2>1. Total \in T
    OBVIOUS
  <2> QED  BY <2>1
<1>2. PICK m \in T : \A k \in T : ~(<<k, m>> \in OpToRel(<, Nat))
  <2> HIDE DEF T
  <2> QED  BY <1>1, NatLessThanWellFounded, WFMin
<1>3. \A k \in T : ~(k < m)
  BY <1>1, <1>2 DEF OpToRel
<1>4. m - 1 \in -1 .. Total - 1 /\ 0 .. m - 1 \subseteq got[d] /\ (m - 1) + 1 \notin got[d]
  BY <1>3
<1> QED  BY <1>4 DEF Through

\* A message of the current transfer leaves.
LEMMA SendSound ==
  ASSUME TypeOK, MarketSound, cur \in Deliveries, NEW k \in Kinds, NEW n \in -1 .. Total,
         k = "chunk" => n \in 0 .. Total - 1 /\ n <= acked[cur] + WINDOW_SIZE,
         up' = Append(up, [t |-> cur, kind |-> k, n |-> n]), UNCHANGED acked
  PROVE  up' \in Seq(Message) /\ UpSound'
<1> DEFINE e == [t |-> cur, kind |-> k, n |-> n]
<1>1. e \in Message /\ e.t = cur /\ e.kind = k /\ e.n = n
  BY MessageFields
<1>2. up \in Seq(Message)
  BY DEF TypeOK
<1> HIDE DEF e
<1>3. /\ up' \in Seq(Message)
      /\ Len(up) \in Nat /\ Len(up') = Len(up) + 1
      /\ \A i \in 1 .. Len(up) : up'[i] = up[i]
      /\ up'[Len(up) + 1] = e
  BY <1>1, <1>2, Appended DEF e
<1> QED  BY <1>1, <1>3 DEF MarketSound, UpSound

\* The worker tells of a failure if it can.
LEMMA SendErrorSound ==
  ASSUME TypeOK, MarketSound, cur \in Deliveries, NEW s \in Final, SendError(s), UNCHANGED acked
  PROVE  up' \in Seq(Message) /\ UpSound' /\ verdict' = s /\ pc' = "record"
<1>1. verdict' = s /\ pc' = "record"
  BY DEF SendError
<1>2. CASE link = "open"
  <2>1. up' = Append(up, [t |-> cur, kind |-> "error", n |-> 0])
    BY <1>2 DEF SendError, Msg
  <2> QED  BY <1>1, <2>1, SendSound DEF Kinds
<1>3. CASE link # "open"
  BY <1>1, <1>3 DEF SendError, TypeOK, MarketSound, UpSound
<1> QED  BY <1>2, <1>3

\* A transfer other than the current one keeps its status in the log.
LEMMA SameUnfinished ==
  ASSUME UnfinishedOnlyByFault, TypeOK, faults' \in Nat, faults' >= faults,
         \A d \in Deliveries : d # cur' /\ log'[d] \in {"received", "uploading"} =>
           d # cur /\ log[d] \in {"received", "uploading"}
  PROVE  UnfinishedOnlyByFault'
<1>1. IsFiniteSet(Unfinished)
  BY FS_Subset DEF Unfinished
<1>2. Unfinished' \in SUBSET Unfinished
  BY DEF Unfinished
<1>3. Cardinality(Unfinished) \in Nat /\ Cardinality(Unfinished') \in Nat
      /\ Cardinality(Unfinished') <= Cardinality(Unfinished)
  BY <1>1, <1>2, FS_Subset, FS_CardinalityType
<1> QED  BY <1>3 DEF UnfinishedOnlyByFault, Unfinished, TypeOK

\* A fault leaves at most the current transfer behind.
LEMMA OneMoreUnfinished ==
  ASSUME UnfinishedOnlyByFault, TypeOK, Fault, cur' = NoDelivery, UNCHANGED log
  PROVE  UnfinishedOnlyByFault'
<1>1. IsFiniteSet(Unfinished)
  BY FS_Subset DEF Unfinished
<1>2. Unfinished' \in SUBSET (Unfinished \cup {cur})
  BY DEF Unfinished
<1>3. /\ IsFiniteSet(Unfinished \cup {cur})
      /\ Cardinality(Unfinished \cup {cur}) <= Cardinality(Unfinished) + 1
      /\ Cardinality(Unfinished) \in Nat /\ Cardinality(Unfinished \cup {cur}) \in Nat
  <2>1. Cardinality(Unfinished) \in Nat
    BY <1>1, FS_CardinalityType
  <2>2. /\ IsFiniteSet(Unfinished \cup {cur})
        /\ Cardinality(Unfinished \cup {cur}) =
             IF cur \in Unfinished THEN Cardinality(Unfinished) ELSE Cardinality(Unfinished) + 1
    BY <1>1, FS_AddElement
  <2> QED  BY <2>1, <2>2
<1>4. Cardinality(Unfinished') <= Cardinality(Unfinished \cup {cur}) /\ Cardinality(Unfinished') \in Nat
  BY <1>2, <1>3, FS_Subset, FS_CardinalityType
<1> QED  BY <1>3, <1>4 DEF UnfinishedOnlyByFault, Unfinished, TypeOK, Fault

\* Nothing has been sent when the process starts.
LEMMA InitHolds == Init => IInv
<1> SUFFICES ASSUME Init PROVE IInv
  OBVIOUS
<1>1. TypeOK
  <2>1. /\ queue \in Seq(Deliveries) /\ up \in Seq(Message) /\ down \in Seq(Message)
        /\ got \in [Deliveries -> SUBSET (0 .. Total - 1)]
        /\ acked \in [Deliveries -> -1 .. Total - 1]
        /\ told \in [Deliveries -> Message \cup {Nothing}]
        /\ log \in [Deliveries -> Final \cup {"none", "received", "uploading"}]
    <3> HIDE DEF Message
    <3> QED  BY DEF Init
  <2>2. start \in 0 .. Total /\ next \in 0 .. Total /\ verdict \in Final
    BY DEF Init, Final
  <2> QED  BY <2>1, <2>2 DEF Init, TypeOK
<1>2. WorkerSound /\ WaiterSound /\ MarketSound
  BY DEF Init, WorkerSound, WaiterSound, MarketSound, AckedIsGot, GotSound, DownSound, UpSound
<1>3. UnfinishedOnlyByFault
  <2>1. Unfinished = {}
    BY DEF Init, Unfinished
  <2>2. Cardinality(Unfinished) = 0
    BY <2>1, FS_EmptySet
  <2>3. UnfinishedOnlyByFault <=> Cardinality(Unfinished) <= faults
    BY DEF UnfinishedOnlyByFault, Unfinished
  <2> QED  BY <2>2, <2>3 DEF Init
<1> QED  BY <1>1, <1>2, <1>3 DEF IInv

\* The worker: one lemma for each of its steps.
LEMMA TakeKeeps ==
  ASSUME IInv, Take
  PROVE  IInv'
<1>2. TypeOK'
  <2>1. queue' \in Seq(Deliveries) /\ Head(queue) \in Deliveries
    BY Popped DEF IInv, TypeOK, Take
  <2>2. log' \in [Deliveries -> Final \cup {"none", "received", "uploading"}]
    BY <2>1 DEF IInv, TypeOK, Take
  <2>3. start' \in 0 .. Total /\ next' \in 0 .. Total /\ faults' \in Nat
    BY DEF IInv, TypeOK, Take, Fault
  <2> QED  BY <2>1, <2>2, <2>3 DEF IInv, TypeOK, Take
<1>3. WorkerSound'
  BY WindowBounds DEF IInv, TypeOK, WorkerSound, WaiterSound, WindowEnd, Take
<1>4. WaiterSound'
  BY DEF IInv, WorkerSound, WaiterSound, TypeOK, Take
<1>5. MarketSound'
  BY DEF IInv, MarketSound, AckedIsGot, GotSound, DownSound, UpSound, Take
<1>6. UnfinishedOnlyByFault'
  <2>1. Head(queue) \in Deliveries
    BY Popped DEF IInv, TypeOK, Take
  <2>2. faults' \in Nat /\ faults' >= faults
    BY DEF IInv, TypeOK, Take, Fault
  <2>3. cur = NoDelivery
    BY DEF IInv, WorkerSound, Take
  <2>4. \A d \in Deliveries : d # cur' => log'[d] = log[d]
    BY <2>1 DEF IInv, TypeOK, Take
  <2> QED  BY <2>2, <2>3, <2>4, SameUnfinished DEF IInv
<1> QED  BY <1>2, <1>3, <1>4, <1>5, <1>6 DEF IInv

LEMMA RefuseKeeps ==
  ASSUME IInv, Refuse
  PROVE  IInv'
<1>0. cur \in Deliveries
  BY DEF IInv, TypeOK, WorkerSound, Refuse
<1>1. up' \in Seq(Message) /\ UpSound' /\ verdict' = "failed" /\ pc' = "record"
  BY <1>0, SendErrorSound DEF IInv, Refuse, Final
<1>2. TypeOK'
  BY <1>0, <1>1, WindowBounds DEF IInv, TypeOK, WorkerSound, Final, Refuse
<1>3. WorkerSound'
  BY <1>0, <1>1, WindowBounds DEF IInv, TypeOK, WorkerSound, WaiterSound, WindowEnd,
  Refuse
<1>4. WaiterSound'
  BY <1>0, <1>1 DEF IInv, WorkerSound, WaiterSound, TypeOK, Refuse
<1>5. MarketSound'
  BY <1>0, <1>1 DEF IInv, MarketSound, AckedIsGot, GotSound, DownSound, UpSound,
  Refuse
<1>6. UnfinishedOnlyByFault'
  BY <1>0, <1>1, SameUnfinished DEF IInv, TypeOK, WorkerSound, Refuse
<1> QED  BY <1>2, <1>3, <1>4, <1>5, <1>6 DEF IInv

LEMMA DeliverS3ObjectKeeps ==
  ASSUME IInv, DeliverS3Object
  PROVE  IInv'
<1>0. cur \in Deliveries
  BY DEF IInv, TypeOK, WorkerSound, DeliverS3Object
<1>1. up' \in Seq(Message) /\ UpSound'
  <2>1. up' = Append(up, [t |-> cur, kind |-> "url", n |-> 0]) /\ UNCHANGED acked
    BY DEF DeliverS3Object, Send, Msg
  <2>2. 0 \in -1 .. Total
    BY DEF IInv, TypeOK
  <2> QED  BY <1>0, <2>1, <2>2, SendSound DEF IInv, Kinds
<1>2. TypeOK'
  BY <1>0, <1>1, WindowBounds DEF IInv, TypeOK, WorkerSound, Final, DeliverS3Object,
  Uploading, Send
<1>3. WorkerSound'
  BY <1>0, <1>1, WindowBounds DEF IInv, TypeOK, WorkerSound, WaiterSound, WindowEnd,
  DeliverS3Object, Uploading, Send
<1>4. WaiterSound'
  BY <1>0, <1>1 DEF IInv, WorkerSound, WaiterSound, TypeOK, DeliverS3Object,
  Uploading, Send
<1>5. MarketSound'
  BY <1>0, <1>1 DEF IInv, MarketSound, AckedIsGot, GotSound, DownSound, UpSound,
  DeliverS3Object, Uploading, Send
<1>6. UnfinishedOnlyByFault'
  BY <1>0, <1>1, SameUnfinished DEF IInv, TypeOK, WorkerSound, DeliverS3Object,
  Uploading, Send
<1> QED  BY <1>2, <1>3, <1>4, <1>5, <1>6 DEF IInv

LEMMA SendMetadataKeeps ==
  ASSUME IInv, SendMetadata
  PROVE  IInv'
<1>0. cur \in Deliveries
  BY DEF IInv, TypeOK, WorkerSound, SendMetadata
<1>1. up' \in Seq(Message) /\ UpSound'
  <2>1. up' = Append(up, [t |-> cur, kind |-> "metadata", n |-> Total]) /\ UNCHANGED acked
    BY DEF SendMetadata, Send, Msg
  <2>2. Total \in -1 .. Total
    BY DEF IInv, TypeOK
  <2> QED  BY <1>0, <2>1, <2>2, SendSound DEF IInv, Kinds
<1>2. TypeOK'
  BY <1>0, <1>1, WindowBounds DEF IInv, TypeOK, WorkerSound, Final, SendMetadata,
  Uploading, Send
<1>3. WorkerSound'
  BY <1>0, <1>1, WindowBounds DEF IInv, TypeOK, WorkerSound, WaiterSound, WindowEnd,
  SendMetadata, Uploading, Send
<1>4. WaiterSound'
  BY <1>0, <1>1 DEF IInv, WorkerSound, WaiterSound, TypeOK, SendMetadata, Uploading,
  Send
<1>5. MarketSound'
  BY <1>0, <1>1 DEF IInv, MarketSound, AckedIsGot, GotSound, DownSound, UpSound,
  SendMetadata, Uploading, Send
<1>6. UnfinishedOnlyByFault'
  BY <1>0, <1>1, SameUnfinished DEF IInv, TypeOK, WorkerSound, SendMetadata,
  Uploading, Send
<1> QED  BY <1>2, <1>3, <1>4, <1>5, <1>6 DEF IInv

LEMMA ReadFailsKeeps ==
  ASSUME IInv, ReadFails
  PROVE  IInv'
<1>0. cur \in Deliveries
  BY DEF IInv, TypeOK, WorkerSound, ReadFails
<1>1. up' \in Seq(Message) /\ UpSound' /\ verdict' = "failed" /\ pc' = "record"
  BY <1>0, SendErrorSound DEF IInv, ReadFails, Final
<1>2. TypeOK'
  BY <1>0, <1>1, WindowBounds DEF IInv, TypeOK, WorkerSound, Final, ReadFails
<1>3. WorkerSound'
  BY <1>0, <1>1, WindowBounds DEF IInv, TypeOK, WorkerSound, WaiterSound, WindowEnd,
  ReadFails
<1>4. WaiterSound'
  BY <1>0, <1>1 DEF IInv, WorkerSound, WaiterSound, TypeOK, ReadFails
<1>5. MarketSound'
  BY <1>0, <1>1 DEF IInv, MarketSound, AckedIsGot, GotSound, DownSound, UpSound,
  ReadFails
<1>6. UnfinishedOnlyByFault'
  BY <1>0, <1>1, SameUnfinished DEF IInv, TypeOK, WorkerSound, ReadFails
<1> QED  BY <1>2, <1>3, <1>4, <1>5, <1>6 DEF IInv

LEMMA SendChunkKeeps ==
  ASSUME IInv, SendChunk
  PROVE  IInv'
<1>0. cur \in Deliveries
  BY DEF IInv, TypeOK, WorkerSound, SendChunk
<1>1. up' \in Seq(Message) /\ UpSound'
  <2>1. next \in 0 .. Total - 1 /\ next <= acked[cur] + WINDOW_SIZE
    BY <1>0, WindowBounds DEF IInv, TypeOK, WorkerSound, SendChunk
  <2>2. up' = Append(up, [t |-> cur, kind |-> "chunk", n |-> next]) /\ UNCHANGED acked
    BY DEF SendChunk, Send, Msg
  <2> QED  BY <1>0, <2>1, <2>2, SendSound DEF IInv, Kinds
<1>2. TypeOK'
  BY <1>0, <1>1, WindowBounds DEF IInv, TypeOK, WorkerSound, Final, SendChunk, Send
<1>3. WorkerSound'
  BY <1>0, <1>1, WindowBounds DEF IInv, TypeOK, WorkerSound, WaiterSound, WindowEnd,
  SendChunk, Send
<1>4. WaiterSound'
  BY <1>0, <1>1 DEF IInv, WorkerSound, WaiterSound, TypeOK, SendChunk, Send
<1>5. MarketSound'
  BY <1>0, <1>1 DEF IInv, MarketSound, AckedIsGot, GotSound, DownSound, UpSound,
  SendChunk, Send
<1>6. UnfinishedOnlyByFault'
  BY <1>0, <1>1, SameUnfinished DEF IInv, TypeOK, WorkerSound, SendChunk, Send
<1> QED  BY <1>2, <1>3, <1>4, <1>5, <1>6 DEF IInv

LEMMA WaitForAckKeeps ==
  ASSUME IInv, WaitForAck
  PROVE  IInv'
<1>2. TypeOK'
  BY WindowBounds DEF IInv, TypeOK, WorkerSound, Final, WaitForAck
<1>3. WorkerSound'
  BY WindowBounds DEF IInv, TypeOK, WorkerSound, WaiterSound, WindowEnd, WaitForAck
<1>4. WaiterSound'
  BY DEF IInv, WorkerSound, WaiterSound, TypeOK, WaitForAck
<1>5. MarketSound'
  BY DEF IInv, MarketSound, AckedIsGot, GotSound, DownSound, UpSound, WaitForAck
<1>6. UnfinishedOnlyByFault'
  BY SameUnfinished DEF IInv, TypeOK, WorkerSound, WaitForAck
<1> QED  BY <1>2, <1>3, <1>4, <1>5, <1>6 DEF IInv

LEMMA TimeoutKeeps ==
  ASSUME IInv, Timeout
  PROVE  IInv'
<1>2. TypeOK'
  BY WindowBounds DEF IInv, TypeOK, WorkerSound, Final, Timeout
<1>3. WorkerSound'
  BY WindowBounds DEF IInv, TypeOK, WorkerSound, WaiterSound, WindowEnd, Timeout
<1>4. WaiterSound'
  BY DEF IInv, WorkerSound, WaiterSound, TypeOK, Timeout
<1>5. MarketSound'
  BY DEF IInv, MarketSound, AckedIsGot, GotSound, DownSound, UpSound, Timeout
<1>6. UnfinishedOnlyByFault'
  BY SameUnfinished DEF IInv, TypeOK, WorkerSound, Timeout
<1> QED  BY <1>2, <1>3, <1>4, <1>5, <1>6 DEF IInv

LEMMA GiveUpKeeps ==
  ASSUME IInv, GiveUp
  PROVE  IInv'
<1>0. cur \in Deliveries
  BY DEF IInv, TypeOK, WorkerSound, GiveUp
<1>1. up' \in Seq(Message) /\ UpSound' /\ verdict' = "timed_out" /\ pc' = "record"
  BY <1>0, SendErrorSound DEF IInv, GiveUp, Final
<1>2. TypeOK'
  BY <1>0, <1>1, WindowBounds DEF IInv, TypeOK, WorkerSound, Final, GiveUp
<1>3. WorkerSound'
  BY <1>0, <1>1, WindowBounds DEF IInv, TypeOK, WorkerSound, WaiterSound, WindowEnd,
  GiveUp
<1>4. WaiterSound'
  BY <1>0, <1>1 DEF IInv, WorkerSound, WaiterSound, TypeOK, GiveUp
<1>5. MarketSound'
  BY <1>0, <1>1 DEF IInv, MarketSound, AckedIsGot, GotSound, DownSound, UpSound,
  GiveUp
<1>6. UnfinishedOnlyByFault'
  BY <1>0, <1>1, SameUnfinished DEF IInv, TypeOK, WorkerSound, GiveUp
<1> QED  BY <1>2, <1>3, <1>4, <1>5, <1>6 DEF IInv

LEMMA ReceiveAckKeeps ==
  ASSUME IInv, ReceiveAck
  PROVE  IInv'
<1>2. TypeOK'
  BY WindowBounds DEF IInv, TypeOK, WorkerSound, Final, ReceiveAck
<1>3. WorkerSound'
  <2>1. waiter.t = cur /\ waiter.kind = "continue" /\ waiter.n >= WindowEnd - 1
    BY DEF IInv, WaiterSound, ReceiveAck, Acknowledges
  <2>2. waiter.n <= acked[cur] /\ waiter.n \in -1 .. Total
    BY <2>1, MessageFields DEF IInv, TypeOK, WaiterSound, ReceiveAck
  <2>3. cur \in Deliveries /\ acked[cur] \in -1 .. Total - 1 /\ next = WindowEnd /\ WindowEnd < Total
    BY DEF IInv, TypeOK, WorkerSound, ReceiveAck
  <2>4. WindowEnd \in Nat /\ start' = WindowEnd /\ next' = WindowEnd /\ cur' = cur /\ acked' = acked
    BY <2>3, WindowBounds DEF IInv, TypeOK, ReceiveAck
  <2>5. WindowEnd' > WindowEnd
    BY <2>3, <2>4 DEF WindowEnd
  <2> QED  BY <2>1, <2>2, <2>3, <2>4, <2>5 DEF IInv, WorkerSound, ReceiveAck
<1>4. WaiterSound'
  BY DEF IInv, WorkerSound, WaiterSound, TypeOK, ReceiveAck
<1>5. MarketSound'
  BY DEF IInv, MarketSound, AckedIsGot, GotSound, DownSound, UpSound, ReceiveAck
<1>6. UnfinishedOnlyByFault'
  BY SameUnfinished DEF IInv, TypeOK, WorkerSound, ReceiveAck
<1> QED  BY <1>2, <1>3, <1>4, <1>5, <1>6 DEF IInv

LEMMA RejectAckKeeps ==
  ASSUME IInv, RejectAck
  PROVE  IInv'
<1>2. TypeOK'
  BY WindowBounds DEF IInv, TypeOK, WorkerSound, Final, RejectAck
<1>3. WorkerSound'
  BY WindowBounds DEF IInv, TypeOK, WorkerSound, WaiterSound, WindowEnd, RejectAck
<1>4. WaiterSound'
  BY DEF IInv, WorkerSound, WaiterSound, TypeOK, RejectAck
<1>5. MarketSound'
  BY DEF IInv, MarketSound, AckedIsGot, GotSound, DownSound, UpSound, RejectAck
<1>6. UnfinishedOnlyByFault'
  BY SameUnfinished DEF IInv, TypeOK, WorkerSound, RejectAck
<1> QED  BY <1>2, <1>3, <1>4, <1>5, <1>6 DEF IInv

LEMMA SendCompleteKeeps ==
  ASSUME IInv, SendComplete
  PROVE  IInv'
<1>0. cur \in Deliveries
  BY DEF IInv, TypeOK, WorkerSound, SendComplete
<1>1. up' \in Seq(Message) /\ UpSound'
  <2>1. up' = Append(up, [t |-> cur, kind |-> "complete", n |-> next]) /\ UNCHANGED acked
    BY DEF SendComplete, Send, Msg
  <2>2. next \in -1 .. Total
    BY DEF IInv, TypeOK
  <2> QED  BY <1>0, <2>1, <2>2, SendSound DEF IInv, Kinds
<1>2. TypeOK'
  BY <1>0, <1>1, WindowBounds DEF IInv, TypeOK, WorkerSound, Final, SendComplete,
  Send
<1>3. WorkerSound'
  BY <1>0, <1>1, WindowBounds DEF IInv, TypeOK, WorkerSound, WaiterSound, WindowEnd,
  SendComplete, Send
<1>4. WaiterSound'
  BY <1>0, <1>1 DEF IInv, WorkerSound, WaiterSound, TypeOK, SendComplete, Send
<1>5. MarketSound'
  BY <1>0, <1>1 DEF IInv, MarketSound, AckedIsGot, GotSound, DownSound, UpSound,
  SendComplete, Send
<1>6. UnfinishedOnlyByFault'
  BY <1>0, <1>1, SameUnfinished DEF IInv, TypeOK, WorkerSound, SendComplete, Send
<1> QED  BY <1>2, <1>3, <1>4, <1>5, <1>6 DEF IInv

LEMMA SendFailsKeeps ==
  ASSUME IInv, SendFails
  PROVE  IInv'
<1>2. TypeOK'
  BY WindowBounds DEF IInv, TypeOK, WorkerSound, Final, SendFails, Uploading
<1>3. WorkerSound'
  BY WindowBounds DEF IInv, TypeOK, WorkerSound, WaiterSound, WindowEnd, SendFails,
  Uploading
<1>4. WaiterSound'
  BY DEF IInv, WorkerSound, WaiterSound, TypeOK, SendFails, Uploading
<1>5. MarketSound'
  BY DEF IInv, MarketSound, AckedIsGot, GotSound, DownSound, UpSound, SendFails,
  Uploading
<1>6. UnfinishedOnlyByFault'
  BY SameUnfinished DEF IInv, TypeOK, WorkerSound, SendFails, Uploading
<1> QED  BY <1>2, <1>3, <1>4, <1>5, <1>6 DEF IInv

LEMMA RecordOutcomeKeeps ==
  ASSUME IInv, RecordOutcome
  PROVE  IInv'
<1>2. TypeOK'
  <2>1. log' \in [Deliveries -> Final \cup {"none", "received", "uploading"}] /\ faults' \in Nat
    <3>1. log' = [log EXCEPT ![cur] = verdict] \/ log' = log
      BY DEF RecordOutcome
    <3>2. faults' = faults \/ faults' = faults + 1
      BY DEF RecordOutcome, Fault
    <3>3. faults' \in Nat
      BY <3>2 DEF IInv, TypeOK
    <3>4. log \in [Deliveries -> Final \cup {"none", "received", "uploading"}] /\ verdict \in Final
      BY DEF IInv, TypeOK
    <3>5. log' \in [Deliveries -> Final \cup {"none", "received", "uploading"}]
      BY <3>1, <3>4
    <3> QED  BY <3>3, <3>5
  <2>2. start' \in 0 .. Total /\ next' \in 0 .. Total /\ verdict' \in Final
    BY DEF RecordOutcome, Final
  <2> QED  BY <2>1, <2>2 DEF IInv, TypeOK, RecordOutcome
<1>3. WorkerSound'
  BY WindowBounds DEF IInv, TypeOK, WorkerSound, WaiterSound, WindowEnd,
  RecordOutcome, Fault
<1>4. WaiterSound'
  BY DEF IInv, WorkerSound, WaiterSound, TypeOK, RecordOutcome, Fault
<1>5. MarketSound'
  BY DEF IInv, MarketSound, AckedIsGot, GotSound, DownSound, UpSound, RecordOutcome,
  Fault
<1>6. UnfinishedOnlyByFault'
  <2>1. CASE log' = [log EXCEPT ![cur] = verdict] /\ UNCHANGED faults
    BY <2>1, SameUnfinished DEF IInv, TypeOK, WorkerSound, Final, RecordOutcome
  <2>2. CASE Fault /\ UNCHANGED log
    BY <2>2, OneMoreUnfinished DEF IInv, RecordOutcome
  <2> QED  BY <2>1, <2>2 DEF RecordOutcome
<1> QED  BY <1>2, <1>3, <1>4, <1>5, <1>6 DEF IInv

\* The client.
LEMMA ConnectKeeps ==
  ASSUME IInv, Connect
  PROVE  IInv'
<1>2. TypeOK'
  BY WindowBounds DEF IInv, TypeOK, WorkerSound, Final, Connect
<1>3. WorkerSound'
  BY WindowBounds DEF IInv, TypeOK, WorkerSound, WaiterSound, WindowEnd, Connect
<1>4. WaiterSound'
  BY DEF IInv, WorkerSound, WaiterSound, TypeOK, Connect
<1>5. MarketSound'
  BY DEF IInv, MarketSound, AckedIsGot, GotSound, DownSound, UpSound, Connect
<1>6. UnfinishedOnlyByFault'
  BY SameUnfinished DEF IInv, TypeOK, WorkerSound, Connect
<1> QED  BY <1>2, <1>3, <1>4, <1>5, <1>6 DEF IInv

LEMMA DisconnectKeeps ==
  ASSUME IInv, Disconnect
  PROVE  IInv'
<1>2. TypeOK'
  BY WindowBounds DEF IInv, TypeOK, WorkerSound, Final, Disconnect
<1>3. WorkerSound'
  BY WindowBounds DEF IInv, TypeOK, WorkerSound, WaiterSound, WindowEnd, Disconnect
<1>4. WaiterSound'
  BY DEF IInv, WorkerSound, WaiterSound, TypeOK, Disconnect
<1>5. MarketSound'
  BY DEF IInv, MarketSound, AckedIsGot, GotSound, DownSound, UpSound, Disconnect
<1>6. UnfinishedOnlyByFault'
  BY SameUnfinished DEF IInv, TypeOK, WorkerSound, Disconnect
<1> QED  BY <1>2, <1>3, <1>4, <1>5, <1>6 DEF IInv

LEMMA DispatchKeeps ==
  ASSUME IInv, Dispatch
  PROVE  IInv'
<1>2. TypeOK'
  <2>1. down' \in Seq(Message) /\ Head(down) \in Message
    BY Popped DEF IInv, TypeOK, Dispatch
  <2>2. Head(down).t \in Deliveries
    BY <2>1, MessageFields
  <2>3. queue' \in Seq(Deliveries)
    BY <2>2, Appended DEF IInv, TypeOK, Dispatch
  <2>4. waiter' \in Message \cup {Nothing, Waiting}
    BY <2>1 DEF IInv, TypeOK, Dispatch
  <2> QED  BY <2>1, <2>3, <2>4 DEF IInv, TypeOK, Dispatch
<1>3. WorkerSound'
  BY WindowBounds DEF IInv, TypeOK, WorkerSound, WaiterSound, WindowEnd, Dispatch
<1>4. WaiterSound'
  <2>1. down[1] = Head(down) /\ 1 \in 1 .. Len(down) /\ Head(down) \in Message
    BY Popped DEF IInv, TypeOK, Dispatch
  <2>2. Head(down) \notin {Nothing, Waiting}
    BY <2>1
  <2>3. Head(down).kind = "continue" => Head(down).n <= acked[Head(down).t]
    BY <2>1 DEF IInv, MarketSound, DownSound
  <2>4. UNCHANGED <<pc, cur, acked>> /\ waiter' \in {waiter, Head(down)}
        /\ (waiter' # waiter => waiter = Waiting /\ Head(down).t = cur)
    BY DEF Dispatch
  <2> QED  BY <2>2, <2>3, <2>4 DEF IInv, WaiterSound
<1>5. MarketSound'
  BY DEF IInv, MarketSound, AckedIsGot, GotSound, DownSound, UpSound, Dispatch
<1>6. UnfinishedOnlyByFault'
  BY SameUnfinished DEF IInv, TypeOK, WorkerSound, Dispatch
<1> QED  BY <1>2, <1>3, <1>4, <1>5, <1>6 DEF IInv

LEMMA RestartKeeps ==
  ASSUME IInv, Restart
  PROVE  IInv'
<1>2. TypeOK'
  <2>1. start' \in 0 .. Total /\ next' \in 0 .. Total /\ verdict' \in Final /\ faults' \in Nat
    BY DEF IInv, TypeOK, Restart, Final, Fault
  <2>2. queue' \in Seq(Deliveries) /\ up' \in Seq(Message) /\ down' \in Seq(Message)
    <3> HIDE DEF Message
    <3> QED  BY DEF Restart
  <2> QED  BY <2>1, <2>2 DEF IInv, TypeOK, Restart
<1>3. WorkerSound'
  BY WindowBounds DEF IInv, TypeOK, WorkerSound, WaiterSound, WindowEnd, Restart,
  Fault
<1>4. WaiterSound'
  BY DEF IInv, WorkerSound, WaiterSound, TypeOK, Restart, Fault
<1>5. MarketSound'
  BY DEF IInv, MarketSound, AckedIsGot, GotSound, DownSound, UpSound, Restart, Fault
<1>6. UnfinishedOnlyByFault'
  BY OneMoreUnfinished DEF IInv, Restart
<1> QED  BY <1>2, <1>3, <1>4, <1>5, <1>6 DEF IInv

\* The marketplace.
LEMMA MarketDeliverKeeps ==
  ASSUME IInv, NEW d \in Deliveries, MarketDeliver(d)
  PROVE  IInv'
<1>2. TypeOK'
  <2>1. [t |-> d, kind |-> "deliver", n |-> 0] \in Message
    BY DEF Message
  <2>2. down' \in Seq(Message)
    BY <2>1, Appended DEF IInv, TypeOK, MarketDeliver
  <2> QED  BY <2>2 DEF IInv, TypeOK, MarketDeliver
<1>3. WorkerSound'
  BY WindowBounds DEF IInv, TypeOK, WorkerSound, WaiterSound, WindowEnd,
  MarketDeliver
<1>4. WaiterSound'
  BY DEF IInv, WorkerSound, WaiterSound, TypeOK, MarketDeliver
<1>5. MarketSound'
  BY DEF IInv, MarketSound, AckedIsGot, GotSound, DownSound, UpSound, MarketDeliver
<1>6. UnfinishedOnlyByFault'
  BY SameUnfinished DEF IInv, TypeOK, WorkerSound, MarketDeliver
<1> QED  BY <1>2, <1>3, <1>4, <1>5, <1>6 DEF IInv

LEMMA MarketReceiveKeeps ==
  ASSUME IInv, MarketReceive
  PROVE  IInv'
<1>2. TypeOK'
  <2>1. up' \in Seq(Message) /\ Head(up) \in Message /\ 1 \in 1 .. Len(up) /\ Head(up) = up[1]
    BY Popped DEF IInv, TypeOK, MarketReceive
  <2>2. Head(up).t \in Deliveries /\ (Head(up).kind = "chunk" => Head(up).n \in 0 .. Total - 1)
    BY <2>1, MessageFields DEF IInv, MarketSound, UpSound
  <2>3. got' \in [Deliveries -> SUBSET (0 .. Total - 1)] /\ owing' \subseteq Deliveries
    BY <2>2 DEF IInv, TypeOK, MarketReceive
  <2>4. told' \in [Deliveries -> Message \cup {Nothing}]
    BY <2>1, <2>2 DEF IInv, TypeOK, MarketReceive
  <2> QED  BY <2>1, <2>3, <2>4 DEF IInv, TypeOK, MarketReceive
<1>3. WorkerSound'
  BY WindowBounds DEF IInv, TypeOK, WorkerSound, WaiterSound, WindowEnd,
  MarketReceive
<1>4. WaiterSound'
  BY DEF IInv, WorkerSound, WaiterSound, TypeOK, MarketReceive
<1>5. MarketSound'
  BY DEF IInv, MarketSound, AckedIsGot, GotSound, DownSound, UpSound, MarketReceive
<1>6. UnfinishedOnlyByFault'
  BY SameUnfinished DEF IInv, TypeOK, WorkerSound, MarketReceive
<1> QED  BY <1>2, <1>3, <1>4, <1>5, <1>6 DEF IInv

\* The marketplace acknowledges no less than before.
LEMMA AckGrows ==
  ASSUME IInv, NEW d \in Deliveries, MarketAck(d)
  PROVE  /\ Through(d) \in -1 .. Total - 1 /\ 0 .. Through(d) \subseteq got[d]
         /\ acked' \in [Deliveries -> -1 .. Total - 1]
         /\ \A e \in Deliveries : acked'[e] >= acked[e]
         /\ \A e \in Deliveries : acked'[e] = acked[e] \/ (e = d /\ acked'[e] = Through(d))
         /\ \E k \in {"continue", "refuse"} :
              /\ down' = Append(down, [t |-> d, kind |-> k, n |-> Through(d)])
              /\ k = "continue" => acked'[d] = Through(d)
<1>1. Through(d) \in -1 .. Total - 1 /\ 0 .. Through(d) \subseteq got[d] /\ Through(d) + 1 \notin got[d]
  BY ThroughIs DEF IInv, TypeOK
<1>2. acked[d] \in -1 .. Total - 1 /\ 0 .. acked[d] \subseteq got[d]
  BY DEF IInv, TypeOK, MarketSound, AckedIsGot
<1>3. Through(d) >= acked[d]
  BY <1>1, <1>2
<1> DEFINE n == Through(d)
<1>4. n \in -1 .. Total - 1 /\ n >= acked[d]
  BY <1>1, <1>3
<1>5. \/ /\ acked' = [acked EXCEPT ![d] = n]
         /\ down' = Append(down, [t |-> d, kind |-> "continue", n |-> n])
      \/ /\ down' = Append(down, [t |-> d, kind |-> "refuse", n |-> n])
         /\ UNCHANGED acked
  BY DEF MarketAck
<1> HIDE DEF n
<1>6. acked' = [acked EXCEPT ![d] = n] \/ acked' = acked
  BY <1>5
<1>7. /\ acked' \in [Deliveries -> -1 .. Total - 1]
      /\ \A e \in Deliveries : acked'[e] >= acked[e]
      /\ \A e \in Deliveries : acked'[e] = acked[e] \/ (e = d /\ acked'[e] = n)
  <2>1. acked \in [Deliveries -> -1 .. Total - 1]
    BY DEF IInv, TypeOK
  <2>2. CASE acked' = acked
    BY <2>1, <2>2
  <2>3. CASE acked' = [acked EXCEPT ![d] = n]
    <3>1. \A e \in Deliveries : acked'[e] = IF e = d THEN n ELSE acked[e]
      BY <2>1, <2>3
    <3> QED  BY <1>4, <2>1, <2>3, <3>1
  <2> QED  BY <1>6, <2>2, <2>3
<1>8. \E k \in {"continue", "refuse"} :
        /\ down' = Append(down, [t |-> d, kind |-> k, n |-> n])
        /\ k = "continue" => acked'[d] = n
  BY <1>4, <1>5 DEF IInv, TypeOK
<1> QED  BY <1>1, <1>7, <1>8 DEF n

LEMMA MarketAckKeeps ==
  ASSUME IInv, NEW d \in Deliveries, MarketAck(d)
  PROVE  IInv'
<1> DEFINE n == Through(d)
<1>1. /\ n \in -1 .. Total - 1 /\ 0 .. n \subseteq got[d]
      /\ acked' \in [Deliveries -> -1 .. Total - 1] /\ acked \in [Deliveries -> -1 .. Total - 1]
      /\ \A e \in Deliveries : acked'[e] >= acked[e]
      /\ \A e \in Deliveries : acked'[e] = acked[e] \/ (e = d /\ acked'[e] = n)
  BY AckGrows DEF IInv, TypeOK
<1>2. PICK k \in {"continue", "refuse"} :
        /\ down' = Append(down, [t |-> d, kind |-> k, n |-> n])
        /\ k = "continue" => acked'[d] = n
  BY AckGrows
<1>3. UNCHANGED <<queue, worker, waiter, link, up, log, sent, got, told, drops, faults>>
      /\ owing' \subseteq Deliveries
  BY DEF MarketAck, IInv, TypeOK
<1> HIDE DEF n
<1> DEFINE e == [t |-> d, kind |-> k, n |-> n]
<1>4. e \in Message /\ e.t = d /\ e.kind = k /\ e.n = n
  BY <1>1 DEF Message
<1> HIDE DEF e
<1>5. /\ down' \in Seq(Message) /\ Len(down) \in Nat /\ Len(down') = Len(down) + 1
      /\ \A i \in 1 .. Len(down) : down'[i] = down[i] /\ down[i] \in Message
      /\ down'[Len(down) + 1] = e
  BY <1>2, <1>4, Appended DEF IInv, TypeOK, e
<1>6. TypeOK'
  BY <1>1, <1>3, <1>5 DEF IInv, TypeOK
<1>7. WorkerSound'
  BY <1>1, <1>3 DEF IInv, TypeOK, WorkerSound, WindowEnd
<1>8. WaiterSound'
  <2>1. waiter \in Message => waiter.n \in -1 .. Total /\ waiter.t \in Deliveries
    BY MessageFields
  <2> QED  BY <1>1, <1>3, <2>1 DEF IInv, TypeOK, WaiterSound
<1>9. AckedIsGot' /\ GotSound'
  <2>1. \A f \in Deliveries : 0 .. acked[f] \subseteq got[f] /\ got'[f] = got[f]
    BY <1>3 DEF IInv, MarketSound, AckedIsGot
  <2>2. AckedIsGot'
    BY <1>1, <2>1 DEF AckedIsGot
  <2>3. \A f \in Deliveries : \A c \in got[f] : c \in 0 .. Total - 1 /\ c <= acked[f] + WINDOW_SIZE
    BY DEF IInv, TypeOK, MarketSound, GotSound
  <2>4. GotSound'
    BY <1>1, <2>1, <2>3 DEF GotSound
  <2> QED  BY <2>2, <2>4
<1>10. DownSound'
  <2> SUFFICES ASSUME NEW i \in 1 .. Len(down'), down'[i].kind = "continue"
               PROVE  down'[i].n <= acked'[down'[i].t]
    BY DEF DownSound
  <2>1. CASE i \in 1 .. Len(down)
    <3>1. down[i].n <= acked[down[i].t] /\ down[i].t \in Deliveries /\ down[i].n \in -1 .. Total
      BY <1>5, <2>1, MessageFields DEF IInv, MarketSound, DownSound
    <3> QED  BY <1>1, <1>5, <2>1, <3>1
  <2>2. CASE i = Len(down) + 1
    BY <1>1, <1>2, <1>4, <1>5, <2>2
  <2> QED  BY <1>5, <2>1, <2>2
<1>11. UpSound'
  <2> SUFFICES ASSUME NEW i \in 1 .. Len(up), up[i].kind = "chunk"
               PROVE  up[i].n \in 0 .. Total - 1 /\ up[i].n <= acked'[up[i].t] + WINDOW_SIZE
    BY <1>3 DEF UpSound
  <2>1. up[i] \in Message
    BY DEF IInv, TypeOK
  <2>2. up[i].t \in Deliveries
    BY <2>1, MessageFields
  <2>3. up[i].n \in 0 .. Total - 1 /\ up[i].n <= acked[up[i].t] + WINDOW_SIZE
    BY DEF IInv, MarketSound, UpSound
  <2> QED  BY <1>1, <2>2, <2>3
<1>12. UnfinishedOnlyByFault'
  BY <1>3, SameUnfinished DEF IInv, TypeOK
<1> QED  BY <1>6, <1>7, <1>8, <1>9, <1>10, <1>11, <1>12 DEF IInv, MarketSound

-----------------------------------------------------------------------------
\* Every step keeps the invariant.
LEMMA NextHolds ==
  ASSUME IInv, [Next]_vars
  PROVE  IInv'
<1>1. CASE UNCHANGED vars
  BY <1>1 DEF vars, IInv, TypeOK, WorkerSound, WindowEnd, WaiterSound, MarketSound, AckedIsGot,
     GotSound, DownSound, UpSound, UnfinishedOnlyByFault
<1>2. CASE WorkerStep
  BY <1>2, TakeKeeps, RefuseKeeps, DeliverS3ObjectKeeps, SendMetadataKeeps, ReadFailsKeeps,
     SendChunkKeeps, WaitForAckKeeps, TimeoutKeeps, GiveUpKeeps, ReceiveAckKeeps, RejectAckKeeps,
     SendCompleteKeeps, SendFailsKeeps, RecordOutcomeKeeps DEF WorkerStep
<1>3. CASE Market
  BY <1>3, MarketReceiveKeeps, MarketDeliverKeeps, MarketAckKeeps DEF Market
<1> QED
  BY <1>1, <1>2, <1>3, ConnectKeeps, DisconnectKeeps, DispatchKeeps, RestartKeeps DEF Next

\* The inductive invariant holds in every reachable state.
THEOREM Inductive == Spec => []IInv
BY InitHolds, NextHolds, PTL DEF Spec

\* Every variable keeps its type: in particular the marketplace gets no chunk
\* that the file does not have.
THEOREM TypeCorrect == Spec => []TypeOK
<1>1. IInv => TypeOK
  BY DEF IInv
<1> QED  BY <1>1, Inductive, PTL

\* Flow control holds for every file and window size, whatever is lost, sent
\* again or answered late.
THEOREM WindowIsKept == Spec => []NeverAWindowAhead
<1>1. IInv => NeverAWindowAhead
  <2> SUFFICES ASSUME IInv, NEW d \in Deliveries, NEW c \in Chunks(d)
               PROVE  c <= acked[d] + WINDOW_SIZE
    BY DEF NeverAWindowAhead
  <2>1. CASE c \in got[d]
    BY <2>1 DEF IInv, MarketSound, GotSound
  <2>2. CASE c \notin got[d]
    <3>1. PICK i \in 1 .. Len(up) : up[i].t = d /\ up[i].kind = "chunk" /\ c = up[i].n
      BY <2>2 DEF Chunks, ToSet, IInv, TypeOK
    <3> QED  BY <3>1 DEF IInv, MarketSound, UpSound
  <2> QED  BY <2>1, <2>2
<1> QED  BY <1>1, Inductive, PTL

\* No error path of the handler leaves its transfer without an outcome.
THEOREM UnfinishedAreFaults == Spec => []UnfinishedOnlyByFault
<1>1. IInv => UnfinishedOnlyByFault
  BY DEF IInv
<1> QED  BY <1>1, Inductive, PTL

-----------------------------------------------------------------------------
(* What "complete" means: a second invariant, inductive relative to IInv *)

LastWindow(c) == c \div WINDOW_SIZE = (Total - 1) \div WINDOW_SIZE

\* Chunk c of transfer d has arrived, or is in flight before the i-th message.
Arrives(d, c, i) ==
  \/ c \in got[d]
  \/ \E j \in 1 .. Len(up) : j < i /\ up[j].t = d /\ up[j].kind = "chunk" /\ up[j].n = c

\* Windows begin at multiples of their size; what was sent of the current one
\* arrives unless a connection is lost; the last chunk comes before "complete".
SentSound ==
  /\ \E k \in Nat : start = k * WINDOW_SIZE
  /\ pc \in {"send", "complete"} =>
       \A c \in start .. next - 1 : drops > 0 \/ Arrives(cur, c, Len(up) + 1)
  /\ pc = "complete" => next = 0 \/ (start < Total /\ WindowEnd = Total /\ next = Total)

\* A file called complete is whole once the messages before that are received.
AnnouncedSound ==
  \A i \in 1 .. Len(up) : up[i].kind = "complete" =>
    \A c \in 0 .. up[i].n - 1 : Arrives(up[i].t, c, i) \/ (drops > 0 /\ LastWindow(c))

WholeInv == SentSound /\ AnnouncedSound /\ CompleteIsWhole

\* The quotient of what lies within a multiple and the next one.
LEMMA QuotientIs ==
  ASSUME NEW k \in Nat, NEW c \in Nat, k * WINDOW_SIZE <= c, c < k * WINDOW_SIZE + WINDOW_SIZE
  PROVE  c \div WINDOW_SIZE = k
<1> DEFINE q == c \div WINDOW_SIZE
<1>1. q \in Int /\ q * WINDOW_SIZE <= c /\ c < q * WINDOW_SIZE + WINDOW_SIZE
  OBVIOUS
<1> HIDE DEF q
<1>2. ~(q < k)
  BY <1>1
<1>3. ~(q > k)
  BY <1>1
<1> QED  BY <1>1, <1>2, <1>3 DEF q

\* A window that ends with the file is the last one.
LEMMA LastWindowIs ==
  ASSUME SentSound, TypeOK, start < Total, WindowEnd = Total, NEW c \in start .. Total - 1
  PROVE  LastWindow(c)
<1>1. PICK k \in Nat : start = k * WINDOW_SIZE
  BY DEF SentSound
<1>2. start \in Nat /\ Total <= start + WINDOW_SIZE
  BY DEF WindowEnd, TypeOK
<1>3. c \in Nat /\ c >= start /\ c < start + WINDOW_SIZE
      /\ Total - 1 \in Nat /\ Total - 1 >= start /\ Total - 1 < start + WINDOW_SIZE
  BY <1>2
<1>4. c \div WINDOW_SIZE = k
  BY <1>1, <1>3, QuotientIs
<1>5. (Total - 1) \div WINDOW_SIZE = k
  BY <1>1, <1>3, QuotientIs
<1> QED  BY <1>4, <1>5 DEF LastWindow

\* A message other than an unjustified "complete" leaves.
LEMMA AnnouncedAppended ==
  ASSUME TypeOK, WholeInv, NEW e \in Message, up' = Append(up, e), UNCHANGED <<got, drops>>,
         e.kind = "complete" => \A c \in 0 .. e.n - 1 :
           Arrives(e.t, c, Len(up) + 1) \/ (drops > 0 /\ LastWindow(c))
  PROVE  AnnouncedSound'
<1>0. up \in Seq(Message)
  BY DEF TypeOK
<1>1. /\ Len(up) \in Nat /\ Len(up') = Len(up) + 1
      /\ \A j \in 1 .. Len(up) : up'[j] = up[j] /\ up[j] \in Message
      /\ up'[Len(up) + 1] = e
  BY <1>0, Appended
<1> SUFFICES ASSUME NEW i \in 1 .. Len(up'), up'[i].kind = "complete",
                    NEW c \in 0 .. up'[i].n - 1, ~(drops > 0 /\ LastWindow(c))
             PROVE  \/ c \in got[up'[i].t]
                    \/ \E j \in 1 .. Len(up') : j < i /\ up'[j].t = up'[i].t
                                                /\ up'[j].kind = "chunk" /\ up'[j].n = c
  BY DEF AnnouncedSound, LastWindow, Arrives
<1>2. Arrives(up'[i].t, c, i)
  BY <1>1 DEF WholeInv, AnnouncedSound
<1> QED  BY <1>1, <1>2 DEF Arrives

\* No message moves.
LEMMA NothingMoves ==
  ASSUME WholeInv, SentSound', UNCHANGED <<up, got, told, drops>>
  PROVE  WholeInv'
BY DEF WholeInv, AnnouncedSound, CompleteIsWhole, Complete, Arrives, LastWindow

\* The worker sends no chunk next.
LEMMA NotSending ==
  ASSUME SentSound, start' \in {0, start}, pc' \notin {"send", "complete"}
  PROVE  SentSound'
<1>1. 0 = 0 * WINDOW_SIZE
  OBVIOUS
<1> QED  BY <1>1 DEF SentSound

LEMMA WorkerRests ==
  ASSUME WholeInv, UNCHANGED <<start, next, pc, cur, up, got, told, drops>>
  PROVE  WholeInv'
<1>1. SentSound'
  BY DEF WholeInv, SentSound, Arrives, WindowEnd
<1> QED  BY <1>1, NothingMoves

\* Whatever the marketplace has been told stays true.
LEMMA ToldKept ==
  ASSUME WholeInv, UNCHANGED <<got, told, drops>>
  PROVE  CompleteIsWhole'
BY DEF WholeInv, CompleteIsWhole, Complete

\* A message that is not "complete" leaves.
LEMMA OrdinarySent ==
  ASSUME TypeOK, WholeInv, cur \in Deliveries, NEW k \in Kinds \ {"complete"}, NEW n \in -1 .. Total,
         up' = Append(up, [t |-> cur, kind |-> k, n |-> n]), UNCHANGED <<got, told, drops>>
  PROVE  AnnouncedSound' /\ CompleteIsWhole'
<1> DEFINE e == [t |-> cur, kind |-> k, n |-> n]
<1>1. e \in Message /\ e.kind # "complete"
  BY MessageFields
<1> HIDE DEF e
<1>2. up' = Append(up, e)
  BY DEF e
<1> QED  BY <1>1, <1>2, AnnouncedAppended, ToldKept

\* The worker gives up, and says so if it can.
LEMMA ErrorSent ==
  ASSUME TypeOK, WholeInv, cur \in Deliveries, NEW s \in Final, SendError(s),
         UNCHANGED <<start, got, told, drops>>
  PROVE  WholeInv'
<1>1. SentSound'
  BY NotSending DEF SendError, WholeInv
<1>2. CASE link = "open"
  <2>1. up' = Append(up, [t |-> cur, kind |-> "error", n |-> 0])
    BY <1>2 DEF SendError, Msg
  <2>2. "error" \in Kinds \ {"complete"} /\ 0 \in -1 .. Total
    BY DEF Kinds
  <2>3. AnnouncedSound' /\ CompleteIsWhole'
    BY <2>1, <2>2, OrdinarySent
  <2> QED  BY <1>1, <2>3 DEF WholeInv
<1>3. CASE link # "open"
  BY <1>1, <1>3, NothingMoves DEF SendError
<1> QED  BY <1>2, <1>3

\* What was in flight is lost.
LEMMA FlightLost ==
  ASSUME TypeOK, WholeInv, up' = <<>>, drops' >= drops, drops' \in Nat, UNCHANGED <<got, told>>
  PROVE  AnnouncedSound' /\ CompleteIsWhole'
<1>1. AnnouncedSound'
  BY DEF AnnouncedSound
<1>2. CompleteIsWhole'
  BY DEF WholeInv, CompleteIsWhole, Complete, TypeOK
<1> QED  BY <1>1, <1>2

\* The worker: one lemma for each of its steps that sends or moves the window.
LEMMA DeliverS3ObjectWhole ==
  ASSUME IInv, WholeInv, DeliverS3Object
  PROVE  WholeInv'
<1>1. cur \in Deliveries /\ start = 0 /\ next = 0 /\ pc' = "complete"
  BY DEF IInv, TypeOK, WorkerSound, DeliverS3Object
<1>2. UNCHANGED <<start, next, cur, got, told, drops>>
      /\ up' = Append(up, [t |-> cur, kind |-> "url", n |-> 0])
  BY DEF DeliverS3Object, Send, Msg
<1>3. SentSound'
  BY <1>1, <1>2 DEF SentSound, WholeInv
<1>4. "url" \in Kinds \ {"complete"} /\ 0 \in -1 .. Total
  BY DEF Kinds
<1>5. AnnouncedSound' /\ CompleteIsWhole'
  BY <1>1, <1>2, <1>4, OrdinarySent DEF IInv
<1> QED  BY <1>3, <1>5 DEF WholeInv

LEMMA SendMetadataWhole ==
  ASSUME IInv, WholeInv, SendMetadata
  PROVE  WholeInv'
<1>1. cur \in Deliveries /\ start = 0 /\ next = 0 /\ pc' = "send"
  BY DEF IInv, TypeOK, WorkerSound, SendMetadata
<1>2. UNCHANGED <<start, next, cur, got, told, drops>>
      /\ up' = Append(up, [t |-> cur, kind |-> "metadata", n |-> Total])
  BY DEF SendMetadata, Send, Msg
<1>3. SentSound'
  BY <1>1, <1>2 DEF SentSound, WholeInv
<1>4. "metadata" \in Kinds \ {"complete"} /\ Total \in -1 .. Total
  BY DEF Kinds
<1>5. AnnouncedSound' /\ CompleteIsWhole'
  BY <1>1, <1>2, <1>4, OrdinarySent DEF IInv
<1> QED  BY <1>3, <1>5 DEF WholeInv

LEMMA SendChunkWhole ==
  ASSUME IInv, WholeInv, SendChunk
  PROVE  WholeInv'
<1>1. cur \in Deliveries /\ start <= next /\ next < WindowEnd /\ next \in 0 .. Total - 1
      /\ start \in Nat /\ WindowEnd \in 0 .. Total
  BY WindowBounds DEF IInv, TypeOK, WorkerSound, SendChunk
<1> DEFINE e == [t |-> cur, kind |-> "chunk", n |-> next]
<1>2. /\ UNCHANGED <<start, cur, got, told, drops>> /\ WindowEnd' = WindowEnd
      /\ next' = next + 1 /\ pc = "send"
      /\ pc' \in {"send", "await", "complete"} /\ up' = Append(up, e)
      /\ pc' = "complete" => next + 1 >= WindowEnd /\ WindowEnd >= Total
  BY <1>1 DEF SendChunk, Send, Msg, WindowEnd
<1>3. e \in Message /\ e.t = cur /\ e.kind = "chunk" /\ e.n = next
  <2>1. "chunk" \in Kinds /\ next \in -1 .. Total
    BY <1>1 DEF Kinds
  <2> QED  BY <1>1, <2>1, MessageFields
<1>4. up \in Seq(Message)
  BY DEF IInv, TypeOK
<1> HIDE DEF e
<1>5. /\ Len(up) \in Nat /\ Len(up') = Len(up) + 1
      /\ \A j \in 1 .. Len(up) : up'[j] = up[j]
      /\ up'[Len(up) + 1] = e
  BY <1>2, <1>3, <1>4, Appended
<1>6. SentSound'
  <2>1. \A c \in start .. next' - 1 : drops > 0 \/ Arrives(cur, c, Len(up) + 1) \/ c = next
    BY <1>1, <1>2 DEF WholeInv, SentSound
  <2>2. ASSUME NEW c \in start .. next' - 1, ~(drops > 0)
        PROVE  \/ c \in got[cur]
               \/ \E j \in 1 .. Len(up') : j < Len(up') + 1 /\ up'[j].t = cur
                                           /\ up'[j].kind = "chunk" /\ up'[j].n = c
    <3>1. CASE c = next
      BY <1>3, <1>5, <3>1
    <3>2. CASE Arrives(cur, c, Len(up) + 1)
      BY <1>5, <3>2 DEF Arrives
    <3> QED  BY <2>1, <2>2, <3>1, <3>2 DEF IInv, TypeOK
  <2>3. \A c \in start' .. next' - 1 : drops' > 0 \/ Arrives(cur, c, Len(up) + 1)'
    BY <1>2, <2>2 DEF Arrives
  <2>4. pc' = "complete" => start < Total /\ WindowEnd = Total /\ next' = Total
    BY <1>1, <1>2
  <2> QED  BY <1>2, <2>3, <2>4 DEF WholeInv, SentSound
<1>7. AnnouncedSound' /\ CompleteIsWhole'
  BY <1>2, <1>3, AnnouncedAppended, ToldKept DEF IInv
<1> QED  BY <1>6, <1>7 DEF WholeInv

LEMMA TimeoutWhole ==
  ASSUME IInv, WholeInv, Timeout
  PROVE  WholeInv'
<1>1. /\ UNCHANGED <<start, cur, up, got, told, drops>>
      /\ next' = start /\ pc' = "send"
  BY DEF Timeout
<1>2. start .. start - 1 = {}
  BY DEF IInv, TypeOK
<1>3. SentSound'
  BY <1>1, <1>2 DEF WholeInv, SentSound
<1> QED  BY <1>1, <1>3, NothingMoves

LEMMA ReceiveAckWhole ==
  ASSUME IInv, WholeInv, ReceiveAck
  PROVE  WholeInv'
<1>1. /\ UNCHANGED <<next, cur, up, got, told, drops>>
      /\ start' = WindowEnd /\ next = WindowEnd /\ pc' = "send" /\ WindowEnd < Total
  BY DEF ReceiveAck, IInv, WorkerSound
<1>2. PICK k \in Nat : start = k * WINDOW_SIZE
  BY DEF WholeInv, SentSound
<1>3. start' = start + WINDOW_SIZE
  BY <1>1 DEF WindowEnd, IInv, TypeOK
<1>4. k + 1 \in Nat /\ start' = (k + 1) * WINDOW_SIZE
  BY <1>2, <1>3
<1>5. WindowEnd .. WindowEnd - 1 = {}
  BY WindowBounds DEF IInv, TypeOK
<1>6. SentSound'
  BY <1>1, <1>4, <1>5 DEF SentSound
<1> QED  BY <1>1, <1>6, NothingMoves

\* The chunks before the last window were acknowledged; those of the last are
\* in flight before "complete", unless a connection was lost.
LEMMA SendCompleteWhole ==
  ASSUME IInv, WholeInv, SendComplete
  PROVE  WholeInv'
<1>1. cur \in Deliveries /\ next \in 0 .. Total /\ start \in 0 .. Total /\ acked[cur] \in Int
      /\ start - 1 <= acked[cur] /\ pc = "complete"
  BY DEF IInv, TypeOK, WorkerSound, SendComplete
<1> DEFINE e == [t |-> cur, kind |-> "complete", n |-> next]
<1>2. UNCHANGED <<start, next, cur, got, told, drops>> /\ up' = Append(up, e) /\ pc' = "record"
  BY DEF SendComplete, Send, Msg
<1>3. e \in Message /\ e.t = cur /\ e.kind = "complete" /\ e.n = next
  <2>1. "complete" \in Kinds /\ next \in -1 .. Total
    BY <1>1 DEF Kinds
  <2> QED  BY <1>1, <2>1, MessageFields
<1> HIDE DEF e
<1>4. ASSUME NEW c \in 0 .. next - 1
      PROVE  Arrives(cur, c, Len(up) + 1) \/ (drops > 0 /\ LastWindow(c))
  <2>1. CASE c < start
    <3>1. c \in 0 .. acked[cur]
      BY <1>1, <2>1
    <3> QED  BY <1>1, <3>1 DEF IInv, MarketSound, AckedIsGot, Arrives
  <2>2. CASE c >= start
    <3>1. start < Total /\ WindowEnd = Total /\ next = Total
      BY <1>1 DEF WholeInv, SentSound
    <3>2. c \in start .. Total - 1
      BY <1>1, <2>2, <3>1
    <3>3. LastWindow(c)
      BY <3>1, <3>2, LastWindowIs DEF WholeInv, IInv
    <3>4. drops > 0 \/ Arrives(cur, c, Len(up) + 1)
      BY <1>1, <3>1, <3>2 DEF WholeInv, SentSound
    <3> QED  BY <3>3, <3>4
  <2> QED  BY <1>1, <2>1, <2>2
<1>5. AnnouncedSound' /\ CompleteIsWhole'
  BY <1>2, <1>3, <1>4, AnnouncedAppended, ToldKept DEF IInv
<1>6. SentSound'
  BY <1>2, NotSending DEF WholeInv
<1> QED  BY <1>5, <1>6 DEF WholeInv

LEMMA WorkerWhole ==
  ASSUME IInv, WholeInv, WorkerStep
  PROVE  WholeInv'
<1>1. CASE Take
  <2>1. start' \in {0, start} /\ pc' \notin {"send", "complete"} /\ UNCHANGED <<up, got, told, drops>>
    BY <1>1 DEF Take
  <2> QED  BY <2>1, NotSending, NothingMoves DEF WholeInv
<1>2. CASE Refuse \/ ReadFails \/ GiveUp
  <2>1. cur \in Deliveries
    BY <1>2 DEF IInv, TypeOK, WorkerSound, Refuse, ReadFails, GiveUp
  <2>2. /\ UNCHANGED <<start, got, told, drops>>
        /\ SendError("failed") \/ SendError("timed_out")
    BY <1>2 DEF Refuse, ReadFails, GiveUp
  <2>3. "failed" \in Final /\ "timed_out" \in Final
    BY DEF Final
  <2> QED  BY <2>1, <2>2, <2>3, ErrorSent DEF IInv
<1>3. CASE WaitForAck \/ RejectAck \/ SendFails \/ RecordOutcome
  <2>1. start' \in {0, start} /\ pc' \notin {"send", "complete"} /\ UNCHANGED <<up, got, told, drops>>
    BY <1>3 DEF WaitForAck, RejectAck, SendFails, RecordOutcome
  <2> QED  BY <2>1, NotSending, NothingMoves DEF WholeInv
<1> QED  BY <1>1, <1>2, <1>3, DeliverS3ObjectWhole, SendMetadataWhole, SendChunkWhole, TimeoutWhole,
            ReceiveAckWhole, SendCompleteWhole DEF WorkerStep

\* A lost connection or a restart loses "complete" with the chunks before it.
LEMMA ClientWhole ==
  ASSUME IInv, WholeInv, Disconnect \/ Restart
  PROVE  WholeInv'
<1>1. up' = <<>> /\ drops' >= drops /\ drops' \in Nat /\ UNCHANGED <<got, told>>
  BY DEF Disconnect, Restart, IInv, TypeOK
<1>2. AnnouncedSound' /\ CompleteIsWhole'
  BY <1>1, FlightLost DEF IInv
<1>3. SentSound'
  <2>1. CASE Disconnect
    <3>1. drops' > 0 /\ UNCHANGED <<start, next, pc, cur>> /\ WindowEnd' = WindowEnd
      BY <2>1 DEF Disconnect, IInv, TypeOK, WindowEnd
    <3> QED  BY <3>1 DEF WholeInv, SentSound
  <2>2. CASE Restart
    BY <2>2, NotSending DEF Restart, WholeInv
  <2> QED  BY <2>1, <2>2
<1> QED  BY <1>2, <1>3 DEF WholeInv

\* The marketplace takes the messages in the order they were sent in.
LEMMA MarketReceiveWhole ==
  ASSUME IInv, WholeInv, MarketReceive
  PROVE  WholeInv'
<1> DEFINE m == Head(up)
<1>1. /\ Len(up) \in Nat /\ Len(up') \in Nat /\ Len(up) >= 1 /\ m = up[1] /\ m \in Message
      /\ Len(up') = Len(up) - 1
      /\ \A i \in 1 .. Len(up') : i + 1 \in 1 .. Len(up) /\ up'[i] = up[i + 1]
  <2>1. up \in Seq(Message) /\ up # <<>> /\ up' = Tail(up)
    BY DEF IInv, TypeOK, MarketReceive
  <2>2. Len(Tail(up)) = Len(up) - 1
    BY <2>1
  <2> QED  BY <2>1, <2>2, Popped
<1>2. m.t \in Deliveries /\ \A i \in 1 .. Len(up) : up[i] \in Message /\ up[i].t \in Deliveries
  <2>1. up \in Seq(Message)
    BY DEF IInv, TypeOK
  <2> QED  BY <1>1, <2>1, MessageFields
<1>3. UNCHANGED <<worker, drops>>
      /\ got' = (IF m.kind = "chunk" THEN [got EXCEPT ![m.t] = @ \cup {m.n}] ELSE got)
      /\ told' = (IF m.kind \in {"complete", "error"} THEN [told EXCEPT ![m.t] = m] ELSE told)
  BY DEF MarketReceive
<1> HIDE DEF m
<1>4. \A d \in Deliveries : got[d] \subseteq got'[d]
  BY <1>2, <1>3 DEF IInv, TypeOK
<1>5. m.kind = "chunk" => m.n \in got'[m.t]
  BY <1>2, <1>3 DEF IInv, TypeOK
<1>6. ASSUME NEW d \in Deliveries, NEW c \in Int, NEW i \in 1 .. Len(up) + 1, Arrives(d, c, i)
      PROVE  \/ c \in got'[d]
             \/ \E j \in 1 .. Len(up') : j < i - 1 /\ up'[j].t = d /\ up'[j].kind = "chunk" /\ up'[j].n = c
  <2>1. CASE c \in got[d]
    BY <1>4, <2>1
  <2>2. CASE c \notin got[d]
    <3>1. PICK j \in 1 .. Len(up) : j < i /\ up[j].t = d /\ up[j].kind = "chunk" /\ up[j].n = c
      BY <1>6, <2>2 DEF Arrives
    <3>2. CASE j = 1
      BY <1>1, <1>5, <3>1, <3>2
    <3>3. CASE j # 1
      <4>1. j - 1 \in 1 .. Len(up') /\ up'[j - 1] = up[j] /\ j - 1 < i - 1
        BY <1>1, <3>1, <3>3
      <4> QED  BY <3>1, <4>1
    <3> QED  BY <3>2, <3>3
  <2> QED  BY <2>1, <2>2
<1>7. SentSound'
  <2>1. WindowEnd' = WindowEnd
    BY <1>3 DEF WindowEnd
  <2>2. ASSUME pc \in {"send", "complete"}, NEW c \in start .. next - 1, ~(drops > 0)
        PROVE  \/ c \in got'[cur]
               \/ \E j \in 1 .. Len(up') : j < Len(up') + 1 /\ up'[j].t = cur
                                           /\ up'[j].kind = "chunk" /\ up'[j].n = c
    <3>1. cur \in Deliveries /\ c \in Int
      BY <2>2 DEF IInv, TypeOK, WorkerSound
    <3>2. Arrives(cur, c, Len(up) + 1)
      BY <2>2 DEF WholeInv, SentSound
    <3> QED  BY <1>1, <1>6, <3>1, <3>2
  <2> QED  BY <1>3, <2>1, <2>2 DEF WholeInv, SentSound, Arrives
<1>8. AnnouncedSound'
  <2> SUFFICES ASSUME NEW i \in 1 .. Len(up'), up'[i].kind = "complete",
                      NEW c \in 0 .. up'[i].n - 1, ~(drops' > 0 /\ LastWindow(c))
               PROVE  \/ c \in got'[up'[i].t]
                      \/ \E j \in 1 .. Len(up') : j < i /\ up'[j].t = up'[i].t
                                                  /\ up'[j].kind = "chunk" /\ up'[j].n = c
    BY DEF AnnouncedSound, LastWindow, Arrives
  <2>1. i + 1 \in 1 .. Len(up) /\ up'[i] = up[i + 1] /\ up[i + 1].t \in Deliveries
    BY <1>1, <1>2
  <2>2. c \in Int /\ Arrives(up[i + 1].t, c, i + 1)
    BY <1>3, <2>1 DEF WholeInv, AnnouncedSound
  <2> DEFINE d == up[i + 1].t
  <2>3. d \in Deliveries /\ up'[i].t = d /\ i + 1 \in 1 .. Len(up) + 1 /\ (i + 1) - 1 = i
        /\ Arrives(d, c, i + 1)
    BY <1>1, <2>1, <2>2
  <2> HIDE DEF d
  <2>4. \/ c \in got'[d]
        \/ \E j \in 1 .. Len(up') : j < (i + 1) - 1 /\ up'[j].t = d
                                    /\ up'[j].kind = "chunk" /\ up'[j].n = c
    BY <1>6, <2>2, <2>3
  <2> QED  BY <2>3, <2>4
<1>9. CompleteIsWhole'
  <2> SUFFICES ASSUME NEW d \in Deliveries, Complete(d)', NEW c \in (0 .. told[d].n - 1)' \ got'[d]
               PROVE  drops' > 0 /\ LastWindow(c)
    BY DEF CompleteIsWhole, LastWindow
  <2>1. CASE told'[d] = told[d]
    BY <1>3, <1>4, <2>1 DEF WholeInv, CompleteIsWhole, Complete, LastWindow
  <2>2. CASE told'[d] # told[d]
    <3>1. d = m.t /\ told'[d] = m /\ m.kind = "complete"
      BY <1>2, <1>3, <2>2 DEF IInv, TypeOK, Complete
    <3>2. Arrives(m.t, c, 1) \/ (drops > 0 /\ LastWindow(c))
      BY <1>1, <3>1 DEF WholeInv, AnnouncedSound
    <3>3. c \notin got[d]
      BY <1>4
    <3>4. ~Arrives(m.t, c, 1)
      BY <1>1, <3>1, <3>3 DEF Arrives
    <3> QED  BY <1>3, <3>2, <3>4
  <2> QED  BY <2>1, <2>2
<1> QED  BY <1>7, <1>8, <1>9 DEF WholeInv

LEMMA InitWhole == Init => WholeInv
<1>1. 0 = 0 * WINDOW_SIZE
  OBVIOUS
<1> QED  BY <1>1 DEF Init, WholeInv, SentSound, AnnouncedSound, CompleteIsWhole, Complete

LEMMA NextWhole ==
  ASSUME IInv, WholeInv, [Next]_vars
  PROVE  WholeInv'
<1>1. CASE UNCHANGED vars \/ Connect \/ Dispatch \/ \E d \in Deliveries : MarketDeliver(d) \/ MarketAck(d)
  BY <1>1, WorkerRests DEF vars, Connect, Dispatch, MarketDeliver, MarketAck
<1> QED  BY <1>1, WorkerWhole, ClientWhole, MarketReceiveWhole DEF Next, Market

\* A file of any size, sent in windows of any size, that the marketplace is told
\* complete is whole there, but for the last window when a connection was lost:
\* no acknowledgement, late answer, retry or restart opens another gap.
THEOREM CompleteStaysWhole == Spec => []CompleteIsWhole
<1>1. Spec => []WholeInv
  BY Inductive, InitWhole, NextWhole, PTL DEF Spec
<1>2. WholeInv => CompleteIsWhole
  BY DEF WholeInv
<1> QED  BY <1>1, <1>2, PTL

-----------------------------------------------------------------------------
(* One delivery, one transfer, one outcome: a third invariant, for the       *)
(* refinement of FileTransfer                                                *)

Ending == {"complete", "error"}
NothingOf(d) == \A i \in 1 .. Len(up) : up[i].t # d
Untouched(d) == told[d] = Nothing /\ got[d] = {} /\ NothingOf(d)
InQueue(d) == \E i \in 1 .. Len(queue) : queue[i] = d
Announced(s, d, i) == s[i].kind = "deliver" /\ s[i].t = d

\* A delivery is in one place at a time and in none before it is sent; before
\* the worker takes it nothing of it is on its way.
OnceSound ==
  /\ \A d \in Deliveries \ sent :
       Untouched(d) /\ cur # d /\ ~InQueue(d) /\ \A i \in 1 .. Len(down) : ~Announced(down, d, i)
  /\ \A d \in Deliveries : \A i \in 1 .. Len(down) : Announced(down, d, i) =>
       Untouched(d) /\ cur # d /\ ~InQueue(d) /\ \A j \in 1 .. Len(down) : Announced(down, d, j) => j = i
  /\ \A d \in Deliveries : \A i \in 1 .. Len(queue) : queue[i] = d =>
       Untouched(d) /\ cur # d /\ \A j \in 1 .. Len(queue) : queue[j] = d => j = i

\* The transfer being sent has no outcome yet, on its way or told.
OpenSound ==
  /\ pc = "resolve" => Untouched(cur)
  /\ pc \notin {"idle", "record"} =>
       told[cur] = Nothing /\ \A i \in 1 .. Len(up) : up[i].t = cur => up[i].kind \notin Ending

\* Nothing of a transfer follows its outcome.
EndSound ==
  /\ \A i, j \in 1 .. Len(up) : i < j /\ up[i].t = up[j].t => up[i].kind \notin Ending
  /\ \A d \in Deliveries : told[d] # Nothing => NothingOf(d) /\ told[d].kind \in Ending

\* "complete" is sent after all chunks of a file or, after a link, after none.
NoChunks(d) == got[d] = {} /\ \A i \in 1 .. Len(up) : up[i].t = d => up[i].kind # "chunk"
LinkSound ==
  /\ pc = "complete" => next = Total \/ (next = 0 /\ NoChunks(cur))
  /\ \A d \in Deliveries : \A i \in 1 .. Len(up) : up[i].t = d /\ up[i].kind = "complete" =>
       up[i].n = Total \/ (up[i].n = 0 /\ NoChunks(d))

OnceInv == OnceSound /\ OpenSound /\ EndSound /\ LinkSound

LEMMA InitOnce == Init => OnceInv
BY DEF Init, OnceInv, OnceSound, OpenSound, EndSound, LinkSound, Untouched, NothingOf, InQueue,
       Announced

\* Only the worker's step changes.
LEMMA OnceWorkerMoves ==
  ASSUME OnceInv, UNCHANGED <<queue, cur, up, down, sent, got, told>>,
         pc' \notin {"resolve", "complete", "idle"}, pc # "idle", pc = "record" => pc' = "record"
  PROVE  OnceInv'
BY DEF OnceInv, OnceSound, OpenSound, EndSound, LinkSound, Untouched, NothingOf, InQueue,
       Announced, NoChunks

LEMMA OnceWorkerRests ==
  ASSUME OnceInv, UNCHANGED <<queue, cur, pc, next, up, down, sent, got, told>>
  PROVE  OnceInv'
BY DEF OnceInv, OnceSound, OpenSound, EndSound, LinkSound, Untouched, NothingOf, InQueue,
       Announced, NoChunks

\* The worker lets its delivery go.
LEMMA RecordOutcomeOnce ==
  ASSUME OnceInv, RecordOutcome
  PROVE  OnceInv'
<1>1. UNCHANGED <<queue, up, down, sent, got, told>> /\ pc' = "idle" /\ cur' \notin Deliveries
  BY DEF RecordOutcome
<1>2. OnceSound'
  BY <1>1 DEF OnceInv, OnceSound, Untouched, NothingOf, InQueue, Announced
<1> QED  BY <1>1, <1>2 DEF OnceInv, OpenSound, EndSound, LinkSound, NothingOf, NoChunks

\* The worker takes the first delivery of the queue, or forgets it.
LEMMA TakeOnce ==
  ASSUME IInv, OnceInv, Take
  PROVE  OnceInv'
<1>1. /\ UNCHANGED <<up, down, sent, got, told>> /\ queue \in Seq(Deliveries) /\ queue # <<>>
      /\ queue' = Tail(queue) /\ cur = NoDelivery /\ pc = "idle"
      /\ (cur' = Head(queue) /\ pc' = "resolve") \/ UNCHANGED <<cur, pc>>
  BY DEF Take, IInv, TypeOK, WorkerSound
<1>2. /\ Len(queue) \in Nat /\ Len(queue) >= 1 /\ Head(queue) = queue[1] /\ queue[1] \in Deliveries
      /\ Len(queue') = Len(queue) - 1
      /\ \A i \in 1 .. Len(queue') : i + 1 \in 1 .. Len(queue) /\ queue'[i] = queue[i + 1]
  <2>1. Len(Tail(queue)) = Len(queue) - 1
    BY <1>1
  <2> QED  BY <1>1, <2>1, Popped
<1>3. Untouched(queue[1])
  BY <1>2 DEF OnceInv, OnceSound
<1>4. \A i \in 1 .. Len(queue') : queue'[i] # queue[1]
  BY <1>2 DEF OnceInv, OnceSound
<1>5. \A d \in Deliveries : Untouched(d)' <=> Untouched(d)
  BY <1>1 DEF Untouched, NothingOf
<1>6. OnceSound'
  <2>1. ASSUME NEW d \in Deliveries \ sent
        PROVE  Untouched(d)' /\ cur' # d /\ ~InQueue(d)' /\ \A i \in 1 .. Len(down') : ~Announced(down', d, i)
    BY <1>1, <1>2, <1>5, <2>1 DEF OnceInv, OnceSound, InQueue, Announced
  <2>2. ASSUME NEW d \in Deliveries, NEW i \in 1 .. Len(down), Announced(down, d, i)
        PROVE  /\ Untouched(d)' /\ cur' # d /\ ~InQueue(d)'
               /\ \A j \in 1 .. Len(down) : Announced(down, d, j) => j = i
    BY <1>1, <1>2, <1>5, <2>2 DEF OnceInv, OnceSound, InQueue
  <2>3. ASSUME NEW d \in Deliveries, NEW i \in 1 .. Len(queue'), queue'[i] = d
        PROVE  Untouched(d)' /\ cur' # d /\ \A j \in 1 .. Len(queue') : queue'[j] = d => j = i
    <3>1. i + 1 \in 1 .. Len(queue) /\ queue[i + 1] = d
      BY <1>2, <2>3
    <3>2. Untouched(d) /\ cur # d /\ \A j \in 1 .. Len(queue) : queue[j] = d => j = i + 1
      BY <3>1 DEF OnceInv, OnceSound
    <3>3. \A j \in 1 .. Len(queue') : queue'[j] = d => j = i
      BY <1>2, <3>2
    <3> QED  BY <1>1, <1>2, <1>4, <1>5, <2>3, <3>2, <3>3
  <2> QED  BY <1>1, <2>1, <2>2, <2>3 DEF OnceSound, Announced
<1>7. OpenSound'
  <2>1. told[queue[1]] = Nothing /\ NothingOf(queue[1])
    BY <1>3 DEF Untouched
  <2> QED  BY <1>1, <1>2, <1>3, <1>5, <2>1 DEF OnceInv, OpenSound, NothingOf
<1>8. EndSound' /\ LinkSound'
  BY <1>1 DEF OnceInv, EndSound, LinkSound, NothingOf, NoChunks
<1> QED  BY <1>6, <1>7, <1>8 DEF OnceInv

\* A message of the current transfer leaves, its outcome last.
LEMMA SentOnce ==
  ASSUME TypeOK, OnceInv, pc \notin {"idle", "record"}, cur \in Deliveries,
         NEW e \in Message, e.t = cur, up' = Append(up, e),
         UNCHANGED <<queue, cur, down, sent, got, told>>,
         e.kind = "complete" => e.n = Total \/ (e.n = 0 /\ NoChunks(cur)),
         pc' \notin {"idle", "resolve"}, pc' # "record" => e.kind \notin Ending,
         pc' = "complete" => next' = Total \/ (next' = 0 /\ NoChunks(cur) /\ e.kind # "chunk")
  PROVE  OnceInv'
<1>1. up \in Seq(Message)
  BY DEF TypeOK
<1>2. /\ Len(up) \in Nat /\ Len(up') = Len(up) + 1
      /\ \A i \in 1 .. Len(up) : up'[i] = up[i]
      /\ up'[Len(up) + 1] = e
  BY <1>1, Appended
<1>3. told[cur] = Nothing /\ \A i \in 1 .. Len(up) : up[i].t = cur => up[i].kind \notin Ending
  BY DEF OnceInv, OpenSound
<1>4. \A d \in Deliveries : d # cur => (Untouched(d) => Untouched(d)') /\ (NothingOf(d) => NothingOf(d)')
  BY <1>2 DEF Untouched, NothingOf
<1>5. OnceSound'
  <2>1. ASSUME NEW d \in Deliveries \ sent
        PROVE  Untouched(d)' /\ cur' # d /\ ~InQueue(d)' /\ \A i \in 1 .. Len(down') : ~Announced(down', d, i)
    BY <1>4 DEF OnceInv, OnceSound, InQueue, Announced
  <2>2. ASSUME NEW d \in Deliveries, NEW i \in 1 .. Len(down'), Announced(down', d, i)
        PROVE  /\ Untouched(d)' /\ cur' # d /\ ~InQueue(d)'
               /\ \A j \in 1 .. Len(down') : Announced(down', d, j) => j = i
    BY <1>4, <2>2 DEF OnceInv, OnceSound, InQueue, Announced
  <2>3. ASSUME NEW d \in Deliveries, NEW i \in 1 .. Len(queue'), queue'[i] = d
        PROVE  Untouched(d)' /\ cur' # d /\ \A j \in 1 .. Len(queue') : queue'[j] = d => j = i
    BY <1>4, <2>3 DEF OnceInv, OnceSound
  <2> QED  BY <2>1, <2>2, <2>3 DEF OnceSound
<1>6. OpenSound'
  BY <1>2, <1>3 DEF OpenSound
<1>7. EndSound'
  <2>1. ASSUME NEW i \in 1 .. Len(up'), NEW j \in 1 .. Len(up'), i < j, up'[i].t = up'[j].t
        PROVE  up'[i].kind \notin Ending
    <3>1. i \in 1 .. Len(up) /\ up'[i] = up[i]
      BY <1>2, <2>1
    <3>2. CASE j \in 1 .. Len(up)
      BY <1>2, <2>1, <3>1, <3>2 DEF OnceInv, EndSound
    <3>3. CASE j = Len(up) + 1
      BY <1>2, <1>3, <2>1, <3>1, <3>3
    <3> QED  BY <1>2, <3>2, <3>3
  <2>2. \A d \in Deliveries : told[d] # Nothing => d # cur /\ NothingOf(d) /\ told[d].kind \in Ending
    BY <1>3 DEF OnceInv, EndSound
  <2> QED  BY <1>4, <2>1, <2>2 DEF EndSound
<1>8. LinkSound'
  <2>1. \A d \in Deliveries : NoChunks(d) /\ (d # cur \/ e.kind # "chunk") => NoChunks(d)'
    BY <1>2 DEF NoChunks
  <2>2. ASSUME NEW d \in Deliveries, NEW i \in 1 .. Len(up'), up'[i].t = d, up'[i].kind = "complete"
        PROVE  up'[i].n = Total \/ (up'[i].n = 0 /\ NoChunks(d)')
    <3>1. CASE i \in 1 .. Len(up)
      <4>1. d # cur
        BY <1>2, <1>3, <2>2, <3>1 DEF Ending
      <4> QED  BY <1>2, <2>1, <2>2, <3>1, <4>1 DEF OnceInv, LinkSound
    <3>2. CASE i = Len(up) + 1
      BY <1>2, <2>1, <2>2, <3>2
    <3> QED  BY <1>2, <3>1, <3>2
  <2> QED  BY <2>1, <2>2 DEF LinkSound
<1> QED  BY <1>5, <1>6, <1>7, <1>8 DEF OnceInv

\* The worker tells of a failure if it can, and is done with the transfer.
LEMMA ErrorOnce ==
  ASSUME TypeOK, OnceInv, pc \notin {"idle", "record"}, cur \in Deliveries, NEW s \in Final, SendError(s),
         UNCHANGED <<queue, cur, down, sent, got, told>>
  PROVE  OnceInv'
<1>1. CASE link = "open"
  <2> DEFINE e == [t |-> cur, kind |-> "error", n |-> 0]
  <2>1. e \in Message /\ e.t = cur /\ e.kind = "error"
    <3>1. "error" \in Kinds /\ 0 \in -1 .. Total
      BY DEF Kinds
    <3> QED  BY <3>1, MessageFields
  <2>2. up' = Append(up, e) /\ pc' = "record"
    BY <1>1 DEF SendError, Msg
  <2> HIDE DEF e
  <2> QED  BY <2>1, <2>2, SentOnce
<1>2. CASE link # "open"
  BY <1>2, OnceWorkerMoves DEF SendError
<1> QED  BY <1>1, <1>2

LEMMA SendOnce ==
  ASSUME IInv, OnceInv, pc \in {"resolve", "send", "complete"}, cur \in Deliveries,
         NEW k \in Kinds, NEW n \in -1 .. Total, Send(k, n),
         UNCHANGED <<queue, cur, down, sent, got, told>>,
         k = "complete" => n = Total \/ (n = 0 /\ NoChunks(cur)),
         pc' \notin {"idle", "resolve"}, pc' # "record" => k \notin Ending,
         pc' = "complete" => next' = Total \/ (next' = 0 /\ NoChunks(cur) /\ k # "chunk")
  PROVE  OnceInv'
<1> DEFINE e == [t |-> cur, kind |-> k, n |-> n]
<1>1. e \in Message /\ e.t = cur /\ e.kind = k /\ e.n = n
  BY MessageFields
<1>2. up' = Append(up, e)
  BY DEF Send, Msg
<1> HIDE DEF e
<1> QED  BY <1>1, <1>2, SentOnce DEF IInv

LEMMA WorkerOnce ==
  ASSUME IInv, OnceInv, WorkerStep
  PROVE  OnceInv'
<1>1. CASE Refuse \/ ReadFails \/ GiveUp
  <2>1. cur \in Deliveries /\ pc \notin {"idle", "record"} /\ UNCHANGED <<queue, cur, down, sent, got, told>>
    BY <1>1 DEF IInv, TypeOK, WorkerSound, Refuse, ReadFails, GiveUp
  <2>2. SendError("failed") \/ SendError("timed_out")
    BY <1>1 DEF Refuse, ReadFails, GiveUp
  <2>3. "failed" \in Final /\ "timed_out" \in Final
    BY DEF Final
  <2> QED  BY <2>1, <2>2, <2>3, ErrorOnce DEF IInv
<1>2. CASE DeliverS3Object
  <2>1. /\ cur \in Deliveries /\ pc = "resolve" /\ pc' = "complete" /\ next' = 0 /\ Send("url", 0)
        /\ UNCHANGED <<queue, cur, down, sent, got, told>>
    BY <1>2 DEF IInv, TypeOK, WorkerSound, DeliverS3Object
  <2>2. NoChunks(cur)
    BY <2>1 DEF OnceInv, OpenSound, Untouched, NothingOf, NoChunks
  <2>3. "url" \in Kinds \ Ending /\ 0 \in -1 .. Total
    BY DEF Kinds, Ending
  <2> QED  BY <2>1, <2>2, <2>3, SendOnce
<1>3. CASE SendMetadata
  <2>1. /\ cur \in Deliveries /\ pc = "resolve" /\ pc' = "send" /\ Send("metadata", Total)
        /\ UNCHANGED <<queue, cur, down, sent, got, told>>
    BY <1>3 DEF IInv, TypeOK, WorkerSound, SendMetadata
  <2>2. "metadata" \in Kinds \ Ending /\ Total \in -1 .. Total
    BY DEF Kinds, Ending
  <2> QED  BY <2>1, <2>2, SendOnce
<1>4. CASE SendChunk
  <2>1. /\ cur \in Deliveries /\ pc = "send" /\ pc' \in {"send", "await", "complete"}
        /\ next \in 0 .. Total - 1 /\ next < WindowEnd /\ WindowEnd \in 0 .. Total /\ Send("chunk", next)
        /\ next' = next + 1 /\ (pc' = "complete" => next + 1 >= WindowEnd /\ WindowEnd >= Total)
        /\ UNCHANGED <<queue, cur, down, sent, got, told>>
    BY <1>4, WindowBounds DEF IInv, TypeOK, WorkerSound, SendChunk
  <2>2. pc' = "complete" => next' = Total
    BY <2>1
  <2>3. "chunk" \in Kinds \ Ending /\ next \in -1 .. Total
    BY <2>1 DEF Kinds, Ending
  <2> QED  BY <2>1, <2>2, <2>3, SendOnce
<1>5. CASE SendComplete
  <2>1. /\ cur \in Deliveries /\ pc = "complete" /\ pc' = "record" /\ next \in 0 .. Total
        /\ Send("complete", next) /\ UNCHANGED <<queue, cur, down, sent, got, told>>
    BY <1>5 DEF IInv, TypeOK, WorkerSound, SendComplete
  <2>2. next = Total \/ (next = 0 /\ NoChunks(cur))
    BY <2>1 DEF OnceInv, LinkSound
  <2>3. "complete" \in Kinds /\ next \in -1 .. Total
    BY <2>1 DEF Kinds
  <2> QED  BY <2>1, <2>2, <2>3, SendOnce
<1>6. CASE WaitForAck \/ Timeout \/ ReceiveAck \/ RejectAck \/ SendFails
  <2>1. /\ UNCHANGED <<queue, cur, up, down, sent, got, told>> /\ pc # "idle"
        /\ pc' \notin {"resolve", "complete", "idle"} /\ (pc = "record" => pc' = "record")
    BY <1>6 DEF WaitForAck, Timeout, ReceiveAck, RejectAck, SendFails
  <2> QED  BY <2>1, OnceWorkerMoves
<1> QED  BY <1>1, <1>2, <1>3, <1>4, <1>5, <1>6, TakeOnce, RecordOutcomeOnce DEF WorkerStep

\* What is in flight is lost, with or without the worker and its queue.
LEMMA ClientOnce ==
  ASSUME IInv, OnceInv, Disconnect \/ Restart
  PROVE  OnceInv'
<1>1. /\ up' = <<>> /\ down' = <<>> /\ UNCHANGED <<sent, got, told>>
      /\ \/ UNCHANGED <<queue, cur, pc, next>>
         \/ queue' = <<>> /\ cur' = NoDelivery /\ pc' = "idle"
  BY DEF Disconnect, Restart
<1>2. \A d \in Deliveries : Untouched(d) => Untouched(d)'
  BY <1>1 DEF Untouched, NothingOf
<1>3. OnceSound'
  BY <1>1, <1>2 DEF OnceInv, OnceSound, InQueue, Announced
<1>4. OpenSound'
  BY <1>1 DEF OnceInv, OpenSound, Untouched, NothingOf
<1>5. EndSound' /\ LinkSound'
  BY <1>1 DEF OnceInv, EndSound, LinkSound, NothingOf, NoChunks
<1> QED  BY <1>3, <1>4, <1>5 DEF OnceInv

\* A delivery goes from the connection to the end of the queue.
LEMMA DispatchOnce ==
  ASSUME IInv, OnceInv, Dispatch
  PROVE  OnceInv'
<1> DEFINE m == Head(down)
<1>1. /\ UNCHANGED <<cur, pc, next, up, sent, got, told>>
      /\ queue' = IF m.kind = "deliver" THEN Append(queue, m.t) ELSE queue
  BY DEF Dispatch
<1>2. /\ m = down[1] /\ m \in Message /\ m.t \in Deliveries
      /\ Len(down) \in Nat /\ Len(down) >= 1 /\ Len(down') \in Nat /\ Len(down') = Len(down) - 1
      /\ \A i \in 1 .. Len(down') : i + 1 \in 1 .. Len(down) /\ down'[i] = down[i + 1]
  <2>1. down \in Seq(Message) /\ down # <<>> /\ down' = Tail(down)
    BY DEF IInv, TypeOK, Dispatch
  <2>2. Len(Tail(down)) = Len(down) - 1
    BY <2>1
  <2> QED  BY <2>1, <2>2, Popped, MessageFields
<1> HIDE DEF m
<1>3. \A d \in Deliveries : Untouched(d)' <=> Untouched(d)
  BY <1>1 DEF Untouched, NothingOf
<1>4. \A d \in Deliveries, i \in 1 .. Len(down') : Announced(down', d, i) <=> Announced(down, d, i + 1)
  BY <1>2 DEF Announced
<1>5. ASSUME NEW d \in Deliveries, m.kind = "deliver" => d # m.t
      PROVE  InQueue(d)' <=> InQueue(d)
  <2>1. CASE m.kind # "deliver"
    BY <1>1, <2>1 DEF InQueue
  <2>2. CASE m.kind = "deliver"
    <3>1. queue \in Seq(Deliveries)
      BY DEF IInv, TypeOK
    <3>2. /\ Len(queue) \in Nat /\ Len(queue') = Len(queue) + 1
          /\ \A i \in 1 .. Len(queue) : queue'[i] = queue[i]
          /\ queue'[Len(queue) + 1] = m.t
      BY <1>1, <1>2, <2>2, <3>1, Appended
    <3> QED  BY <1>5, <2>2, <3>2 DEF InQueue
  <2> QED  BY <2>1, <2>2
<1>6. m.kind = "deliver" => Announced(down, m.t, 1) /\ \A i \in 1 .. Len(down') : ~Announced(down', m.t, i)
  <2> SUFFICES ASSUME m.kind = "deliver"
               PROVE  Announced(down, m.t, 1) /\ \A i \in 1 .. Len(down') : ~Announced(down', m.t, i)
    OBVIOUS
  <2>1. Announced(down, m.t, 1) /\ 1 \in 1 .. Len(down)
    BY <1>2 DEF Announced
  <2>2. \A j \in 1 .. Len(down) : Announced(down, m.t, j) => j = 1
    BY <1>2, <2>1 DEF OnceInv, OnceSound
  <2>3. ASSUME NEW i \in 1 .. Len(down'), Announced(down', m.t, i)
        PROVE  FALSE
    <3>1. i + 1 \in 1 .. Len(down) /\ Announced(down, m.t, i + 1)
      BY <1>2, <1>4, <2>3
    <3>2. i + 1 = 1
      BY <2>2, <3>1
    <3> QED  BY <3>2
  <2> QED  BY <2>1, <2>3
<1>7. OnceSound'
  <2>1. ASSUME NEW d \in Deliveries \ sent
        PROVE  Untouched(d)' /\ cur' # d /\ ~InQueue(d)' /\ \A i \in 1 .. Len(down') : ~Announced(down', d, i)
    <3>1. Untouched(d) /\ cur # d /\ ~InQueue(d) /\ \A i \in 1 .. Len(down) : ~Announced(down, d, i)
      BY DEF OnceInv, OnceSound
    <3>2. m.kind = "deliver" => d # m.t
      BY <1>2, <1>6, <3>1
    <3> QED  BY <1>1, <1>2, <1>3, <1>4, <1>5, <3>1, <3>2
  <2>2. ASSUME NEW d \in Deliveries, NEW i \in 1 .. Len(down'), Announced(down', d, i)
        PROVE  /\ Untouched(d)' /\ cur' # d /\ ~InQueue(d)'
               /\ \A j \in 1 .. Len(down') : Announced(down', d, j) => j = i
    <3>1. i + 1 \in 1 .. Len(down) /\ Announced(down, d, i + 1)
      BY <1>2, <1>4, <2>2
    <3>2. /\ Untouched(d) /\ cur # d /\ ~InQueue(d)
          /\ \A j \in 1 .. Len(down) : Announced(down, d, j) => j = i + 1
      BY <3>1 DEF OnceInv, OnceSound
    <3>3. m.kind = "deliver" => d # m.t
      BY <1>6, <2>2
    <3>4. ASSUME NEW j \in 1 .. Len(down'), Announced(down', d, j)
          PROVE  j = i
      <4>1. j + 1 \in 1 .. Len(down) /\ Announced(down, d, j + 1)
        BY <1>2, <1>4, <3>4
      <4> QED  BY <3>2, <4>1
    <3> QED  BY <1>1, <1>3, <1>5, <3>2, <3>3, <3>4
  <2>3. ASSUME NEW d \in Deliveries, NEW i \in 1 .. Len(queue'), queue'[i] = d
        PROVE  Untouched(d)' /\ cur' # d /\ \A j \in 1 .. Len(queue') : queue'[j] = d => j = i
    <3>1. CASE m.kind # "deliver"
      BY <1>1, <1>3, <2>3, <3>1 DEF OnceInv, OnceSound
    <3>2. CASE m.kind = "deliver"
      <4>1. queue \in Seq(Deliveries)
        BY DEF IInv, TypeOK
      <4>2. /\ Len(queue) \in Nat /\ Len(queue') = Len(queue) + 1
            /\ \A j \in 1 .. Len(queue) : queue'[j] = queue[j]
            /\ queue'[Len(queue) + 1] = m.t
        BY <1>1, <1>2, <3>2, <4>1, Appended
      <4>3. Untouched(m.t) /\ cur # m.t /\ \A j \in 1 .. Len(queue) : queue[j] # m.t
        <5>1. 1 \in 1 .. Len(down) /\ Announced(down, m.t, 1)
          BY <1>2, <1>6, <3>2
        <5>2. Untouched(m.t) /\ cur # m.t /\ ~InQueue(m.t)
          BY <1>2, <5>1 DEF OnceInv, OnceSound
        <5> QED  BY <5>2 DEF InQueue
      <4>4. CASE d = m.t
        BY <1>1, <1>2, <1>3, <2>3, <4>2, <4>3, <4>4
      <4>5. CASE d # m.t
        <5>1. i \in 1 .. Len(queue) /\ queue[i] = d
          BY <2>3, <4>2, <4>5
        <5>2. Untouched(d) /\ cur # d /\ \A j \in 1 .. Len(queue) : queue[j] = d => j = i
          BY <5>1 DEF OnceInv, OnceSound
        <5> QED  BY <1>1, <1>3, <4>2, <4>5, <5>2
      <4> QED  BY <4>4, <4>5
    <3> QED  BY <3>1, <3>2
  <2> QED  BY <1>1, <2>1, <2>2, <2>3 DEF OnceSound
<1>8. OpenSound' /\ EndSound' /\ LinkSound'
  BY <1>1 DEF OnceInv, OpenSound, EndSound, LinkSound, Untouched, NothingOf, NoChunks
<1> QED  BY <1>7, <1>8 DEF OnceInv

\* The marketplace sends each delivery once.
LEMMA MarketDeliverOnce ==
  ASSUME IInv, OnceInv, NEW f \in Deliveries, MarketDeliver(f)
  PROVE  OnceInv'
<1> DEFINE e == [t |-> f, kind |-> "deliver", n |-> 0]
<1>1. e \in Message /\ e.t = f /\ e.kind = "deliver"
  <2>1. "deliver" \in Kinds /\ 0 \in -1 .. Total
    BY DEF Kinds
  <2> QED  BY <2>1, MessageFields
<1>2. /\ UNCHANGED <<queue, cur, pc, next, up, got, told>>
      /\ sent' = sent \cup {f} /\ f \notin sent /\ down' = Append(down, e)
  BY DEF MarketDeliver
<1> HIDE DEF e
<1>3. /\ Len(down) \in Nat /\ Len(down') = Len(down) + 1
      /\ \A i \in 1 .. Len(down) : down'[i] = down[i]
      /\ down'[Len(down) + 1] = e
  <2>1. down \in Seq(Message)
    BY DEF IInv, TypeOK
  <2> QED  BY <1>1, <1>2, <2>1, Appended
<1>4. \A d \in Deliveries : (Untouched(d)' <=> Untouched(d)) /\ (InQueue(d)' <=> InQueue(d))
  BY <1>2 DEF Untouched, NothingOf, InQueue
<1>5. /\ \A d \in Deliveries, i \in 1 .. Len(down) : Announced(down', d, i) <=> Announced(down, d, i)
      /\ \A d \in Deliveries : Announced(down', d, Len(down) + 1) <=> d = f
  BY <1>1, <1>3 DEF Announced
<1>6. Untouched(f) /\ cur # f /\ ~InQueue(f) /\ \A i \in 1 .. Len(down) : ~Announced(down, f, i)
  BY <1>2 DEF OnceInv, OnceSound
<1>7. OnceSound'
  <2>1. ASSUME NEW d \in Deliveries \ sent'
        PROVE  Untouched(d)' /\ cur' # d /\ ~InQueue(d)' /\ \A i \in 1 .. Len(down') : ~Announced(down', d, i)
    <3>1. d # f /\ d \in Deliveries \ sent
      BY <1>2
    <3>2. Untouched(d) /\ cur # d /\ ~InQueue(d) /\ \A i \in 1 .. Len(down) : ~Announced(down, d, i)
      BY <3>1 DEF OnceInv, OnceSound
    <3> QED  BY <1>2, <1>3, <1>4, <1>5, <3>1, <3>2
  <2>2. ASSUME NEW d \in Deliveries, NEW i \in 1 .. Len(down'), Announced(down', d, i)
        PROVE  /\ Untouched(d)' /\ cur' # d /\ ~InQueue(d)'
               /\ \A j \in 1 .. Len(down') : Announced(down', d, j) => j = i
    <3>1. CASE d = f
      BY <1>2, <1>3, <1>4, <1>5, <1>6, <2>2, <3>1
    <3>2. CASE d # f
      <4>1. i \in 1 .. Len(down) /\ Announced(down, d, i)
        BY <1>3, <1>5, <2>2, <3>2
      <4>2. /\ Untouched(d) /\ cur # d /\ ~InQueue(d)
            /\ \A j \in 1 .. Len(down) : Announced(down, d, j) => j = i
        BY <4>1 DEF OnceInv, OnceSound
      <4> QED  BY <1>2, <1>3, <1>4, <1>5, <3>2, <4>2
    <3> QED  BY <3>1, <3>2
  <2>3. ASSUME NEW d \in Deliveries, NEW i \in 1 .. Len(queue), queue[i] = d
        PROVE  Untouched(d)' /\ cur' # d /\ \A j \in 1 .. Len(queue) : queue[j] = d => j = i
    BY <1>2, <1>4, <2>3 DEF OnceInv, OnceSound
  <2> QED  BY <1>2, <2>1, <2>2, <2>3 DEF OnceSound
<1>8. OpenSound' /\ EndSound' /\ LinkSound'
  BY <1>2 DEF OnceInv, OpenSound, EndSound, LinkSound, Untouched, NothingOf, NoChunks
<1> QED  BY <1>7, <1>8 DEF OnceInv

\* An answer announces no delivery.
LEMMA MarketAckOnce ==
  ASSUME IInv, OnceInv, NEW f \in Deliveries, MarketAck(f)
  PROVE  OnceInv'
<1>1. UNCHANGED <<queue, cur, pc, next, up, sent, got, told>>
  BY DEF MarketAck
<1>2. PICK k \in {"continue", "refuse"} : down' = Append(down, [t |-> f, kind |-> k, n |-> Through(f)])
  BY AckGrows
<1> DEFINE e == [t |-> f, kind |-> k, n |-> Through(f)]
<1>3. e \in Message /\ e.kind # "deliver"
  <2>1. Through(f) \in -1 .. Total - 1
    BY AckGrows
  <2>2. k \in Kinds /\ Through(f) \in -1 .. Total
    BY <2>1 DEF Kinds
  <2> QED  BY <2>2, MessageFields
<1> HIDE DEF e
<1>4. /\ Len(down) \in Nat /\ Len(down') = Len(down) + 1
      /\ \A i \in 1 .. Len(down) : down'[i] = down[i]
      /\ down'[Len(down) + 1] = e
  <2>1. down \in Seq(Message) /\ down' = Append(down, e)
    BY <1>2 DEF IInv, TypeOK, e
  <2> QED  BY <1>3, <2>1, Appended
<1>5. \A d \in Deliveries, i \in 1 .. Len(down') :
        Announced(down', d, i) <=> (i \in 1 .. Len(down) /\ Announced(down, d, i))
  BY <1>3, <1>4 DEF Announced
<1>6. \A d \in Deliveries : (Untouched(d)' <=> Untouched(d)) /\ (InQueue(d)' <=> InQueue(d))
  BY <1>1 DEF Untouched, NothingOf, InQueue
<1>7. OnceSound'
  <2>1. ASSUME NEW d \in Deliveries \ sent
        PROVE  Untouched(d)' /\ cur' # d /\ ~InQueue(d)' /\ \A i \in 1 .. Len(down') : ~Announced(down', d, i)
    BY <1>1, <1>5, <1>6 DEF OnceInv, OnceSound
  <2>2. ASSUME NEW d \in Deliveries, NEW i \in 1 .. Len(down'), Announced(down', d, i)
        PROVE  /\ Untouched(d)' /\ cur' # d /\ ~InQueue(d)'
               /\ \A j \in 1 .. Len(down') : Announced(down', d, j) => j = i
    BY <1>1, <1>5, <1>6, <2>2 DEF OnceInv, OnceSound
  <2>3. ASSUME NEW d \in Deliveries, NEW i \in 1 .. Len(queue), queue[i] = d
        PROVE  Untouched(d)' /\ cur' # d /\ \A j \in 1 .. Len(queue) : queue[j] = d => j = i
    BY <1>1, <1>6, <2>3 DEF OnceInv, OnceSound
  <2> QED  BY <1>1, <2>1, <2>2, <2>3 DEF OnceSound
<1>8. OpenSound' /\ EndSound' /\ LinkSound'
  BY <1>1 DEF OnceInv, OpenSound, EndSound, LinkSound, Untouched, NothingOf, NoChunks
<1> QED  BY <1>7, <1>8 DEF OnceInv

\* The first message in flight, and what is left when it is received.
LEMMA Received ==
  ASSUME IInv, MarketReceive
  PROVE  /\ up[1] \in Message /\ up[1].t \in Deliveries /\ up[1].n \in -1 .. Total
         /\ Len(up) \in Nat /\ Len(up) >= 1 /\ Len(up') \in Nat /\ Len(up') = Len(up) - 1
         /\ \A i \in 1 .. Len(up') : i + 1 \in 1 .. Len(up) /\ up'[i] = up[i + 1]
         /\ UNCHANGED <<queue, worker, waiter, link, down, log, sent, acked, drops, faults>>
         /\ got' = IF up[1].kind = "chunk" THEN [got EXCEPT ![up[1].t] = @ \cup {up[1].n}] ELSE got
         /\ told' = IF up[1].kind \in Ending THEN [told EXCEPT ![up[1].t] = up[1]] ELSE told
<1>1. up \in Seq(Message) /\ up # <<>> /\ up' = Tail(up)
  BY DEF IInv, TypeOK, MarketReceive
<1>2. Len(Tail(up)) = Len(up) - 1 /\ Len(Tail(up)) \in Nat
  BY <1>1
<1>3. Head(up) = up[1] /\ up[1] \in Message
  BY <1>1, Popped
<1> QED  BY <1>1, <1>2, <1>3, Popped, MessageFields DEF MarketReceive, Ending

LEMMA MarketReceiveOnce ==
  ASSUME IInv, OnceInv, MarketReceive
  PROVE  OnceInv'
<1>1. /\ up[1].t \in Deliveries
      /\ Len(up) \in Nat /\ Len(up) >= 1 /\ Len(up') \in Nat /\ Len(up') = Len(up) - 1
      /\ \A i \in 1 .. Len(up') : i + 1 \in 1 .. Len(up) /\ up'[i] = up[i + 1]
      /\ UNCHANGED <<queue, cur, pc, next, down, sent>>
      /\ got' = IF up[1].kind = "chunk" THEN [got EXCEPT ![up[1].t] = @ \cup {up[1].n}] ELSE got
      /\ told' = IF up[1].kind \in Ending THEN [told EXCEPT ![up[1].t] = up[1]] ELSE told
  BY Received
<1>2. /\ got \in [Deliveries -> SUBSET (0 .. Total - 1)]
      /\ told \in [Deliveries -> Message \cup {Nothing}]
  BY DEF IInv, TypeOK
<1>3. \A d \in Deliveries : NothingOf(d) => d # up[1].t /\ NothingOf(d)'
  BY <1>1 DEF NothingOf
<1>4. \A d \in Deliveries : d # up[1].t => got'[d] = got[d] /\ told'[d] = told[d]
  BY <1>1, <1>2
<1>5. \A d \in Deliveries : Untouched(d) => Untouched(d)'
  BY <1>3, <1>4 DEF Untouched
<1>6. \A d \in Deliveries : NoChunks(d) => NoChunks(d)'
  <2> SUFFICES ASSUME NEW d \in Deliveries, NoChunks(d)
               PROVE  NoChunks(d)'
    OBVIOUS
  <2>1. got'[d] = got[d]
    BY <1>1, <1>4 DEF NoChunks
  <2> QED  BY <1>1, <2>1 DEF NoChunks
<1>7. OnceSound'
  BY <1>1, <1>5 DEF OnceInv, OnceSound, InQueue, Announced
<1>8. OpenSound'
  <2>1. pc = "resolve" => cur \in Deliveries /\ Untouched(cur)
    BY DEF IInv, TypeOK, WorkerSound, OnceInv, OpenSound
  <2>2. ASSUME pc \notin {"idle", "record"}
        PROVE  told'[cur] = Nothing /\ \A i \in 1 .. Len(up') : up'[i].t = cur => up'[i].kind \notin Ending
    <3>1. cur \in Deliveries
      BY <2>2 DEF IInv, TypeOK, WorkerSound
    <3>2. told[cur] = Nothing /\ \A i \in 1 .. Len(up) : up[i].t = cur => up[i].kind \notin Ending
      BY <2>2 DEF OnceInv, OpenSound
    <3> QED  BY <1>1, <1>4, <3>1, <3>2
  <2>3. pc = "resolve" => Untouched(cur)'
    <3> SUFFICES ASSUME NEW d \in Deliveries, d = cur, Untouched(d)
                 PROVE  Untouched(d)'
      BY <1>1, <2>1
    <3> QED  BY <1>5
  <2> QED  BY <1>1, <2>2, <2>3 DEF OpenSound
<1>9. EndSound'
  <2>1. \A i, j \in 1 .. Len(up) : i < j /\ up[i].t = up[j].t => up[i].kind \notin Ending
    BY DEF OnceInv, EndSound
  <2>2. ASSUME NEW i \in 1 .. Len(up'), NEW j \in 1 .. Len(up'), i < j, up'[i].t = up'[j].t
        PROVE  up'[i].kind \notin Ending
    <3>1. i + 1 \in 1 .. Len(up) /\ j + 1 \in 1 .. Len(up) /\ i + 1 < j + 1
          /\ up'[i] = up[i + 1] /\ up'[j] = up[j + 1]
      BY <1>1, <2>2
    <3> QED  BY <2>1, <2>2, <3>1
  <2>3. ASSUME NEW d \in Deliveries, told'[d] # Nothing
        PROVE  NothingOf(d)' /\ told'[d].kind \in Ending
    <3>1. CASE told'[d] = told[d]
      BY <1>3, <2>3, <3>1 DEF OnceInv, EndSound
    <3>2. CASE told'[d] # told[d]
      <4>1. d = up[1].t /\ up[1].kind \in Ending /\ told'[d] = up[1]
        BY <1>1, <1>2, <1>4, <3>2
      <4>2. ASSUME NEW i \in 1 .. Len(up')
            PROVE  up'[i].t # d
        <5>1. 1 \in 1 .. Len(up) /\ i + 1 \in 1 .. Len(up) /\ 1 < i + 1 /\ up'[i] = up[i + 1]
          BY <1>1
        <5> QED  BY <2>1, <4>1, <5>1
      <4> QED  BY <4>1, <4>2 DEF NothingOf
    <3> QED  BY <3>1, <3>2
  <2> QED  BY <2>2, <2>3 DEF EndSound
<1>10. LinkSound'
  <2>1. pc = "complete" => next = Total \/ (next = 0 /\ NoChunks(cur)')
    <3>1. pc = "complete" => cur \in Deliveries /\ (next = Total \/ (next = 0 /\ NoChunks(cur)))
      BY DEF IInv, TypeOK, WorkerSound, OnceInv, LinkSound
    <3> SUFFICES ASSUME NEW d \in Deliveries, d = cur, NoChunks(d)
                 PROVE  NoChunks(d)'
      BY <1>1, <3>1
    <3> QED  BY <1>6
  <2>2. ASSUME NEW d \in Deliveries, NEW i \in 1 .. Len(up'), up'[i].t = d, up'[i].kind = "complete"
        PROVE  up'[i].n = Total \/ (up'[i].n = 0 /\ NoChunks(d)')
    BY <1>1, <1>6, <2>2 DEF OnceInv, LinkSound
  <2> QED  BY <1>1, <2>1, <2>2 DEF LinkSound
<1> QED  BY <1>7, <1>8, <1>9, <1>10 DEF OnceInv

LEMMA NextOnce ==
  ASSUME IInv, OnceInv, [Next]_vars
  PROVE  OnceInv'
<1>1. CASE UNCHANGED vars \/ Connect
  BY <1>1, OnceWorkerRests DEF vars, Connect
<1> QED  BY <1>1, WorkerOnce, ClientOnce, DispatchOnce, MarketDeliverOnce, MarketAckOnce,
            MarketReceiveOnce DEF Next, Market

-----------------------------------------------------------------------------
(* The refinement of FileTransfer *)

LEMMA InitTransfer == Init => Transfer!TransferInit
BY DEF Init, Transfer!TransferInit, Outcome

\* A step of which the receiver learns nothing.
LEMMA TransferRests ==
  ASSUME UNCHANGED <<got, acked, told, drops>>
  PROVE  UNCHANGED Transfer!transferVars
BY DEF Transfer!transferVars, Outcome

LEMMA ReceiveRefines ==
  ASSUME IInv, WholeInv', OnceInv, MarketReceive
  PROVE  [Transfer!TransferNext]_(Transfer!transferVars)
<1> DEFINE m == up[1]
           d == m.t
<1>1. /\ d \in Deliveries /\ m.n \in -1 .. Total /\ m \in Message /\ 1 \in 1 .. Len(up)
      /\ UNCHANGED <<acked, drops>>
      /\ got' = IF m.kind = "chunk" THEN [got EXCEPT ![d] = @ \cup {m.n}] ELSE got
      /\ told' = IF m.kind \in Ending THEN [told EXCEPT ![d] = m] ELSE told
  BY Received
<1>2. /\ got \in [Deliveries -> SUBSET (0 .. Total - 1)] /\ Nothing \notin Message
      /\ told \in [Deliveries -> Message \cup {Nothing}]
  BY DEF IInv, TypeOK
<1>3. told[d] = Nothing
  BY <1>1 DEF OnceInv, EndSound, NothingOf
<1>4. Outcome(d) = "open"
  BY <1>3 DEF Outcome
<1>5. CASE m.kind = "chunk"
  <2>1. told' = told /\ got' = [got EXCEPT ![d] = @ \cup {m.n}]
    BY <1>1, <1>5 DEF Ending
  <2>2. m.n \in 0 .. Total - 1 /\ m.n <= acked[d] + WINDOW_SIZE
    BY <1>1, <1>5 DEF IInv, MarketSound, UpSound
  <2>3. Transfer!Receive(d, m.n)
    BY <1>1, <1>4, <2>1, <2>2 DEF Transfer!Receive, Outcome
  <2>4. m.n \in -1 .. Total - 1 /\ m.n >= 0
    BY <2>2
  <2> QED  BY <1>1, <2>3, <2>4 DEF Transfer!TransferNext
<1>6. CASE m.kind \in Ending
  <2> DEFINE o == IF m.kind # "complete" THEN "failed" ELSE IF m.n = 0 THEN "link" ELSE "file"
  <2>1. told' = [told EXCEPT ![d] = m] /\ got' = got
    BY <1>1, <1>6 DEF Ending
  <2>2. m # Nothing
    BY <1>1, <1>2
  <2>3. [e \in Deliveries |-> Outcome(e)]' = [[e \in Deliveries |-> Outcome(e)] EXCEPT ![d] = o]
    BY <1>1, <1>2, <2>1, <2>2 DEF Outcome
  <2>4. o = "file" => \A c \in Transfer!Missing(d) : drops > 0 /\ Transfer!InLastWindow(c)
    <3> SUFFICES ASSUME o = "file", NEW c \in 0 .. Total - 1 \ got[d]
                 PROVE  drops > 0 /\ c \div WINDOW_SIZE = (Total - 1) \div WINDOW_SIZE
      BY DEF Transfer!Missing, Transfer!InLastWindow
    <3>1. m.kind = "complete" /\ m.n # 0
      OBVIOUS
    <3>2. m.n = Total
      BY <1>1, <3>1 DEF OnceInv, LinkSound
    <3>3. told'[d] = m
      BY <1>1, <1>2, <2>1
    <3> QED  BY <1>1, <2>1, <2>2, <3>1, <3>2, <3>3 DEF WholeInv, CompleteIsWhole, Complete
  <2>5. o = "link" => got[d] = {}
    <3>1. o = "link" => m.kind = "complete" /\ m.n = 0
      OBVIOUS
    <3> QED  BY <1>1, <3>1 DEF OnceInv, LinkSound, NoChunks
  <2>6. o \in {"file", "link", "failed"}
    OBVIOUS
  <2> HIDE DEF o
  <2>7. Transfer!Finish(d)
    BY <1>1, <1>4, <2>1, <2>3, <2>4, <2>5, <2>6 DEF Transfer!Finish
  <2> QED  BY <1>1, <2>7 DEF Transfer!TransferNext
<1>7. CASE m.kind \notin Ending \cup {"chunk"}
  BY <1>1, <1>7, TransferRests
<1> QED  BY <1>5, <1>6, <1>7

LEMMA AckRefines ==
  ASSUME IInv, NEW d \in Deliveries, MarketAck(d)
  PROVE  [Transfer!TransferNext]_(Transfer!transferVars)
<1> DEFINE n == Through(d)
<1>1. /\ n \in -1 .. Total - 1 /\ 0 .. n \subseteq got[d] /\ acked'[d] >= acked[d]
      /\ UNCHANGED <<got, told, drops>>
      /\ acked' = [acked EXCEPT ![d] = n] \/ UNCHANGED acked
  BY AckGrows DEF MarketAck
<1>2. acked \in [Deliveries -> -1 .. Total - 1]
  BY DEF IInv, TypeOK
<1> HIDE DEF n
<1>3. CASE UNCHANGED acked
  BY <1>1, <1>3, TransferRests
<1>4. CASE acked' = [acked EXCEPT ![d] = n]
  <2>1. acked[d] <= n
    BY <1>1, <1>2, <1>4
  <2>2. Transfer!Acknowledge(d, n)
    BY <1>1, <1>4, <2>1 DEF Transfer!Acknowledge, Outcome
  <2> QED  BY <1>1, <2>2 DEF Transfer!TransferNext
<1> QED  BY <1>1, <1>3, <1>4

LEMMA StepRefines ==
  ASSUME IInv, WholeInv', OnceInv, [Next]_vars
  PROVE  [Transfer!TransferNext]_(Transfer!transferVars)
<1>1. CASE UNCHANGED vars \/ WorkerStep \/ Connect \/ Dispatch \/ Restart
           \/ \E d \in Deliveries : MarketDeliver(d)
  <2>1. UNCHANGED <<got, acked, told, drops>>
    BY <1>1 DEF vars, WorkerStep, Take, Refuse, DeliverS3Object, SendMetadata, ReadFails, SendChunk,
       WaitForAck, Timeout, GiveUp, ReceiveAck, RejectAck, SendComplete, SendFails, RecordOutcome,
       Connect, Dispatch, Restart, MarketDeliver
  <2> QED  BY <2>1, TransferRests
<1>2. CASE Disconnect
  <2>1. UNCHANGED <<got, acked, told>> /\ drops' > 0
    BY <1>2 DEF Disconnect, IInv, TypeOK
  <2>2. Transfer!Lose
    BY <2>1 DEF Transfer!Lose, Outcome
  <2> QED  BY <2>2 DEF Transfer!TransferNext
<1> QED  BY <1>1, <1>2, ReceiveRefines, AckRefines DEF Next, Market

\* The delivery over the Trust Channel keeps the promise of FileTransfer: flow
\* control, one outcome with nothing after it, complete only when whole.
THEOREM DeliveryRefinesTransfer == Spec => RefinesTransfer
<1>1. Spec => [](IInv /\ WholeInv /\ OnceInv)
  BY InitHolds, NextHolds, InitWhole, NextWhole, InitOnce, NextOnce, PTL DEF Spec
<1> QED  BY <1>1, InitTransfer, StepRefines, PTL DEF Spec, RefinesTransfer, Transfer!TransferSpec

\* A transfer has one outcome, and the marketplace gets nothing of it afterwards,
\* whatever was sent again, lost or answered late.
THEOREM OutcomeIsFinal ==
  Spec => [][\A d \in Deliveries : told[d] # Nothing => told'[d] = told[d] /\ got'[d] = got[d]]_vars
<1>1. ASSUME IInv, OnceInv, [Next]_vars
      PROVE  [\A d \in Deliveries : told[d] # Nothing => told'[d] = told[d] /\ got'[d] = got[d]]_vars
  <2>1. CASE MarketReceive
    <3>1. /\ up[1].t \in Deliveries /\ 1 \in 1 .. Len(up)
          /\ got' = IF up[1].kind = "chunk" THEN [got EXCEPT ![up[1].t] = @ \cup {up[1].n}] ELSE got
          /\ told' = IF up[1].kind \in Ending THEN [told EXCEPT ![up[1].t] = up[1]] ELSE told
      BY <1>1, <2>1, Received
    <3>2. \A d \in Deliveries : told[d] # Nothing => d # up[1].t
      BY <1>1, <3>1 DEF OnceInv, EndSound, NothingOf
    <3> QED  BY <1>1, <3>1, <3>2 DEF IInv, TypeOK
  <2>2. CASE UNCHANGED vars \/ WorkerStep \/ Connect \/ Disconnect \/ Dispatch \/ Restart
             \/ \E d \in Deliveries : MarketDeliver(d) \/ MarketAck(d)
    BY <2>2 DEF vars, WorkerStep, Take, Refuse, DeliverS3Object, SendMetadata, ReadFails, SendChunk,
       WaitForAck, Timeout, GiveUp, ReceiveAck, RejectAck, SendComplete, SendFails, RecordOutcome,
       Connect, Disconnect, Dispatch, Restart, MarketDeliver, MarketAck
  <2> QED  BY <1>1, <2>1, <2>2 DEF Next, Market
<1>2. Spec => [](IInv /\ OnceInv)
  BY InitHolds, NextHolds, InitOnce, NextOnce, PTL DEF Spec
<1> QED  BY <1>1, <1>2, PTL DEF Spec
=============================================================================
