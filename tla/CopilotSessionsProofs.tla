------------------------ MODULE CopilotSessionsProofs ------------------------
(***************************************************************************)
(* Proofs about CopilotSessions for any number of users, websockets,       *)
(* messages and relayed commands.                                          *)
(***************************************************************************)
EXTENDS CopilotSessions, TLAPS

USE ConstantsAssumption DEF ConstantsAssumption

\* The steps of connect with the lock held.
Locking == {"cancelling", "cancelled", "closing"}

\* Who holds the lock knows the session it replaces, and that session stays the
\* user's: whatever registers or removes a session needs the lock.
LockSound == \A s \in Sessions :
  /\ pc[s] \in Locking <=> old[s] # Nobody
  /\ pc[s] \in Locking => lock = s /\ current[UserOf[s]] = old[s]

\* A user's session is one of its own, a stream has a session, and a session's
\* entry is a stream of its own.
MapsSound ==
  /\ \A u \in Users : current[u] # Nobody => UserOf[current[u]] = u
  /\ \A t \in Tasks : task[t] = "none" <=> of[t] = Nobody
  /\ \A s \in Sessions : inflight[s] # Nobody => of[inflight[s]] = s
  /\ \A c \in Calls : call[c] \in {"sending", "leaving"} => sent[c] # Nobody

\* What an endpoint has made sure of before it starts a stream, waits for one or
\* goes: only its own next message can make a new entry.
EndpointSound == \A s \in Sessions :
  /\ pc[s] \in {"metering", "anonymous"} => ~Live(inflight[s])
  /\ pc[s] \in {"stopping", "cleanup"} => inflight[s] \in {waits[s], Nobody}
  /\ pc[s] \in {"leaving", "gone"} => inflight[s] = Nobody

\* The inductive invariant.
IInv ==
  /\ TypeOK
  /\ LockSound /\ MapsSound /\ EndpointSound
  /\ OneSessionPerUser /\ StreamsAreFound /\ GoneIsGone

USE DEF manager, endpoint, stream, relay
-----------------------------------------------------------------------------

\* Without tasks, locks or sessions there is nothing to get wrong.
LEMMA InitHolds == Init => IInv
<1> SUFFICES ASSUME Init PROVE IInv
  OBVIOUS
<1>1. TypeOK
  BY DEF Init, TypeOK, MapsSound, LockSound, Locking
<1>2. LockSound
  BY DEF Init, LockSound, Locking, TypeOK, MapsSound
<1>3. MapsSound
  BY DEF Init, MapsSound, TypeOK, LockSound, Locking
<1>4. EndpointSound
  BY DEF Init, EndpointSound, Live, TypeOK, MapsSound
<1>5. OneSessionPerUser
  BY DEF Init, OneSessionPerUser, TypeOK, MapsSound, LockSound, Locking
<1>6. StreamsAreFound
  BY DEF Init, StreamsAreFound, Replacing, Live, TypeOK, MapsSound, EndpointSound
<1>7. GoneIsGone
  BY DEF Init, GoneIsGone, Streams, Live, TypeOK, MapsSound
<1> QED  BY <1>1, <1>2, <1>3, <1>4, <1>5, <1>6, <1>7 DEF IInv

\* The first step of an endpoint touches nothing of the manager.
LEMMA ConnectKeeps ==
  ASSUME IInv, NEW s \in Sessions, Connect(s)
  PROVE  IInv'
<1> USE DEF IInv
<1>1. TypeOK'
  BY DEF Connect, Go, TypeOK, MapsSound, LockSound, Locking
<1>2. LockSound'
  BY DEF Connect, Go, LockSound, Locking, TypeOK, MapsSound
<1>3. MapsSound'
  BY DEF Connect, Go, MapsSound, TypeOK, LockSound, Locking
<1>4. EndpointSound'
  BY DEF Connect, Go, EndpointSound, Live, TypeOK, MapsSound
<1>5. OneSessionPerUser'
  BY DEF Connect, Go, OneSessionPerUser, TypeOK, MapsSound, LockSound, Locking
<1>6. StreamsAreFound'
  BY DEF Connect, Go, StreamsAreFound, Replacing, Live, TypeOK, MapsSound, EndpointSound
<1>7. GoneIsGone'
  BY DEF Connect, Go, GoneIsGone, Streams, Live, TypeOK, MapsSound
<1> QED  BY <1>1, <1>2, <1>3, <1>4, <1>5, <1>6, <1>7

\* Nobody is registered for the user, so the new session stands alone.
LEMMA ConnectFirstKeeps ==
  ASSUME IInv, NEW s \in Sessions, ConnectFirst(s)
  PROVE  IInv'
<1> USE DEF IInv
<1>1. TypeOK'
  BY DEF ConnectFirst, Register, Replaces, Go, TypeOK, MapsSound, LockSound, Locking
<1>2. LockSound'
  BY DEF ConnectFirst, Register, Replaces, Go, LockSound, Locking, TypeOK, MapsSound
<1>3. MapsSound'
  BY DEF ConnectFirst, Register, Replaces, Go, MapsSound, TypeOK, LockSound, Locking
<1>4. EndpointSound'
  BY DEF ConnectFirst, Register, Replaces, Go, EndpointSound, Live, TypeOK, MapsSound
<1>5. OneSessionPerUser'
  BY DEF ConnectFirst, Register, Replaces, Go, OneSessionPerUser, TypeOK, MapsSound, LockSound, Locking
<1>6. StreamsAreFound'
  BY DEF ConnectFirst, Register, Replaces, Go, StreamsAreFound, Replacing, Live, TypeOK, MapsSound, EndpointSound
<1>7. GoneIsGone'
  BY DEF ConnectFirst, Register, Replaces, Go, GoneIsGone, Streams, Live, TypeOK, MapsSound
<1> QED  BY <1>1, <1>2, <1>3, <1>4, <1>5, <1>6, <1>7

\* The old stream is told to end; the lock is taken with the old session noted.
LEMMA ConnectAgainKeeps ==
  ASSUME IInv, NEW s \in Sessions, ConnectAgain(s)
  PROVE  IInv'
<1> USE DEF IInv
<1>1. TypeOK'
  BY DEF ConnectAgain, CancelInflight, Replaces, Cleared, Interrupted, Go, TypeOK, MapsSound, LockSound, Locking
<1>2. LockSound'
  BY DEF ConnectAgain, CancelInflight, Replaces, Cleared, Interrupted, Go, LockSound, Locking, TypeOK, MapsSound
<1>3. MapsSound'
  BY DEF ConnectAgain, CancelInflight, Replaces, Cleared, Interrupted, Go, MapsSound, TypeOK, LockSound, Locking
<1>4. EndpointSound'
  BY DEF ConnectAgain, CancelInflight, Replaces, Cleared, Interrupted, Go, EndpointSound, Live, TypeOK, MapsSound
<1>5. OneSessionPerUser'
  BY DEF ConnectAgain, CancelInflight, Replaces, Cleared, Interrupted, Go, OneSessionPerUser, TypeOK, MapsSound, LockSound, Locking
<1>6. StreamsAreFound'
  <2>1. \A x \in Sessions : Replacing(x) => Replacing(x)'
    BY DEF ConnectAgain, Replacing, TypeOK, LockSound, Locking
  <2>2. UNCHANGED <<of, orphaned>>
    BY DEF ConnectAgain
  <2>3. Replaces(s) \in Sessions
    BY DEF ConnectAgain, TypeOK
  <2>4. \A t \in Tasks : Live(t)' => Live(t) /\ (inflight[of[t]] = t => inflight'[of[t]] = t)
    BY <2>2, <2>3 DEF ConnectAgain, CancelInflight, Cleared, Interrupted, Live, TypeOK, MapsSound
  <2>5. \A t \in Tasks : Live(t)' => of[t] \in Sessions
    BY <2>4 DEF Live, TypeOK, MapsSound
  <2> QED  BY <2>1, <2>2, <2>4, <2>5 DEF StreamsAreFound
<1>7. GoneIsGone'
  BY DEF ConnectAgain, CancelInflight, Replaces, Cleared, Interrupted, Go, GoneIsGone, Streams, Live, TypeOK, MapsSound
<1> QED  BY <1>1, <1>2, <1>3, <1>4, <1>5, <1>6, <1>7

\* The cancelled stream is gone and so is its entry.
LEMMA CancelledKeeps ==
  ASSUME IInv, NEW s \in Sessions, Cancelled(s)
  PROVE  IInv'
<1> USE DEF IInv
<1>1. TypeOK'
  BY DEF Cancelled, Waited, Go, TypeOK, MapsSound, LockSound, Locking
<1>2. LockSound'
  BY DEF Cancelled, Waited, Go, LockSound, Locking, TypeOK, MapsSound
<1>3. MapsSound'
  BY DEF Cancelled, Waited, Go, MapsSound, TypeOK, LockSound, Locking
<1>4. EndpointSound'
  BY DEF Cancelled, Waited, Go, EndpointSound, Live, TypeOK, MapsSound
<1>5. OneSessionPerUser'
  BY DEF Cancelled, Waited, Go, OneSessionPerUser, TypeOK, MapsSound, LockSound, Locking
<1>6. StreamsAreFound'
  BY DEF Cancelled, Waited, Go, StreamsAreFound, Replacing, Live, TypeOK, MapsSound, EndpointSound
<1>7. GoneIsGone'
  BY DEF Cancelled, Waited, Go, GoneIsGone, Streams, Live, TypeOK, MapsSound
<1> QED  BY <1>1, <1>2, <1>3, <1>4, <1>5, <1>6, <1>7

\* Closing the old websocket changes no map.
LEMMA CloseOldKeeps ==
  ASSUME IInv, NEW s \in Sessions, CloseOld(s)
  PROVE  IInv'
<1> USE DEF IInv
<1>1. TypeOK'
  BY DEF CloseOld, Go, TypeOK, MapsSound, LockSound, Locking
<1>2. LockSound'
  BY DEF CloseOld, Go, LockSound, Locking, TypeOK, MapsSound
<1>3. MapsSound'
  BY DEF CloseOld, Go, MapsSound, TypeOK, LockSound, Locking
<1>4. EndpointSound'
  BY DEF CloseOld, Go, EndpointSound, Live, TypeOK, MapsSound
<1>5. OneSessionPerUser'
  BY DEF CloseOld, Go, OneSessionPerUser, TypeOK, MapsSound, LockSound, Locking
<1>6. StreamsAreFound'
  BY DEF CloseOld, Go, StreamsAreFound, Replacing, Live, TypeOK, MapsSound, EndpointSound
<1>7. GoneIsGone'
  BY DEF CloseOld, Go, GoneIsGone, Streams, Live, TypeOK, MapsSound
<1> QED  BY <1>1, <1>2, <1>3, <1>4, <1>5, <1>6, <1>7

\* The session noted with the lock is still the user's only one.
LEMMA ReplaceKeeps ==
  ASSUME IInv, NEW s \in Sessions, Replace(s)
  PROVE  IInv'
<1> USE DEF IInv
<1>1. TypeOK'
  BY DEF Replace, Orphan, Streams, Go, TypeOK, MapsSound, LockSound, Locking
<1>2. LockSound'
  BY DEF Replace, Orphan, Streams, Go, LockSound, Locking, TypeOK, MapsSound
<1>3. MapsSound'
  BY DEF Replace, Orphan, Streams, Go, MapsSound, TypeOK, LockSound, Locking
<1>4. EndpointSound'
  BY DEF Replace, Orphan, Streams, Go, EndpointSound, Live, TypeOK, MapsSound
<1>5. OneSessionPerUser'
  BY DEF Replace, Orphan, Streams, Go, OneSessionPerUser, TypeOK, MapsSound, LockSound, Locking
<1>6. StreamsAreFound'
  BY DEF Replace, Orphan, Streams, Go, StreamsAreFound, Replacing, Live, TypeOK, MapsSound, EndpointSound
<1>7. GoneIsGone'
  BY DEF Replace, Orphan, Streams, Go, GoneIsGone, Live, TypeOK, MapsSound
<1> QED  BY <1>1, <1>2, <1>3, <1>4, <1>5, <1>6, <1>7

\* CONNECTED is sent.
LEMMA HelloKeeps ==
  ASSUME IInv, NEW s \in Sessions, Hello(s)
  PROVE  IInv'
<1> USE DEF IInv
<1>1. TypeOK'
  BY DEF Hello, Go, TypeOK, MapsSound, LockSound, Locking
<1>2. LockSound'
  BY DEF Hello, Go, LockSound, Locking, TypeOK, MapsSound
<1>3. MapsSound'
  BY DEF Hello, Go, MapsSound, TypeOK, LockSound, Locking
<1>4. EndpointSound'
  BY DEF Hello, Go, EndpointSound, Live, TypeOK, MapsSound
<1>5. OneSessionPerUser'
  BY DEF Hello, Go, OneSessionPerUser, TypeOK, MapsSound, LockSound, Locking
<1>6. StreamsAreFound'
  BY DEF Hello, Go, StreamsAreFound, Replacing, Live, TypeOK, MapsSound, EndpointSound
<1>7. GoneIsGone'
  BY DEF Hello, Go, GoneIsGone, Streams, Live, TypeOK, MapsSound
<1> QED  BY <1>1, <1>2, <1>3, <1>4, <1>5, <1>6, <1>7

\* CONNECTED is not sent; the session stays registered.
LEMMA HelloFailsKeeps ==
  ASSUME IInv, NEW s \in Sessions, HelloFails(s)
  PROVE  IInv'
<1> USE DEF IInv
<1>1. TypeOK'
  BY DEF HelloFails, Go, TypeOK, MapsSound, LockSound, Locking
<1>2. LockSound'
  BY DEF HelloFails, Go, LockSound, Locking, TypeOK, MapsSound
<1>3. MapsSound'
  BY DEF HelloFails, Go, MapsSound, TypeOK, LockSound, Locking
<1>4. EndpointSound'
  BY DEF HelloFails, Go, EndpointSound, Live, TypeOK, MapsSound
<1>5. OneSessionPerUser'
  BY DEF HelloFails, Go, OneSessionPerUser, TypeOK, MapsSound, LockSound, Locking
<1>6. StreamsAreFound'
  BY DEF HelloFails, Go, StreamsAreFound, Replacing, Live, TypeOK, MapsSound, EndpointSound
<1>7. GoneIsGone'
  BY DEF HelloFails, Go, GoneIsGone, Streams, Live, TypeOK, MapsSound
<1> QED  BY <1>1, <1>2, <1>3, <1>4, <1>5, <1>6, <1>7

\* A message is taken only without a stream under way.
LEMMA BrainMessageKeeps ==
  ASSUME IInv, NEW s \in Sessions, BrainMessage(s)
  PROVE  IInv'
<1> USE DEF IInv
<1>1. TypeOK'
  BY DEF BrainMessage, MayStream, Go, TypeOK, MapsSound, LockSound, Locking
<1>2. LockSound'
  BY DEF BrainMessage, MayStream, Go, LockSound, Locking, TypeOK, MapsSound
<1>3. MapsSound'
  BY DEF BrainMessage, MayStream, Go, MapsSound, TypeOK, LockSound, Locking
<1>4. EndpointSound'
  BY DEF BrainMessage, MayStream, Go, EndpointSound, Live, TypeOK, MapsSound
<1>5. OneSessionPerUser'
  BY DEF BrainMessage, MayStream, Go, OneSessionPerUser, TypeOK, MapsSound, LockSound, Locking
<1>6. StreamsAreFound'
  BY DEF BrainMessage, MayStream, Go, StreamsAreFound, Replacing, Live, TypeOK, MapsSound, EndpointSound
<1>7. GoneIsGone'
  BY DEF BrainMessage, MayStream, Go, GoneIsGone, Streams, Live, TypeOK, MapsSound
<1> QED  BY <1>1, <1>2, <1>3, <1>4, <1>5, <1>6, <1>7

\* A refusal starts nothing.
LEMMA RefusedKeeps ==
  ASSUME IInv, NEW s \in Sessions, Refused(s)
  PROVE  IInv'
<1> USE DEF IInv
<1>1. TypeOK'
  BY DEF Refused, EndTurn, Go, TypeOK, MapsSound, LockSound, Locking
<1>2. LockSound'
  BY DEF Refused, EndTurn, Go, LockSound, Locking, TypeOK, MapsSound
<1>3. MapsSound'
  BY DEF Refused, EndTurn, Go, MapsSound, TypeOK, LockSound, Locking
<1>4. EndpointSound'
  BY DEF Refused, EndTurn, Go, EndpointSound, Live, TypeOK, MapsSound
<1>5. OneSessionPerUser'
  BY DEF Refused, EndTurn, Go, OneSessionPerUser, TypeOK, MapsSound, LockSound, Locking
<1>6. StreamsAreFound'
  BY DEF Refused, EndTurn, Go, StreamsAreFound, Replacing, Live, TypeOK, MapsSound, EndpointSound
<1>7. GoneIsGone'
  BY DEF Refused, EndTurn, Go, GoneIsGone, Streams, Live, TypeOK, MapsSound
<1> QED  BY <1>1, <1>2, <1>3, <1>4, <1>5, <1>6, <1>7

\* The entry the new stream overwrites was a finished one's.
LEMMA SpawnKeeps ==
  ASSUME IInv, NEW s \in Sessions, NEW t \in Tasks, Spawn(s, t)
  PROVE  IInv'
<1> USE DEF IInv
<1>1. TypeOK'
  BY DEF Spawn, Go, TypeOK, MapsSound, LockSound, Locking
<1>2. LockSound'
  BY DEF Spawn, Go, LockSound, Locking, TypeOK, MapsSound
<1>3. MapsSound'
  BY DEF Spawn, Go, MapsSound, TypeOK, LockSound, Locking
<1>4. EndpointSound'
  BY DEF Spawn, Go, EndpointSound, Live, TypeOK, MapsSound
<1>5. OneSessionPerUser'
  BY DEF Spawn, Go, OneSessionPerUser, TypeOK, MapsSound, LockSound, Locking
<1>6. StreamsAreFound'
  BY DEF Spawn, Go, StreamsAreFound, Replacing, Live, TypeOK, MapsSound, EndpointSound
<1>7. GoneIsGone'
  BY DEF Spawn, Go, GoneIsGone, Streams, Live, TypeOK, MapsSound
<1> QED  BY <1>1, <1>2, <1>3, <1>4, <1>5, <1>6, <1>7

\* The stream that is told to end keeps its entry, or is over.
LEMMA StopKeeps ==
  ASSUME IInv, NEW s \in Sessions, Stop(s)
  PROVE  IInv'
<1> USE DEF IInv
<1>1. TypeOK'
  BY DEF Stop, Cleared, Interrupted, Go, TypeOK, MapsSound, LockSound, Locking
<1>2. LockSound'
  BY DEF Stop, Cleared, Interrupted, Go, LockSound, Locking, TypeOK, MapsSound
<1>3. MapsSound'
  BY DEF Stop, Cleared, Interrupted, Go, MapsSound, TypeOK, LockSound, Locking
<1>4. EndpointSound'
  BY DEF Stop, Cleared, Interrupted, Go, EndpointSound, Live, TypeOK, MapsSound
<1>5. OneSessionPerUser'
  BY DEF Stop, Cleared, Interrupted, Go, OneSessionPerUser, TypeOK, MapsSound, LockSound, Locking
<1>6. StreamsAreFound'
  BY DEF Stop, Cleared, Interrupted, Go, StreamsAreFound, Replacing, Live, TypeOK, MapsSound, EndpointSound
<1>7. GoneIsGone'
  BY DEF Stop, Cleared, Interrupted, Go, GoneIsGone, Streams, Live, TypeOK, MapsSound
<1> QED  BY <1>1, <1>2, <1>3, <1>4, <1>5, <1>6, <1>7

\* STOP has waited for its stream.
LEMMA StoppedKeeps ==
  ASSUME IInv, NEW s \in Sessions, Stopped(s)
  PROVE  IInv'
<1> USE DEF IInv
<1>1. TypeOK'
  BY DEF Stopped, Waited, EndTurn, Go, TypeOK, MapsSound, LockSound, Locking
<1>2. LockSound'
  BY DEF Stopped, Waited, EndTurn, Go, LockSound, Locking, TypeOK, MapsSound
<1>3. MapsSound'
  BY DEF Stopped, Waited, EndTurn, Go, MapsSound, TypeOK, LockSound, Locking
<1>4. EndpointSound'
  BY DEF Stopped, Waited, EndTurn, Go, EndpointSound, Live, TypeOK, MapsSound
<1>5. OneSessionPerUser'
  BY DEF Stopped, Waited, EndTurn, Go, OneSessionPerUser, TypeOK, MapsSound, LockSound, Locking
<1>6. StreamsAreFound'
  BY DEF Stopped, Waited, EndTurn, Go, StreamsAreFound, Replacing, Live, TypeOK, MapsSound, EndpointSound
<1>7. GoneIsGone'
  BY DEF Stopped, Waited, EndTurn, Go, GoneIsGone, Streams, Live, TypeOK, MapsSound
<1> QED  BY <1>1, <1>2, <1>3, <1>4, <1>5, <1>6, <1>7

\* A lost connection only closes the websocket.
LEMMA PingTimeoutKeeps ==
  ASSUME IInv, NEW s \in Sessions, PingTimeout(s)
  PROVE  IInv'
<1> USE DEF IInv
<1>1. TypeOK'
  BY DEF PingTimeout, TypeOK, MapsSound, LockSound, Locking
<1>2. LockSound'
  BY DEF PingTimeout, LockSound, Locking, TypeOK, MapsSound
<1>3. MapsSound'
  BY DEF PingTimeout, MapsSound, TypeOK, LockSound, Locking
<1>4. EndpointSound'
  BY DEF PingTimeout, EndpointSound, Live, TypeOK, MapsSound
<1>5. OneSessionPerUser'
  BY DEF PingTimeout, OneSessionPerUser, TypeOK, MapsSound, LockSound, Locking
<1>6. StreamsAreFound'
  BY DEF PingTimeout, StreamsAreFound, Replacing, Live, TypeOK, MapsSound, EndpointSound
<1>7. GoneIsGone'
  BY DEF PingTimeout, GoneIsGone, Streams, Live, TypeOK, MapsSound
<1> QED  BY <1>1, <1>2, <1>3, <1>4, <1>5, <1>6, <1>7

\* The endpoint tells its own stream to end.
LEMMA LeaveLoopKeeps ==
  ASSUME IInv, NEW s \in Sessions, LeaveLoop(s)
  PROVE  IInv'
<1> USE DEF IInv
<1>1. TypeOK'
  BY DEF LeaveLoop, CancelInflight, Cleared, Interrupted, Go, TypeOK, MapsSound, LockSound, Locking
<1>2. LockSound'
  BY DEF LeaveLoop, CancelInflight, Cleared, Interrupted, Go, LockSound, Locking, TypeOK, MapsSound
<1>3. MapsSound'
  BY DEF LeaveLoop, CancelInflight, Cleared, Interrupted, Go, MapsSound, TypeOK, LockSound, Locking
<1>4. EndpointSound'
  BY DEF LeaveLoop, CancelInflight, Cleared, Interrupted, Go, EndpointSound, Live, TypeOK, MapsSound
<1>5. OneSessionPerUser'
  BY DEF LeaveLoop, CancelInflight, Cleared, Interrupted, Go, OneSessionPerUser, TypeOK, MapsSound, LockSound, Locking
<1>6. StreamsAreFound'
  BY DEF LeaveLoop, CancelInflight, Cleared, Interrupted, Go, StreamsAreFound, Replacing, Live, TypeOK, MapsSound, EndpointSound
<1>7. GoneIsGone'
  BY DEF LeaveLoop, CancelInflight, Cleared, Interrupted, Go, GoneIsGone, Streams, Live, TypeOK, MapsSound
<1> QED  BY <1>1, <1>2, <1>3, <1>4, <1>5, <1>6, <1>7

\* It has waited for it.
LEMMA CleanedUpKeeps ==
  ASSUME IInv, NEW s \in Sessions, CleanedUp(s)
  PROVE  IInv'
<1> USE DEF IInv
<1>1. TypeOK'
  BY DEF CleanedUp, Waited, Go, TypeOK, MapsSound, LockSound, Locking
<1>2. LockSound'
  BY DEF CleanedUp, Waited, Go, LockSound, Locking, TypeOK, MapsSound
<1>3. MapsSound'
  BY DEF CleanedUp, Waited, Go, MapsSound, TypeOK, LockSound, Locking
<1>4. EndpointSound'
  BY DEF CleanedUp, Waited, Go, EndpointSound, Live, TypeOK, MapsSound
<1>5. OneSessionPerUser'
  BY DEF CleanedUp, Waited, Go, OneSessionPerUser, TypeOK, MapsSound, LockSound, Locking
<1>6. StreamsAreFound'
  BY DEF CleanedUp, Waited, Go, StreamsAreFound, Replacing, Live, TypeOK, MapsSound, EndpointSound
<1>7. GoneIsGone'
  BY DEF CleanedUp, Waited, Go, GoneIsGone, Streams, Live, TypeOK, MapsSound
<1> QED  BY <1>1, <1>2, <1>3, <1>4, <1>5, <1>6, <1>7

\* With the lock free nobody is replacing the session: what is left of it is nothing.
LEMMA LeaveKeeps ==
  ASSUME IInv, NEW s \in Sessions, Leave(s)
  PROVE  IInv'
<1> USE DEF IInv
<1>1. TypeOK'
  BY DEF Leave, Unregister, Go, TypeOK, MapsSound, LockSound, Locking
<1>2. LockSound'
  BY DEF Leave, Unregister, Go, LockSound, Locking, TypeOK, MapsSound
<1>3. MapsSound'
  BY DEF Leave, Unregister, Go, MapsSound, TypeOK, LockSound, Locking
<1>4. EndpointSound'
  BY DEF Leave, Unregister, Go, EndpointSound, Live, TypeOK, MapsSound
<1>5. OneSessionPerUser'
  BY DEF Leave, Unregister, Go, OneSessionPerUser, TypeOK, MapsSound, LockSound, Locking
<1>6. StreamsAreFound'
  BY DEF Leave, Unregister, Go, StreamsAreFound, Replacing, Live, TypeOK, MapsSound, EndpointSound
<1>7. GoneIsGone'
  <2>1. s \notin orphaned => Streams(s) = {}
    BY DEF Leave, StreamsAreFound, Replacing, Streams, EndpointSound, LockSound, Locking, Live, TypeOK
  <2>2. \A x \in Sessions : Streams(x)' = Streams(x)
    BY DEF Leave, Streams, Live
  <2> QED  BY <2>1, <2>2 DEF Leave, Unregister, Go, GoneIsGone, TypeOK
<1> QED  BY <1>1, <1>2, <1>3, <1>4, <1>5, <1>6, <1>7

\* A stream goes on.
LEMMA BeginKeeps ==
  ASSUME IInv, NEW t \in Tasks, Begin(t)
  PROVE  IInv'
<1> USE DEF IInv
<1>1. TypeOK'
  BY DEF Begin, Step, TypeOK, MapsSound, LockSound, Locking
<1>2. LockSound'
  BY DEF Begin, Step, LockSound, Locking, TypeOK, MapsSound
<1>3. MapsSound'
  BY DEF Begin, Step, MapsSound, TypeOK, LockSound, Locking
<1>4. EndpointSound'
  BY DEF Begin, Step, EndpointSound, Live, TypeOK, MapsSound
<1>5. OneSessionPerUser'
  BY DEF Begin, Step, OneSessionPerUser, TypeOK, MapsSound, LockSound, Locking
<1>6. StreamsAreFound'
  BY DEF Begin, Step, StreamsAreFound, Replacing, Live, TypeOK, MapsSound, EndpointSound
<1>7. GoneIsGone'
  BY DEF Begin, Step, GoneIsGone, Streams, Live, TypeOK, MapsSound
<1> QED  BY <1>1, <1>2, <1>3, <1>4, <1>5, <1>6, <1>7

\* A stream goes on.
LEMMA CompleteKeeps ==
  ASSUME IInv, NEW t \in Tasks, Complete(t)
  PROVE  IInv'
<1> USE DEF IInv
<1>1. TypeOK'
  BY DEF Complete, Step, TypeOK, MapsSound, LockSound, Locking
<1>2. LockSound'
  BY DEF Complete, Step, LockSound, Locking, TypeOK, MapsSound
<1>3. MapsSound'
  BY DEF Complete, Step, MapsSound, TypeOK, LockSound, Locking
<1>4. EndpointSound'
  BY DEF Complete, Step, EndpointSound, Live, TypeOK, MapsSound
<1>5. OneSessionPerUser'
  BY DEF Complete, Step, OneSessionPerUser, TypeOK, MapsSound, LockSound, Locking
<1>6. StreamsAreFound'
  BY DEF Complete, Step, StreamsAreFound, Replacing, Live, TypeOK, MapsSound, EndpointSound
<1>7. GoneIsGone'
  BY DEF Complete, Step, GoneIsGone, Streams, Live, TypeOK, MapsSound
<1> QED  BY <1>1, <1>2, <1>3, <1>4, <1>5, <1>6, <1>7

\* A stream goes on.
LEMMA FailKeeps ==
  ASSUME IInv, NEW t \in Tasks, Fail(t)
  PROVE  IInv'
<1> USE DEF IInv
<1>1. TypeOK'
  BY DEF Fail, Step, TypeOK, MapsSound, LockSound, Locking
<1>2. LockSound'
  BY DEF Fail, Step, LockSound, Locking, TypeOK, MapsSound
<1>3. MapsSound'
  BY DEF Fail, Step, MapsSound, TypeOK, LockSound, Locking
<1>4. EndpointSound'
  BY DEF Fail, Step, EndpointSound, Live, TypeOK, MapsSound
<1>5. OneSessionPerUser'
  BY DEF Fail, Step, OneSessionPerUser, TypeOK, MapsSound, LockSound, Locking
<1>6. StreamsAreFound'
  BY DEF Fail, Step, StreamsAreFound, Replacing, Live, TypeOK, MapsSound, EndpointSound
<1>7. GoneIsGone'
  BY DEF Fail, Step, GoneIsGone, Streams, Live, TypeOK, MapsSound
<1> QED  BY <1>1, <1>2, <1>3, <1>4, <1>5, <1>6, <1>7

\* A stream that clears its session's entry is either in it, or one of a session that lost sight of its stream.
LEMMA FinishKeeps ==
  ASSUME IInv, NEW t \in Tasks, Finish(t)
  PROVE  IInv'
<1> USE DEF IInv
<1>1. TypeOK'
  BY DEF Finish, EndClear, Step, TypeOK, MapsSound, LockSound, Locking
<1>2. LockSound'
  BY DEF Finish, EndClear, Step, LockSound, Locking, TypeOK, MapsSound
<1>3. MapsSound'
  BY DEF Finish, EndClear, Step, MapsSound, TypeOK, LockSound, Locking
<1>4. EndpointSound'
  BY DEF Finish, EndClear, Step, EndpointSound, Live, TypeOK, MapsSound
<1>5. OneSessionPerUser'
  BY DEF Finish, EndClear, Step, OneSessionPerUser, TypeOK, MapsSound, LockSound, Locking
<1>6. StreamsAreFound'
  BY DEF Finish, EndClear, Step, StreamsAreFound, Replacing, Live, TypeOK, MapsSound, EndpointSound
<1>7. GoneIsGone'
  BY DEF Finish, EndClear, Step, GoneIsGone, Streams, Live, TypeOK, MapsSound
<1> QED  BY <1>1, <1>2, <1>3, <1>4, <1>5, <1>6, <1>7

\* A stream goes on.
LEMMA BeginReportKeeps ==
  ASSUME IInv, NEW t \in Tasks, BeginReport(t)
  PROVE  IInv'
<1> USE DEF IInv
<1>1. TypeOK'
  BY DEF BeginReport, Step, TypeOK, MapsSound, LockSound, Locking
<1>2. LockSound'
  BY DEF BeginReport, Step, LockSound, Locking, TypeOK, MapsSound
<1>3. MapsSound'
  BY DEF BeginReport, Step, MapsSound, TypeOK, LockSound, Locking
<1>4. EndpointSound'
  BY DEF BeginReport, Step, EndpointSound, Live, TypeOK, MapsSound
<1>5. OneSessionPerUser'
  BY DEF BeginReport, Step, OneSessionPerUser, TypeOK, MapsSound, LockSound, Locking
<1>6. StreamsAreFound'
  BY DEF BeginReport, Step, StreamsAreFound, Replacing, Live, TypeOK, MapsSound, EndpointSound
<1>7. GoneIsGone'
  BY DEF BeginReport, Step, GoneIsGone, Streams, Live, TypeOK, MapsSound
<1> QED  BY <1>1, <1>2, <1>3, <1>4, <1>5, <1>6, <1>7

\* A balance is written only by a live stream of its session.
LEMMA ReportedKeeps ==
  ASSUME IInv, NEW t \in Tasks, Reported(t)
  PROVE  IInv'
<1> USE DEF IInv
<1>1. TypeOK'
  BY DEF Reported, EndClear, Step, TypeOK, MapsSound, LockSound, Locking
<1>2. LockSound'
  BY DEF Reported, EndClear, Step, LockSound, Locking, TypeOK, MapsSound
<1>3. MapsSound'
  BY DEF Reported, EndClear, Step, MapsSound, TypeOK, LockSound, Locking
<1>4. EndpointSound'
  BY DEF Reported, EndClear, Step, EndpointSound, Live, TypeOK, MapsSound
<1>5. OneSessionPerUser'
  BY DEF Reported, EndClear, Step, OneSessionPerUser, TypeOK, MapsSound, LockSound, Locking
<1>6. StreamsAreFound'
  BY DEF Reported, EndClear, Step, StreamsAreFound, Replacing, Live, TypeOK, MapsSound, EndpointSound
<1>7. GoneIsGone'
  BY DEF Reported, EndClear, Step, GoneIsGone, Streams, Live, TypeOK, MapsSound
<1> QED  BY <1>1, <1>2, <1>3, <1>4, <1>5, <1>6, <1>7

\* As Finish.
LEMMA ReportEndsKeeps ==
  ASSUME IInv, NEW t \in Tasks, ReportEnds(t)
  PROVE  IInv'
<1> USE DEF IInv
<1>1. TypeOK'
  BY DEF ReportEnds, EndClear, Step, TypeOK, MapsSound, LockSound, Locking
<1>2. LockSound'
  BY DEF ReportEnds, EndClear, Step, LockSound, Locking, TypeOK, MapsSound
<1>3. MapsSound'
  BY DEF ReportEnds, EndClear, Step, MapsSound, TypeOK, LockSound, Locking
<1>4. EndpointSound'
  BY DEF ReportEnds, EndClear, Step, EndpointSound, Live, TypeOK, MapsSound
<1>5. OneSessionPerUser'
  BY DEF ReportEnds, EndClear, Step, OneSessionPerUser, TypeOK, MapsSound, LockSound, Locking
<1>6. StreamsAreFound'
  BY DEF ReportEnds, EndClear, Step, StreamsAreFound, Replacing, Live, TypeOK, MapsSound, EndpointSound
<1>7. GoneIsGone'
  BY DEF ReportEnds, EndClear, Step, GoneIsGone, Streams, Live, TypeOK, MapsSound
<1> QED  BY <1>1, <1>2, <1>3, <1>4, <1>5, <1>6, <1>7

\* A command finds the user's session.
LEMMA RelayKeeps ==
  ASSUME IInv, NEW c \in Calls, NEW u \in Users, Relay(c, u)
  PROVE  IInv'
<1> USE DEF IInv
<1>1. TypeOK'
  BY DEF Relay, TypeOK, MapsSound, LockSound, Locking
<1>2. LockSound'
  BY DEF Relay, LockSound, Locking, TypeOK, MapsSound
<1>3. MapsSound'
  BY DEF Relay, MapsSound, TypeOK, LockSound, Locking
<1>4. EndpointSound'
  BY DEF Relay, EndpointSound, Live, TypeOK, MapsSound
<1>5. OneSessionPerUser'
  BY DEF Relay, OneSessionPerUser, TypeOK, MapsSound, LockSound, Locking
<1>6. StreamsAreFound'
  BY DEF Relay, StreamsAreFound, Replacing, Live, TypeOK, MapsSound, EndpointSound
<1>7. GoneIsGone'
  BY DEF Relay, GoneIsGone, Streams, Live, TypeOK, MapsSound
<1> QED  BY <1>1, <1>2, <1>3, <1>4, <1>5, <1>6, <1>7

\* A command is sent.
LEMMA RelayedKeeps ==
  ASSUME IInv, NEW c \in Calls, Relayed(c)
  PROVE  IInv'
<1> USE DEF IInv
<1>1. TypeOK'
  BY DEF Relayed, TypeOK, MapsSound, LockSound, Locking
<1>2. LockSound'
  BY DEF Relayed, LockSound, Locking, TypeOK, MapsSound
<1>3. MapsSound'
  BY DEF Relayed, MapsSound, TypeOK, LockSound, Locking
<1>4. EndpointSound'
  BY DEF Relayed, EndpointSound, Live, TypeOK, MapsSound
<1>5. OneSessionPerUser'
  BY DEF Relayed, OneSessionPerUser, TypeOK, MapsSound, LockSound, Locking
<1>6. StreamsAreFound'
  BY DEF Relayed, StreamsAreFound, Replacing, Live, TypeOK, MapsSound, EndpointSound
<1>7. GoneIsGone'
  BY DEF Relayed, GoneIsGone, Streams, Live, TypeOK, MapsSound
<1> QED  BY <1>1, <1>2, <1>3, <1>4, <1>5, <1>6, <1>7

\* A command is not sent.
LEMMA RelayFailsKeeps ==
  ASSUME IInv, NEW c \in Calls, RelayFails(c)
  PROVE  IInv'
<1> USE DEF IInv
<1>1. TypeOK'
  BY DEF RelayFails, TypeOK, MapsSound, LockSound, Locking
<1>2. LockSound'
  BY DEF RelayFails, LockSound, Locking, TypeOK, MapsSound
<1>3. MapsSound'
  BY DEF RelayFails, MapsSound, TypeOK, LockSound, Locking
<1>4. EndpointSound'
  BY DEF RelayFails, EndpointSound, Live, TypeOK, MapsSound
<1>5. OneSessionPerUser'
  BY DEF RelayFails, OneSessionPerUser, TypeOK, MapsSound, LockSound, Locking
<1>6. StreamsAreFound'
  BY DEF RelayFails, StreamsAreFound, Replacing, Live, TypeOK, MapsSound, EndpointSound
<1>7. GoneIsGone'
  BY DEF RelayFails, GoneIsGone, Streams, Live, TypeOK, MapsSound
<1> QED  BY <1>1, <1>2, <1>3, <1>4, <1>5, <1>6, <1>7

\* The session the command found is removed, and marked if it leaves a stream.
LEMMA RelayDropsKeeps ==
  ASSUME IInv, NEW c \in Calls, RelayDrops(c)
  PROVE  IInv'
<1> USE DEF IInv
<1>1. TypeOK'
  BY DEF RelayDrops, Unregister, Orphan, Streams, TypeOK, MapsSound, LockSound, Locking
<1>2. LockSound'
  BY DEF RelayDrops, Unregister, Orphan, Streams, LockSound, Locking, TypeOK, MapsSound
<1>3. MapsSound'
  BY DEF RelayDrops, Unregister, Orphan, Streams, MapsSound, TypeOK, LockSound, Locking
<1>4. EndpointSound'
  BY DEF RelayDrops, Unregister, Orphan, Streams, EndpointSound, Live, TypeOK, MapsSound
<1>5. OneSessionPerUser'
  BY DEF RelayDrops, Unregister, Orphan, Streams, OneSessionPerUser, TypeOK, MapsSound, LockSound, Locking
<1>6. StreamsAreFound'
  BY DEF RelayDrops, Unregister, Orphan, Streams, StreamsAreFound, Replacing, Live, TypeOK, MapsSound, EndpointSound
<1>7. GoneIsGone'
  BY DEF RelayDrops, Unregister, Orphan, Streams, GoneIsGone, Live, TypeOK, MapsSound
<1> QED  BY <1>1, <1>2, <1>3, <1>4, <1>5, <1>6, <1>7

\* Every step keeps the invariant.
LEMMA NextHolds == IInv /\ [Next]_vars => IInv'
<1> SUFFICES ASSUME IInv, [Next]_vars PROVE IInv'
  OBVIOUS
<1>1. CASE Next
  BY <1>1, ConnectKeeps, ConnectFirstKeeps, ConnectAgainKeeps, CancelledKeeps, CloseOldKeeps, ReplaceKeeps, HelloKeeps, HelloFailsKeeps, BrainMessageKeeps, RefusedKeeps, SpawnKeeps, StopKeeps, StoppedKeeps, PingTimeoutKeeps, LeaveLoopKeeps, CleanedUpKeeps, LeaveKeeps, BeginKeeps, CompleteKeeps, FailKeeps, FinishKeeps, BeginReportKeeps, ReportedKeeps, ReportEndsKeeps, RelayKeeps, RelayedKeeps, RelayFailsKeeps, RelayDropsKeeps DEF Next, EndpointStep, ClientStep, TaskStep, CallStep
<1>2. CASE UNCHANGED vars
  BY <1>2 DEF vars, IInv, TypeOK, LockSound, MapsSound, EndpointSound, OneSessionPerUser,
     StreamsAreFound, GoneIsGone, Replacing, Streams, Live
<1> QED  BY <1>1, <1>2

-----------------------------------------------------------------------------
\* The invariant holds in every behaviour.
THEOREM Inductive == Spec => []IInv
  BY InitHolds, NextHolds, PTL DEF Spec

\* Every variable keeps its type.
THEOREM TypeCorrect == Spec => []TypeOK
<1>1. IInv => TypeOK
  BY DEF IInv
<1> QED  BY <1>1, Inductive, PTL

\* A user never has two registered sessions, and the one commands go to is the
\* registered one, however many of its connections come and go at once.
THEOREM SessionIsUnique == Spec => []OneSessionPerUser
<1>1. IInv => OneSessionPerUser
  BY DEF IInv
<1> QED  BY <1>1, Inductive, PTL

\* No stream of a registered session is out of the manager's sight.
THEOREM StreamsStayFound == Spec => []StreamsAreFound
<1>1. IInv => StreamsAreFound
  BY DEF IInv
<1> QED  BY <1>1, Inductive, PTL

\* An endpoint that ended leaves no session, balance or stream behind, unless its
\* session was removed by another coroutine while its stream ran.
THEOREM GoneStaysGone == Spec => []GoneIsGone
<1>1. IInv => GoneIsGone
  BY DEF IInv
<1> QED  BY <1>1, Inductive, PTL

-----------------------------------------------------------------------------
(* The registry of SessionRegistry *)

Connected == {s \in Sessions : pc[s] \notin Early}

\* A registered session is past its connect.
ActiveSound == active \subseteq Connected

OneOfEach == {S \in SUBSET Sessions : \A s, n \in S : UserOf[s] = UserOf[n] => s = n}

\* Every step but the two that register a session.
OtherSteps ==
  \/ \E s \in Sessions :
       \/ Connect(s) \/ ConnectAgain(s) \/ Cancelled(s) \/ CloseOld(s) \/ Hello(s) \/ HelloFails(s)
       \/ BrainMessage(s) \/ Refused(s) \/ (\E t \in Tasks : Spawn(s, t)) \/ Stop(s) \/ Stopped(s)
       \/ PingTimeout(s) \/ LeaveLoop(s) \/ CleanedUp(s) \/ Leave(s)
  \/ \E t \in Tasks : TaskStep(t)
  \/ \E c \in Calls : CallStep(c) \/ \E u \in Users : Relay(c, u)
  \/ UNCHANGED vars

\* They register nobody, and no endpoint connects twice.
LEMMA OthersConnectNobody ==
  ASSUME TypeOK, OtherSteps
  PROVE  active' \subseteq active /\ Connected \subseteq Connected'
<1>1. CASE \E s \in Sessions : Connect(s) \/ Hello(s) \/ HelloFails(s) \/ BrainMessage(s) \/ PingTimeout(s)
  BY <1>1 DEF Connect, Hello, HelloFails, BrainMessage, PingTimeout, Go, Connected, Early, TypeOK
<1>2. CASE \E s \in Sessions : ConnectAgain(s) \/ Stop(s) \/ LeaveLoop(s)
  BY <1>2 DEF ConnectAgain, Stop, LeaveLoop, CancelInflight, Go, Connected, Early, TypeOK
<1>3. CASE \E s \in Sessions : Cancelled(s) \/ CloseOld(s) \/ CleanedUp(s) \/ Leave(s)
  BY <1>3 DEF Cancelled, CloseOld, CleanedUp, Leave, Unregister, Go, Connected, Early, TypeOK
<1>4. CASE \E s \in Sessions : Refused(s) \/ Stopped(s) \/ \E t \in Tasks : Spawn(s, t)
  BY <1>4 DEF Refused, Stopped, Spawn, EndTurn, Go, Connected, Early, TypeOK
<1>5. CASE \E t \in Tasks : TaskStep(t)
  BY <1>5 DEF TaskStep, Begin, Complete, Fail, Finish, BeginReport, Reported, ReportEnds, Connected
<1>6. CASE \E c \in Calls : CallStep(c) \/ \E u \in Users : Relay(c, u)
  BY <1>6 DEF CallStep, Relay, Relayed, RelayFails, RelayDrops, Unregister, Connected
<1>7. CASE UNCHANGED vars
  BY <1>7 DEF vars, Connected
<1> QED  BY <1>1, <1>2, <1>3, <1>4, <1>5, <1>6, <1>7 DEF OtherSteps

LEMMA OthersRefine ==
  ASSUME TypeOK, ActiveSound, OtherSteps
  PROVE  ActiveSound' /\ Registry!RegistryNext
<1>1. active' \subseteq active /\ Connected \subseteq Connected'
  BY OthersConnectNobody
<1>2. PICK out \in SUBSET Sessions : out = Connected' \ active'
  BY DEF Connected
<1>3. active' = active \ out
  BY <1>1, <1>2 DEF ActiveSound
<1>4. Connected' \ active' = (Connected \ active) \cup out
  BY <1>1, <1>2
<1>5. Registry!Dismissal(out)
  BY <1>3, <1>4 DEF Registry!Dismissal, Connected
<1>6. Registry!RegistryNext
  BY <1>5 DEF Registry!RegistryNext
<1> QED  BY <1>1, <1>6 DEF ActiveSound

\* Registered sessions are of different users.
LEMMA ActiveFit == TypeOK /\ OneSessionPerUser => active \in OneOfEach
  BY DEF TypeOK, OneSessionPerUser, OneOfEach

\* The session that connects was never registered; with the old one of its user out,
\* it is the only one.
LEMMA AdmissionRefines ==
  ASSUME IInv, IInv', ActiveSound, NEW s \in Sessions, NEW out \in SUBSET active,
         pc[s] \in Early, pc' = [pc EXCEPT ![s] = "hello"], active' = (active \ out) \cup {s}
  PROVE  ActiveSound' /\ Registry!RegistryNext
<1>1. Connected' = Connected \cup {s} /\ s \notin Connected
  BY DEF Connected, Early, IInv, TypeOK
<1>2. Connected' \ active' = (Connected \ active) \cup out
  BY <1>1 DEF ActiveSound
<1>3. active' \in OneOfEach
  BY DEF IInv, TypeOK, OneSessionPerUser, OneOfEach
<1>4. s \notin active \cup (Connected \ active)
  BY <1>1 DEF ActiveSound
<1>5. Registry!Admission(s, out)
  BY <1>2, <1>3, <1>4 DEF Registry!Admission, Connected, OneOfEach
<1>6. out \in SUBSET Sessions
  BY DEF IInv, TypeOK
<1>7. Registry!RegistryNext
  BY <1>5, <1>6 DEF Registry!RegistryNext
<1> QED  BY <1>1, <1>7 DEF ActiveSound

LEMMA StepRefines ==
  ASSUME IInv, IInv', ActiveSound, [Next]_vars
  PROVE  ActiveSound' /\ Registry!RegistryNext
<1>1. ASSUME NEW s \in Sessions, ConnectFirst(s)
      PROVE  ActiveSound' /\ Registry!RegistryNext
  <2>1. /\ pc[s] \in Early /\ pc' = [pc EXCEPT ![s] = "hello"]
        /\ active' = (active \ {}) \cup {s}
    BY <1>1 DEF ConnectFirst, Register, Go, Early
  <2>2. {} \in SUBSET active
    OBVIOUS
  <2> QED  BY <2>1, <2>2, AdmissionRefines
<1>2. ASSUME NEW s \in Sessions, Replace(s)
      PROVE  ActiveSound' /\ Registry!RegistryNext
  <2>1. /\ pc[s] \in Early /\ pc' = [pc EXCEPT ![s] = "hello"]
        /\ active' = (active \ {old[s]}) \cup {s}
    BY <1>2 DEF Replace, Go, Early
  <2>2. PICK out \in SUBSET active : out = {old[s]} \cap active
    OBVIOUS
  <2>3. active' = (active \ out) \cup {s}
    BY <2>1, <2>2
  <2> QED  BY <2>1, <2>3, AdmissionRefines
<1>3. CASE OtherSteps
  BY <1>3, OthersRefine DEF IInv
<1> QED  BY <1>1, <1>2, <1>3 DEF Next, EndpointStep, ClientStep, OtherSteps

LEMMA InitRefines == Init => ActiveSound /\ Registry!RegistryInit
  BY DEF Init, ActiveSound, Registry!RegistryInit, Early

\* Connections of a user, their ends, replacements and failed commands overlap, and
\* still each session is registered once, alone of its user.
THEOREM SessionsRefineRegistry == Spec => RefinesRegistry
<1>1. Init => IInv /\ ActiveSound /\ Registry!RegistryInit
  BY InitHolds, InitRefines
<1>2. IInv /\ ActiveSound /\ [Next]_vars
      => /\ IInv' /\ ActiveSound'
         /\ [Registry!RegistryNext]_(Registry!registryVars)
  BY NextHolds, StepRefines
<1> QED  BY <1>1, <1>2, PTL DEF Spec, RefinesRegistry, Registry!RegistrySpec

=============================================================================
