------------------------- MODULE CopilotSessions -------------------------
(***************************************************************************)
(* The websocket sessions of the co-pilot: one endpoint coroutine and at   *)
(* most one stream task per session, one session per user, a manager whose *)
(* lock covers connect and disconnect but not the tasks.                   *)
(*                                                                         *)
(* One event loop: a coroutine runs up to its next await.                  *)
(***************************************************************************)
EXTENDS FiniteSets

CONSTANTS
  Users, Sessions, UserOf,   \* every websocket is a session of its user
  Tasks,       \* stream tasks, one for each message taken
  Calls,       \* REST calls of send_command
  Nobody

ASSUME ConstantsAssumption ==
  /\ UserOf \in [Sessions -> Users]
  /\ Nobody \notin Sessions \cup Tasks \cup Calls
  /\ Sessions \cap Calls = {}

VARIABLES
  \* ConnectionManager: lock, _active, _user_sessions, _inflight_task, _session_balance
  lock, active, current, inflight, balances,
  \* endpoints: step, session being replaced, task waited for, websocket closed
  pc, old, waits, closed,
  \* tasks: step, session, whether usage is known
  task, of, used,
  \* REST calls: step, session found
  call, sent,
  \* history: sessions removed by another coroutine while a stream of theirs ran
  orphaned

manager  == <<lock, active, current, inflight, balances>>
endpoint == <<pc, old, waits, closed>>
stream   == <<task, of, used>>
relay    == <<call, sent>>
vars     == <<manager, endpoint, stream, relay, orphaned>>

Init ==
  /\ lock = Nobody /\ active = {} /\ current = [u \in Users |-> Nobody]
  /\ inflight = [s \in Sessions |-> Nobody] /\ balances = {}
  /\ pc = [s \in Sessions |-> "new"]
  /\ old = [s \in Sessions |-> Nobody] /\ waits = [s \in Sessions |-> Nobody]
  /\ closed = {}
  /\ task = [t \in Tasks |-> "none"] /\ of = [t \in Tasks |-> Nobody] /\ used = {}
  /\ call = [c \in Calls |-> "idle"] /\ sent = [c \in Calls |-> Nobody]
  /\ orphaned = {}

Go(s, step) == pc' = [pc EXCEPT ![s] = step]

Live(t)   == t # Nobody /\ task[t] \notin {"none", "done"}
Streams(s) == {t \in Tasks : of[t] = s /\ Live(t)}

\* _disconnect_unlocked: every entry of the session.
Unregister(s) ==
  /\ active' = active \ {s}
  /\ balances' = balances \ {s}
  /\ inflight' = [inflight EXCEPT ![s] = Nobody]
  /\ current' = [u \in Users |-> IF current[u] = s THEN Nobody ELSE current[u]]

\* The coroutine that removes a session of another one leaves its stream alone.
Orphan(s) == orphaned' = IF Streams(s) = {} THEN orphaned ELSE orphaned \cup {s}

-----------------------------------------------------------------------------
(* Cancelling a task *)

\* Where a task goes on when it is cancelled: not at all before its first step,
\* to the handler that sends STOPPED, from a handler to the finally clause, out of
\* the finally clause.
Interrupted(t) ==
  CASE task[t] \in {"streaming", "sending"}     -> "answering"
    [] task[t] = "answering" /\ t \in used      -> "reporting"
    [] OTHER                                    -> "done"

\* A finally clause that is not itself interrupted ends with clear_inflight.
Cleared(t) == IF task[t] = "answering" /\ t \notin used
              THEN [inflight EXCEPT ![of[t]] = Nobody] ELSE inflight

\* _cancel_inflight_unlocked, for session o, up to its await or its end.
CancelInflight(s, o, waiting, going) ==
  LET t == inflight[o] IN
  \/ /\ Live(t)
     /\ task' = [task EXCEPT ![t] = Interrupted(t)]
     /\ inflight' = Cleared(t)
     /\ waits' = [waits EXCEPT ![s] = t]
     /\ Go(s, waiting)
  \/ /\ ~Live(t)
     /\ inflight' = [inflight EXCEPT ![o] = Nobody]
     /\ Go(s, going)
     /\ UNCHANGED <<task, waits>>

Waited(s) == ~Live(waits[s]) /\ waits' = [waits EXCEPT ![s] = Nobody]

-----------------------------------------------------------------------------
(* Connecting *)

Connect(s) ==
  /\ pc[s] = "new"
  /\ Go(s, "connecting")
  /\ UNCHANGED <<manager, old, waits, closed, stream, relay, orphaned>>

Register(s) ==
  /\ active' = active \cup {s}
  /\ balances' = balances \cup {s}
  /\ current' = [current EXCEPT ![UserOf[s]] = s]

Replaces(s) == current[UserOf[s]]

\* Without an old session the lock is released at once.
ConnectFirst(s) ==
  /\ pc[s] = "connecting" /\ lock = Nobody
  /\ Replaces(s) \notin active
  /\ Register(s)
  /\ Go(s, "hello")
  /\ UNCHANGED <<lock, inflight, old, waits, closed, stream, relay, orphaned>>

\* The stream of the old session is cancelled and awaited, the lock held.
ConnectAgain(s) ==
  /\ pc[s] = "connecting" /\ lock = Nobody
  /\ Replaces(s) \in active
  /\ lock' = s
  /\ old' = [old EXCEPT ![s] = Replaces(s)]
  /\ CancelInflight(s, Replaces(s), "cancelling", "cancelled")
  /\ UNCHANGED <<active, current, balances, closed, of, used, relay, orphaned>>

Cancelled(s) ==
  /\ pc[s] = "cancelling" /\ Waited(s)
  /\ inflight' = [inflight EXCEPT ![old[s]] = Nobody]
  /\ Go(s, "cancelled")
  /\ UNCHANGED <<lock, active, current, balances, old, closed, stream, relay, orphaned>>

\* old_ws.close is under way; from now on the old endpoint can read no more than
\* the message it is waiting for.
CloseOld(s) ==
  /\ pc[s] = "cancelled"
  /\ closed' = closed \cup {old[s]}
  /\ Go(s, "closing")
  /\ UNCHANGED <<manager, old, waits, stream, relay, orphaned>>

\* Mutant: the old session is left for its own endpoint to remove.
ReplaceLater(s) ==
  /\ pc[s] = "closing"
  /\ Register(s)
  /\ lock' = Nobody
  /\ old' = [old EXCEPT ![s] = Nobody]
  /\ Go(s, "hello")
  /\ UNCHANGED <<inflight, waits, closed, stream, relay, orphaned>>

\* The old session is removed and the new one added in one step.
Replace(s) ==
  /\ pc[s] = "closing"
  /\ LET o == old[s] IN
     /\ active' = (active \ {o}) \cup {s}
     /\ balances' = (balances \ {o}) \cup {s}
     /\ inflight' = [inflight EXCEPT ![o] = Nobody]
     /\ current' = [[u \in Users |-> IF current[u] = o THEN Nobody ELSE current[u]]
                     EXCEPT ![UserOf[s]] = s]
     /\ Orphan(o)
  /\ lock' = Nobody
  /\ old' = [old EXCEPT ![s] = Nobody]
  /\ Go(s, "hello")
  /\ UNCHANGED <<waits, closed, stream, relay>>

Hello(s) ==
  /\ pc[s] = "hello" /\ s \notin closed
  /\ Go(s, "receive")
  /\ UNCHANGED <<manager, old, waits, closed, stream, relay, orphaned>>

\* The CONNECTED message cannot be sent.  The coroutine of disconnect is made and
\* never awaited: the session stays registered.
HelloFails(s) ==
  /\ pc[s] = "hello"
  /\ closed' = closed \cup {s}
  /\ Go(s, "mute")
  /\ UNCHANGED <<manager, old, waits, stream, relay, orphaned>>

-----------------------------------------------------------------------------
(* The message loop *)

\* Reading from a websocket one has closed raises.
EndTurn(s) ==
  \/ s \notin closed /\ Go(s, "receive") /\ UNCHANGED inflight
  \/ s \in closed /\ Go(s, "leaving") /\ inflight' = [inflight EXCEPT ![s] = Nobody]

\* Mutant: a stream under way is not looked at.
MayStreamAlways(s) == TRUE

\* One stream at a time.
MayStream(s) == ~Live(inflight[s])

\* The user of the session is read before the metering, and used after it.
BrainMessage(s) ==
  /\ pc[s] = "receive"
  /\ MayStream(s)
  /\ Go(s, IF s \in active THEN "metering" ELSE "anonymous")
  /\ UNCHANGED <<manager, old, waits, closed, stream, relay, orphaned>>

\* No user, no credit, no activation, an attachment that is gone.
Refused(s) ==
  /\ pc[s] \in {"metering", "anonymous"}
  /\ EndTurn(s)
  /\ UNCHANGED <<lock, active, current, balances, old, waits, closed, stream, relay, orphaned>>

\* Registered, and cancelled before its first step if the websocket has been closed.
Spawn(s, t) ==
  /\ pc[s] = "metering" /\ task[t] = "none"
  /\ of' = [of EXCEPT ![t] = s]
  /\ inflight' = [inflight EXCEPT ![s] = t]
  /\ \/ /\ s \notin closed
        /\ task' = [task EXCEPT ![t] = "created"]
        /\ Go(s, "receive")
        /\ UNCHANGED waits
     \/ /\ s \in closed
        /\ task' = [task EXCEPT ![t] = "done"]
        /\ waits' = [waits EXCEPT ![s] = t]
        /\ Go(s, "cleanup")
  /\ UNCHANGED <<lock, active, current, balances, old, closed, used, relay, orphaned>>

\* STOP cancels and waits, and leaves the entry to the task.
Stop(s) ==
  /\ pc[s] = "receive"
  /\ LET t == inflight[s] IN
     /\ Live(t)
     /\ task' = [task EXCEPT ![t] = Interrupted(t)]
     /\ inflight' = Cleared(t)
     /\ waits' = [waits EXCEPT ![s] = t]
  /\ Go(s, "stopping")
  /\ UNCHANGED <<lock, active, current, balances, old, closed, of, used, relay, orphaned>>

Stopped(s) ==
  /\ pc[s] = "stopping" /\ Waited(s)
  /\ EndTurn(s)
  /\ UNCHANGED <<lock, active, current, balances, old, closed, stream, relay, orphaned>>

PingTimeout(s) ==
  /\ pc[s] \in {"receive", "metering", "anonymous", "stopping"}
  /\ closed' = closed \cup {s}
  /\ UNCHANGED <<manager, pc, old, waits, stream, relay, orphaned>>

\* Mutant: the finally clause of the loop forgets the stream.
LeaveLoopForgets(s) ==
  /\ pc[s] = "receive"
  /\ closed' = closed \cup {s}
  /\ Go(s, "leaving")
  /\ UNCHANGED <<manager, old, waits, stream, relay, orphaned>>

\* The client is gone, or an answer cannot be sent: the finally clause of the loop.
LeaveLoop(s) ==
  /\ pc[s] = "receive"
  /\ closed' = closed \cup {s}
  /\ CancelInflight(s, s, "cleanup", "leaving")
  /\ UNCHANGED <<lock, active, current, balances, old, of, used, relay, orphaned>>

CleanedUp(s) ==
  /\ pc[s] = "cleanup" /\ Waited(s)
  /\ inflight' = [inflight EXCEPT ![s] = Nobody]
  /\ Go(s, "leaving")
  /\ UNCHANGED <<lock, active, current, balances, old, closed, stream, relay, orphaned>>

Leave(s) ==
  /\ pc[s] = "leaving" /\ lock = Nobody
  /\ Unregister(s)
  /\ Go(s, "gone")
  /\ UNCHANGED <<lock, old, waits, closed, stream, relay, orphaned>>

-----------------------------------------------------------------------------
(* The stream task *)

Step(t, step) == task' = [task EXCEPT ![t] = step]

Begin(t) ==
  /\ task[t] = "created"
  /\ Step(t, "streaming")
  /\ UNCHANGED <<manager, endpoint, of, used, relay, orphaned>>

\* The whole answer, perhaps with its usage.
Complete(t) ==
  /\ task[t] = "streaming"
  /\ Step(t, "sending")
  /\ used' \in {used, used \cup {t}}
  /\ UNCHANGED <<manager, endpoint, of, relay, orphaned>>

\* A timeout, a refusal or an error that is answered.
Fail(t) ==
  /\ task[t] = "streaming"
  /\ Step(t, "answering")
  /\ UNCHANGED <<manager, endpoint, of, used, relay, orphaned>>

\* Mutant: clear_inflight takes the lock of the manager.
EndClearLocked(t) ==
  /\ lock = Nobody
  /\ Step(t, "done")
  /\ inflight' = [inflight EXCEPT ![of[t]] = Nobody]

EndClear(t) ==
  /\ Step(t, "done")
  /\ inflight' = [inflight EXCEPT ![of[t]] = Nobody]

\* The finally clause, when nothing has to be reported.
Finish(t) ==
  /\ task[t] \in {"streaming", "sending", "answering"} /\ t \notin used
  /\ EndClear(t)
  /\ UNCHANGED <<lock, active, current, balances, endpoint, of, used, relay, orphaned>>

BeginReport(t) ==
  /\ task[t] \in {"sending", "answering"} /\ t \in used
  /\ Step(t, "reporting")
  /\ UNCHANGED <<manager, endpoint, of, used, relay, orphaned>>

\* The balance is written under the session, registered or not; a depleted one
\* is told to the client.
Reported(t) ==
  /\ task[t] = "reporting"
  /\ balances' = balances \cup {of[t]}
  /\ \/ EndClear(t)
     \/ Step(t, "warning") /\ UNCHANGED inflight
  /\ UNCHANGED <<lock, active, current, endpoint, of, used, relay, orphaned>>

\* report_usage has failed or has nothing to say; or the warning is sent.
ReportEnds(t) ==
  /\ task[t] \in {"reporting", "warning"}
  /\ EndClear(t)
  /\ UNCHANGED <<lock, active, current, balances, endpoint, of, used, relay, orphaned>>

-----------------------------------------------------------------------------
(* send_command: a mapping without a websocket cannot be found *)

Relay(c, u) ==
  /\ call[c] = "idle" /\ current[u] # Nobody
  /\ call' = [call EXCEPT ![c] = "sending"]
  /\ sent' = [sent EXCEPT ![c] = current[u]]
  /\ UNCHANGED <<manager, endpoint, stream, orphaned>>

Relayed(c) ==
  /\ call[c] = "sending" /\ sent[c] \notin closed
  /\ call' = [call EXCEPT ![c] = "done"]
  /\ sent' = [sent EXCEPT ![c] = Nobody]
  /\ UNCHANGED <<manager, endpoint, stream, orphaned>>

\* The websocket is closed; its session is removed when the lock is free.
RelayFails(c) ==
  /\ call[c] = "sending"
  /\ call' = [call EXCEPT ![c] = "leaving"]
  /\ closed' = closed \cup {sent[c]}
  /\ UNCHANGED <<manager, pc, old, waits, stream, sent, orphaned>>

\* Mutant: whatever session the user has by now is removed.
RelayDropsLatest(c) ==
  /\ call[c] = "leaving" /\ lock = Nobody
  /\ LET u == UserOf[sent[c]] IN
     /\ current' = [current EXCEPT ![u] = Nobody]
     /\ active' = active \ {sent[c]}
     /\ balances' = balances \ {sent[c]}
     /\ inflight' = [inflight EXCEPT ![sent[c]] = Nobody]
  /\ Orphan(sent[c])
  /\ call' = [call EXCEPT ![c] = "done"]
  /\ sent' = [sent EXCEPT ![c] = Nobody]
  /\ UNCHANGED <<lock, endpoint, stream>>

RelayDrops(c) ==
  /\ call[c] = "leaving" /\ lock = Nobody
  /\ Unregister(sent[c])
  /\ Orphan(sent[c])
  /\ call' = [call EXCEPT ![c] = "done"]
  /\ sent' = [sent EXCEPT ![c] = Nobody]
  /\ UNCHANGED <<lock, endpoint, stream>>

-----------------------------------------------------------------------------
\* What an endpoint does without its client.
EndpointStep(s) ==
  \/ ConnectFirst(s) \/ ConnectAgain(s) \/ Cancelled(s) \/ CloseOld(s) \/ Replace(s)
  \/ Hello(s) \/ HelloFails(s)
  \/ Refused(s) \/ (\E t \in Tasks : Spawn(s, t)) \/ Stopped(s) \/ CleanedUp(s) \/ Leave(s)

ClientStep(s) ==
  Connect(s) \/ BrainMessage(s) \/ Stop(s) \/ PingTimeout(s) \/ LeaveLoop(s)

TaskStep(t) ==
  \/ Begin(t) \/ Complete(t) \/ Fail(t) \/ Finish(t)
  \/ BeginReport(t) \/ Reported(t) \/ ReportEnds(t)

CallStep(c) == Relayed(c) \/ RelayFails(c) \/ RelayDrops(c)

Next ==
  \/ \E s \in Sessions : EndpointStep(s) \/ ClientStep(s)
  \/ \E t \in Tasks : TaskStep(t)
  \/ \E c \in Calls : CallStep(c) \/ \E u \in Users : Relay(c, u)

Spec == Init /\ [][Next]_vars

\* Every await of the code has a timeout or ends with the connection.
FairSpec ==
  /\ Spec
  /\ \A s \in Sessions : WF_vars(EndpointStep(s))
  /\ \A t \in Tasks : WF_vars(TaskStep(t))
  /\ \A c \in Calls : WF_vars(CallStep(c))

-----------------------------------------------------------------------------
(* Properties *)

TypeOK ==
  /\ lock \in Sessions \cup {Nobody}
  /\ active \subseteq Sessions /\ balances \subseteq Sessions
  /\ current \in [Users -> Sessions \cup {Nobody}]
  /\ inflight \in [Sessions -> Tasks \cup {Nobody}]
  /\ pc \in [Sessions -> {"new", "connecting", "cancelling", "cancelled", "closing", "hello", "mute",
                          "receive", "metering", "anonymous", "stopping", "cleanup", "leaving", "gone"}]
  /\ old \in [Sessions -> Sessions \cup {Nobody}]
  /\ waits \in [Sessions -> Tasks \cup {Nobody}]
  /\ closed \subseteq Sessions /\ orphaned \subseteq Sessions
  /\ task \in [Tasks -> {"none", "created", "streaming", "sending", "answering",
                         "reporting", "warning", "done"}]
  /\ of \in [Tasks -> Sessions \cup {Nobody}]
  /\ used \subseteq Tasks
  /\ call \in [Calls -> {"idle", "sending", "leaving", "done"}]
  /\ sent \in [Calls -> Sessions \cup {Nobody}]

\* A user has at most one session, the one its commands are sent to, although
\* connections of one user, their ends and failed commands overlap.
OneSessionPerUser ==
  \A s \in Sessions : s \in active <=> current[UserOf[s]] = s

Replacing(s) == \E n \in Sessions : old[n] = s

\* STOP, the end of the session and a newer connection find the stream of a
\* registered session, and find no second one: a stream the manager has lost sight
\* of belongs to a session that is being replaced or was removed.
StreamsAreFound == \A t \in Tasks :
  Live(t) => inflight[of[t]] = t \/ Replacing(of[t]) \/ of[t] \in orphaned

\* Nothing of a session outlasts its endpoint, neither a stream nor a balance,
\* unless another coroutine removed it while its stream ran.
GoneIsGone == \A s \in Sessions :
  pc[s] = "gone" /\ s \notin orphaned =>
    s \notin active \cup balances /\ Streams(s) = {}

Waiting == {"connecting", "cancelling", "cancelled", "closing", "stopping", "cleanup", "leaving"}

\* Whoever waits for the lock of the manager or for a cancelled stream goes on,
\* although the holder of the lock waits for a stream of another session.
WaitsEnd == \A s \in Sessions : pc[s] \in Waiting ~> pc[s] \notin Waiting

Early == {"new", "connecting", "cancelling", "cancelled", "closing"}

\* An endpoint past its connect whose session is not registered has had it.
Registry == INSTANCE SessionRegistry WITH
  Admissible <- {S \in SUBSET Sessions : \A s, n \in S : UserOf[s] = UserOf[n] => s = n},
  registered <- active,
  past       <- {s \in Sessions : pc[s] \notin Early} \ active,
  open       <- TRUE

\* A session is registered once, at its connect, with nobody else's of its user
\* beside it; one removed while it streams, replaced or closed never comes back.
RefinesRegistry == Registry!RegistrySpec
=============================================================================
