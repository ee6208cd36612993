--------------------------- MODULE SerialLifecycle ---------------------------
(***************************************************************************)
(* The serial that licenses one install: the persistent SerialStore, the   *)
(* ActivationManager that provisions, activates, refreshes and polls it,   *)
(* and the metered calls of SerialMeteringStrategy (app/services).         *)
(*                                                                         *)
(* They are coroutines of one event loop that share the store's state      *)
(* object, so an answer is applied to whatever the state has become while  *)
(* its coroutine was suspended.                                            *)
(***************************************************************************)
EXTENDS Naturals, FiniteSets

CONSTANTS
  Calls,              \* metered calls that may be under way at once
  FAILURE_THRESHOLD,
  QueueCap,           \* MAX_QUEUE_ENTRIES of the offline queue
  MaxToken,           \* bound: install tokens the server issues
  MaxFaults           \* bound: restarts and failed saves

ASSUME ConstantsAssumption ==
  /\ FAILURE_THRESHOLD \in Nat \ {0}
  /\ QueueCap \in Nat
  /\ MaxToken \in Nat
  /\ MaxFaults \in Nat

VARIABLES
  \* the store: the fields in memory, and the copy in serial.json
  state, install, bootstrap, failures, disk,
  \* the running version differs from the one recorded at the last activation
  oldVersion,
  \* the manager: where it goes on, the request it awaits, the install token
  \* that request carries, its answer and the token the answer brings
  at, req, tok, ans, fresh,
  \* the metered calls: category, token sent, answer
  cpc, cat, ctok, cans,
  \* entries of the offline queue
  queued,
  \* the server: install tokens issued, those it accepts, serial consumed, and
  \* the tokens of requests for a new one that nobody waits for and it may serve
  issued, valid, consumed, stray,
  \* history: the last token an answer brought, data calls allowed without the
  \* server since it last answered
  heard, grace,
  faults

memory  == <<state, install, bootstrap, failures>>
manager == <<at, req, tok, ans, fresh>>
calls   == <<cpc, cat, ctok, cans>>
server  == <<issued, valid, consumed, stray, heard>>
vars == <<memory, disk, oldVersion, manager, calls, queued, server, grace, faults>>

States == {"unprovisioned", "provisioned", "active", "degraded", "migrated"}
Bootstrap == {"none", "held"}   \* only whether there is one matters
NoToken == 0
Tokens == 0 .. MaxToken

\* "nothing" is a timeout, a connection error or any status not named below.
MeterAnswers == {"ok", "denied", "migrated", "revoked", "nothing"}
ManagerAnswers == {"ok", "migrated", "revoked", "nothing"}

OnDisk == [state |-> state, install |-> install, bootstrap |-> bootstrap, failures |-> failures]

\* A container starts without serial.json, or with a bootstrap token that
\* start.sh (and then, maybe, no state) or the environment left for it.
Init ==
  /\ bootstrap \in Bootstrap
  /\ state \in {"unprovisioned", "provisioned"}
  /\ state = "provisioned" => bootstrap = "held"
  /\ install = NoToken /\ failures = 0 /\ disk = OnDisk
  /\ oldVersion = FALSE
  /\ at = "boot" /\ req = "none" /\ tok = NoToken /\ ans = "none" /\ fresh = NoToken
  /\ cpc = [c \in Calls |-> "idle"]
  /\ cat = [c \in Calls |-> "setup"]
  /\ ctok = [c \in Calls |-> NoToken]
  /\ cans = [c \in Calls |-> "none"]
  /\ queued = 0
  /\ issued = 0 /\ valid = {} /\ consumed = FALSE /\ stray = {} /\ heard = NoToken
  /\ grace = 0
  /\ faults = 0

-----------------------------------------------------------------------------
(* SerialStore: the changes in memory; each ends in save() *)

\* The file is replaced, or it is left as it was and save raises.
Saved == disk' = OnDisk' /\ UNCHANGED faults
Fault == faults < MaxFaults /\ faults' = faults + 1
SaveRaises == UNCHANGED disk /\ Fault
LaterSaveRaises == disk' = OnDisk' /\ Fault   \* of several saves, the first went well

\* The count is compared only with the threshold, so it stops there.
CountFailure == IF failures < FAILURE_THRESHOLD THEN failures + 1 ELSE failures

\* The server was reached: a degraded serial is active again.
ActiveAgain == IF state = "degraded" THEN "active" ELSE state

RecordSuccess ==
  /\ failures' = 0
  /\ state' = ActiveAgain
  /\ UNCHANGED <<install, bootstrap>>

RecordFailure ==
  /\ failures' = CountFailure
  /\ state' = IF state = "active" /\ failures' >= FAILURE_THRESHOLD
              THEN "degraded" ELSE state
  /\ UNCHANGED <<install, bootstrap>>

\* Mutant: the bootstrap token is kept.
TransitionToActiveKeepsBootstrap(t) ==
  state' = "active" /\ install' = t /\ failures' = 0 /\ UNCHANGED bootstrap

TransitionToActive(t) ==
  state' = "active" /\ install' = t /\ bootstrap' = "none" /\ failures' = 0

\* Whatever the state was.
TransitionToMigrated == state' = "migrated" /\ UNCHANGED <<install, bootstrap, failures>>
TransitionToUnprovisioned ==
  state' = "unprovisioned" /\ install' = NoToken /\ bootstrap' = "none" /\ failures' = 0

-----------------------------------------------------------------------------
(* The event loop and the manager's program counter *)

\* Between two awaits the manager is the only coroutine that runs.
Running == at \in {"check", "version", "enter"} /\ req = "none"

Go(point) ==
  /\ at' = point
  /\ req' = "none" /\ tok' = NoToken /\ ans' = "none" /\ fresh' = NoToken

Send(request, t, point) ==
  /\ at' = point
  /\ req' = request /\ tok' = t /\ ans' = "none" /\ fresh' = NoToken

\* An exception ends startup, and with it every later retry; the loop logs it
\* and sleeps, and _auto_provision swallows it.
Raise == Go(IF at \in {"version", "enter", "boot"} THEN "off" ELSE at)

\* A handler of the manager saves, and goes on or raises.
SaveAndGo(point) ==
  \/ Saved /\ Go(point)
  \/ SaveRaises /\ Raise

SaveTwiceAndGo(point) ==
  \/ SaveAndGo(point)
  \/ LaterSaveRaises /\ Raise

others == <<calls, queued, server, grace>>

-----------------------------------------------------------------------------
(* ActivationManager.startup *)

BootFindsTokens ==
  /\ at = "boot" /\ state = "unprovisioned" /\ bootstrap = "held"
  /\ state' = "provisioned" /\ UNCHANGED <<install, bootstrap, failures>>
  /\ SaveAndGo("check")
  /\ UNCHANGED <<oldVersion, others>>

Boot ==
  /\ at = "boot" /\ req = "none" /\ ~(state = "unprovisioned" /\ bootstrap = "held")
  /\ IF state = "unprovisioned" THEN Send("provision", NoToken, "check") ELSE Go("check")
  /\ UNCHANGED <<memory, disk, faults, oldVersion, others>>

Check ==
  /\ at = "check" /\ req = "none"
  /\ CASE state = "migrated" -> Go("off")
       [] state = "provisioned" /\ bootstrap = "held" -> Send("activate", NoToken, "version")
       [] OTHER -> Go("version")
  /\ UNCHANGED <<memory, disk, faults, oldVersion, others>>

Version ==
  /\ at = "version" /\ req = "none"
  /\ CASE state = "active" /\ oldVersion /\ install # NoToken -> Send("refresh", install, "enter")
       [] state = "active" /\ ~(oldVersion /\ install # NoToken) -> Go("enter")
       [] OTHER -> Go("loop")
  /\ UNCHANGED <<memory, disk, faults, oldVersion, others>>

\* The version is recorded whatever became of the refresh.
Enter ==
  /\ at = "enter" /\ req = "none"
  /\ oldVersion' = FALSE
  /\ UNCHANGED memory
  /\ SaveAndGo("loop")
  /\ UNCHANGED others

\* Mutants: the loop does not provision again; it polls only while active.
WakeWithoutProvision ==
  /\ at = "loop" /\ req = "none"
  /\ \/ state = "provisioned" /\ bootstrap = "held" /\ Send("activate", NoToken, "loop")
     \/ state \in {"active", "degraded"} /\ install # NoToken /\ Send("status", install, "loop")
  /\ UNCHANGED <<memory, disk, faults, oldVersion, others>>

WakePollsActive ==
  /\ at = "loop" /\ req = "none"
  /\ \/ state = "provisioned" /\ bootstrap = "held" /\ Send("activate", NoToken, "loop")
     \/ state = "active" /\ install # NoToken /\ Send("status", install, "loop")
     \/ state = "unprovisioned" /\ Send("provision", NoToken, "loop")
  /\ UNCHANGED <<memory, disk, faults, oldVersion, others>>

(* ActivationManager._background_loop wakes *)
Wake ==
  /\ at = "loop" /\ req = "none"
  /\ \/ state = "provisioned" /\ bootstrap = "held" /\ Send("activate", NoToken, "loop")
     \/ state \in {"active", "degraded"} /\ install # NoToken /\ Send("status", install, "loop")
     \/ state = "unprovisioned" /\ Send("provision", NoToken, "loop")
  /\ UNCHANGED <<memory, disk, faults, oldVersion, others>>

-----------------------------------------------------------------------------
(* Answers to the manager, applied to the state of that moment *)

\* The server has answered something, so the offline allowance starts anew.
Contact == grace' = 0 /\ UNCHANGED <<calls, queued, server>>

\* A new serial: stored, and activated at once.
ApplyProvision ==
  /\ req = "provision" /\ ans = "ok"
  /\ state' = "provisioned" /\ bootstrap' = "held" /\ UNCHANGED <<install, failures>>
  /\ \/ Saved /\ Send("activate", NoToken, at)
     \/ SaveRaises /\ Raise
  /\ UNCHANGED oldVersion /\ Contact

ApplyActivation ==
  /\ req = "activate" /\ ans \in {"ok", "revoked"}
  /\ IF ans = "ok" THEN TransitionToActive(fresh) ELSE TransitionToUnprovisioned
  /\ SaveTwiceAndGo(at)
  /\ oldVersion' = (oldVersion /\ (ans = "revoked" \/ faults' # faults))
  /\ Contact

\* A refused token falls back to provisioned, where no token is left.
ApplyRefresh ==
  /\ req = "refresh" /\ ans \in {"ok", "revoked"}
  /\ \/ ans = "ok" /\ install' = fresh /\ UNCHANGED state
     \/ ans = "revoked" /\ install' = NoToken /\ state' = "provisioned"
  /\ UNCHANGED <<bootstrap, failures>>
  /\ SaveAndGo(at)
  /\ UNCHANGED oldVersion /\ Contact

\* This install may have to be registered first, with one more await before a
\* migration is applied.
ApplyStatus ==
  /\ req = "status" /\ ans \in {"ok", "migrated"}
  /\ RecordSuccess
  /\ \/ Saved /\ req' = "register" /\ UNCHANGED <<at, tok, ans, fresh>>
     \/ ans = "ok" /\ SaveTwiceAndGo(at)
     \/ ans = "migrated" /\ (SaveRaises \/ LaterSaveRaises) /\ Raise
  /\ UNCHANGED oldVersion /\ Contact

\* Without registration the answer is applied at once; if this save raises, the
\* file still says what record_success saved.
ApplyMigratedStatus ==
  /\ req \in {"status", "register"} /\ ans = "migrated"
  /\ state' = "migrated" /\ UNCHANGED <<install, bootstrap>>
  /\ failures' = IF req = "status" THEN 0 ELSE failures
  /\ \/ Saved /\ Go(at)
     \/ /\ disk' = IF req = "register" THEN disk ELSE [OnDisk' EXCEPT !.state = ActiveAgain]
        /\ Fault /\ Raise
  /\ UNCHANGED oldVersion /\ Contact

EndRegister ==
  /\ req = "register" /\ ans = "ok"
  /\ Go(at)
  /\ UNCHANGED <<memory, disk, faults, oldVersion, others>>

ApplyStatusRevoked ==
  /\ req = "status" /\ ans = "revoked"
  /\ TransitionToUnprovisioned
  /\ SaveAndGo(at)
  /\ UNCHANGED oldVersion /\ Contact

\* Mutant: the count is not saved until something else is.
ApplyStatusFailureUnsaved ==
  /\ req = "status" /\ ans = "nothing"
  /\ RecordFailure
  /\ Go(at)
  /\ UNCHANGED <<disk, faults, oldVersion, others>>

ApplyStatusFailure ==
  /\ req = "status" /\ ans = "nothing"
  /\ RecordFailure
  /\ SaveAndGo(at)
  /\ UNCHANGED <<oldVersion, others>>

\* Provisioning, activation and refresh leave everything for the next attempt.
GiveUp ==
  /\ req \in {"provision", "activate", "refresh"} /\ ans = "nothing"
  /\ Go(at)
  /\ UNCHANGED <<memory, disk, faults, oldVersion, others>>

-----------------------------------------------------------------------------
(* SerialMeteringStrategy.check_and_meter, and the ledger once migrated *)

\* An entry is appended unless the queue is full; the caller cannot tell.
QueueSetup == queued' = IF queued < QueueCap THEN queued + 1 ELSE queued

EndCall(c) ==
  /\ cpc' = [cpc EXCEPT ![c] = "idle"]
  /\ cat' = [cat EXCEPT ![c] = "setup"]
  /\ ctok' = [ctok EXCEPT ![c] = NoToken]
  /\ cans' = [cans EXCEPT ![c] = "none"]

\* Migrated: the ledger allows every call.  Not active: setup is allowed
\* offline, data refused.  Active without a token: refused.
DecideLocally(c, k) ==
  /\ ~Running
  /\ cpc[c] = "idle"
  /\ state # "active" \/ install = NoToken
  /\ IF state \in {"unprovisioned", "provisioned", "degraded"} /\ k = "setup"
     THEN QueueSetup ELSE UNCHANGED queued
  /\ UNCHANGED <<memory, disk, oldVersion, manager, calls, server, grace, faults>>

SendMeter(c, k) ==
  /\ ~Running
  /\ cpc[c] = "idle"
  /\ state = "active" /\ install # NoToken
  /\ cpc' = [cpc EXCEPT ![c] = "sent"]
  /\ cat' = [cat EXCEPT ![c] = k]
  /\ ctok' = [ctok EXCEPT ![c] = install]
  /\ UNCHANGED <<memory, disk, oldVersion, manager, cans, queued, server, grace, faults>>

\* Metered, refused for lack of credit, migrated or refused for its token.
ApplyMeter(c) ==
  /\ ~Running
  /\ cpc[c] = "replied" /\ cans[c] # "nothing"
  /\ \/ cans[c] \in {"ok", "denied"} /\ RecordSuccess
     \/ cans[c] = "migrated" /\ TransitionToMigrated
     \/ cans[c] = "revoked" /\ TransitionToUnprovisioned
  /\ Saved \/ SaveRaises
  /\ EndCall(c)
  /\ grace' = 0
  /\ UNCHANGED <<oldVersion, manager, queued, server>>

\* Mutant: data is let through once more than the threshold allows.
ApplyMeterFailureOffByOne(c) ==
  /\ ~Running
  /\ cpc[c] = "replied" /\ cans[c] = "nothing"
  /\ RecordFailure
  /\ Saved
  /\ EndCall(c)
  /\ grace' = IF cat[c] = "data" /\ failures' <= FAILURE_THRESHOLD THEN grace + 1 ELSE grace
  /\ UNCHANGED <<oldVersion, manager, server, queued>>

\* No answer.  Setup is allowed offline; data while failures are few.
ApplyMeterFailure(c) ==
  /\ ~Running
  /\ cpc[c] = "replied" /\ cans[c] = "nothing"
  /\ RecordFailure
  /\ EndCall(c)
  /\ \/ Saved /\ cat[c] = "setup" /\ QueueSetup /\ UNCHANGED grace
     \/ /\ Saved /\ cat[c] = "data"
        /\ grace' = IF failures' < FAILURE_THRESHOLD THEN grace + 1 ELSE grace
        /\ UNCHANGED queued
     \/ SaveRaises /\ UNCHANGED <<queued, grace>>
  /\ UNCHANGED <<oldVersion, manager, server>>

-----------------------------------------------------------------------------
(* The server, ai.market *)

\* A new install token, which may end the older ones.
NewToken ==
  /\ issued < MaxToken
  /\ issued' = issued + 1
  /\ valid' \in {{issued'}, valid \cup {issued'}}

\* The answer brings it.
Issue == NewToken /\ fresh' = issued' /\ heard' = issued'

\* Requests for a token that may be served although no answer is read: the one under
\* way, which serial_client repeats when an attempt of it times out, and those
\* it gave up on.  An activation carries the bootstrap token, here NoToken.
Unanswered == stray \cup (IF req \in {"activate", "refresh"} /\ ans = "none" THEN {tok} ELSE {})

\* Whatever the answer, other attempts of the request may still be on their way.
AnswerManager ==
  /\ req \notin {"none", "register"} /\ ans = "none"
  /\ \/ ans' = "nothing" /\ UNCHANGED <<issued, valid, fresh, heard>>
     \/ req = "provision" /\ ans' = "ok" /\ UNCHANGED <<issued, valid, fresh, heard>>
     \/ req = "activate" /\ ans' = "ok" /\ Issue
     \/ req = "activate" /\ ans' = "revoked" /\ UNCHANGED <<issued, valid, fresh, heard>>
     \/ req = "refresh" /\ tok \in valid /\ ans' = "ok" /\ Issue
     \/ /\ req = "status" /\ tok \in valid
        /\ ans' = (IF consumed THEN "migrated" ELSE "ok")
        /\ UNCHANGED <<issued, valid, fresh, heard>>
     \/ /\ req \in {"refresh", "status"} /\ tok \notin valid
        /\ ans' = "revoked" /\ UNCHANGED <<issued, valid, fresh, heard>>
  /\ stray' = Unanswered
  /\ UNCHANGED <<memory, disk, oldVersion, at, req, tok, calls, queued, consumed, grace, faults>>

\* A token is issued that the device never learns of.
ServeUnheard(t) ==
  /\ t \in Unanswered /\ t \in valid \cup {NoToken}
  /\ NewToken
  /\ UNCHANGED <<memory, disk, oldVersion, manager, calls, queued, consumed, stray,
                 heard, grace, faults>>

AnswerMeter(c) ==
  /\ cpc[c] = "sent"
  /\ cpc' = [cpc EXCEPT ![c] = "replied"]
  /\ \E a \in MeterAnswers :
       /\ a = "revoked" <=> (ctok[c] \notin valid /\ a # "nothing")
       /\ a = "migrated" => consumed
       /\ a \in {"ok", "denied"} => ~consumed
       /\ cans' = [cans EXCEPT ![c] = a]
  /\ UNCHANGED <<memory, disk, oldVersion, manager, cat, ctok, queued, server, grace, faults>>

\* A user registers the serial, and it is consumed; tokens are revoked.
Consume ==
  /\ ~consumed /\ consumed' = TRUE
  /\ UNCHANGED <<memory, disk, oldVersion, manager, calls, queued, issued, valid, stray,
                 heard, grace, faults>>

Revoke ==
  /\ valid # {} /\ valid' = {}
  /\ UNCHANGED <<memory, disk, oldVersion, manager, calls, queued, issued, consumed, stray,
                 heard, grace, faults>>

-----------------------------------------------------------------------------
\* The container restarts, perhaps as a new version, from what serial.json says.
Restart ==
  /\ faults < MaxFaults /\ faults' = faults + 1
  /\ state' = disk.state /\ install' = disk.install
  /\ bootstrap' = disk.bootstrap /\ failures' = disk.failures
  /\ oldVersion' \in {oldVersion, oldVersion \/ state' \in {"active", "degraded"}}
  /\ Go("boot")
  /\ cpc' = [c \in Calls |-> "idle"]
  /\ cat' = [c \in Calls |-> "setup"]
  /\ ctok' = [c \in Calls |-> NoToken]
  /\ cans' = [c \in Calls |-> "none"]
  /\ stray' = Unanswered
  /\ UNCHANGED <<disk, queued, issued, valid, consumed, heard, grace>>

ManagerStep ==
  \/ BootFindsTokens \/ Boot \/ Check \/ Version \/ Enter \/ Wake
  \/ ApplyProvision \/ ApplyActivation \/ ApplyRefresh \/ ApplyStatus
  \/ ApplyMigratedStatus \/ EndRegister \/ ApplyStatusRevoked \/ ApplyStatusFailure
  \/ GiveUp

MeterStep == \E c \in Calls :
  \/ \E k \in {"setup", "data"} : DecideLocally(c, k) \/ SendMeter(c, k)
  \/ ApplyMeter(c) \/ ApplyMeterFailure(c)

Next ==
  \/ ManagerStep \/ MeterStep
  \/ AnswerManager \/ (\E c \in Calls : AnswerMeter(c))
  \/ (\E t \in Tokens : ServeUnheard(t))
  \/ Consume \/ Revoke \/ Restart

Spec == Init /\ [][Next]_vars

\* The event loop runs a coroutine that is ready, and every request ends with
\* an answer or a timeout.
FairSpec == Spec /\ WF_vars(ManagerStep) /\ WF_vars(AnswerManager)

-----------------------------------------------------------------------------
(* Properties *)

StoreTypeOK ==
  /\ state \in States /\ install \in Tokens /\ bootstrap \in Bootstrap
  /\ failures \in 0 .. FAILURE_THRESHOLD
  /\ disk \in [state : States, install : Tokens, bootstrap : Bootstrap,
               failures : 0 .. FAILURE_THRESHOLD]
  /\ oldVersion \in BOOLEAN
  /\ faults \in 0 .. MaxFaults

ManagerTypeOK ==
  /\ at \in {"boot", "check", "version", "enter", "loop", "off"}
  /\ req \in {"none", "provision", "activate", "refresh", "status", "register"}
  /\ tok \in Tokens /\ ans \in ManagerAnswers \cup {"none"} /\ fresh \in Tokens

CallsTypeOK ==
  /\ cpc \in [Calls -> {"idle", "sent", "replied"}]
  /\ cat \in [Calls -> {"setup", "data"}]
  /\ ctok \in [Calls -> Tokens]
  /\ cans \in [Calls -> MeterAnswers \cup {"none"}]

ServerTypeOK ==
  /\ issued \in Tokens /\ valid \subseteq 1 .. MaxToken /\ consumed \in BOOLEAN
  /\ stray \subseteq Tokens /\ heard \in Tokens
  /\ queued \in 0 .. QueueCap
  /\ grace \in Nat

TypeOK == StoreTypeOK /\ ManagerTypeOK /\ CallsTypeOK /\ ServerTypeOK

\* An active or degraded serial has its install token and no bootstrap token
\* any more, in memory and after a restart, whatever answer came late.
CredentialsSound ==
  /\ state \in {"active", "degraded"} => install # NoToken /\ bootstrap = "none"
  /\ disk.state \in {"active", "degraded"} => disk.install # NoToken /\ disk.bootstrap = "none"

\* As long as nothing fails, the file says what the memory says, and the install token
\* is the last one an answer brought unless a newer one is in an answer that waits: no
\* late answer brings an old token back, and no handler forgets to save.  (It need
\* not be the last one issued: see ServeUnheard.)
StoreIsCurrent == faults = 0 =>
  /\ disk = OnDisk
  /\ install \in {NoToken, heard} \/ (ans = "ok" /\ fresh = heard)

\* A serial says migrated only after the server consumed it, whatever became of the
\* answers and the file meanwhile.
MigratedIsConsumed == "migrated" \in {state, disk.state} => consumed

\* The circuit breaker: active means fewer failures in a row than the
\* threshold, degraded that it was reached.
BreakerSound ==
  /\ state = "active" => failures < FAILURE_THRESHOLD
  /\ state = "degraded" => failures >= FAILURE_THRESHOLD

\* However calls interleave, and across restarts and failed saves, fewer data
\* calls than the threshold go ahead since the server last answered anything.
OfflineDataBounded == grace < FAILURE_THRESHOLD

\* An unprovisioned serial is provisioned or tried again, whatever failed before,
\* unless a save that raised during startup ended the manager.
UnprovisionedIsRetried ==
  state = "unprovisioned" ~> (req = "provision" \/ state # "unprovisioned" \/ at = "off")

\* A degraded serial is checked until it leaves that state, on the same terms.
DegradedIsProbed ==
  state = "degraded" ~> (req = "status" \/ state # "degraded" \/ at = "off")

\* The background loop retries the activation of a provisioned serial.
ProvisionedIsRetried == state = "provisioned" ~> (req = "activate" \/ state # "provisioned")
=============================================================================
