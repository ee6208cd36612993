----------------------------- MODULE McpGuard -----------------------------
(***************************************************************************)
(* Sessions of external agents: a GET holds the event stream of a session, *)
(* POSTs bring its messages, a watchdog per GET ends it with its token or  *)
(* deadline, and an operator opens and closes the whole.                   *)
(*                                                                         *)
(* One event loop and two locks.  enqueue_gate is held by a POST or by a   *)
(* disable from their decision to its end, the registry lock by a POST     *)
(* while the SDK takes its message; every other holder of a lock lets it   *)
(* go before it awaits anything.                                           *)
(***************************************************************************)
EXTENDS Naturals, FiniteSets

CONSTANTS
  Conns,                  \* GET requests, each with a session of its own
  Tokens, TokenOf,
  Posts, Nobody,
  MAX_MCP_CONNECTIONS

ASSUME ConstantsAssumption ==
  /\ IsFiniteSet(Conns)
  /\ TokenOf \in [Conns -> Tokens]
  /\ Nobody \notin Conns \cup Tokens
  /\ MAX_MCP_CONNECTIONS \in Nat \ {0}

VARIABLES
  \* ConnectivityState: the flag, whether its file could be read, the file (which
  \* stands for settings.connectivity_enabled until it is written), and whether a
  \* disable or a shutdown holds the gate
  enabled, available, disk, detaching,
  token,
  \* the guard's registry, and the entries past their deadline
  reservations, bindings, overdue,
  \* GETs: step, watchdog, task that closes the session
  step, watch, closers,
  \* POSTs: step, session, token, owners to be cancelled at the end
  ppc, target, bearer, swept,
  \* history: sessions a token of which could not be checked
  doubted

admin    == <<enabled, available, disk, detaching>>
registry == <<reservations, bindings, overdue>>
gets     == <<step, watch, closers>>
posts    == <<ppc, target, bearer, swept>>
vars     == <<admin, token, registry, gets, posts, doubted>>

Init ==
  /\ disk \in BOOLEAN /\ available = TRUE
  /\ enabled = disk /\ detaching = FALSE
  /\ token = [t \in Tokens |-> "live"]
  /\ reservations = {} /\ bindings = {} /\ overdue = {}
  /\ step = [c \in Conns |-> "idle"] /\ watch = [c \in Conns |-> "off"]
  /\ closers = {}
  /\ ppc = [p \in Posts |-> "idle"]
  /\ target = [p \in Posts |-> Nobody] /\ bearer = [p \in Posts |-> Nobody]
  /\ swept = [p \in Posts |-> {}]
  /\ doubted = {}

Entries   == reservations \cup bindings
Live(c)   == token[TokenOf[c]] = "live"
GateFree  == ~detaching /\ \A p \in Posts : ppc[p] = "idle"
LockFree  == \A p \in Posts : ppc[p] # "sending"

\* Cancelled owners go to their finally clause, or out of it; on their way they
\* cancel their watchdogs.
Closing(S) == [c \in Conns |-> IF c \notin S THEN step[c]
                               ELSE IF step[c] \in {"closing", "ended"} THEN "ended"
                               ELSE "closing"]
Unwatched(S) == [c \in Conns |-> IF c \in S THEN "off" ELSE watch[c]]

Cancel(S) == step' = Closing(S) /\ watch' = Unwatched(S)

Remove(S) ==
  /\ reservations' = reservations \ S /\ bindings' = bindings \ S
  /\ overdue' = overdue \ S /\ doubted' = doubted \ S

\* Owners are cancelled in the step that takes their entries.
Detach(S) == Remove(S) /\ Cancel(S)

\* _sweep_locked. The time was read before the wait for the lock: what became
\* overdue since is passed over.
Sweeps == SUBSET {c \in Entries : c \in overdue \/ step[c] = "ended"}

-----------------------------------------------------------------------------
(* The operator *)

\* _persist: nothing is written, or all is, or all is and the sync of the
\* directory raises.
Persist(on, written) ==
  \/ ~written /\ UNCHANGED disk
  \/ disk' = on

Enable == \E written \in BOOLEAN :
  /\ GateFree /\ available /\ ~enabled
  /\ Persist(TRUE, written)
  /\ enabled' = written
  /\ UNCHANGED <<available, detaching, token, registry, gets, posts, doubted>>

\* An operation that is off already detaches all the same.
Disable == \E written \in BOOLEAN :
  /\ GateFree /\ available
  /\ IF enabled
     THEN Persist(FALSE, written) /\ enabled' = ~written
     ELSE written /\ UNCHANGED <<disk, enabled>>
  /\ detaching' = written
  /\ UNCHANGED <<available, token, registry, gets, posts, doubted>>

Shutdown ==
  /\ GateFree
  /\ detaching' = TRUE
  /\ UNCHANGED <<enabled, available, disk, token, registry, gets, posts, doubted>>

DetachAll ==
  /\ detaching /\ LockFree
  /\ detaching' = FALSE
  /\ Detach(Entries)
  /\ UNCHANGED <<enabled, available, disk, token, closers, posts>>

\* The process ends at any time and starts again; what it finds decides.
Restart == \E readable \in BOOLEAN :
  /\ available' = readable
  /\ enabled' = (readable /\ disk)
  /\ detaching' = FALSE
  /\ reservations' = {} /\ bindings' = {} /\ overdue' = {}
  /\ step' = [c \in Conns |-> IF step[c] = "idle" THEN "idle" ELSE "ended"]
  /\ watch' = [c \in Conns |-> "off"]
  /\ closers' = {}
  /\ ppc' = [p \in Posts |-> "idle"]
  /\ target' = [p \in Posts |-> Nobody] /\ bearer' = [p \in Posts |-> Nobody]
  /\ swept' = [p \in Posts |-> {}]
  /\ doubted' = {}
  /\ UNCHANGED <<disk, token>>

-----------------------------------------------------------------------------
(* Tokens and time *)

Revoke(t) ==
  /\ token[t] = "live"
  /\ token' = [token EXCEPT ![t] = "revoked"]
  /\ UNCHANGED <<admin, registry, gets, posts, doubted>>

\* The deadline of a session is never later than the end of its token.
Expire(t) ==
  /\ token[t] = "live"
  /\ token' = [token EXCEPT ![t] = "expired"]
  /\ overdue' = overdue \cup {c \in bindings : TokenOf[c] = t}
  /\ UNCHANGED <<admin, reservations, bindings, gets, posts, doubted>>

\* Ten seconds for a reservation, an hour for a session.
DeadlinePasses(c) ==
  /\ c \in Entries \ overdue
  /\ overdue' = overdue \cup {c}
  /\ UNCHANGED <<admin, token, reservations, bindings, gets, posts, doubted>>

-----------------------------------------------------------------------------
(* GET *)

\* Others are answered at once: not enabled, or no valid token.
GetArrives(c) ==
  /\ step[c] = "idle" /\ enabled /\ Live(c)
  /\ step' = [step EXCEPT ![c] = "admitting"]
  /\ UNCHANGED <<admin, token, registry, watch, closers, posts, doubted>>

\* Mutant: enabled was checked before the wait for the lock.
RoomUnchecked(S) == Cardinality(Entries \ S) < MAX_MCP_CONNECTIONS

Room(S) == enabled /\ Cardinality(Entries \ S) < MAX_MCP_CONNECTIONS

\* Whether it is admitted or not, the registry is swept.
Admit(c) == \E S \in Sweeps :
  /\ step[c] = "admitting" /\ LockFree
  /\ reservations' = (reservations \ S) \cup (IF Room(S) THEN {c} ELSE {})
  /\ bindings' = bindings \ S /\ overdue' = overdue \ S
  /\ doubted' = doubted \ S
  /\ step' = [Closing(S) EXCEPT ![c] = IF Room(S) THEN "reserved" ELSE "ended"]
  /\ watch' = [Unwatched(S) EXCEPT ![c] = IF Room(S) THEN "waiting" ELSE "off"]
  /\ UNCHANGED <<admin, token, closers, posts>>

\* guarded_send reads the time, then waits for the lock.
FirstFrame(c) ==
  /\ step[c] = "reserved" /\ c \notin overdue
  /\ step' = [step EXCEPT ![c] = "promoting"]
  /\ UNCHANGED <<admin, token, registry, watch, closers, posts, doubted>>

Promote(c) ==
  /\ step[c] = "promoting" /\ LockFree
  /\ c \in reservations /\ enabled
  /\ reservations' = reservations \ {c} /\ bindings' = bindings \cup {c}
  /\ overdue' = IF token[TokenOf[c]] = "expired" THEN overdue \cup {c} ELSE overdue \ {c}
  /\ step' = [step EXCEPT ![c] = "bound"]
  /\ watch' = [watch EXCEPT ![c] = IF watch[c] = "waiting" THEN "checking" ELSE watch[c]]
  /\ UNCHANGED <<admin, token, closers, posts, doubted>>

Ends(c) ==
  /\ Cancel({c})
  /\ UNCHANGED <<admin, token, registry, closers, posts, doubted>>

Reject(c) ==
  /\ step[c] = "promoting" /\ LockFree
  /\ ~(c \in reservations /\ enabled)
  /\ Ends(c)

\* The client leaves, or the first frame is late or not the one expected.
Leave(c) == step[c] \in {"reserved", "promoting", "bound"} /\ Ends(c)

\* Mutant: the finally clause forgets that the session was promoted.
CloseReservation(c) ==
  /\ step[c] = "closing" /\ LockFree
  /\ reservations' = reservations \ {c}
  /\ step' = [step EXCEPT ![c] = "ended"]
  /\ UNCHANGED <<admin, token, bindings, overdue, watch, closers, posts, doubted>>

\* The finally clause.
Close(c) ==
  /\ step[c] = "closing" /\ LockFree
  /\ Remove({c})
  /\ step' = [step EXCEPT ![c] = "ended"]
  /\ UNCHANGED <<admin, token, watch, closers, posts>>

-----------------------------------------------------------------------------
(* The watchdog of a GET *)

SetWatch(c, w) ==
  /\ watch' = [watch EXCEPT ![c] = w]
  /\ UNCHANGED <<admin, token, registry, step, closers, posts>>

DetachOne(c, found) ==
  /\ IF found THEN Detach({c})
     ELSE UNCHANGED <<registry, step, doubted>> /\ watch' = Unwatched({c})
  /\ UNCHANGED <<admin, token, closers, posts>>

WatchTimeout(c) ==
  /\ watch[c] = "waiting" /\ c \in overdue
  /\ SetWatch(c, "timedout") /\ UNCHANGED doubted

\* A session promoted meanwhile is left alone, and without a watchdog.
WatchRelease(c) ==
  /\ watch[c] = "timedout" /\ LockFree
  /\ DetachOne(c, c \in reservations)

\* Mutant: only the deadline is looked at.
WatchDeadline(c) ==
  /\ watch[c] = "checking" /\ LockFree
  /\ \/ c \notin bindings /\ SetWatch(c, "off")
     \/ c \in bindings /\ c \in overdue /\ SetWatch(c, "detaching")
  /\ UNCHANGED doubted

\* A look at the registry, then one at the token. A renewed deadline is the old one,
\* so a check that finds nothing changes nothing.
WatchCheck(c) ==
  /\ watch[c] = "checking" /\ LockFree
  /\ \/ c \notin bindings /\ SetWatch(c, "off")
     \/ c \in bindings /\ (c \in overdue \/ ~Live(c)) /\ SetWatch(c, "detaching")
  /\ UNCHANGED doubted

\* A token that cannot be checked counts as bad.
WatchDoubts(c) ==
  /\ watch[c] = "checking" /\ LockFree
  /\ c \in bindings \ overdue
  /\ SetWatch(c, "detaching")
  /\ doubted' = doubted \cup {c}

WatchDetach(c) ==
  /\ watch[c] = "detaching" /\ LockFree
  /\ DetachOne(c, c \in bindings)

-----------------------------------------------------------------------------
(* Tasks that close a session, started where a tool's check of its token failed *)

CloserRuns(c) ==
  /\ c \in closers /\ LockFree
  /\ closers' = closers \ {c}
  /\ IF c \in bindings THEN Detach({c}) ELSE UNCHANGED <<registry, step, watch, doubted>>
  /\ UNCHANGED <<admin, token, posts>>

-----------------------------------------------------------------------------
(* POST *)

\* A client knows the name of a session from its first frame.
Known(c) == step[c] \in {"bound", "closing", "ended"}

\* The token is checked with the gate held.
PostArrives(p, c, t) ==
  /\ ppc[p] = "idle" /\ GateFree /\ enabled /\ Known(c)
  /\ \/ /\ ppc' = [ppc EXCEPT ![p] = IF token[t] = "live" THEN "queued" ELSE "refused"]
        /\ UNCHANGED doubted
     \/ /\ ppc' = [ppc EXCEPT ![p] = "doubting"]
        /\ doubted' = doubted \cup ({c} \cap Entries)
  /\ target' = [target EXCEPT ![p] = c] /\ bearer' = [bearer EXCEPT ![p] = t]
  /\ UNCHANGED <<admin, token, registry, gets, swept>>

Answered(p) ==
  /\ ppc' = [ppc EXCEPT ![p] = "idle"]
  /\ target' = [target EXCEPT ![p] = Nobody] /\ bearer' = [bearer EXCEPT ![p] = Nobody]
  /\ swept' = [swept EXCEPT ![p] = {}]

\* Mutant: a refused token closes the session it names, whosever that is.
NamedSession(p) == {target[p]}

\* _detach_session_if_token: a refused token closes a session of its own.
OwnSession(p) == {c \in {target[p]} : TokenOf[c] = bearer[p]}

PostDetaches(p) == \E S \in {IF ppc[p] = "refused" THEN OwnSession(p) ELSE {target[p]}} :
  /\ ppc[p] \in {"refused", "doubting"} /\ LockFree
  /\ Detach(S \cap bindings)
  /\ Answered(p)
  /\ UNCHANGED <<admin, token, closers>>

\* The message is handed to the SDK with both locks held.
PostBinds(p) == \E S \in Sweeps :
  LET allowed == target[p] \in bindings \ S /\ TokenOf[target[p]] = bearer[p] IN
  /\ ppc[p] = "queued" /\ LockFree
  /\ Remove(S)
  /\ IF allowed
     THEN /\ ppc' = [ppc EXCEPT ![p] = "sending"]
          /\ swept' = [swept EXCEPT ![p] = S]
          /\ UNCHANGED <<step, watch, target, bearer>>
     ELSE Cancel(S) /\ Answered(p)
  /\ UNCHANGED <<admin, token, closers>>

\* The message is taken if the owner is still there. A tool it calls checks the
\* token again. What was swept before is cancelled only now.
PostEnds(p) ==
  /\ ppc[p] = "sending"
  /\ Cancel(swept[p])
  /\ \E failed \in SUBSET {c \in {target[p]} : step[c] = "bound"} :
       /\ closers' = closers \cup failed
       /\ doubted' = doubted \cup {c \in failed : Live(c)}
  /\ Answered(p)
  /\ UNCHANGED <<admin, token, registry>>

-----------------------------------------------------------------------------
WatchStep(c) == WatchTimeout(c) \/ WatchRelease(c) \/ WatchCheck(c) \/ WatchDetach(c)
PostStep(p)  == PostDetaches(p) \/ PostBinds(p) \/ PostEnds(p)

Next ==
  \/ Enable \/ Disable \/ Shutdown \/ DetachAll \/ Restart
  \/ \E t \in Tokens : Revoke(t) \/ Expire(t)
  \/ \E c \in Conns :
       \/ DeadlinePasses(c)
       \/ GetArrives(c) \/ Admit(c) \/ FirstFrame(c) \/ Promote(c) \/ Reject(c)
       \/ Leave(c) \/ Close(c)
       \/ WatchStep(c) \/ WatchDoubts(c) \/ CloserRuns(c)
  \/ \E p \in Posts : PostStep(p) \/ \E c \in Conns, t \in Tokens : PostArrives(p, c, t)

Spec == Init /\ [][Next]_vars

\* The lock is given in turn, so a watchdog or a GET that ends has it when it is free
\* again and again. Of a POST nothing is assumed: with the lock held the SDK reads
\* its body from the client, and has no timeout.
FairSpec == Spec /\ \A c \in Conns : SF_vars(WatchStep(c) \/ Close(c))

-----------------------------------------------------------------------------
(* Properties *)

TypeOK ==
  /\ enabled \in BOOLEAN /\ available \in BOOLEAN
  /\ disk \in BOOLEAN /\ detaching \in BOOLEAN
  /\ token \in [Tokens -> {"live", "revoked", "expired"}]
  /\ reservations \subseteq Conns /\ bindings \subseteq Conns /\ overdue \subseteq Entries
  /\ step \in [Conns -> {"idle", "admitting", "reserved", "promoting", "bound", "closing", "ended"}]
  /\ watch \in [Conns -> {"off", "waiting", "timedout", "checking", "detaching"}]
  /\ closers \subseteq Conns
  /\ ppc \in [Posts -> {"idle", "queued", "refused", "doubting", "sending"}]
  /\ target \in [Posts -> Conns \cup {Nobody}]
  /\ bearer \in [Posts -> Tokens \cup {Nobody}]
  /\ swept \in [Posts -> SUBSET Conns]
  /\ doubted \subseteq Conns

\* "Durably disable and detach sessions before allowing another POST": with
\* connectivity off nobody has a session or a reservation and no message is on
\* its way, except to a disable that waits for the last holder of the lock.
DisabledIsQuiet ==
  ~enabled => (detaching \/ Entries = {}) /\ \A p \in Posts : ppc[p] # "sending"

\* No slot is lost: whoever has one is a request that runs and will give it
\* back, however it ends, and there are never too many.
SlotsAreOwned ==
  /\ Cardinality(Entries) <= MAX_MCP_CONNECTIONS
  /\ reservations \cap bindings = {}
  /\ \A c \in Entries : step[c] \in {"reserved", "promoting", "bound", "closing"}

Died == \A c \in Conns : step'[c] \in {"idle", "ended"}

Caused == \A c \in bindings : c \notin bindings' =>
  \/ step[c] = "closing" \/ ~Live(c) \/ c \in overdue \/ c \in doubted
  \/ detaching \/ Died

\* A session ends for a reason of its own: its GET ends, its token or deadline
\* does, or a token sent for it could not be checked; otherwise the operator or the
\* process ended all of them. No other agent's refused token ends it.
ClosedForCause == [][Caused]_vars

\* A watched session does not outlive its token or its deadline, unless the client of
\* a POST keeps the lock for good.
Watched(c) == watch[c] \in {"checking", "detaching"}
RevokedIsClosed == []<>LockFree => \A c \in Conns :
  (c \in bindings /\ Watched(c) /\ (~Live(c) \/ c \in overdue)) ~> c \notin bindings

\* A request that is past its admission and has no entry has had its session.
Registry == INSTANCE SessionRegistry WITH
  Sessions   <- Conns,
  Admissible <- {S \in SUBSET Conns : Cardinality(S) <= MAX_MCP_CONNECTIONS},
  registered <- Entries,
  past       <- {c \in Conns : step[c] \notin {"idle", "admitting"}} \ Entries,
  open       <- enabled

\* Requests, watchdogs, POSTs, tool checks and the operator overlap, and still a slot
\* is given only while connectivity is on, to a session that never had one, and
\* within the limit.
RefinesRegistry == Registry!RegistrySpec
=============================================================================
