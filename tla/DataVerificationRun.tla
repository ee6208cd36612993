------------------------ MODULE DataVerificationRun ------------------------
(***************************************************************************)
(* The verification runs of one dataset: quote, start, scan, report and    *)
(* the commands on the result.                                             *)
(*                                                                         *)
(* One event loop: a request runs up to its next await.  The table knows   *)
(* nothing of versions; a start protects what it saves after an await by a *)
(* lease in the row, renewed by a heartbeat task, and by two claim flags.  *)
(***************************************************************************)
EXTENDS Naturals, FiniteSets

CONSTANTS
  Quotes, Starts, Syncs, Commands,   \* requests of the four kinds
  NoRun, NoStart, NoReport,
  MaxEvents    \* requests, restarts, failed heartbeats and stalls considered

\* A run has the name of the request for the quote that added it.
Runs     == Quotes
Requests == Quotes \cup Starts \cup Syncs \cup Commands

\* A scan that is refused or fails gives the terminal report.
Reports == [by : Starts, good : BOOLEAN]

\* The payment states the code tells apart: "AUTHORIZING" stands for every other one
\* that can be cancelled, "over" for the terminal ones no command leads from.
States == {"QUOTED", "AUTHORIZING", "AUTHORIZED", "CAPTURED", "PUBLISHED", "WITHDRAWN", "over"}
Terminal == {"PUBLISHED", "WITHDRAWN", "over"}

ASSUME ConstantsAssumption ==
  /\ NoRun \notin Runs /\ NoStart \notin Starts /\ NoReport \notin Reports
  /\ Quotes \cap (Starts \cup Syncs \cup Commands) = {}
  /\ Starts \cap (Syncs \cup Commands) = {}
  /\ Syncs \cap Commands = {}
  /\ MaxEvents \in Nat

VARIABLES
  \* the table data_verification_runs; the run created last
  row, latest,
  \* requests: step, run, the answer on its way, whether the copy of the row they
  \* read has its acknowledgements, its withdrawal date
  pc, on, answer, acked, dated,
  \* starts: heartbeat task, recover_scan_claim, report in memory
  beat, recover, report,
  \* the marketplace: payment state, reports it got
  server, received,
  \* history: runs added although another one was added since their quote was asked for
  together,
  events

table   == <<row, latest>>
request == <<pc, on, answer, acked, dated>>
holder  == <<beat, recover, report>>
market  == <<server, received>>
vars    == <<table, request, holder, market, together, events>>

Row == [state : States, accepted : BOOLEAN, verified : BOOLEAN,
        startClaimed : BOOLEAN, scanClaimed : BOOLEAN,
        report : Reports \cup {NoReport}, ingested : BOOLEAN,
        requested : BOOLEAN, withdrawn : BOOLEAN,
        owner : Starts \cup {NoStart}, live : BOOLEAN]

Blank ==
  [state |-> "QUOTED", accepted |-> FALSE, verified |-> FALSE,
   startClaimed |-> FALSE, scanClaimed |-> FALSE, report |-> NoReport, ingested |-> FALSE,
   requested |-> FALSE, withdrawn |-> FALSE, owner |-> NoStart, live |-> FALSE]

Init ==
  /\ row = [r \in Runs |-> Blank] /\ latest = NoRun
  /\ pc = [x \in Requests |-> "idle"]
  /\ on = [x \in Requests |-> NoRun]
  /\ answer = [x \in Requests |-> "none"]
  /\ acked = [s \in Starts |-> FALSE]
  /\ dated = [x \in Requests |-> FALSE]
  /\ beat = [s \in Starts |-> "off"]
  /\ recover = [s \in Starts |-> FALSE]
  /\ report = [s \in Starts |-> NoReport]
  /\ server = [r \in Runs |-> "none"]
  /\ received = [r \in Runs |-> {}]
  /\ together = {}
  /\ events = 0

Event == events < MaxEvents /\ events' = events + 1

SetRow(r, x) == row' = [row EXCEPT ![r] = x]
Go(x, step) == pc' = [pc EXCEPT ![x] = step] /\ answer' = [answer EXCEPT ![x] = "none"]
Run(x) == row[on[x]]

\* An exception, a timeout or a refusal of the marketplace ends a request.
Done(x) ==
  /\ pc' = [pc EXCEPT ![x] = "done"]
  /\ on' = [on EXCEPT ![x] = NoRun]
  /\ answer' = [answer EXCEPT ![x] = "none"]
  /\ dated' = [dated EXCEPT ![x] = FALSE]

-----------------------------------------------------------------------------
(* prepare_quote *)

\* Mutant: the state of the latest run is not looked at.
MayQuoteAlways(r, step) == TRUE

\* The latest run decides whether one is added or overwritten; an equal
\* description gets the quote it has, and any other state is refused.
MayQuote(r, step) ==
  \/ r = NoRun /\ step = "add"
  \/ r # NoRun /\ row[r].state \in Terminal /\ step = "add"
  \/ r # NoRun /\ row[r].state = "QUOTED" /\ step = "overwrite"

BeginQuote(q) ==
  /\ Event
  /\ pc[q] = "idle"
  /\ \E step \in {"add", "overwrite"} : MayQuote(latest, step) /\ Go(q, step)
  /\ on' = [on EXCEPT ![q] = latest]
  /\ UNCHANGED <<table, acked, dated, holder, market, together>>

QuoteFails(q) ==
  /\ pc[q] \in {"add", "overwrite"}
  /\ Done(q)
  /\ UNCHANGED <<table, acked, holder, market, together, events>>

\* What was read before the request decides, whatever was added meanwhile and
\* whatever has become of the QUOTED run.
AddRun(q) ==
  /\ pc[q] = "add"
  /\ SetRow(q, Blank) /\ latest' = q
  /\ together' = IF on[q] = latest THEN together ELSE together \cup {q}
  /\ Done(q)
  /\ UNCHANGED <<acked, holder, market, events>>

OverwriteQuote(q) ==
  /\ pc[q] = "overwrite"
  /\ SetRow(on[q], [Run(q) EXCEPT !.accepted = FALSE])
  /\ Done(q)
  /\ UNCHANGED <<latest, acked, holder, market, together, events>>

-----------------------------------------------------------------------------
(* start: the lease *)

\* Mutant: the expiry of the lease is not looked at.
FreeForever(x) == x.owner = NoStart

Free(x) == x.owner = NoStart \/ ~x.live

\* Mutant: the flag is not read.
TakesOverNever(x) == FALSE

\* A scan claimed by an earlier holder of the lease is done again.
TakesOver(x) == x.scanClaimed

\* _start_with_lease up to its first await: the report that is there, an error,
\* or the request for a scan specification.
Work(s, r, x) ==
  \/ /\ x.report # NoReport
     /\ SetRow(r, x)
     /\ report' = [report EXCEPT ![s] = x.report]
     /\ Go(s, "ingest")
     /\ UNCHANGED recover
  \/ /\ x.report = NoReport /\ ~x.accepted
     /\ SetRow(r, x)
     /\ Go(s, "ending")
     /\ UNCHANGED <<recover, report>>
  \/ /\ x.report = NoReport /\ x.accepted
     /\ recover' = [recover EXCEPT ![s] = TakesOver(x)]
     /\ SetRow(r, [x EXCEPT !.startClaimed = TRUE])
     /\ Go(s, "issue")
     /\ UNCHANGED report

\* _claim_start_lease_or_wait, from the row x of run r.
ClaimLease(s, r, x) ==
  \/ /\ x.ingested /\ Free(x)
     /\ SetRow(r, x)
     /\ dated' = [dated EXCEPT ![s] = x.withdrawn \/ x.requested]
     /\ Go(s, "sync")
     /\ UNCHANGED holder
  \/ /\ ~x.ingested /\ Free(x)
     /\ Work(s, r, [x EXCEPT !.owner = s, !.live = TRUE])
     /\ beat' = [beat EXCEPT ![s] = "on"]
     /\ UNCHANGED dated
  \/ /\ ~Free(x)
     /\ SetRow(r, x)
     /\ Go(s, "wait")
     /\ UNCHANGED <<dated, holder>>

\* Acknowledgements are saved when the copy that was read has none.
AcceptAndClaim(s, r, known) ==
  ClaimLease(s, r, [row[r] EXCEPT !.accepted = @ \/ ~known])

BeginStart(s) ==
  /\ Event
  /\ pc[s] = "idle" /\ latest # NoRun
  /\ on' = [on EXCEPT ![s] = latest]
  /\ LET x == row[latest] IN
     \/ /\ ~x.verified /\ ~x.startClaimed
        /\ acked' = [acked EXCEPT ![s] = x.accepted]
        /\ Go(s, "ready")
        /\ UNCHANGED <<row, dated, holder>>
     \/ /\ x.verified \/ x.startClaimed
        /\ AcceptAndClaim(s, latest, x.accepted)
        /\ UNCHANGED acked
  /\ UNCHANGED <<latest, market, together>>

\* payment_method_readiness has answered that the card is ready, or not.
CardReady(s) ==
  /\ pc[s] = "ready"
  /\ AcceptAndClaim(s, on[s], acked[s])
  /\ acked' = [acked EXCEPT ![s] = FALSE]
  /\ UNCHANGED <<latest, on, market, together, events>>

CardNotReady(s) ==
  /\ pc[s] = "ready"
  /\ Done(s)
  /\ acked' = [acked EXCEPT ![s] = FALSE]
  /\ UNCHANGED <<table, holder, market, together, events>>

Poll(s) ==
  /\ pc[s] = "wait"
  /\ Free(Run(s))
  /\ ClaimLease(s, on[s], Run(s))
  /\ UNCHANGED <<latest, on, acked, market, together, events>>

\* Mutant: a late result is saved without asking for the lease.
KeepsNothing(s) == TRUE

\* _assert_heartbeat_lease: renewed, however old, if it is still one's own.  What
\* the heartbeat found lost is not.
Keeps(s) == Run(s).owner = s

\* The finally clause of the heartbeat: awaits the task, then releases.  A task
\* that failed raises there, and the lease stays.
Release(s) ==
  IF Run(s).owner = s /\ beat[s] # "failed"
  THEN SetRow(on[s], [Run(s) EXCEPT !.owner = NoStart, !.live = FALSE])
  ELSE UNCHANGED row

EndStart(s) ==
  /\ pc[s] = "ending"
  /\ Release(s)
  /\ beat' = [beat EXCEPT ![s] = "off"]
  /\ recover' = [recover EXCEPT ![s] = FALSE]
  /\ report' = [report EXCEPT ![s] = NoReport]
  /\ Done(s)
  /\ UNCHANGED <<latest, acked, market, together, events>>
-----------------------------------------------------------------------------
(* start: with the lease *)

\* The holder goes on with row x, or finds its lease lost.
Continue(s, step, x) ==
  \/ /\ Keeps(s)
     /\ SetRow(on[s], [x EXCEPT !.live = TRUE])
     /\ Go(s, step)
  \/ /\ ~Keeps(s)
     /\ Go(s, "ending")
     /\ UNCHANGED row

\* The scan specification has come: its run is known by its server identity.
FinishIssue(s) ==
  /\ pc[s] = "issue" /\ answer[s] # "none"
  /\ Continue(s, "authsync", [Run(s) EXCEPT !.verified = TRUE])
  /\ dated' = [dated EXCEPT ![s] = Run(s).withdrawn \/ Run(s).requested]
  /\ UNCHANGED <<latest, on, acked, holder, market, together, events>>

\* _sync_status saves the state it was told, and a date it knows.
Synced(x) == [Run(x) EXCEPT
  !.state = answer[x],
  !.withdrawn = @ \/ (answer[x] = "WITHDRAWN" /\ dated[x])]

\* Only an authorised run is scanned, and once, unless an earlier start had
\* already claimed the scan.
FinishAuthSync(s) ==
  /\ pc[s] = "authsync" /\ answer[s] # "none"
  /\ \/ /\ answer[s] = "AUTHORIZED"
        /\ recover[s] \/ ~Run(s).scanClaimed
        /\ Continue(s, "scan", [Synced(s) EXCEPT !.scanClaimed = TRUE])
     \/ /\ answer[s] # "AUTHORIZED" \/ (Run(s).scanClaimed /\ ~recover[s])
        /\ Continue(s, "ending", Synced(s))
  /\ UNCHANGED <<latest, on, acked, dated, holder, market, together, events>>

\* The thread returns: a report, or an error that makes the terminal report.
FinishScan(s) ==
  /\ pc[s] = "scan"
  /\ \E good \in BOOLEAN :
       LET v == [by |-> s, good |-> good] IN
       /\ Continue(s, "ingest", [Run(s) EXCEPT !.report = v])
       /\ report' = [report EXCEPT ![s] = v]
  /\ UNCHANGED <<latest, on, acked, dated, beat, recover, market, together, events>>

FinishIngest(s) ==
  /\ pc[s] = "ingest" /\ answer[s] # "none"
  /\ Continue(s, "lastsync", [Run(s) EXCEPT !.ingested = TRUE])
  /\ dated' = [dated EXCEPT ![s] = Run(s).withdrawn \/ Run(s).requested]
  /\ UNCHANGED <<latest, on, acked, holder, market, together, events>>

FinishLastSync(s) ==
  /\ pc[s] = "lastsync" /\ answer[s] # "none"
  /\ Continue(s, "ending", Synced(s))
  /\ UNCHANGED <<latest, on, acked, dated, holder, market, together, events>>

-----------------------------------------------------------------------------
(* refresh and lifecycle_command *)

BeginSync(x) ==
  /\ Event
  /\ pc[x] = "idle" /\ latest # NoRun /\ row[latest].verified
  /\ on' = [on EXCEPT ![x] = latest]
  /\ dated' = [dated EXCEPT ![x] = row[latest].withdrawn \/ row[latest].requested]
  /\ Go(x, "sync")
  /\ UNCHANGED <<table, acked, holder, market, together>>

\* Without a lease the answer is saved whatever the row has become.
EndSync(x) ==
  /\ pc[x] = "sync" /\ answer[x] # "none"
  /\ SetRow(on[x], Synced(x))
  /\ Done(x)
  /\ UNCHANGED <<latest, acked, holder, market, together, events>>

Actions == {"cancel", "publish", "decline", "withdraw"}

\* What the row says about the payment must allow the action.
Allowed(a, x) ==
  \/ a = "cancel"   /\ x.state \in {"AUTHORIZING", "AUTHORIZED"}
  \/ a = "publish"  /\ x.state = "CAPTURED" /\ x.ingested
  \/ a = "decline"  /\ x.state = "CAPTURED"
  \/ a = "withdraw" /\ x.state = "PUBLISHED"

\* A withdrawal saves when it was requested before it is requested.
BeginCommand(m, a) ==
  /\ Event
  /\ pc[m] = "idle" /\ latest # NoRun
  /\ row[latest].verified /\ Allowed(a, row[latest])
  /\ on' = [on EXCEPT ![m] = latest]
  /\ SetRow(latest, [row[latest] EXCEPT !.requested = @ \/ a = "withdraw"])
  /\ Go(m, a)
  /\ UNCHANGED <<latest, acked, dated, holder, market, together>>

\* Mutant: the action becomes the state.
FinishCommandSavesAction(m) ==
  /\ pc[m] \in Actions /\ answer[m] # "none"
  /\ SetRow(on[m], [Run(m) EXCEPT !.state = pc[m]])
  /\ Done(m)
  /\ UNCHANGED <<latest, acked, holder, market, together, events>>

\* What the server answers is saved, the date of a withdrawal with it.
FinishCommand(m) ==
  /\ pc[m] \in Actions /\ answer[m] # "none"
  /\ SetRow(on[m], [Run(m) EXCEPT !.state = answer[m], !.withdrawn = @ \/ pc[m] = "withdraw"])
  /\ Done(m)
  /\ UNCHANGED <<latest, acked, holder, market, together, events>>

-----------------------------------------------------------------------------
(***************************************************************************)
(* The marketplace.  It is idempotent per run, as the idempotency key and  *)
(* the tests have it; an error or a timeout says nothing of what was done. *)
(***************************************************************************)
Awaits(x, step) == pc[x] = step /\ answer[x] = "none"

Reply(x, a) ==
  /\ answer' = [answer EXCEPT ![x] = a]
  /\ UNCHANGED <<table, pc, on, acked, holder, together, events>>

ServeIssue(s) ==
  \/ /\ server[on[s]] = "none"
     /\ \E st \in {"AUTHORIZING", "AUTHORIZED", "over"} : server' = [server EXCEPT ![on[s]] = st]
     /\ UNCHANGED received
  \/ server[on[s]] # "none" /\ UNCHANGED market

ServeIngest(s) ==
  /\ received' = [received EXCEPT ![on[s]] = @ \cup {report[s]}]
  /\ server' = [server EXCEPT ![on[s]] =
       IF @ # "AUTHORIZED" THEN @ ELSE IF report[s].good THEN "CAPTURED" ELSE "over"]

\* A command is carried out in the states it is for.
ServeCommand(m) ==
  LET to(st) == server[on[m]] \in st /\ UNCHANGED received
      becomes(st) == server' = [server EXCEPT ![on[m]] = st]
  IN \/ pc[m] = "cancel"   /\ to({"AUTHORIZING", "AUTHORIZED"}) /\ becomes("over")
     \/ pc[m] = "publish"  /\ to({"CAPTURED"})  /\ becomes("PUBLISHED")
     \/ pc[m] = "decline"  /\ to({"CAPTURED"})  /\ becomes("over")
     \/ pc[m] = "withdraw" /\ to({"PUBLISHED"}) /\ becomes("WITHDRAWN")

AnswerIssue(s) == Awaits(s, "issue") /\ ServeIssue(s) /\ Reply(s, "ok") /\ UNCHANGED dated

AnswerIngest(s) == Awaits(s, "ingest") /\ ServeIngest(s) /\ Reply(s, "ok") /\ UNCHANGED dated

AnswerCommand(m) == \E a \in Actions :
  Awaits(m, a) /\ ServeCommand(m) /\ Reply(m, server'[on[m]]) /\ UNCHANGED dated

\* A status may carry the date of the withdrawal.
AnswerStatus(x) ==
  /\ \E step \in {"sync", "authsync", "lastsync"} : Awaits(x, step)
  /\ \E date \in BOOLEAN : dated' = [dated EXCEPT ![x] = @ \/ (date /\ server[on[x]] = "WITHDRAWN")]
  /\ Reply(x, server[on[x]])
  /\ UNCHANGED market

\* An error of the marketplace, of the way or of the database ends the request,
\* a start by way of its finally clause.
StartFails(s) ==
  /\ \/ Awaits(s, "issue") /\ (ServeIssue(s) \/ UNCHANGED market)
     \/ Awaits(s, "ingest") /\ (ServeIngest(s) \/ UNCHANGED market)
     \/ (Awaits(s, "authsync") \/ Awaits(s, "lastsync")) /\ UNCHANGED market
  /\ Go(s, "ending")
  /\ UNCHANGED <<table, on, acked, dated, holder, together, events>>

RequestFails(x) ==
  /\ \/ Awaits(x, "sync") /\ UNCHANGED market
     \/ (\E a \in Actions : Awaits(x, a)) /\ (ServeCommand(x) \/ UNCHANGED market)
  /\ Done(x)
  /\ UNCHANGED <<table, acked, holder, together, events>>

\* The payment authorisation ends one way or the other.
Authorize(r) ==
  /\ server[r] = "AUTHORIZING"
  /\ \E st \in {"AUTHORIZED", "over"} : server' = [server EXCEPT ![r] = st]
  /\ UNCHANGED <<table, request, holder, received, together, events>>

-----------------------------------------------------------------------------
(* Heartbeat, time and restarts *)

Working(s) == pc[s] \in {"issue", "authsync", "scan", "ingest", "lastsync"}

\* Every five seconds, while the lease is its own.
Heartbeat(s) ==
  /\ Working(s) /\ beat[s] = "on" /\ Run(s).owner = s
  /\ SetRow(on[s], [Run(s) EXCEPT !.live = TRUE])
  /\ UNCHANGED <<latest, request, holder, market, together, events>>

\* A database error ends the heartbeat task; nobody looks at it before the end.
HeartbeatFails(s) ==
  /\ Working(s) /\ beat[s] = "on"
  /\ Event
  /\ beat' = [beat EXCEPT ![s] = "failed"]
  /\ UNCHANGED <<table, request, recover, report, market, together>>

Beating(r) == row[r].owner # NoStart /\ beat[row[r].owner] = "on"

\* Thirty seconds without a renewal: nobody renews, or the loop was stalled.
Expire(r) ==
  /\ row[r].live
  /\ ~Beating(r) /\ UNCHANGED events
  /\ SetRow(r, [row[r] EXCEPT !.live = FALSE])
  /\ UNCHANGED <<latest, request, holder, market, together>>

Stall(r) ==
  /\ row[r].live /\ Beating(r)
  /\ Event
  /\ SetRow(r, [row[r] EXCEPT !.live = FALSE])
  /\ UNCHANGED <<latest, request, holder, market, together>>

\* The container stops and starts: requests are gone, the table stays.
Restart ==
  /\ Event
  /\ pc' = [x \in Requests |-> IF pc[x] = "idle" THEN "idle" ELSE "done"]
  /\ on' = [x \in Requests |-> NoRun]
  /\ answer' = [x \in Requests |-> "none"]
  /\ acked' = [s \in Starts |-> FALSE]
  /\ dated' = [x \in Requests |-> FALSE]
  /\ beat' = [s \in Starts |-> "off"]
  /\ recover' = [s \in Starts |-> FALSE]
  /\ report' = [s \in Starts |-> NoReport]
  /\ UNCHANGED <<table, market, together>>

-----------------------------------------------------------------------------
QuoteStep(q) == BeginQuote(q) \/ QuoteFails(q) \/ AddRun(q) \/ OverwriteQuote(q)

\* What a start does once it was begun.
StartStep(s) ==
  \/ CardReady(s) \/ CardNotReady(s) \/ Poll(s) \/ EndStart(s) \/ EndSync(s)
  \/ FinishIssue(s) \/ FinishAuthSync(s) \/ FinishScan(s) \/ FinishIngest(s) \/ FinishLastSync(s)
  \/ AnswerIssue(s) \/ AnswerStatus(s) \/ AnswerIngest(s) \/ StartFails(s) \/ RequestFails(s)

SyncStep(x) == BeginSync(x) \/ AnswerStatus(x) \/ EndSync(x) \/ RequestFails(x)

CommandStep(m) ==
  \/ \E a \in Actions : BeginCommand(m, a)
  \/ AnswerCommand(m) \/ FinishCommand(m) \/ RequestFails(m)

Next ==
  \/ \E q \in Quotes : QuoteStep(q)
  \/ \E s \in Starts : BeginStart(s) \/ StartStep(s) \/ Heartbeat(s) \/ HeartbeatFails(s)
  \/ \E x \in Syncs : SyncStep(x)
  \/ \E m \in Commands : CommandStep(m)
  \/ \E r \in Runs : Authorize(r) \/ Expire(r) \/ Stall(r)
  \/ Restart

Spec == Init /\ [][Next]_vars

\* The loop runs what is ready, requests end with an answer or a timeout, scans
\* end, and time passes.
FairSpec ==
  /\ Spec
  /\ \A s \in Starts : WF_vars(StartStep(s))
  /\ \A r \in Runs : WF_vars(Expire(r))

-----------------------------------------------------------------------------
(* Properties *)

TypeOK ==
  /\ row \in [Runs -> Row] /\ latest \in Runs \cup {NoRun}
  /\ pc \in [Requests -> {"idle", "add", "overwrite", "ready", "wait", "sync", "issue",
                          "authsync", "scan", "ingest", "lastsync", "ending", "done"} \cup Actions]
  /\ on \in [Requests -> Runs \cup {NoRun}]
  /\ answer \in [Requests -> States \cup {"none", "ok"}]
  /\ acked \in [Starts -> BOOLEAN] /\ dated \in [Requests -> BOOLEAN]
  /\ beat \in [Starts -> {"off", "on", "failed"}]
  /\ recover \in [Starts -> BOOLEAN]
  /\ report \in [Starts -> Reports \cup {NoReport}]
  /\ server \in [Runs -> (States \ {"QUOTED"}) \cup {"none"}]
  /\ received \in [Runs -> SUBSET Reports]
  /\ together \subseteq Runs
  /\ events \in 0 .. MaxEvents

\* One report per run: written down before it is sent, never replaced, although
\* a start that lost its lease may still be scanning or sending.
Report == INSTANCE VerificationReport WITH
  persisted <- [r \in Runs |-> row[r].report],
  received <- {p \in Runs \X Reports : p[2] \in received[p[1]]},
  accepted <- {r \in Runs : row[r].ingested}
RefinesReport == Report!ReportSpec

\* The lease makes the claim flags safe to recover: whoever holds the lease and
\* has not yet scanned finds the scan unclaimed, or knows that it takes over.
ScanClaimIsFree == \A s \in Starts :
  /\ pc[s] \in {"issue", "authsync"} /\ on[s] # NoRun
  /\ Run(s).owner = s /\ Run(s).scanClaimed
  => recover[s]

\* A run called withdrawn has its date, or the time of the request, from which
\* the next refresh restores it.
WithdrawnIsDatable == \A r \in Runs :
  row[r].state = "WITHDRAWN" => row[r].withdrawn \/ row[r].requested

Active(r) == server[r] \in {"AUTHORIZING", "AUTHORIZED", "CAPTURED"}

\* "the current verification run must finish before another can start": two runs
\* of a dataset are under way at the marketplace only if one was added by a quote
\* asked for before the other existed.
ActiveAlone == \A r, t \in Runs :
  Active(r) /\ Active(t) /\ r # t => together # {}

\* A start that waits for the lease gets it or finds the run finished, also when
\* the holder is gone or its heartbeat has failed.
WaiterProceeds == \A s \in Starts : pc[s] = "wait" ~> pc[s] # "wait"
=============================================================================
