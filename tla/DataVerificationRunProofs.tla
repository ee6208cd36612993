---------------------- MODULE DataVerificationRunProofs ----------------------
(***************************************************************************)
(* Proofs about DataVerificationRun for any number of quotes, starts,      *)
(* refreshes and commands, and any number of restarts, stalls and failed   *)
(* heartbeats.                                                             *)
(***************************************************************************)
EXTENDS DataVerificationRun, TLAPS

USE ConstantsAssumption DEF ConstantsAssumption

\* Whoever is past its first step has a run; a run nobody has added yet is blank
\* and unknown to every request and to the marketplace.
RunsSound ==
  /\ \A x \in Requests :
       /\ pc[x] \notin {"idle", "add", "done"} => on[x] \in Runs
       /\ pc[x] \in {"idle", "add", "done"} => answer[x] = "none"
  /\ \A q \in Quotes : pc[q] \in {"idle", "add", "overwrite"} =>
       /\ row[q] = Blank /\ latest # q
       /\ server[q] = "none" /\ received[q] = {}
       /\ \A x \in Requests : on[x] # q

\* What an answer or a row says of a payment that is over stays true: the
\* marketplace never returns from a terminal state.
PaymentSound ==
  /\ \A x \in Requests :
       /\ pc[x] \in {"sync", "authsync", "lastsync"} \cup Actions =>
            answer[x] \in States \cup {"none"}
       /\ answer[x] \in Terminal => server[on[x]] \in Terminal
  /\ \A r \in Runs : row[r].state \in Terminal => server[r] \in Terminal

\* A withdrawal is requested in the row before anybody can know of it.
WithdrawalSound ==
  /\ \A x \in Requests :
       pc[x] = "withdraw" \/ answer[x] = "WITHDRAWN" => row[on[x]].requested
  /\ \A r \in Runs :
       row[r].state = "WITHDRAWN" \/ server[r] = "WITHDRAWN" => row[r].requested

\* Whoever holds the lease and has not scanned finds no report; whoever sends a
\* report sends the one in the row.
ReportSound == \A s \in Starts :
  /\ pc[s] \in {"issue", "authsync", "scan"} /\ row[on[s]].owner = s =>
       row[on[s]].report = NoReport
  /\ pc[s] = "ingest" =>
       /\ report[s] # NoReport /\ report[s] = row[on[s]].report
       /\ answer[s] # "none" => report[s] \in received[on[s]]

\* Until two quotes overlap, every run but the latest is over at the marketplace,
\* or was never added; and so is the run a quote found over.
LatestSound ==
  /\ together = {} => \A r \in Runs \ {latest} :
       \/ server[r] \in Terminal
       \/ server[r] = "none" /\ \A x \in Requests : on[x] # r
  /\ \A q \in Quotes : pc[q] = "add" /\ on[q] # NoRun => server[on[q]] \in Terminal

\* The inductive invariant.
IInv ==
  /\ TypeOK
  /\ RunsSound /\ PaymentSound /\ WithdrawalSound
  /\ ReportSound /\ ScanClaimIsFree /\ LatestSound

\* A step of the abstract specification of the report, or a stutter.
ReportStep == [Report!ReportNext]_(Report!reportVars)

USE DEF table, request, holder, market
-----------------------------------------------------------------------------

\* Reports that are kept, sent to nobody and not accepted anew are a stutter.
LEMMA KeptIsAStep ==
  ASSUME \A r \in Runs : row'[r].report = row[r].report /\ row'[r].ingested = row[r].ingested,
         received' = received
  PROVE  ReportStep
BY DEF ReportStep, Report!reportVars

\* A report that arrives for the second time, or for the first, is delivered.
LEMMA DeliveryIsAStep ==
  ASSUME TypeOK, NEW s \in Starts, on[s] \in Runs, ServeIngest(s), UNCHANGED table,
         report[s] \in Reports, report[s] = row[on[s]].report
  PROVE  ReportStep
<1> DEFINE got == {p \in Runs \X Reports : p[2] \in received[p[1]]}
           gets == {p \in Runs \X Reports : p[2] \in received'[p[1]]}
<1>1. \A r \in Runs : received'[r] = IF r = on[s] THEN received[r] \cup {report[s]} ELSE received[r]
  BY DEF ServeIngest, TypeOK
<1>2. gets = got \cup {<<on[s], report[s]>>}
  <2>1. \A r \in Runs, v \in Reports : <<r, v>> \in got <=> v \in received[r]
    OBVIOUS
  <2>2. \A r \in Runs, v \in Reports : <<r, v>> \in gets <=> v \in received'[r]
    OBVIOUS
  <2>3. \A r \in Runs : \A v \in Reports : v \in received'[r] <=> v \in received[r] \/ (r = on[s] /\ v = report[s])
    BY ONLY <1>1
  <2>4. \A r \in Runs, v \in Reports :
          <<r, v>> \in gets <=> <<r, v>> \in got \/ (r = on[s] /\ v = report[s])
    BY ONLY <2>1, <2>2, <2>3
  <2>5. /\ gets \subseteq Runs \X Reports /\ got \subseteq Runs \X Reports
        /\ <<on[s], report[s]>> \in Runs \X Reports
    OBVIOUS
  <2> HIDE DEF gets, got
  <2> QED  BY <2>4, <2>5
<1>3. report[s] # NoReport /\ UNCHANGED row
  OBVIOUS
<1>4. PICK r \in Runs : r = on[s]
  OBVIOUS
<1>5. \E t \in Runs : Report!Deliver(t)
  <2>1. Report!Deliver(r)
    BY <1>2, <1>3, <1>4 DEF Report!Deliver
  <2> QED  BY ONLY <2>1
<1> QED  BY ONLY <1>5 DEF ReportStep, Report!ReportNext

\* No run, no request: nothing is known of anything.
LEMMA InitHolds == Init => IInv
<1> SUFFICES ASSUME Init PROVE IInv
  OBVIOUS
<1>1. TypeOK
  BY DEF Init, TypeOK, Row, Blank, States, Requests, Runs
<1>2. RunsSound /\ PaymentSound
  BY DEF Init, RunsSound, PaymentSound, Blank, Requests, Runs, Actions, Terminal
<1>3. WithdrawalSound /\ ReportSound /\ ScanClaimIsFree
  BY DEF Init, WithdrawalSound, ReportSound, ScanClaimIsFree, Blank, Requests, Runs
<1>4. LatestSound
  BY DEF Init, LatestSound, Requests, Runs
<1> QED  BY <1>1, <1>2, <1>3, <1>4 DEF IInv

\* A quote is asked for: a new run only over the last one.
LEMMA BeginQuoteKeeps ==
  ASSUME IInv, NEW q \in Quotes, BeginQuote(q)
  PROVE  IInv' /\ ReportStep
<1> USE DEF IInv
<1>1. TypeOK'
  BY DEF BeginQuote, MayQuote, Event, Go, TypeOK, RunsSound, PaymentSound, States, Actions, Requests, Runs
<1>2. RunsSound'
  BY DEF BeginQuote, MayQuote, Event, Go, RunsSound, TypeOK, Requests, Runs, Actions
<1>3. PaymentSound'
  BY DEF BeginQuote, MayQuote, Event, Go, PaymentSound, RunsSound, TypeOK, Requests, Runs, Actions, Terminal, States
<1>4. WithdrawalSound'
  BY DEF BeginQuote, MayQuote, Event, Go, WithdrawalSound, RunsSound, TypeOK, Requests, Runs, Actions
<1>5. ReportSound'
  BY DEF BeginQuote, MayQuote, Event, Go, ReportSound, RunsSound, TypeOK, Requests, Runs
<1>6. ScanClaimIsFree'
  BY DEF BeginQuote, MayQuote, Event, Go, ScanClaimIsFree, Run, RunsSound, TypeOK, Requests, Runs
<1>7. LatestSound'
  BY DEF BeginQuote, MayQuote, Event, Go, LatestSound, PaymentSound, RunsSound, TypeOK, Requests, Runs, Terminal
<1>8. ReportStep
  BY KeptIsAStep DEF BeginQuote, MayQuote, Event, Go, TypeOK, Requests
<1> QED  BY <1>1, <1>2, <1>3, <1>4, <1>5, <1>6, <1>7, <1>8

\* A quote that failed leaves no trace.
LEMMA QuoteFailsKeeps ==
  ASSUME IInv, NEW q \in Quotes, QuoteFails(q)
  PROVE  IInv' /\ ReportStep
<1> USE DEF IInv
<1>1. TypeOK'
  BY DEF QuoteFails, Done, TypeOK, RunsSound, PaymentSound, States, Actions, Requests, Runs
<1>2. RunsSound'
  BY DEF QuoteFails, Done, RunsSound, TypeOK, Requests, Runs, Actions
<1>3. PaymentSound'
  BY DEF QuoteFails, Done, PaymentSound, RunsSound, TypeOK, Requests, Runs, Actions, Terminal, States
<1>4. WithdrawalSound'
  BY DEF QuoteFails, Done, WithdrawalSound, RunsSound, TypeOK, Requests, Runs, Actions
<1>5. ReportSound'
  BY DEF QuoteFails, Done, ReportSound, RunsSound, TypeOK, Requests, Runs
<1>6. ScanClaimIsFree'
  BY DEF QuoteFails, Done, ScanClaimIsFree, Run, RunsSound, TypeOK, Requests, Runs
<1>7. LatestSound'
  BY DEF QuoteFails, Done, LatestSound, PaymentSound, RunsSound, TypeOK, Requests, Runs, Terminal
<1>8. ReportStep
  BY KeptIsAStep DEF QuoteFails, Done, TypeOK, Requests
<1> QED  BY <1>1, <1>2, <1>3, <1>4, <1>5, <1>6, <1>7, <1>8

\* The run a quote adds was blank already; it is the latest from now on, and the one
\* before it is over unless quotes overlap.
LEMMA AddRunKeeps ==
  ASSUME IInv, NEW q \in Quotes, AddRun(q)
  PROVE  IInv' /\ ReportStep
<1> USE DEF IInv
<1>a. row' = row
  BY DEF AddRun, SetRow, RunsSound, TypeOK, Runs
<1>1. TypeOK'
  BY <1>a DEF AddRun, Done, Runs, TypeOK, Requests
<1>2. RunsSound'
  BY <1>a DEF AddRun, Done, Runs, RunsSound, TypeOK, Requests, Actions
<1>3. PaymentSound'
  BY <1>a DEF AddRun, Done, Runs, PaymentSound, RunsSound, TypeOK, Requests, Actions, Terminal
<1>4. WithdrawalSound'
  BY <1>a DEF AddRun, Done, Runs, WithdrawalSound, RunsSound, TypeOK, Requests, Actions
<1>5. ReportSound'
  BY <1>a DEF AddRun, Done, Runs, ReportSound, RunsSound, TypeOK, Requests
<1>6. ScanClaimIsFree'
  BY <1>a DEF AddRun, Done, Runs, ScanClaimIsFree, Run, RunsSound, TypeOK, Requests
<1>7. LatestSound'
  <2> SUFFICES ASSUME together' = {}, NEW r \in Runs, r # q
               PROVE  server[r] \in Terminal \/ (server[r] = "none" /\ \A x \in Requests : on'[x] # r)
    BY DEF AddRun, Done, LatestSound, TypeOK, Requests
  <2>1. on[q] = latest /\ together = {}
    BY DEF AddRun
  <2>2. \A x \in Requests : on'[x] \in {on[x], NoRun}
    BY DEF AddRun, Done, TypeOK, Requests
  <2>3. r = latest => server[r] \in Terminal
    BY <2>1 DEF AddRun, LatestSound, Runs
  <2> QED  BY <2>1, <2>2, <2>3 DEF LatestSound
<1>8. ReportStep
  BY <1>a, KeptIsAStep DEF AddRun
<1> QED  BY <1>1, <1>2, <1>3, <1>4, <1>5, <1>6, <1>7, <1>8

\* What saving the copy x of run r leaves.
Stored(r, x) ==
  /\ row' \in [Runs -> Row] /\ \A t \in Runs \ {r} : row'[t] = row[t]
  /\ row'[r].state = x.state /\ row'[r].requested = x.requested
  /\ row'[r].report = x.report /\ row'[r].owner = x.owner
  /\ row'[r].scanClaimed = x.scanClaimed /\ row'[r].ingested = x.ingested

LEMMA SetStores ==
  ASSUME row \in [Runs -> Row], NEW r \in Runs, NEW x \in Row, SetRow(r, x)
  PROVE  Stored(r, x)
BY DEF Stored, SetRow

\* A quote that is replaced loses its acknowledgements, nothing else.
LEMMA OverwriteQuoteKeeps ==
  ASSUME IInv, NEW q \in Quotes, OverwriteQuote(q)
  PROVE  IInv' /\ ReportStep
<1> USE DEF IInv
<1> DEFINE y == [Run(q) EXCEPT !.accepted = FALSE]
<1>r. on[q] \in Runs /\ row[on[q]] \in Row
  BY DEF OverwriteQuote, RunsSound, PaymentSound, TypeOK, Requests, Actions
<1>y. /\ y \in Row /\ y.state = row[on[q]].state /\ y.requested = row[on[q]].requested
      /\ y.report = row[on[q]].report /\ y.owner = row[on[q]].owner /\ y.scanClaimed = row[on[q]].scanClaimed /\ y.ingested = row[on[q]].ingested
  BY <1>r DEF Row, Run
<1>s. Stored(on[q], y)
  BY <1>r, <1>y, SetStores DEF OverwriteQuote, TypeOK
<1> HIDE DEF y
<1>1. TypeOK'
  BY <1>r, <1>y, <1>s DEF OverwriteQuote, Done, TypeOK, Requests, Stored
<1>2. RunsSound'
  BY <1>r, <1>y, <1>s DEF OverwriteQuote, Done, RunsSound, TypeOK, Requests, Runs, Actions, Stored
<1>3. PaymentSound'
  BY <1>r, <1>y, <1>s DEF OverwriteQuote, Done, PaymentSound, RunsSound, TypeOK, Requests, Runs, Actions, Terminal, Stored
<1>4. WithdrawalSound'
  BY SMTT(30), <1>r, <1>y, <1>s DEF OverwriteQuote, Done, WithdrawalSound, RunsSound, TypeOK, Requests, Runs, Actions, Stored
<1>5. ReportSound'
  BY <1>r, <1>y, <1>s DEF OverwriteQuote, Done, ReportSound, RunsSound, TypeOK, Requests, Runs, Stored
<1>6. ScanClaimIsFree'
  BY <1>r, <1>y, <1>s DEF OverwriteQuote, Done, ScanClaimIsFree, Run, RunsSound, TypeOK, Requests, Runs, Stored
<1>7. LatestSound'
  BY <1>r, <1>y, <1>s DEF OverwriteQuote, Done, LatestSound, PaymentSound, RunsSound, TypeOK, Requests, Runs, Terminal, Stored
<1>8. ReportStep
  BY <1>r, <1>y, <1>s, KeptIsAStep DEF OverwriteQuote, Done, Stored, TypeOK, Requests
<1> QED  BY <1>1, <1>2, <1>3, <1>4, <1>5, <1>6, <1>7, <1>8

\* What a claim of the lease of run r leaves: the copy x in the table, another
\* owner perhaps, and the start at one of five steps.
Claimed(s, r, x) ==
  /\ row' \in [Runs -> Row] /\ \A t \in Runs \ {r} : row'[t] = row[t]
  /\ row'[r].state = x.state /\ row'[r].report = x.report
  /\ row'[r].requested = x.requested
  /\ row'[r].scanClaimed = x.scanClaimed /\ row'[r].ingested = x.ingested
  /\ row'[r].owner \in {x.owner, s}
  /\ pc' = [pc EXCEPT ![s] = pc'[s]]
  /\ pc'[s] \in {"sync", "ingest", "ending", "issue", "wait"}
  /\ pc'[s] = "ingest" => x.report # NoReport /\ report'[s] = x.report
  /\ pc'[s] = "issue" => x.report = NoReport /\ recover'[s] = x.scanClaimed
  /\ answer' = [answer EXCEPT ![s] = "none"]
  /\ report' \in [Starts -> Reports \cup {NoReport}]
  /\ recover' \in [Starts -> BOOLEAN] /\ beat' \in [Starts -> {"off", "on", "failed"}]
  /\ dated' \in [Requests -> BOOLEAN]
  /\ \A z \in Starts : z # s => report'[z] = report[z] /\ recover'[z] = recover[z]

LEMMA ClaimFacts ==
  ASSUME TypeOK, NEW s \in Starts, NEW r \in Runs, NEW x \in Row, ClaimLease(s, r, x)
  PROVE  Claimed(s, r, x)
<1>0. /\ x.report \in Reports \cup {NoReport} /\ x.scanClaimed \in BOOLEAN
      /\ x.withdrawn \in BOOLEAN /\ x.requested \in BOOLEAN
  BY DEF Row
<1>1. CASE x.ingested /\ Free(x) /\ SetRow(r, x) /\ Go(s, "sync") /\ UNCHANGED holder
           /\ dated' = [dated EXCEPT ![s] = x.withdrawn \/ x.requested]
  BY <1>0, <1>1 DEF Claimed, SetRow, Go, TypeOK, Requests
<1>2. CASE ~x.ingested /\ Free(x)
  <2> DEFINE y == [x EXCEPT !.owner = s, !.live = TRUE]
             z == [y EXCEPT !.startClaimed = TRUE]
  <2>1. /\ y \in Row /\ y.owner = s
        /\ y.state = x.state /\ y.report = x.report /\ y.accepted = x.accepted
        /\ y.requested = x.requested
        /\ y.scanClaimed = x.scanClaimed /\ y.ingested = x.ingested
    BY DEF Row
  <2> HIDE DEF y
  <2>2. /\ z \in Row /\ z.owner = s
        /\ z.state = x.state /\ z.report = x.report /\ z.requested = x.requested
        /\ z.scanClaimed = x.scanClaimed /\ z.ingested = x.ingested
    BY <2>1 DEF Row
  <2>3. Work(s, r, y) /\ beat' = [beat EXCEPT ![s] = "on"] /\ UNCHANGED dated
    BY <1>2 DEF ClaimLease, y
  <2>4. \/ /\ x.report # NoReport /\ row' = [row EXCEPT ![r] = y]
           /\ report' = [report EXCEPT ![s] = x.report] /\ Go(s, "ingest") /\ UNCHANGED recover
        \/ row' = [row EXCEPT ![r] = y] /\ Go(s, "ending") /\ UNCHANGED <<recover, report>>
        \/ /\ x.report = NoReport /\ row' = [row EXCEPT ![r] = z]
           /\ recover' = [recover EXCEPT ![s] = x.scanClaimed] /\ Go(s, "issue") /\ UNCHANGED report
    BY <2>1, <2>3 DEF Work, TakesOver, SetRow
  <2> HIDE DEF z
  <2> QED  BY <1>0, <2>1, <2>2, <2>3, <2>4 DEF Claimed, Go, TypeOK, Requests
<1>3. CASE SetRow(r, x) /\ Go(s, "wait") /\ UNCHANGED <<dated, holder>>
  BY <1>3 DEF Claimed, SetRow, Go, TypeOK, Requests
<1> QED  BY <1>1, <1>2, <1>3 DEF ClaimLease

\* A claim keeps the invariant, whether its start has just come, has heard of the
\* card or has waited.
LEMMA ClaimKeeps ==
  ASSUME IInv, NEW s \in Starts, NEW r \in Runs, NEW x \in Row,
         on' = [on EXCEPT ![s] = r], pc[s] \in {"idle", "ready", "wait"},
         pc[s] = "idle" => latest = r,
         pc[s] # "idle" => on[s] = r,
         x.state = row[r].state, x.report = row[r].report, x.requested = row[r].requested,
         x.scanClaimed = row[r].scanClaimed, x.owner = row[r].owner, x.ingested = row[r].ingested,
         Claimed(s, r, x), acked' \in [Starts -> BOOLEAN], events' \in 0 .. MaxEvents,
         UNCHANGED <<latest, market, together>>
  PROVE  IInv' /\ ReportStep
<1> USE DEF IInv
<1>1. TypeOK'
  BY DEF Claimed, TypeOK, Requests
<1>2. RunsSound'
  <2>1. \A q \in Quotes : pc[q] \in {"idle", "add", "overwrite"} => q # r
    BY DEF RunsSound, Requests
  <2>2. \A z \in Requests :
          /\ pc'[z] \notin {"idle", "add", "done"} => on'[z] \in Runs
          /\ pc'[z] \in {"idle", "add", "done"} => answer'[z] = "none"
    BY DEF Claimed, RunsSound, TypeOK, Requests
  <2>3. \A q \in Quotes : pc'[q] = pc[q] /\ q \in Runs
    BY DEF Claimed, TypeOK, Requests, Runs
  <2>4. \A q \in Quotes : q # r => row'[q] = row[q] /\ \A z \in Requests : on[z] # q => on'[z] # q
    BY <2>3 DEF Claimed, TypeOK, Requests
  <2> QED  BY <2>1, <2>2, <2>3, <2>4 DEF RunsSound
<1>3. PaymentSound'
  BY DEF Claimed, PaymentSound, RunsSound, TypeOK, Requests, Runs, Actions, Terminal
<1>4. WithdrawalSound'
  <2>1. \A t \in Runs : row'[t].requested = row[t].requested /\ row'[t].state = row[t].state
    BY DEF Claimed
  <2>2. \A z \in Requests : pc'[z] = "withdraw" \/ answer'[z] = "WITHDRAWN" =>
          /\ z # s /\ (pc[z] = "withdraw" \/ answer[z] = "WITHDRAWN")
          /\ on'[z] = on[z] /\ on[z] \in Runs
    BY DEF Claimed, RunsSound, TypeOK, Requests
  <2> QED  BY <2>1, <2>2 DEF WithdrawalSound
<1>5. ReportSound'
  <2> SUFFICES ASSUME NEW z \in Starts
               PROVE  /\ pc'[z] \in {"issue", "authsync", "scan"} /\ row'[on'[z]].owner = z =>
                           row'[on'[z]].report = NoReport
                      /\ pc'[z] = "ingest" =>
                           /\ report'[z] # NoReport /\ report'[z] = row'[on'[z]].report
                           /\ answer'[z] # "none" => report'[z] \in received'[on'[z]]
    BY DEF ReportSound
  <2>1. CASE z = s
    BY <2>1 DEF Claimed, TypeOK, Requests
  <2>2. CASE z # s
    <3>1. pc'[z] = pc[z] /\ on'[z] = on[z] /\ answer'[z] = answer[z] /\ report'[z] = report[z]
      BY <2>2 DEF Claimed, TypeOK, Requests
    <3>2. \A t \in Runs : row'[t].report = row[t].report /\ row'[t].owner \in {row[t].owner, s}
      BY DEF Claimed
    <3>3. pc[z] \in {"issue", "authsync", "scan", "ingest"} => on[z] \in Runs
      BY DEF RunsSound, Requests
    <3> QED  BY <2>2, <3>1, <3>2, <3>3 DEF ReportSound
  <2> QED  BY <2>1, <2>2
<1>6. ScanClaimIsFree'
  BY SMTT(30) DEF Claimed, ScanClaimIsFree, Run, RunsSound, TypeOK, Requests, Runs
<1>7. LatestSound'
  BY DEF Claimed, LatestSound, RunsSound, TypeOK, Requests, Runs, Terminal
<1>8. ReportStep
  BY KeptIsAStep DEF Claimed
<1> QED  BY <1>1, <1>2, <1>3, <1>4, <1>5, <1>6, <1>7, <1>8

\* Acknowledging and claiming changes nothing else of the copy.
LEMMA AcceptFacts ==
  ASSUME TypeOK, NEW s \in Starts, NEW r \in Runs, NEW known \in BOOLEAN, AcceptAndClaim(s, r, known)
  PROVE  \E x \in Row :
           /\ x.state = row[r].state /\ x.report = row[r].report
           /\ x.requested = row[r].requested
           /\ x.scanClaimed = row[r].scanClaimed /\ x.owner = row[r].owner
           /\ x.ingested = row[r].ingested
           /\ Claimed(s, r, x)
<1> DEFINE x == [row[r] EXCEPT !.accepted = @ \/ ~known]
<1>1. row[r] \in Row
  BY DEF TypeOK
<1>2. /\ x \in Row /\ x.state = row[r].state /\ x.report = row[r].report
      /\ x.requested = row[r].requested
      /\ x.scanClaimed = row[r].scanClaimed /\ x.owner = row[r].owner
      /\ x.ingested = row[r].ingested
  BY <1>1 DEF Row
<1>3. ClaimLease(s, r, x)
  BY DEF AcceptAndClaim
<1> HIDE DEF x
<1> QED  BY <1>2, <1>3, ClaimFacts

\* A start asks for the readiness of the card, or claims the lease at once.
LEMMA BeginStartKeeps ==
  ASSUME IInv, NEW s \in Starts, BeginStart(s)
  PROVE  IInv' /\ ReportStep
<1> USE DEF IInv
<1>0. /\ on' = [on EXCEPT ![s] = latest] /\ latest \in Runs /\ pc[s] = "idle"
      /\ UNCHANGED <<latest, market, together>> /\ events' \in 0 .. MaxEvents
      /\ row[latest].accepted \in BOOLEAN
  BY DEF BeginStart, Event, TypeOK, Row
<1>1. CASE /\ UNCHANGED <<row, dated, holder>> /\ Go(s, "ready")
           /\ acked' = [acked EXCEPT ![s] = row[latest].accepted]
  <2>1. acked' \in [Starts -> BOOLEAN]
    BY <1>0, <1>1 DEF TypeOK
  <2>2. TypeOK'
    BY <1>0, <1>1, <2>1 DEF Go, TypeOK, Requests
  <2>3. RunsSound'
    BY <1>0, <1>1 DEF Go, RunsSound, TypeOK, Requests, Runs
  <2>4. PaymentSound' /\ WithdrawalSound'
    BY <1>0, <1>1 DEF Go, PaymentSound, WithdrawalSound, RunsSound, TypeOK, Requests, Runs, Actions, Terminal
  <2>5. ReportSound' /\ ScanClaimIsFree'
    BY <1>0, <1>1 DEF Go, ReportSound, ScanClaimIsFree, Run, RunsSound, TypeOK, Requests, Runs
  <2>6. LatestSound'
    BY <1>0, <1>1 DEF Go, LatestSound, RunsSound, TypeOK, Requests, Runs, Terminal
  <2>7. ReportStep
    BY <1>0, <1>1, KeptIsAStep
  <2> QED  BY <2>2, <2>3, <2>4, <2>5, <2>6, <2>7
<1>2. CASE AcceptAndClaim(s, latest, row[latest].accepted) /\ UNCHANGED acked
  <2>1. acked' \in [Starts -> BOOLEAN]
    BY <1>2 DEF TypeOK
  <2> QED  BY <1>0, <1>2, <2>1, AcceptFacts, ClaimKeeps
<1> QED  BY <1>1, <1>2 DEF BeginStart

\* The card is ready: the lease is claimed.
LEMMA CardReadyKeeps ==
  ASSUME IInv, NEW s \in Starts, CardReady(s)
  PROVE  IInv' /\ ReportStep
<1> USE DEF IInv
<1>1. /\ on[s] \in Runs /\ on' = [on EXCEPT ![s] = on[s]] /\ pc[s] = "ready"
      /\ UNCHANGED <<latest, market, together>> /\ events' \in 0 .. MaxEvents
      /\ acked[s] \in BOOLEAN /\ acked' \in [Starts -> BOOLEAN]
  BY DEF CardReady, RunsSound, TypeOK, Requests
<1>2. AcceptAndClaim(s, on[s], acked[s])
  BY DEF CardReady
<1>3. PICK x \in Row :
        /\ x.state = row[on[s]].state /\ x.report = row[on[s]].report
        /\ x.requested = row[on[s]].requested
        /\ x.scanClaimed = row[on[s]].scanClaimed /\ x.owner = row[on[s]].owner
        /\ x.ingested = row[on[s]].ingested
        /\ Claimed(s, on[s], x)
  BY <1>1, <1>2, AcceptFacts
<1> QED  BY <1>1, <1>3, ClaimKeeps

\* A start that waits claims the lease that has become free.
LEMMA PollKeeps ==
  ASSUME IInv, NEW s \in Starts, Poll(s)
  PROVE  IInv' /\ ReportStep
<1> USE DEF IInv
<1>1. /\ on[s] \in Runs /\ on' = [on EXCEPT ![s] = on[s]] /\ pc[s] = "wait"
      /\ UNCHANGED <<latest, market, together>> /\ events' \in 0 .. MaxEvents
      /\ acked' \in [Starts -> BOOLEAN] /\ row[on[s]] \in Row
  BY DEF Poll, RunsSound, TypeOK, Requests
<1>2. Claimed(s, on[s], row[on[s]])
  BY <1>1, ClaimFacts DEF Poll, Run
<1> QED  BY <1>1, <1>2, ClaimKeeps

\* A start without a card ends.
LEMMA CardNotReadyKeeps ==
  ASSUME IInv, NEW s \in Starts, CardNotReady(s)
  PROVE  IInv' /\ ReportStep
<1> USE DEF IInv
<1>1. TypeOK'
  BY DEF CardNotReady, Done, TypeOK, RunsSound, PaymentSound, States, Actions, Requests, Runs
<1>2. RunsSound'
  BY DEF CardNotReady, Done, RunsSound, TypeOK, Requests, Runs, Actions
<1>3. PaymentSound'
  BY DEF CardNotReady, Done, PaymentSound, RunsSound, TypeOK, Requests, Runs, Actions, Terminal, States
<1>4. WithdrawalSound'
  BY DEF CardNotReady, Done, WithdrawalSound, RunsSound, TypeOK, Requests, Runs, Actions
<1>5. ReportSound'
  BY DEF CardNotReady, Done, ReportSound, RunsSound, TypeOK, Requests, Runs
<1>6. ScanClaimIsFree'
  BY DEF CardNotReady, Done, ScanClaimIsFree, Run, RunsSound, TypeOK, Requests, Runs
<1>7. LatestSound'
  BY DEF CardNotReady, Done, LatestSound, PaymentSound, RunsSound, TypeOK, Requests, Runs, Terminal
<1>8. ReportStep
  BY KeptIsAStep DEF CardNotReady, Done, TypeOK, Requests
<1> QED  BY <1>1, <1>2, <1>3, <1>4, <1>5, <1>6, <1>7, <1>8

\* The lease is given back by its holder alone; a failed heartbeat leaves it.
LEMMA EndStartKeeps ==
  ASSUME IInv, NEW s \in Starts, EndStart(s)
  PROVE  IInv' /\ ReportStep
<1> USE DEF IInv
<1>r. on[s] \in Runs /\ row[on[s]] \in Row
  BY DEF EndStart, RunsSound, TypeOK, Requests
<1>a. /\ row' \in [Runs -> Row] /\ \A t \in Runs \ {on[s]} : row'[t] = row[t]
      /\ row'[on[s]].state = row[on[s]].state /\ row'[on[s]].report = row[on[s]].report
      /\ row'[on[s]].requested = row[on[s]].requested
      /\ row'[on[s]].scanClaimed = row[on[s]].scanClaimed
      /\ row'[on[s]].owner \in {row[on[s]].owner, NoStart}
      /\ row'[on[s]].ingested = row[on[s]].ingested
  <2> DEFINE y == [row[on[s]] EXCEPT !.owner = NoStart, !.live = FALSE]
  <2>1. /\ y \in Row /\ y.state = row[on[s]].state /\ y.report = row[on[s]].report
        /\ y.requested = row[on[s]].requested /\ y.scanClaimed = row[on[s]].scanClaimed
        /\ y.owner = NoStart /\ y.ingested = row[on[s]].ingested
    BY <1>r DEF Row
  <2>2. row' = row \/ row' = [row EXCEPT ![on[s]] = y]
    BY DEF EndStart, Release, SetRow, Run
  <2> HIDE DEF y
  <2> QED  BY <1>r, <2>1, <2>2 DEF TypeOK
<1>1. TypeOK'
  BY <1>r, <1>a DEF EndStart, Done, TypeOK, Requests
<1>2. RunsSound'
  BY <1>r, <1>a DEF EndStart, Done, RunsSound, TypeOK, Requests, Runs, Actions
<1>3. PaymentSound'
  BY <1>r, <1>a DEF EndStart, Done, PaymentSound, RunsSound, TypeOK, Requests, Runs, Actions, Terminal
<1>4. WithdrawalSound'
  <2>1. \A t \in Runs : row'[t].requested = row[t].requested /\ row'[t].state = row[t].state
    BY <1>r, <1>a
  <2>2. \A z \in Requests : pc'[z] = "withdraw" \/ answer'[z] = "WITHDRAWN" =>
          /\ pc[z] = "withdraw" \/ answer[z] = "WITHDRAWN"
          /\ on'[z] = on[z] /\ on[z] \in Runs
    BY DEF EndStart, Done, RunsSound, TypeOK, Requests
  <2> QED  BY <2>1, <2>2 DEF WithdrawalSound, EndStart
<1>5. ReportSound'
  BY <1>r, <1>a DEF EndStart, Done, ReportSound, RunsSound, TypeOK, Requests, Runs
<1>6. ScanClaimIsFree'
  BY <1>r, <1>a DEF EndStart, Done, ScanClaimIsFree, Run, RunsSound, TypeOK, Requests, Runs
<1>7. LatestSound'
  BY <1>r, <1>a DEF EndStart, Done, LatestSound, PaymentSound, RunsSound, TypeOK, Requests, Runs, Terminal
<1>8. ReportStep
  BY <1>r, <1>a, KeptIsAStep DEF EndStart, Done, TypeOK, Requests
<1> QED  BY <1>1, <1>2, <1>3, <1>4, <1>5, <1>6, <1>7, <1>8

\* The holder of the lease goes on with the copy x, any other start ends.
LEMMA ContinueFacts ==
  ASSUME row \in [Runs -> Row], NEW s \in Starts, on[s] \in Runs, NEW x \in Row, NEW step,
         Continue(s, step, x)
  PROVE  \/ row[on[s]].owner = s /\ Stored(on[s], x) /\ pc' = [pc EXCEPT ![s] = step]
         \/ row' = row /\ pc' = [pc EXCEPT ![s] = "ending"]
<1> DEFINE y == [x EXCEPT !.live = TRUE]
<1>1. /\ y \in Row /\ y.state = x.state /\ y.requested = x.requested
      /\ y.report = x.report /\ y.owner = x.owner /\ y.scanClaimed = x.scanClaimed
      /\ y.ingested = x.ingested
  BY DEF Row
<1>2. \/ row[on[s]].owner = s /\ SetRow(on[s], y) /\ pc' = [pc EXCEPT ![s] = step]
      \/ row' = row /\ pc' = [pc EXCEPT ![s] = "ending"]
  BY DEF Continue, Keeps, Run, Go
<1> HIDE DEF y
<1> QED  BY <1>1, <1>2, SetStores DEF Stored

\* The run was issued.
LEMMA FinishIssueKeeps ==
  ASSUME IInv, NEW s \in Starts, FinishIssue(s)
  PROVE  IInv' /\ ReportStep
<1> USE DEF IInv
<1> DEFINE y == [Run(s) EXCEPT !.verified = TRUE]
<1>r. on[s] \in Runs /\ row[on[s]] \in Row
  BY DEF FinishIssue, RunsSound, PaymentSound, TypeOK, Requests, Actions
<1>y. /\ y \in Row /\ y.state = row[on[s]].state /\ y.requested = row[on[s]].requested
      /\ y.report = row[on[s]].report /\ y.owner = row[on[s]].owner /\ y.scanClaimed = row[on[s]].scanClaimed /\ y.ingested = row[on[s]].ingested
  BY <1>r DEF Row, Run
<1>s. \/ row[on[s]].owner = s /\ Stored(on[s], y) /\ pc' = [pc EXCEPT ![s] = "authsync"]
      \/ row' = row /\ pc' = [pc EXCEPT ![s] = "ending"]
  BY <1>r, <1>y, ContinueFacts DEF FinishIssue, TypeOK
<1>n. answer' = [answer EXCEPT ![s] = "none"]
  BY DEF FinishIssue, Continue, Go
<1> HIDE DEF y
<1>1. TypeOK'
  BY <1>r, <1>y, <1>s, <1>n DEF FinishIssue, TypeOK, Requests, Stored
<1>2. RunsSound'
  BY <1>r, <1>y, <1>s, <1>n DEF FinishIssue, RunsSound, TypeOK, Requests, Runs, Actions, Stored
<1>3. PaymentSound'
  <2>1. \A t \in Runs : row'[t].state = row[t].state
    BY <1>r, <1>y, <1>s DEF Stored
  <2>2. \A x \in Requests : x = s \/ (pc'[x] = pc[x] /\ answer'[x] = answer[x])
    BY <1>s, <1>n DEF TypeOK, Requests
  <2>3. answer'[s] = "none" /\ on' = on /\ server' = server
    BY <1>n DEF TypeOK, Requests, FinishIssue
  <2> QED  BY <2>1, <2>2, <2>3 DEF PaymentSound, Terminal
<1>4. WithdrawalSound'
  <2>1. \A t \in Runs : row'[t].requested = row[t].requested /\ row'[t].state = row[t].state
    BY <1>r, <1>y, <1>s DEF Stored
  <2>2. \A z \in Requests : pc'[z] = "withdraw" \/ answer'[z] = "WITHDRAWN" =>
          (pc[z] = "withdraw" \/ answer[z] = "WITHDRAWN") /\ on[z] \in Runs
    BY <1>s, <1>n DEF RunsSound, TypeOK, Requests
  <2> QED  BY <2>1, <2>2 DEF WithdrawalSound, FinishIssue
<1>5. ReportSound'
  BY <1>r, <1>y, <1>s, <1>n DEF FinishIssue, ReportSound, RunsSound, TypeOK, Requests, Runs, Stored
<1>6. ScanClaimIsFree'
  BY <1>r, <1>y, <1>s, <1>n DEF FinishIssue, ScanClaimIsFree, Run, RunsSound, TypeOK, Requests, Runs, Stored
<1>7. LatestSound'
  BY <1>r, <1>y, <1>s, <1>n DEF FinishIssue, LatestSound, PaymentSound, RunsSound, TypeOK, Requests, Runs, Terminal, Stored
<1>8. ReportStep
  BY <1>r, <1>y, <1>s, <1>n, KeptIsAStep DEF FinishIssue, Stored, TypeOK, Requests
<1> QED  BY <1>1, <1>2, <1>3, <1>4, <1>5, <1>6, <1>7, <1>8

\* The answer is saved and the scan claimed, if the lease was kept.
LEMMA FinishAuthSyncKeeps ==
  ASSUME IInv, NEW s \in Starts, FinishAuthSync(s)
  PROVE  IInv' /\ ReportStep
<1> USE DEF IInv
<1>r. on[s] \in Runs /\ row[on[s]] \in Row /\ answer[s] \in States
  BY DEF FinishAuthSync, RunsSound, PaymentSound, TypeOK, Requests
<1>y. PICK y \in Row, step \in {"scan", "ending"} :
        /\ y.state = answer[s] /\ y.requested = row[on[s]].requested
        /\ y.report = row[on[s]].report /\ y.owner = row[on[s]].owner
        /\ y.ingested = row[on[s]].ingested
        /\ Continue(s, step, y)
  <2> DEFINE z == Synced(s)
             v == [z EXCEPT !.scanClaimed = TRUE]
  <2>1. dated[s] \in BOOLEAN
    BY DEF TypeOK, Requests
  <2>2. /\ z \in Row /\ z.state = answer[s] /\ z.requested = row[on[s]].requested
        /\ z.report = row[on[s]].report /\ z.owner = row[on[s]].owner
        /\ z.ingested = row[on[s]].ingested
    BY <1>r, <2>1 DEF Synced, Run, Row
  <2> HIDE DEF z
  <2>3. /\ v \in Row /\ v.state = z.state /\ v.requested = z.requested
        /\ v.report = z.report /\ v.owner = z.owner /\ v.ingested = z.ingested
    BY <2>2 DEF Row
  <2>4. Continue(s, "scan", v) \/ Continue(s, "ending", z)
    BY DEF FinishAuthSync, z
  <2> HIDE DEF v
  <2> QED  BY <2>2, <2>3, <2>4
<1>s. \/ row[on[s]].owner = s /\ Stored(on[s], y) /\ pc' = [pc EXCEPT ![s] = step]
      \/ row' = row /\ pc' = [pc EXCEPT ![s] = "ending"]
  BY <1>r, <1>y, ContinueFacts DEF TypeOK
<1>n. answer' = [answer EXCEPT ![s] = "none"]
  BY <1>y DEF Continue, Go
<1>1. TypeOK'
  BY <1>r, <1>y, <1>s, <1>n DEF FinishAuthSync, TypeOK, Requests, Stored
<1>2. RunsSound'
  BY <1>r, <1>y, <1>s, <1>n DEF FinishAuthSync, RunsSound, TypeOK, Requests, Runs, Actions, Stored
<1>3. PaymentSound'
  <2>1. \A t \in Runs : row'[t].state = row[t].state \/ (t = on[s] /\ row'[t].state = answer[s])
    BY <1>r, <1>y, <1>s DEF Stored
  <2>2. answer[s] \in Terminal => server[on[s]] \in Terminal
    BY DEF PaymentSound, Requests
  <2>3. \A t \in Runs : row'[t].state \in Terminal => server'[t] \in Terminal
    BY <2>1, <2>2 DEF PaymentSound, FinishAuthSync
  <2>4. \A x \in Requests : x = s \/ (pc'[x] = pc[x] /\ answer'[x] = answer[x])
    BY <1>s, <1>n DEF TypeOK, Requests
  <2> QED  BY <1>n, <2>3, <2>4 DEF PaymentSound, FinishAuthSync, TypeOK, Requests, Terminal
<1>4. WithdrawalSound'
  BY <1>r, <1>y, <1>s, <1>n DEF FinishAuthSync, WithdrawalSound, RunsSound, TypeOK, Requests, Runs, Actions, Stored
<1>5. ReportSound'
  BY <1>r, <1>y, <1>s, <1>n DEF FinishAuthSync, ReportSound, RunsSound, TypeOK, Requests, Runs, Stored
<1>6. ScanClaimIsFree'
  BY <1>r, <1>y, <1>s, <1>n DEF FinishAuthSync, ScanClaimIsFree, Run, RunsSound, TypeOK, Requests, Runs, Stored
<1>7. LatestSound'
  BY <1>r, <1>y, <1>s, <1>n DEF FinishAuthSync, LatestSound, PaymentSound, RunsSound, TypeOK, Requests, Runs, Terminal, Stored
<1>8. ReportStep
  BY <1>r, <1>y, <1>s, <1>n, KeptIsAStep DEF FinishAuthSync, Stored, TypeOK, Requests
<1> QED  BY <1>1, <1>2, <1>3, <1>4, <1>5, <1>6, <1>7, <1>8

\* The report is saved over none: its start held the lease all along.
LEMMA FinishScanKeeps ==
  ASSUME IInv, NEW s \in Starts, FinishScan(s)
  PROVE  IInv' /\ ReportStep
<1> USE DEF IInv
<1>r. on[s] \in Runs /\ row[on[s]] \in Row
  BY DEF FinishScan, RunsSound, TypeOK, Requests
<1>v. PICK v \in Reports : /\ Continue(s, "ingest", [Run(s) EXCEPT !.report = v])
                           /\ report' = [report EXCEPT ![s] = v]
  BY DEF FinishScan, Reports
<1> DEFINE y == [Run(s) EXCEPT !.report = v]
<1>y. /\ y \in Row /\ y.state = row[on[s]].state /\ y.requested = row[on[s]].requested
      /\ y.report = v /\ y.owner = row[on[s]].owner /\ y.scanClaimed = row[on[s]].scanClaimed
      /\ y.ingested = row[on[s]].ingested
  BY <1>r DEF Run, Row
<1> HIDE DEF y
<1>s. \/ row[on[s]].owner = s /\ Stored(on[s], y) /\ pc' = [pc EXCEPT ![s] = "ingest"]
      \/ row' = row /\ pc' = [pc EXCEPT ![s] = "ending"]
  BY <1>r, <1>v, <1>y, ContinueFacts DEF TypeOK, y
<1>n. /\ answer' = [answer EXCEPT ![s] = "none"] /\ report' = [report EXCEPT ![s] = v] /\ v # NoReport
      /\ pc[s] = "scan"
      /\ UNCHANGED <<latest, on, acked, dated, beat, recover, market, together, events>>
  BY <1>v DEF Continue, Go, FinishScan
<1>1. TypeOK'
  BY <1>r, <1>y, <1>s, <1>n DEF Requests, TypeOK, Stored
<1>2. RunsSound'
  BY <1>r, <1>y, <1>s, <1>n DEF Requests, RunsSound, TypeOK, Runs, Actions, Stored
<1>3. PaymentSound'
  <2>1. \A t \in Runs : row'[t].state = row[t].state
    BY <1>r, <1>y, <1>s DEF Stored
  <2>2. \A x \in Requests : x = s \/ (pc'[x] = pc[x] /\ answer'[x] = answer[x])
    BY <1>s, <1>n DEF TypeOK, Requests
  <2>3. answer'[s] = "none" /\ on' = on /\ server' = server
    BY <1>n DEF TypeOK, Requests
  <2> QED  BY <2>1, <2>2, <2>3 DEF PaymentSound, Terminal
<1>4. WithdrawalSound'
  <2>1. \A t \in Runs : row'[t].requested = row[t].requested /\ row'[t].state = row[t].state
    BY <1>r, <1>y, <1>s DEF Stored
  <2>2. \A z \in Requests : pc'[z] = "withdraw" \/ answer'[z] = "WITHDRAWN" =>
          (pc[z] = "withdraw" \/ answer[z] = "WITHDRAWN") /\ on[z] \in Runs
    BY <1>s, <1>n DEF RunsSound, TypeOK, Requests
  <2> QED  BY <1>n, <2>1, <2>2 DEF WithdrawalSound
<1>5. ReportSound'
  <2> SUFFICES ASSUME NEW z \in Starts
               PROVE  /\ pc'[z] \in {"issue", "authsync", "scan"} /\ row'[on[z]].owner = z =>
                           row'[on[z]].report = NoReport
                      /\ pc'[z] = "ingest" =>
                           /\ report'[z] # NoReport /\ report'[z] = row'[on[z]].report
                           /\ answer'[z] # "none" => report'[z] \in received[on[z]]
    BY <1>n DEF ReportSound
  <2>1. CASE row' = row
    <3>1. \A t \in Runs : row'[t] = row[t]
      BY <2>1
    <3>2. pc' = [pc EXCEPT ![s] = "ending"] \/ (pc' = [pc EXCEPT ![s] = "ingest"] /\ row[on[s]].report = v)
      BY <1>r, <1>y, <1>s, <2>1 DEF Stored
    <3>3. CASE z = s
      BY <1>r, <1>n, <2>1, <3>2, <3>3 DEF TypeOK, Requests
    <3>4. CASE z # s
      BY <1>n, <2>1, <3>2, <3>4 DEF ReportSound, TypeOK, Requests
    <3> QED  BY <3>3, <3>4
  <2>2. CASE row[on[s]].owner = s /\ Stored(on[s], y) /\ pc' = [pc EXCEPT ![s] = "ingest"]
    <3>1. \A t \in Runs : row'[t].report = (IF t = on[s] THEN v ELSE row[t].report) /\ row'[t].owner = row[t].owner
      BY <1>r, <1>y, <2>2 DEF Stored
    <3>2. row[on[s]].report = NoReport
      BY <1>n, <2>2 DEF ReportSound
    <3>3. pc'[z] \in {"issue", "authsync", "scan", "ingest"} => on[z] \in Runs
      BY <1>r, <2>2 DEF RunsSound, TypeOK, Requests
    <3>4. z # s => pc'[z] = pc[z] /\ report'[z] = report[z] /\ answer'[z] = answer[z]
      BY <1>n, <2>2 DEF TypeOK, Requests
    <3>5. CASE z = s
      BY <1>r, <1>n, <2>2, <3>1, <3>5 DEF TypeOK, Requests
    <3>6. CASE z # s
      BY <1>n, <2>2, <3>1, <3>2, <3>3, <3>4, <3>6 DEF ReportSound
    <3> QED  BY <3>5, <3>6
  <2> QED  BY <1>s, <2>1, <2>2
<1>6. ScanClaimIsFree'
  BY <1>r, <1>y, <1>s, <1>n DEF Requests, ScanClaimIsFree, Run, RunsSound, TypeOK, Runs, Stored
<1>7. LatestSound'
  BY <1>r, <1>y, <1>s, <1>n DEF Requests, LatestSound, PaymentSound, RunsSound, TypeOK, Runs, Terminal, Stored
<1>8. ReportStep
  <2>1. CASE row' = row
    BY <1>n, <2>1, KeptIsAStep
  <2>2. CASE row[on[s]].owner = s /\ Stored(on[s], y)
    <3>1. row[on[s]].report = NoReport
      BY <1>n, <2>2 DEF ReportSound
    <3>2. \A t \in Runs : row'[t].report = IF t = on[s] THEN v ELSE row[t].report
      BY <1>y, <2>2 DEF Stored
    <3>3. \A t \in Runs : row'[t].ingested = row[t].ingested
      BY <1>y, <2>2 DEF Stored
    <3>4. Report!Persist(on[s], v)
      BY <1>r, <1>n, <3>1, <3>2, <3>3 DEF Report!Persist
    <3>5. \E t \in Runs : \E w \in Reports : Report!Persist(t, w)
      BY <1>r, <3>4
    <3> QED  BY ONLY <3>5 DEF ReportStep, Report!ReportNext
  <2> QED  BY <1>s, <2>1, <2>2
<1> QED  BY <1>1, <1>2, <1>3, <1>4, <1>5, <1>6, <1>7, <1>8

\* The report that was sent is the one in the row.
LEMMA FinishIngestKeeps ==
  ASSUME IInv, NEW s \in Starts, FinishIngest(s)
  PROVE  IInv' /\ ReportStep
<1> USE DEF IInv
<1> DEFINE y == [Run(s) EXCEPT !.ingested = TRUE]
<1>r. on[s] \in Runs /\ row[on[s]] \in Row
  BY DEF FinishIngest, RunsSound, PaymentSound, TypeOK, Requests, Actions
<1>y. /\ y \in Row /\ y.state = row[on[s]].state /\ y.requested = row[on[s]].requested
      /\ y.report = row[on[s]].report /\ y.owner = row[on[s]].owner /\ y.scanClaimed = row[on[s]].scanClaimed /\ y.ingested = TRUE
  BY <1>r DEF Row, Run
<1>s. \/ row[on[s]].owner = s /\ Stored(on[s], y) /\ pc' = [pc EXCEPT ![s] = "lastsync"]
      \/ row' = row /\ pc' = [pc EXCEPT ![s] = "ending"]
  BY <1>r, <1>y, ContinueFacts DEF FinishIngest, TypeOK
<1>n. answer' = [answer EXCEPT ![s] = "none"]
  BY DEF FinishIngest, Continue, Go
<1> HIDE DEF y
<1>1. TypeOK'
  BY <1>r, <1>y, <1>s, <1>n DEF FinishIngest, TypeOK, Requests, Stored
<1>2. RunsSound'
  BY <1>r, <1>y, <1>s, <1>n DEF FinishIngest, RunsSound, TypeOK, Requests, Runs, Actions, Stored
<1>3. PaymentSound'
  <2>1. \A t \in Runs : row'[t].state = row[t].state
    BY <1>r, <1>y, <1>s DEF Stored
  <2>2. \A x \in Requests : x = s \/ (pc'[x] = pc[x] /\ answer'[x] = answer[x])
    BY <1>s, <1>n DEF TypeOK, Requests
  <2>3. answer'[s] = "none" /\ on' = on /\ server' = server
    BY <1>n DEF TypeOK, Requests, FinishIngest
  <2> QED  BY <2>1, <2>2, <2>3 DEF PaymentSound, Terminal
<1>4. WithdrawalSound'
  BY <1>r, <1>y, <1>s, <1>n DEF FinishIngest, WithdrawalSound, RunsSound, TypeOK, Requests, Runs, Actions, Stored
<1>5. ReportSound'
  BY <1>r, <1>y, <1>s, <1>n DEF FinishIngest, ReportSound, RunsSound, TypeOK, Requests, Runs, Stored
<1>6. ScanClaimIsFree'
  BY <1>r, <1>y, <1>s, <1>n DEF FinishIngest, ScanClaimIsFree, Run, RunsSound, TypeOK, Requests, Runs, Stored
<1>7. LatestSound'
  BY <1>r, <1>y, <1>s, <1>n DEF FinishIngest, LatestSound, PaymentSound, RunsSound, TypeOK, Requests, Runs, Terminal, Stored
<1>8. ReportStep
  <2>1. CASE row' = row
    BY <2>1, KeptIsAStep DEF FinishIngest
  <2>2. CASE Stored(on[s], y)
    <3>1. row[on[s]].report \in Reports /\ row[on[s]].report \in received[on[s]]
      BY <1>r DEF FinishIngest, ReportSound, TypeOK
    <3>2. \A t \in Runs : row'[t].report = row[t].report
      BY <1>y, <2>2 DEF Stored
    <3>3. \A t \in Runs : row'[t].ingested <=> row[t].ingested \/ t = on[s]
      BY <1>y, <2>2 DEF Stored
    <3>4. PICK r \in Runs : r = on[s]
      BY <1>r
    <3>5. Report!Accept(r)
      BY <3>1, <3>2, <3>3, <3>4 DEF Report!Accept, FinishIngest
    <3>6. \E t \in Runs : Report!Accept(t)
      BY ONLY <3>5
    <3> QED  BY ONLY <3>6 DEF ReportStep, Report!ReportNext
  <2> QED  BY <1>s, <2>1, <2>2
<1> QED  BY <1>1, <1>2, <1>3, <1>4, <1>5, <1>6, <1>7, <1>8

\* The state after the report is saved, if the lease was kept.
LEMMA FinishLastSyncKeeps ==
  ASSUME IInv, NEW s \in Starts, FinishLastSync(s)
  PROVE  IInv' /\ ReportStep
<1> USE DEF IInv
<1> DEFINE y == Synced(s)
<1>r. on[s] \in Runs /\ row[on[s]] \in Row /\ answer[s] \in States
  BY DEF FinishLastSync, RunsSound, PaymentSound, TypeOK, Requests, Actions
<1>y. /\ y \in Row /\ y.state = answer[s] /\ y.requested = row[on[s]].requested
      /\ y.report = row[on[s]].report /\ y.owner = row[on[s]].owner /\ y.scanClaimed = row[on[s]].scanClaimed /\ y.ingested = row[on[s]].ingested
  BY <1>r DEF Row, Synced, Run, TypeOK, Requests
<1>s. \/ row[on[s]].owner = s /\ Stored(on[s], y) /\ pc' = [pc EXCEPT ![s] = "ending"]
      \/ row' = row /\ pc' = [pc EXCEPT ![s] = "ending"]
  BY <1>r, <1>y, ContinueFacts DEF FinishLastSync, TypeOK
<1>n. answer' = [answer EXCEPT ![s] = "none"]
  BY DEF FinishLastSync, Continue, Go
<1> HIDE DEF y
<1>1. TypeOK'
  BY <1>r, <1>y, <1>s, <1>n DEF FinishLastSync, TypeOK, Requests, Stored
<1>2. RunsSound'
  BY <1>r, <1>y, <1>s, <1>n DEF FinishLastSync, RunsSound, TypeOK, Requests, Runs, Actions, Stored
<1>3. PaymentSound'
  BY <1>r, <1>y, <1>s, <1>n DEF FinishLastSync, PaymentSound, RunsSound, TypeOK, Requests, Runs, Actions, Terminal, Stored
<1>4. WithdrawalSound'
  BY <1>r, <1>y, <1>s, <1>n DEF FinishLastSync, WithdrawalSound, RunsSound, TypeOK, Requests, Runs, Actions, Stored
<1>5. ReportSound'
  BY <1>r, <1>y, <1>s, <1>n DEF FinishLastSync, ReportSound, RunsSound, TypeOK, Requests, Runs, Stored
<1>6. ScanClaimIsFree'
  BY <1>r, <1>y, <1>s, <1>n DEF FinishLastSync, ScanClaimIsFree, Run, RunsSound, TypeOK, Requests, Runs, Stored
<1>7. LatestSound'
  BY <1>r, <1>y, <1>s, <1>n DEF FinishLastSync, LatestSound, PaymentSound, RunsSound, TypeOK, Requests, Runs, Terminal, Stored
<1>8. ReportStep
  BY <1>r, <1>y, <1>s, <1>n, KeptIsAStep DEF FinishLastSync, Stored, TypeOK, Requests
<1> QED  BY <1>1, <1>2, <1>3, <1>4, <1>5, <1>6, <1>7, <1>8

\* A refresh touches no row.
LEMMA BeginSyncKeeps ==
  ASSUME IInv, NEW x \in Requests, x \in Syncs, BeginSync(x)
  PROVE  IInv' /\ ReportStep
<1> USE DEF IInv
<1>1. TypeOK'
  BY DEF BeginSync, Event, Go, TypeOK, RunsSound, PaymentSound, States, Actions, Requests, Runs
<1>2. RunsSound'
  BY DEF BeginSync, Event, Go, RunsSound, TypeOK, Requests, Runs, Actions
<1>3. PaymentSound'
  BY DEF BeginSync, Event, Go, PaymentSound, RunsSound, TypeOK, Requests, Runs, Actions, Terminal, States
<1>4. WithdrawalSound'
  BY DEF BeginSync, Event, Go, WithdrawalSound, RunsSound, TypeOK, Requests, Runs, Actions
<1>5. ReportSound'
  BY DEF BeginSync, Event, Go, ReportSound, RunsSound, TypeOK, Requests, Runs
<1>6. ScanClaimIsFree'
  BY DEF BeginSync, Event, Go, ScanClaimIsFree, Run, RunsSound, TypeOK, Requests, Runs
<1>7. LatestSound'
  BY DEF BeginSync, Event, Go, LatestSound, PaymentSound, RunsSound, TypeOK, Requests, Runs, Terminal
<1>8. ReportStep
  BY KeptIsAStep DEF BeginSync, Event, Go, TypeOK, Requests
<1> QED  BY <1>1, <1>2, <1>3, <1>4, <1>5, <1>6, <1>7, <1>8

\* A refresh saves a state the marketplace was in.
LEMMA EndSyncKeeps ==
  ASSUME IInv, NEW x \in Requests, EndSync(x)
  PROVE  IInv' /\ ReportStep
<1> USE DEF IInv
<1> DEFINE y == Synced(x)
<1>r. on[x] \in Runs /\ row[on[x]] \in Row /\ answer[x] \in States
  BY DEF EndSync, RunsSound, PaymentSound, TypeOK, Requests, Actions
<1>y. /\ y \in Row /\ y.state = answer[x] /\ y.requested = row[on[x]].requested
      /\ y.report = row[on[x]].report /\ y.owner = row[on[x]].owner /\ y.scanClaimed = row[on[x]].scanClaimed /\ y.ingested = row[on[x]].ingested
  BY <1>r DEF Row, Synced, Run, TypeOK, Requests
<1>s. Stored(on[x], y)
  BY <1>r, <1>y, SetStores DEF EndSync, TypeOK
<1> HIDE DEF y
<1>1. TypeOK'
  BY <1>r, <1>y, <1>s DEF EndSync, Done, TypeOK, Requests, Stored
<1>2. RunsSound'
  BY <1>r, <1>y, <1>s DEF EndSync, Done, RunsSound, TypeOK, Requests, Runs, Actions, Stored
<1>3. PaymentSound'
  BY <1>r, <1>y, <1>s DEF EndSync, Done, PaymentSound, RunsSound, TypeOK, Requests, Runs, Actions, Terminal, Stored
<1>4. WithdrawalSound'
  BY <1>r, <1>y, <1>s DEF EndSync, Done, WithdrawalSound, RunsSound, TypeOK, Requests, Runs, Actions, Stored
<1>5. ReportSound'
  BY SMTT(30), <1>r, <1>y, <1>s DEF EndSync, Done, ReportSound, RunsSound, TypeOK, Requests, Runs, Stored
<1>6. ScanClaimIsFree'
  BY <1>r, <1>y, <1>s DEF EndSync, Done, ScanClaimIsFree, Run, RunsSound, TypeOK, Requests, Runs, Stored
<1>7. LatestSound'
  BY <1>r, <1>y, <1>s DEF EndSync, Done, LatestSound, PaymentSound, RunsSound, TypeOK, Requests, Runs, Terminal, Stored
<1>8. ReportStep
  BY <1>r, <1>y, <1>s, KeptIsAStep DEF EndSync, Done, Stored, TypeOK, Requests
<1> QED  BY <1>1, <1>2, <1>3, <1>4, <1>5, <1>6, <1>7, <1>8

\* A withdrawal is noted in the row before it is asked for.
LEMMA BeginCommandKeeps ==
  ASSUME IInv, NEW m \in Commands, NEW a \in Actions, BeginCommand(m, a)
  PROVE  IInv' /\ ReportStep
<1> USE DEF IInv
<1> DEFINE y == [row[latest] EXCEPT !.requested = @ \/ a = "withdraw"]
<1>r. latest \in Runs /\ row[latest] \in Row
  BY DEF BeginCommand, RunsSound, PaymentSound, TypeOK, Requests, Actions
<1>y. /\ y \in Row /\ y.state = row[latest].state /\ y.requested = (row[latest].requested \/ a = "withdraw")
      /\ y.report = row[latest].report /\ y.owner = row[latest].owner /\ y.scanClaimed = row[latest].scanClaimed /\ y.ingested = row[latest].ingested
  BY <1>r DEF Row, Run
<1>s. Stored(latest, y)
  BY <1>r, <1>y, SetStores DEF BeginCommand, TypeOK
<1> HIDE DEF y
<1>1. TypeOK'
  BY <1>r, <1>y, <1>s DEF BeginCommand, Allowed, Event, Go, TypeOK, Requests, Stored
<1>2. RunsSound'
  BY <1>r, <1>y, <1>s DEF BeginCommand, Allowed, Event, Go, RunsSound, TypeOK, Requests, Runs, Actions, Stored
<1>3. PaymentSound'
  BY <1>r, <1>y, <1>s DEF BeginCommand, Allowed, Event, Go, PaymentSound, RunsSound, TypeOK, Requests, Runs, Actions, Terminal, Stored
<1>4. WithdrawalSound'
  <2>1. \A t \in Runs : row[t].requested => row'[t].requested
    BY <1>r, <1>y, <1>s DEF Stored
  <2>2. \A t \in Runs : row'[t].state = row[t].state
    BY <1>r, <1>y, <1>s DEF Stored
  <2>3. \A z \in Requests : z # m => pc'[z] = pc[z] /\ answer'[z] = answer[z] /\ on'[z] = on[z]
    BY DEF BeginCommand, Go, TypeOK, Requests
  <2>4. answer'[m] = "none" /\ on'[m] = latest /\ (pc'[m] = "withdraw" => row'[latest].requested)
    BY <1>r, <1>y, <1>s DEF BeginCommand, Go, TypeOK, Requests, Stored
  <2>5. \A z \in Requests : pc[z] = "withdraw" \/ answer[z] = "WITHDRAWN" => on[z] \in Runs
    BY DEF RunsSound
  <2> QED  BY <1>r, <2>1, <2>2, <2>3, <2>4, <2>5 DEF WithdrawalSound, BeginCommand
<1>5. ReportSound'
  BY <1>r, <1>y, <1>s DEF BeginCommand, Allowed, Event, Go, ReportSound, RunsSound, TypeOK, Requests, Runs, Stored
<1>6. ScanClaimIsFree'
  BY <1>r, <1>y, <1>s DEF BeginCommand, Allowed, Event, Go, ScanClaimIsFree, Run, RunsSound, TypeOK, Requests, Runs, Stored
<1>7. LatestSound'
  BY <1>r, <1>y, <1>s DEF BeginCommand, Allowed, Event, Go, LatestSound, PaymentSound, RunsSound, TypeOK, Requests, Runs, Terminal, Stored
<1>8. ReportStep
  BY <1>r, <1>y, <1>s, KeptIsAStep DEF BeginCommand, Allowed, Event, Go, Stored, TypeOK, Requests
<1> QED  BY <1>1, <1>2, <1>3, <1>4, <1>5, <1>6, <1>7, <1>8

\* A command saves the state it was answered with.
LEMMA FinishCommandKeeps ==
  ASSUME IInv, NEW m \in Commands, FinishCommand(m)
  PROVE  IInv' /\ ReportStep
<1> USE DEF IInv
<1> DEFINE y == [Run(m) EXCEPT !.state = answer[m], !.withdrawn = @ \/ pc[m] = "withdraw"]
<1>r. on[m] \in Runs /\ row[on[m]] \in Row /\ answer[m] \in States
  BY DEF FinishCommand, RunsSound, PaymentSound, TypeOK, Requests, Actions
<1>y. /\ y \in Row /\ y.state = answer[m] /\ y.requested = row[on[m]].requested
      /\ y.report = row[on[m]].report /\ y.owner = row[on[m]].owner /\ y.scanClaimed = row[on[m]].scanClaimed /\ y.ingested = row[on[m]].ingested
  BY <1>r DEF Row, Run
<1>s. Stored(on[m], y)
  BY <1>r, <1>y, SetStores DEF FinishCommand, TypeOK
<1> HIDE DEF y
<1>1. TypeOK'
  BY <1>r, <1>y, <1>s DEF FinishCommand, Done, TypeOK, Requests, Stored
<1>2. RunsSound'
  BY <1>r, <1>y, <1>s DEF FinishCommand, Done, RunsSound, TypeOK, Requests, Runs, Actions, Stored
<1>3. PaymentSound'
  BY <1>r, <1>y, <1>s DEF FinishCommand, Done, PaymentSound, RunsSound, TypeOK, Requests, Runs, Actions, Terminal, Stored
<1>4. WithdrawalSound'
  BY <1>r, <1>y, <1>s DEF FinishCommand, Done, WithdrawalSound, RunsSound, TypeOK, Requests, Runs, Actions, Stored
<1>5. ReportSound'
  BY <1>r, <1>y, <1>s DEF FinishCommand, Done, ReportSound, RunsSound, TypeOK, Requests, Runs, Stored
<1>6. ScanClaimIsFree'
  BY <1>r, <1>y, <1>s DEF FinishCommand, Done, ScanClaimIsFree, Run, RunsSound, TypeOK, Requests, Runs, Stored
<1>7. LatestSound'
  BY <1>r, <1>y, <1>s DEF FinishCommand, Done, LatestSound, PaymentSound, RunsSound, TypeOK, Requests, Runs, Terminal, Stored
<1>8. ReportStep
  BY <1>r, <1>y, <1>s, KeptIsAStep DEF FinishCommand, Done, Stored, TypeOK, Requests
<1> QED  BY <1>1, <1>2, <1>3, <1>4, <1>5, <1>6, <1>7, <1>8

\* What a command that is carried out does to its run.
Served(m) ==
  /\ received' = received
  /\ server' = [server EXCEPT ![on[m]] = server'[on[m]]]
  /\ server[on[m]] \in {"AUTHORIZING", "AUTHORIZED", "CAPTURED", "PUBLISHED"}
  /\ server'[on[m]] \in {"PUBLISHED", "WITHDRAWN", "over"}
  /\ server'[on[m]] = "WITHDRAWN" => pc[m] = "withdraw"

LEMMA ServeFacts ==
  ASSUME TypeOK, NEW m \in Requests, on[m] \in Runs, ServeCommand(m)
  PROVE  Served(m)
BY DEF ServeCommand, Served, TypeOK

\* Only the latest run is issued, unless quotes overlap: any other is over.
LEMMA AnswerIssueKeeps ==
  ASSUME IInv, NEW s \in Starts, AnswerIssue(s)
  PROVE  IInv' /\ ReportStep
<1> USE DEF IInv
<1>1. TypeOK'
  BY DEF AnswerIssue, Awaits, ServeIssue, Reply, market, TypeOK, RunsSound, PaymentSound, States, Actions, Requests, Runs
<1>2. RunsSound'
  BY DEF AnswerIssue, Awaits, ServeIssue, Reply, market, RunsSound, TypeOK, Requests, Runs, Actions
<1>3. PaymentSound'
  BY DEF AnswerIssue, Awaits, ServeIssue, Reply, market, PaymentSound, RunsSound, TypeOK, Requests, Runs, Actions, Terminal, States
<1>4. WithdrawalSound'
  BY DEF AnswerIssue, Awaits, ServeIssue, Reply, market, WithdrawalSound, RunsSound, TypeOK, Requests, Runs, Actions
<1>5. ReportSound'
  BY DEF AnswerIssue, Awaits, ServeIssue, Reply, market, ReportSound, RunsSound, TypeOK, Requests, Runs
<1>6. ScanClaimIsFree'
  BY DEF AnswerIssue, Awaits, ServeIssue, Reply, market, ScanClaimIsFree, Run, RunsSound, TypeOK, Requests, Runs
<1>7. LatestSound'
  BY DEF AnswerIssue, Awaits, ServeIssue, Reply, market, LatestSound, PaymentSound, RunsSound, TypeOK, Requests, Runs, Terminal
<1>8. ReportStep
  BY KeptIsAStep DEF AnswerIssue, Awaits, ServeIssue, Reply, market, TypeOK, Requests
<1> QED  BY <1>1, <1>2, <1>3, <1>4, <1>5, <1>6, <1>7, <1>8

\* A status answers what the marketplace holds.
LEMMA AnswerStatusKeeps ==
  ASSUME IInv, NEW x \in Requests, AnswerStatus(x)
  PROVE  IInv' /\ ReportStep
<1> USE DEF IInv
<1>1. TypeOK'
  BY DEF AnswerStatus, Awaits, Reply, market, TypeOK, RunsSound, PaymentSound, States, Actions, Requests, Runs
<1>2. RunsSound'
  BY DEF AnswerStatus, Awaits, Reply, market, RunsSound, TypeOK, Requests, Runs, Actions
<1>3. PaymentSound'
  BY DEF AnswerStatus, Awaits, Reply, market, PaymentSound, RunsSound, TypeOK, Requests, Runs, Actions, Terminal, States
<1>4. WithdrawalSound'
  BY DEF AnswerStatus, Awaits, Reply, market, WithdrawalSound, RunsSound, TypeOK, Requests, Runs, Actions
<1>5. ReportSound'
  BY DEF AnswerStatus, Awaits, Reply, market, ReportSound, RunsSound, TypeOK, Requests, Runs
<1>6. ScanClaimIsFree'
  BY DEF AnswerStatus, Awaits, Reply, market, ScanClaimIsFree, Run, RunsSound, TypeOK, Requests, Runs
<1>7. LatestSound'
  BY DEF AnswerStatus, Awaits, Reply, market, LatestSound, PaymentSound, RunsSound, TypeOK, Requests, Runs, Terminal
<1>8. ReportStep
  BY KeptIsAStep DEF AnswerStatus, Awaits, Reply, market, TypeOK, Requests
<1> QED  BY <1>1, <1>2, <1>3, <1>4, <1>5, <1>6, <1>7, <1>8

\* The marketplace gets the report of the row.
LEMMA AnswerIngestKeeps ==
  ASSUME IInv, NEW s \in Starts, AnswerIngest(s)
  PROVE  IInv' /\ ReportStep
<1> USE DEF IInv
<1>1. TypeOK'
  <2>1. on[s] \in Runs /\ report[s] \in Reports
    BY DEF AnswerIngest, Awaits, RunsSound, ReportSound, TypeOK, Requests
  <2>2. received' \in [Runs -> SUBSET Reports]
    BY <2>1 DEF AnswerIngest, ServeIngest, TypeOK
  <2>3. server' \in [Runs -> (States \ {"QUOTED"}) \cup {"none"}]
    BY <2>1 DEF AnswerIngest, ServeIngest, TypeOK, States
  <2> QED  BY <2>2, <2>3 DEF AnswerIngest, Reply, TypeOK, Requests
<1>2. RunsSound'
  BY DEF AnswerIngest, Awaits, ServeIngest, Reply, RunsSound, TypeOK, Requests, Runs, Actions
<1>3. PaymentSound'
  BY DEF AnswerIngest, Awaits, ServeIngest, Reply, PaymentSound, RunsSound, TypeOK, Requests, Runs, Actions, Terminal, States
<1>4. WithdrawalSound'
  BY DEF AnswerIngest, Awaits, ServeIngest, Reply, WithdrawalSound, RunsSound, TypeOK, Requests, Runs, Actions
<1>5. ReportSound'
  BY DEF AnswerIngest, Awaits, ServeIngest, Reply, ReportSound, RunsSound, TypeOK, Requests, Runs
<1>6. ScanClaimIsFree'
  BY DEF AnswerIngest, Awaits, ServeIngest, Reply, ScanClaimIsFree, Run, RunsSound, TypeOK, Requests, Runs
<1>7. LatestSound'
  BY DEF AnswerIngest, Awaits, ServeIngest, Reply, LatestSound, PaymentSound, RunsSound, TypeOK, Requests, Runs, Terminal
<1>8. ReportStep
  <2>1. on[s] \in Runs /\ report[s] \in Reports /\ report[s] = row[on[s]].report
    BY DEF AnswerIngest, Awaits, RunsSound, ReportSound, TypeOK, Requests
  <2> QED  BY <2>1, DeliveryIsAStep DEF AnswerIngest, Reply
<1> QED  BY <1>1, <1>2, <1>3, <1>4, <1>5, <1>6, <1>7, <1>8

\* A command moves a payment on, never back.
LEMMA AnswerCommandKeeps ==
  ASSUME IInv, NEW m \in Commands, AnswerCommand(m)
  PROVE  IInv' /\ ReportStep
<1> USE DEF IInv
<1>r. on[m] \in Runs /\ pc[m] \in Actions
  BY DEF AnswerCommand, Awaits, RunsSound, Requests, Actions
<1>s. Served(m)
  BY <1>r, ServeFacts DEF AnswerCommand, Requests
<1>1. TypeOK'
  BY <1>r, <1>s DEF AnswerCommand, Awaits, Reply, Served, States, TypeOK, Requests
<1>2. RunsSound'
  BY <1>r, <1>s DEF AnswerCommand, Awaits, Reply, Served, RunsSound, TypeOK, Requests, Runs, Actions
<1>3. PaymentSound'
  BY SMTT(30), <1>r, <1>s DEF AnswerCommand, Awaits, Reply, Served, PaymentSound, RunsSound, TypeOK, Requests, Runs, Actions,
     Terminal, States
<1>4. WithdrawalSound'
  BY <1>r, <1>s DEF AnswerCommand, Awaits, Reply, Served, WithdrawalSound, RunsSound, TypeOK, Requests, Runs, Actions
<1>5. ReportSound'
  BY <1>r, <1>s DEF AnswerCommand, Awaits, Reply, Served, ReportSound, RunsSound, TypeOK, Requests, Runs
<1>6. ScanClaimIsFree'
  BY <1>r, <1>s DEF AnswerCommand, Awaits, Reply, Served, ScanClaimIsFree, Run, RunsSound, TypeOK, Requests, Runs
<1>7. LatestSound'
  BY <1>r, <1>s DEF AnswerCommand, Awaits, Reply, Served, LatestSound, PaymentSound, RunsSound, TypeOK, Requests, Runs, Terminal
<1>8. ReportStep
  BY <1>r, <1>s, KeptIsAStep DEF AnswerCommand, Awaits, Reply, Served, TypeOK, Requests
<1> QED  BY <1>1, <1>2, <1>3, <1>4, <1>5, <1>6, <1>7, <1>8

\* What failed may have been done.
LEMMA StartFailsKeeps ==
  ASSUME IInv, NEW s \in Starts, StartFails(s)
  PROVE  IInv' /\ ReportStep
<1> USE DEF IInv
<1>1. TypeOK'
  <2>1. on[s] \in Runs /\ (pc[s] = "ingest" => report[s] \in Reports)
    BY DEF StartFails, Awaits, RunsSound, ReportSound, TypeOK, Requests
  <2>2. received' \in [Runs -> SUBSET Reports]
    BY <2>1 DEF StartFails, Awaits, ServeIssue, ServeIngest, TypeOK
  <2>3. server' \in [Runs -> (States \ {"QUOTED"}) \cup {"none"}]
    BY <2>1 DEF StartFails, Awaits, ServeIssue, ServeIngest, TypeOK, States
  <2> QED  BY <2>2, <2>3 DEF StartFails, Go, TypeOK, Requests
<1>2. RunsSound'
  BY DEF StartFails, Awaits, ServeIssue, ServeIngest, market, Go, RunsSound, TypeOK, Requests, Runs, Actions
<1>3. PaymentSound'
  BY DEF StartFails, Awaits, ServeIssue, ServeIngest, market, Go, PaymentSound, RunsSound, TypeOK, Requests, Runs, Actions, Terminal, States
<1>4. WithdrawalSound'
  BY DEF StartFails, Awaits, ServeIssue, ServeIngest, market, Go, WithdrawalSound, RunsSound, TypeOK, Requests, Runs, Actions
<1>5. ReportSound'
  BY DEF StartFails, Awaits, ServeIssue, ServeIngest, market, Go, ReportSound, RunsSound, TypeOK, Requests, Runs
<1>6. ScanClaimIsFree'
  BY DEF StartFails, Awaits, ServeIssue, ServeIngest, market, Go, ScanClaimIsFree, Run, RunsSound, TypeOK, Requests, Runs
<1>7. LatestSound'
  BY DEF StartFails, Awaits, ServeIssue, ServeIngest, market, Go, LatestSound, PaymentSound, RunsSound, TypeOK, Requests, Runs, Terminal
<1>8. ReportStep
  <2>1. CASE ServeIngest(s) /\ pc[s] = "ingest"
    <3>1. on[s] \in Runs /\ report[s] \in Reports /\ report[s] = row[on[s]].report
      BY <2>1 DEF RunsSound, ReportSound, TypeOK, Requests
    <3> QED  BY <2>1, <3>1, DeliveryIsAStep DEF StartFails
  <2>2. CASE received' = received
    BY <2>2, KeptIsAStep DEF StartFails
  <2> QED  BY <2>1, <2>2 DEF StartFails, Awaits, ServeIssue, market
<1> QED  BY <1>1, <1>2, <1>3, <1>4, <1>5, <1>6, <1>7, <1>8

\* What failed may have been done.
LEMMA RequestFailsKeeps ==
  ASSUME IInv, NEW x \in Requests, RequestFails(x)
  PROVE  IInv' /\ ReportStep
<1> USE DEF IInv
<1>s. UNCHANGED market \/ (pc[x] \in Actions /\ on[x] \in Runs /\ Served(x))
  <2>1. CASE pc[x] \in Actions
    <3>1. on[x] \in Runs
      BY <2>1 DEF RunsSound, Requests, Actions
    <3> QED  BY <2>1, <3>1, ServeFacts DEF RequestFails, Awaits, Actions
  <2>2. CASE pc[x] \notin Actions
    BY <2>2 DEF RequestFails, Awaits
  <2> QED  BY <2>1, <2>2
<1>1. TypeOK'
  BY <1>s DEF RequestFails, Awaits, Done, Served, States, TypeOK, Requests
<1>2. RunsSound'
  BY <1>s DEF RequestFails, Awaits, Done, Served, RunsSound, TypeOK, Requests, Runs, Actions
<1>3. PaymentSound'
  BY SMTT(30), <1>s DEF RequestFails, Awaits, Done, Served, PaymentSound, RunsSound, TypeOK, Requests, Runs, Actions,
     Terminal, States
<1>4. WithdrawalSound'
  BY <1>s DEF RequestFails, Awaits, Done, Served, WithdrawalSound, RunsSound, TypeOK, Requests, Runs, Actions
<1>5. ReportSound'
  BY <1>s DEF RequestFails, Awaits, Done, Served, ReportSound, RunsSound, TypeOK, Requests, Runs
<1>6. ScanClaimIsFree'
  BY <1>s DEF RequestFails, Awaits, Done, Served, ScanClaimIsFree, Run, RunsSound, TypeOK, Requests, Runs
<1>7. LatestSound'
  BY <1>s DEF RequestFails, Awaits, Done, Served, LatestSound, PaymentSound, RunsSound, TypeOK, Requests, Runs, Terminal
<1>8. ReportStep
  BY <1>s, KeptIsAStep DEF RequestFails, Awaits, Done, Served, TypeOK, Requests
<1> QED  BY <1>1, <1>2, <1>3, <1>4, <1>5, <1>6, <1>7, <1>8

\* A payment is authorised or over.
LEMMA AuthorizeKeeps ==
  ASSUME IInv, NEW r \in Runs, Authorize(r)
  PROVE  IInv' /\ ReportStep
<1> USE DEF IInv
<1>1. TypeOK'
  BY DEF Authorize, TypeOK, RunsSound, PaymentSound, States, Actions, Requests, Runs
<1>2. RunsSound'
  BY DEF Authorize, RunsSound, TypeOK, Requests, Runs, Actions
<1>3. PaymentSound'
  BY DEF Authorize, PaymentSound, RunsSound, TypeOK, Requests, Runs, Actions, Terminal, States
<1>4. WithdrawalSound'
  BY DEF Authorize, WithdrawalSound, RunsSound, TypeOK, Requests, Runs, Actions
<1>5. ReportSound'
  BY DEF Authorize, ReportSound, RunsSound, TypeOK, Requests, Runs
<1>6. ScanClaimIsFree'
  BY DEF Authorize, ScanClaimIsFree, Run, RunsSound, TypeOK, Requests, Runs
<1>7. LatestSound'
  BY DEF Authorize, LatestSound, PaymentSound, RunsSound, TypeOK, Requests, Runs, Terminal
<1>8. ReportStep
  BY KeptIsAStep DEF Authorize, TypeOK, Requests
<1> QED  BY <1>1, <1>2, <1>3, <1>4, <1>5, <1>6, <1>7, <1>8

\* A heartbeat renews the lease.
LEMMA HeartbeatKeeps ==
  ASSUME IInv, NEW s \in Starts, Heartbeat(s)
  PROVE  IInv' /\ ReportStep
<1> USE DEF IInv
<1> DEFINE y == [Run(s) EXCEPT !.live = TRUE]
<1>r. on[s] \in Runs /\ row[on[s]] \in Row
  BY DEF Heartbeat, Working, RunsSound, TypeOK, Requests
<1>y. /\ y \in Row /\ y.state = row[on[s]].state /\ y.requested = row[on[s]].requested
      /\ y.report = row[on[s]].report /\ y.owner = row[on[s]].owner /\ y.scanClaimed = row[on[s]].scanClaimed /\ y.ingested = row[on[s]].ingested
  BY <1>r DEF Row, Run
<1>s. Stored(on[s], y)
  BY <1>r, <1>y, SetStores DEF Heartbeat, TypeOK
<1> HIDE DEF y
<1>1. TypeOK'
  BY <1>r, <1>y, <1>s DEF Heartbeat, Working, TypeOK, Requests, Stored
<1>2. RunsSound'
  BY <1>r, <1>y, <1>s DEF Heartbeat, Working, RunsSound, TypeOK, Requests, Runs, Actions, Stored
<1>3. PaymentSound'
  BY <1>r, <1>y, <1>s DEF Heartbeat, Working, PaymentSound, RunsSound, TypeOK, Requests, Runs, Actions, Terminal, Stored
<1>4. WithdrawalSound'
  BY <1>r, <1>y, <1>s DEF Heartbeat, Working, WithdrawalSound, RunsSound, TypeOK, Requests, Runs, Actions, Stored
<1>5. ReportSound'
  BY <1>r, <1>y, <1>s DEF Heartbeat, Working, ReportSound, RunsSound, TypeOK, Requests, Runs, Stored
<1>6. ScanClaimIsFree'
  BY <1>r, <1>y, <1>s DEF Heartbeat, Working, ScanClaimIsFree, Run, RunsSound, TypeOK, Requests, Runs, Stored
<1>7. LatestSound'
  BY <1>r, <1>y, <1>s DEF Heartbeat, Working, LatestSound, PaymentSound, RunsSound, TypeOK, Requests, Runs, Terminal, Stored
<1>8. ReportStep
  BY <1>r, <1>y, <1>s, KeptIsAStep DEF Heartbeat, Working, Stored, TypeOK, Requests
<1> QED  BY <1>1, <1>2, <1>3, <1>4, <1>5, <1>6, <1>7, <1>8

\* A heartbeat that failed changes no row.
LEMMA HeartbeatFailsKeeps ==
  ASSUME IInv, NEW s \in Starts, HeartbeatFails(s)
  PROVE  IInv' /\ ReportStep
<1> USE DEF IInv
<1>1. TypeOK'
  BY DEF HeartbeatFails, Working, Event, TypeOK, RunsSound, PaymentSound, States, Actions, Requests, Runs
<1>2. RunsSound'
  BY DEF HeartbeatFails, Working, Event, RunsSound, TypeOK, Requests, Runs, Actions
<1>3. PaymentSound'
  BY DEF HeartbeatFails, Working, Event, PaymentSound, RunsSound, TypeOK, Requests, Runs, Actions, Terminal, States
<1>4. WithdrawalSound'
  BY DEF HeartbeatFails, Working, Event, WithdrawalSound, RunsSound, TypeOK, Requests, Runs, Actions
<1>5. ReportSound'
  BY DEF HeartbeatFails, Working, Event, ReportSound, RunsSound, TypeOK, Requests, Runs
<1>6. ScanClaimIsFree'
  BY DEF HeartbeatFails, Working, Event, ScanClaimIsFree, Run, RunsSound, TypeOK, Requests, Runs
<1>7. LatestSound'
  BY DEF HeartbeatFails, Working, Event, LatestSound, PaymentSound, RunsSound, TypeOK, Requests, Runs, Terminal
<1>8. ReportStep
  BY KeptIsAStep DEF HeartbeatFails, Working, Event, TypeOK, Requests
<1> QED  BY <1>1, <1>2, <1>3, <1>4, <1>5, <1>6, <1>7, <1>8

\* A lease expires.
LEMMA ExpireKeeps ==
  ASSUME IInv, NEW r \in Runs, Expire(r)
  PROVE  IInv' /\ ReportStep
<1> USE DEF IInv
<1> DEFINE y == [row[r] EXCEPT !.live = FALSE]
<1>r. r \in Runs /\ row[r] \in Row
  BY DEF Expire, RunsSound, PaymentSound, TypeOK, Requests, Actions
<1>y. /\ y \in Row /\ y.state = row[r].state /\ y.requested = row[r].requested
      /\ y.report = row[r].report /\ y.owner = row[r].owner /\ y.scanClaimed = row[r].scanClaimed /\ y.ingested = row[r].ingested
  BY <1>r DEF Row, Run
<1>s. Stored(r, y)
  BY <1>r, <1>y, SetStores DEF Expire, TypeOK
<1> HIDE DEF y
<1>1. TypeOK'
  BY <1>r, <1>y, <1>s DEF Expire, TypeOK, Requests, Stored
<1>2. RunsSound'
  BY <1>r, <1>y, <1>s DEF Expire, Blank, RunsSound, TypeOK, Requests, Runs, Actions, Stored
<1>3. PaymentSound'
  BY <1>r, <1>y, <1>s DEF Expire, PaymentSound, RunsSound, TypeOK, Requests, Runs, Actions, Terminal, Stored
<1>4. WithdrawalSound'
  BY <1>r, <1>y, <1>s DEF Expire, WithdrawalSound, RunsSound, TypeOK, Requests, Runs, Actions, Stored
<1>5. ReportSound'
  BY <1>r, <1>y, <1>s DEF Expire, ReportSound, RunsSound, TypeOK, Requests, Runs, Stored
<1>6. ScanClaimIsFree'
  BY <1>r, <1>y, <1>s DEF Expire, ScanClaimIsFree, Run, RunsSound, TypeOK, Requests, Runs, Stored
<1>7. LatestSound'
  BY <1>r, <1>y, <1>s DEF Expire, LatestSound, PaymentSound, RunsSound, TypeOK, Requests, Runs, Terminal, Stored
<1>8. ReportStep
  BY <1>r, <1>y, <1>s, KeptIsAStep DEF Expire, Stored, TypeOK, Requests
<1> QED  BY <1>1, <1>2, <1>3, <1>4, <1>5, <1>6, <1>7, <1>8

\* A lease expires although its heartbeat lives.
LEMMA StallKeeps ==
  ASSUME IInv, NEW r \in Runs, Stall(r)
  PROVE  IInv' /\ ReportStep
<1> USE DEF IInv
<1> DEFINE y == [row[r] EXCEPT !.live = FALSE]
<1>r. r \in Runs /\ row[r] \in Row
  BY DEF Stall, RunsSound, PaymentSound, TypeOK, Requests, Actions
<1>y. /\ y \in Row /\ y.state = row[r].state /\ y.requested = row[r].requested
      /\ y.report = row[r].report /\ y.owner = row[r].owner /\ y.scanClaimed = row[r].scanClaimed /\ y.ingested = row[r].ingested
  BY <1>r DEF Row, Run
<1>s. Stored(r, y)
  BY <1>r, <1>y, SetStores DEF Stall, TypeOK
<1> HIDE DEF y
<1>1. TypeOK'
  BY <1>r, <1>y, <1>s DEF Stall, Event, TypeOK, Requests, Stored
<1>2. RunsSound'
  BY <1>r, <1>y, <1>s DEF Stall, Event, Blank, RunsSound, TypeOK, Requests, Runs, Actions, Stored
<1>3. PaymentSound'
  BY <1>r, <1>y, <1>s DEF Stall, Event, PaymentSound, RunsSound, TypeOK, Requests, Runs, Actions, Terminal, Stored
<1>4. WithdrawalSound'
  BY <1>r, <1>y, <1>s DEF Stall, Event, WithdrawalSound, RunsSound, TypeOK, Requests, Runs, Actions, Stored
<1>5. ReportSound'
  BY <1>r, <1>y, <1>s DEF Stall, Event, ReportSound, RunsSound, TypeOK, Requests, Runs, Stored
<1>6. ScanClaimIsFree'
  BY <1>r, <1>y, <1>s DEF Stall, Event, ScanClaimIsFree, Run, RunsSound, TypeOK, Requests, Runs, Stored
<1>7. LatestSound'
  BY <1>r, <1>y, <1>s DEF Stall, Event, LatestSound, PaymentSound, RunsSound, TypeOK, Requests, Runs, Terminal, Stored
<1>8. ReportStep
  BY <1>r, <1>y, <1>s, KeptIsAStep DEF Stall, Event, Stored, TypeOK, Requests
<1> QED  BY <1>1, <1>2, <1>3, <1>4, <1>5, <1>6, <1>7, <1>8

\* A restart forgets the requests; the table is as it was.
LEMMA RestartKeeps ==
  ASSUME IInv, Restart
  PROVE  IInv' /\ ReportStep
<1> USE DEF IInv
<1>1. TypeOK'
  BY DEF Restart, Event, TypeOK, RunsSound, PaymentSound, States, Actions, Requests, Runs
<1>2. RunsSound'
  BY DEF Restart, Event, RunsSound, TypeOK, Requests, Runs, Actions
<1>3. PaymentSound'
  BY DEF Restart, Event, PaymentSound, RunsSound, TypeOK, Requests, Runs, Actions, Terminal, States
<1>4. WithdrawalSound'
  BY DEF Restart, Event, WithdrawalSound, RunsSound, TypeOK, Requests, Runs, Actions
<1>5. ReportSound'
  BY DEF Restart, Event, ReportSound, RunsSound, TypeOK, Requests, Runs
<1>6. ScanClaimIsFree'
  BY DEF Restart, Event, ScanClaimIsFree, Run, RunsSound, TypeOK, Requests, Runs
<1>7. LatestSound'
  BY DEF Restart, Event, LatestSound, PaymentSound, RunsSound, TypeOK, Requests, Runs, Terminal
<1>8. ReportStep
  BY KeptIsAStep DEF Restart, Event, TypeOK, Requests
<1> QED  BY <1>1, <1>2, <1>3, <1>4, <1>5, <1>6, <1>7, <1>8

-----------------------------------------------------------------------------
\* Every step keeps the invariant and is a step of the abstract specification.
LEMMA NextHolds == IInv /\ [Next]_vars => IInv' /\ ReportStep
<1> SUFFICES ASSUME IInv, [Next]_vars PROVE IInv' /\ ReportStep
  OBVIOUS
<1>1. CASE \E q \in Quotes : QuoteStep(q)
  BY <1>1, BeginQuoteKeeps, QuoteFailsKeeps, AddRunKeeps, OverwriteQuoteKeeps DEF QuoteStep
<1>2. CASE \E s \in Starts : BeginStart(s) \/ StartStep(s) \/ Heartbeat(s) \/ HeartbeatFails(s)
  <2>1. Starts \subseteq Requests
    BY DEF Requests
  <2> QED  BY <1>2, <2>1, BeginStartKeeps, CardReadyKeeps, CardNotReadyKeeps, PollKeeps, EndStartKeeps,
     EndSyncKeeps, FinishIssueKeeps, FinishAuthSyncKeeps, FinishScanKeeps, FinishIngestKeeps,
     FinishLastSyncKeeps, AnswerIssueKeeps, AnswerStatusKeeps, AnswerIngestKeeps, StartFailsKeeps,
     RequestFailsKeeps, HeartbeatKeeps, HeartbeatFailsKeeps DEF StartStep
<1>3. CASE \E x \in Syncs : SyncStep(x)
  <2>1. Syncs \subseteq Requests
    BY DEF Requests
  <2> QED  BY <1>3, <2>1, BeginSyncKeeps, AnswerStatusKeeps, EndSyncKeeps, RequestFailsKeeps DEF SyncStep
<1>4. CASE \E m \in Commands : CommandStep(m)
  <2>1. Commands \subseteq Requests
    BY DEF Requests
  <2> QED  BY <1>4, <2>1, BeginCommandKeeps, AnswerCommandKeeps, FinishCommandKeeps, RequestFailsKeeps
     DEF CommandStep
<1>5. CASE \E r \in Runs : Authorize(r) \/ Expire(r) \/ Stall(r)
  BY <1>5, AuthorizeKeeps, ExpireKeeps, StallKeeps
<1>6. CASE Restart
  BY <1>6, RestartKeeps
<1>7. CASE UNCHANGED vars
  <2>1. ReportStep
    BY <1>7, KeptIsAStep DEF vars
  <2>2. TypeOK' /\ RunsSound' /\ PaymentSound' /\ WithdrawalSound'
    BY <1>7 DEF vars, IInv, TypeOK, RunsSound, PaymentSound, WithdrawalSound
  <2>3. ReportSound' /\ ScanClaimIsFree' /\ LatestSound'
    BY <1>7 DEF vars, IInv, ReportSound, ScanClaimIsFree, Run, LatestSound
  <2> QED  BY <2>1, <2>2, <2>3 DEF IInv
<1> QED  BY <1>1, <1>2, <1>3, <1>4, <1>5, <1>6, <1>7 DEF Next

\* The invariant holds in every behaviour.
THEOREM Inductive == Spec => []IInv
  BY InitHolds, NextHolds, PTL DEF Spec

\* Every variable keeps its type.
THEOREM TypeCorrect == Spec => []TypeOK
<1>1. IInv => TypeOK
  BY DEF IInv
<1> QED  BY <1>1, Inductive, PTL

\* Runs have one report each: written down before it is sent, never replaced,
\* noted as accepted only when the marketplace has it (RefinesReport), however
\* many starts take the lease from each other, and over restarts.
THEOREM ReportIsKept == Spec => RefinesReport
<1>1. Init => Report!ReportInit
  BY DEF Init, Report!ReportInit, Blank
<1>2. IInv /\ [Next]_vars => [Report!ReportNext]_(Report!reportVars)
  BY NextHolds DEF ReportStep
<1> QED  BY <1>1, <1>2, Inductive, PTL DEF Spec, RefinesReport, Report!ReportSpec

\* Whoever holds the lease and has not scanned finds the scan unclaimed or knows
\* that it takes it over.
THEOREM ScanClaimStaysFree == Spec => []ScanClaimIsFree
<1>1. IInv => ScanClaimIsFree
  BY DEF IInv
<1> QED  BY <1>1, Inductive, PTL

\* A run called withdrawn has its date or the time of its request.
THEOREM WithdrawnStaysDatable == Spec => []WithdrawnIsDatable
<1>1. IInv => WithdrawnIsDatable
  BY DEF IInv, WithdrawalSound, WithdrawnIsDatable
<1> QED  BY <1>1, Inductive, PTL

\* Without overlapping quotes, at most one run of the dataset is under way at the
\* marketplace.
THEOREM ActiveStaysAlone == Spec => []ActiveAlone
<1>1. IInv => ActiveAlone
  BY DEF IInv, LatestSound, ActiveAlone, Active, Terminal
<1> QED  BY <1>1, Inductive, PTL
=============================================================================
