--------------------------- MODULE BillingLedger ---------------------------
(***************************************************************************)
(* What the billing path promises, whatever happens in between: a usage    *)
(* charge is recorded durably before the marketplace can be asked for it,  *)
(* it is deducted at most once, and it is reported as paid only once it    *)
(* really was.  DeductionQueue refines this specification.                 *)
(***************************************************************************)
CONSTANT Keys        \* idempotency keys of the usage charges

VARIABLES
  recorded,          \* charges with a durable record on the device
  charged,           \* charges the marketplace has deducted
  reportedPaid       \* charges the device reports as completed

ledgerVars == <<recorded, charged, reportedPaid>>

LedgerInit == recorded = {} /\ charged = {} /\ reportedPaid = {}

Record(k) ==
  /\ k \notin recorded
  /\ recorded' = recorded \cup {k}
  /\ UNCHANGED <<charged, reportedPaid>>

\* A process that dies may leave several requests that still reach the server.
Charge(S) ==
  /\ S \subseteq recorded
  /\ charged' = charged \cup S
  /\ UNCHANGED <<recorded, reportedPaid>>

ReportPaid(k) ==
  /\ k \in charged
  /\ reportedPaid' = reportedPaid \cup {k}
  /\ UNCHANGED <<recorded, charged>>

\* A late failure answer may reopen a record that is already paid.
Reopen(k) ==
  /\ reportedPaid' = reportedPaid \ {k}
  /\ UNCHANGED <<recorded, charged>>

LedgerNext ==
  \/ \E k \in Keys : Record(k) \/ ReportPaid(k) \/ Reopen(k)
  \/ \E S \in SUBSET Keys : Charge(S)

LedgerSpec == LedgerInit /\ [][LedgerNext]_ledgerVars
=============================================================================
