------------------------- MODULE VerificationReport -------------------------
(***************************************************************************)
(* What a verification run promises about its report: it has one.  It is   *)
(* written down before it leaves the device, never replaced, and noted as  *)
(* accepted only when the marketplace has it.                              *)
(***************************************************************************)
CONSTANTS Runs, Reports, NoReport

VARIABLES
  persisted,   \* the report of each run
  received,    \* pairs of a run and a report the marketplace got
  accepted     \* runs whose report is noted as accepted

reportVars == <<persisted, received, accepted>>

ReportInit ==
  /\ persisted = [r \in Runs |-> NoReport]
  /\ received = {} /\ accepted = {}

Persist(r, v) ==
  /\ persisted[r] = NoReport
  /\ persisted' = [persisted EXCEPT ![r] = v]
  /\ UNCHANGED <<received, accepted>>

Deliver(r) ==
  /\ persisted[r] # NoReport
  /\ received' = received \cup {<<r, persisted[r]>>}
  /\ UNCHANGED <<persisted, accepted>>

Accept(r) ==
  /\ <<r, persisted[r]>> \in received
  /\ accepted' = accepted \cup {r}
  /\ UNCHANGED <<persisted, received>>

ReportNext == \E r \in Runs :
  Deliver(r) \/ Accept(r) \/ \E v \in Reports : Persist(r, v)

ReportSpec == ReportInit /\ [][ReportNext]_reportVars
=============================================================================
