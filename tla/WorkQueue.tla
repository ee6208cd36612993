----------------------------- MODULE WorkQueue -----------------------------
(***************************************************************************)
(* What a queue of jobs with several workers promises.  A job is queued    *)
(* once, taken in its turn by one worker, and never again: not by a second *)
(* worker, not after it failed, not after a crash.  DatasetLifecycle       *)
(* refines this specification.                                             *)
(***************************************************************************)
EXTENDS Sequences, SequencesExt

CONSTANTS Jobs, Workers, NoJob

VARIABLES
  waiting,   \* jobs in line
  doing,     \* what each worker has
  past       \* jobs that ended or were given up

queueVars == <<waiting, doing, past>>

QueueInit == waiting = <<>> /\ doing = [w \in Workers |-> NoJob] /\ past = {}

Pending(j) == j \in ToSet(waiting) \/ \E w \in Workers : doing[w] = j

Submit(j) ==
  /\ ~Pending(j) /\ j \notin past
  /\ waiting' = Append(waiting, j)
  /\ UNCHANGED <<doing, past>>

Withdraw(j) ==
  /\ ~Pending(j)
  /\ past' = past \cup {j}
  /\ UNCHANGED <<waiting, doing>>

Start(w) ==
  /\ waiting # <<>> /\ doing[w] = NoJob
  /\ waiting' = Tail(waiting)
  /\ doing' = [doing EXCEPT ![w] = Head(waiting)]
  /\ UNCHANGED past

\* A job that cannot be done is over at once.
Skip(w) ==
  /\ waiting # <<>> /\ doing[w] = NoJob
  /\ waiting' = Tail(waiting)
  /\ past' = past \cup {Head(waiting)}
  /\ UNCHANGED doing

End(w) ==
  /\ doing[w] # NoJob
  /\ past' = past \cup {doing[w]}
  /\ doing' = [doing EXCEPT ![w] = NoJob]
  /\ UNCHANGED waiting

\* Whatever waits or is done is lost, and perhaps jobs that were to come.
Crash(lost) ==
  /\ \A j \in Jobs : Pending(j) => j \in lost
  /\ waiting' = <<>> /\ doing' = [w \in Workers |-> NoJob]
  /\ past' = past \cup lost

QueueNext ==
  \/ \E j \in Jobs : Submit(j) \/ Withdraw(j)
  \/ \E w \in Workers : Start(w) \/ Skip(w) \/ End(w)
  \/ \E lost \in SUBSET Jobs : Crash(lost)

QueueSpec == QueueInit /\ [][QueueNext]_queueVars
=============================================================================
