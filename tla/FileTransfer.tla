---------------------------- MODULE FileTransfer ----------------------------
(***************************************************************************)
(* What the delivery of a purchased file promises, whatever happens on the *)
(* way.  The receiver gets no chunk that is more than a window ahead of    *)
(* what it acknowledged.  A transfer has one outcome, and nothing arrives  *)
(* after it.  One that is called complete has arrived, but for its last    *)
(* window if a connection was lost, or is behind a link and has sent no    *)
(* chunk.  Fulfillment refines this specification.                         *)
(***************************************************************************)
EXTENDS Integers

CONSTANTS Transfers, Size, Window   \* Size is the number of chunks of a file

VARIABLES
  have,      \* chunks the receiver has of each transfer
  through,   \* what it acknowledged of it: all chunks up to this one
  outcome,   \* "open", or how the transfer ended
  lossy      \* a connection was lost

transferVars == <<have, through, outcome, lossy>>

TransferInit ==
  /\ have = [t \in Transfers |-> {}]
  /\ through = [t \in Transfers |-> -1]
  /\ outcome = [t \in Transfers |-> "open"]
  /\ lossy = FALSE

Receive(t, c) ==
  /\ outcome[t] = "open" /\ c <= through[t] + Window
  /\ have' = [have EXCEPT ![t] = @ \cup {c}]
  /\ UNCHANGED <<through, outcome, lossy>>

\* Acknowledgements never go back.
Acknowledge(t, c) ==
  /\ through[t] <= c /\ 0 .. c \subseteq have[t]
  /\ through' = [through EXCEPT ![t] = c]
  /\ UNCHANGED <<have, outcome, lossy>>

Missing(t) == 0 .. Size - 1 \ have[t]
InLastWindow(c) == c \div Window = (Size - 1) \div Window

Finish(t) ==
  /\ outcome[t] = "open"
  /\ \/ /\ \A c \in Missing(t) : lossy /\ InLastWindow(c)
        /\ outcome' = [outcome EXCEPT ![t] = "file"]
     \/ /\ have[t] = {}
        /\ outcome' = [outcome EXCEPT ![t] = "link"]
     \/ outcome' = [outcome EXCEPT ![t] = "failed"]
  /\ UNCHANGED <<have, through, lossy>>

Lose == lossy' = TRUE /\ UNCHANGED <<have, through, outcome>>

TransferNext ==
  \/ Lose
  \/ \E t \in Transfers :
       Finish(t) \/ \E c \in -1 .. Size - 1 : Acknowledge(t, c) \/ (c >= 0 /\ Receive(t, c))

TransferSpec == TransferInit /\ [][TransferNext]_transferVars
=============================================================================
