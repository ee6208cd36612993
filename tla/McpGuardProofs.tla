--------------------------- MODULE McpGuardProofs ---------------------------
(***************************************************************************)
(* Proofs about McpGuard for any number of agents, tokens and POSTs and    *)
(* any limit.                                                              *)
(***************************************************************************)
EXTENDS McpGuard, FiniteSetTheorems, TLAPS

USE ConstantsAssumption DEF ConstantsAssumption

\* A slot belongs to a request in one of the steps that give it back.
OwnersSound ==
  /\ reservations \cap bindings = {}
  /\ \A c \in reservations : step[c] \in {"reserved", "promoting", "closing"}
  /\ \A c \in bindings : step[c] \in {"bound", "closing"}

WithinLimit == Cardinality(Entries) <= MAX_MCP_CONNECTIONS

\* A POST has the gate, so connectivity stays on and nobody detaches all; what it
\* found of its token stays true; and while it has the lock, what it swept is out
\* of the registry.
PostSound == \A p \in Posts : ppc[p] # "idle" =>
  /\ enabled /\ ~detaching
  /\ target[p] \in Conns /\ bearer[p] \in Tokens
  /\ Known(target[p])
  /\ ppc[p] = "refused" => token[bearer[p]] # "live"
  /\ ppc[p] = "doubting" /\ target[p] \in bindings => target[p] \in doubted
  /\ ppc[p] = "sending" => swept[p] \cap Entries = {}

\* A watchdog that will close a session has found a reason, which stays one.
WatchSound == \A c \in Conns : watch[c] = "detaching" =>
  /\ Known(c)
  /\ c \in bindings => ~Live(c) \/ c \in overdue \/ c \in doubted

\* So has a task that a tool's check started.
CloserSound == \A c \in closers :
  /\ Known(c)
  /\ c \in bindings => ~Live(c) \/ c \in doubted

\* The inductive invariant.
IInv ==
  /\ TypeOK
  /\ OwnersSound /\ WithinLimit
  /\ PostSound /\ WatchSound /\ CloserSound
  /\ DisabledIsQuiet

USE DEF admin, registry, gets, posts
-----------------------------------------------------------------------------

\* A registry that gains nothing stays within the limit.
LEMMA Shrinks ==
  ASSUME TypeOK, WithinLimit, Entries' \subseteq Entries
  PROVE  WithinLimit'
<1>1. IsFiniteSet(Entries)
  BY FS_Subset DEF TypeOK, Entries
<1>2. Cardinality(Entries') <= Cardinality(Entries) /\ IsFiniteSet(Entries')
  BY <1>1, FS_Subset
<1>3. Cardinality(Entries) \in Nat /\ Cardinality(Entries') \in Nat
  BY <1>1, <1>2, FS_CardinalityType
<1> QED  BY <1>2, <1>3 DEF WithinLimit

\* Nobody is connected and nothing is on its way.
LEMMA InitHolds == Init => IInv
<1> SUFFICES ASSUME Init PROVE IInv
  OBVIOUS
<1>1. Entries = {} /\ Cardinality(Entries) = 0
  BY FS_EmptySet DEF Init, Entries
<1>2. TypeOK
  BY DEF Init, TypeOK, Entries
<1>3. WithinLimit
  BY <1>1 DEF WithinLimit
<1>4. OwnersSound /\ PostSound
  BY DEF Init, OwnersSound, PostSound
<1>5. WatchSound /\ CloserSound
  BY DEF Init, WatchSound, CloserSound
<1>6. DisabledIsQuiet
  BY <1>1 DEF Init, DisabledIsQuiet
<1> QED  BY <1>2, <1>3, <1>4, <1>5, <1>6 DEF IInv

\* Connectivity comes on: nothing was open while it was off.
LEMMA EnableKeeps ==
  ASSUME IInv, Enable
  PROVE  IInv' /\ Caused
<1> USE DEF IInv
<1>1. TypeOK'
  BY DEF Enable, Persist, GateFree, TypeOK, Entries
<1>2. OwnersSound'
  BY DEF Enable, Persist, GateFree, OwnersSound, TypeOK
<1>3. WithinLimit'
  <2> Entries' \subseteq Entries
    BY DEF Enable, Persist, GateFree, Entries, TypeOK
  <2> QED  BY Shrinks
<1>4. PostSound'
  BY DEF Enable, Persist, GateFree, PostSound, TypeOK, Entries, Known
<1>5. WatchSound'
  BY DEF Enable, Persist, GateFree, WatchSound, TypeOK, Live, Known, Entries
<1>6. CloserSound'
  BY DEF Enable, Persist, GateFree, CloserSound, TypeOK, Live, Known, Entries
<1>7. DisabledIsQuiet'
  BY DEF Enable, Persist, GateFree, DisabledIsQuiet, Entries, TypeOK, PostSound
<1>8. Caused
  BY DEF Enable, Persist, GateFree, Caused, OwnersSound, TypeOK, Live
<1> QED  BY <1>1, <1>2, <1>3, <1>4, <1>5, <1>6, <1>7, <1>8

\* No POST has the gate, and whoever is connected waits for DetachAll.
LEMMA DisableKeeps ==
  ASSUME IInv, Disable
  PROVE  IInv' /\ Caused
<1> USE DEF IInv
<1>1. TypeOK'
  BY DEF Disable, Persist, GateFree, TypeOK, Entries
<1>2. OwnersSound'
  BY DEF Disable, Persist, GateFree, OwnersSound, TypeOK
<1>3. WithinLimit'
  <2> Entries' \subseteq Entries
    BY DEF Disable, Persist, GateFree, Entries, TypeOK
  <2> QED  BY Shrinks
<1>4. PostSound'
  BY DEF Disable, Persist, GateFree, PostSound, TypeOK, Entries, Known
<1>5. WatchSound'
  BY DEF Disable, Persist, GateFree, WatchSound, TypeOK, Live, Known, Entries
<1>6. CloserSound'
  BY DEF Disable, Persist, GateFree, CloserSound, TypeOK, Live, Known, Entries
<1>7. DisabledIsQuiet'
  BY DEF Disable, Persist, GateFree, DisabledIsQuiet, Entries, TypeOK, PostSound
<1>8. Caused
  BY DEF Disable, Persist, GateFree, Caused, OwnersSound, TypeOK, Live
<1> QED  BY <1>1, <1>2, <1>3, <1>4, <1>5, <1>6, <1>7, <1>8

\* The same, with connectivity on.
LEMMA ShutdownKeeps ==
  ASSUME IInv, Shutdown
  PROVE  IInv' /\ Caused
<1> USE DEF IInv
<1>1. TypeOK'
  BY DEF Shutdown, GateFree, TypeOK, Entries
<1>2. OwnersSound'
  BY DEF Shutdown, GateFree, OwnersSound, TypeOK
<1>3. WithinLimit'
  <2> Entries' \subseteq Entries
    BY DEF Shutdown, GateFree, Entries, TypeOK
  <2> QED  BY Shrinks
<1>4. PostSound'
  BY DEF Shutdown, GateFree, PostSound, TypeOK, Entries, Known
<1>5. WatchSound'
  BY DEF Shutdown, GateFree, WatchSound, TypeOK, Live, Known, Entries
<1>6. CloserSound'
  BY DEF Shutdown, GateFree, CloserSound, TypeOK, Live, Known, Entries
<1>7. DisabledIsQuiet'
  BY DEF Shutdown, GateFree, DisabledIsQuiet, Entries, TypeOK, PostSound
<1>8. Caused
  BY DEF Shutdown, GateFree, Caused, OwnersSound, TypeOK, Live
<1> QED  BY <1>1, <1>2, <1>3, <1>4, <1>5, <1>6, <1>7, <1>8

\* Everybody goes, and nobody has the lock.
LEMMA DetachAllKeeps ==
  ASSUME IInv, DetachAll
  PROVE  IInv' /\ Caused
<1> USE DEF IInv
<1>1. TypeOK'
  BY DEF DetachAll, Detach, Remove, Cancel, Closing, Unwatched, LockFree, TypeOK,
     Entries
<1>2. OwnersSound'
  BY DEF DetachAll, Detach, Remove, Cancel, Closing, Unwatched, LockFree, OwnersSound,
     TypeOK
<1>3. WithinLimit'
  <2> Entries' \subseteq Entries
    BY DEF DetachAll, Detach, Remove, Cancel, Closing, Unwatched, LockFree, Entries,
       TypeOK
  <2> QED  BY Shrinks
<1>4. PostSound'
  BY DEF DetachAll, Detach, Remove, Cancel, Closing, Unwatched, LockFree, PostSound,
     TypeOK, Entries, Known
<1>5. WatchSound'
  BY DEF DetachAll, Detach, Remove, Cancel, Closing, Unwatched, LockFree, WatchSound,
     TypeOK, Live, Known, Entries
<1>6. CloserSound'
  BY DEF DetachAll, Detach, Remove, Cancel, Closing, Unwatched, LockFree, CloserSound,
     TypeOK, Live, Known, Entries
<1>7. DisabledIsQuiet'
  BY DEF DetachAll, Detach, Remove, Cancel, Closing, Unwatched, LockFree,
     DisabledIsQuiet, Entries, TypeOK, PostSound
<1>8. Caused
  BY DEF DetachAll, Detach, Remove, Cancel, Closing, Unwatched, LockFree, Caused,
     OwnersSound, TypeOK, Live
<1> QED  BY <1>1, <1>2, <1>3, <1>4, <1>5, <1>6, <1>7, <1>8

\* Nothing survives but the tokens and the file.
LEMMA RestartKeeps ==
  ASSUME IInv, Restart
  PROVE  IInv' /\ Caused
<1> USE DEF IInv
<1>1. TypeOK'
  <2>1. PICK readable \in BOOLEAN : available' = readable /\ enabled' = (readable /\ disk)
    BY Zenon DEF Restart
  <2>2. available' \in BOOLEAN /\ enabled' \in BOOLEAN
    BY <2>1, Zenon
  <2>3. /\ disk' \in BOOLEAN /\ detaching' \in BOOLEAN
        /\ token' \in [Tokens -> {"live", "revoked", "expired"}]
        /\ reservations' = {} /\ bindings' = {} /\ overdue' = {}
        /\ closers' = {}
    BY DEF Restart, TypeOK
  <2>4. /\ step' \in [Conns -> {"idle", "admitting", "reserved", "promoting", "bound", "closing", "ended"}]
        /\ watch' \in [Conns -> {"off", "waiting", "timedout", "checking", "detaching"}]
    BY DEF Restart, TypeOK
  <2>5. /\ ppc' \in [Posts -> {"idle", "queued", "refused", "doubting", "sending"}]
        /\ target' \in [Posts -> Conns \cup {Nobody}]
        /\ bearer' \in [Posts -> Tokens \cup {Nobody}]
        /\ swept' \in [Posts -> SUBSET Conns]
        /\ doubted' = {}
    BY DEF Restart
  <2> QED  BY <2>2, <2>3, <2>4, <2>5 DEF TypeOK, Entries
<1>2. OwnersSound'
  BY DEF Restart, OwnersSound, TypeOK
<1>3. WithinLimit'
  <2> Entries' \subseteq Entries
    BY DEF Restart, Entries, TypeOK
  <2> QED  BY Shrinks
<1>4. PostSound'
  BY DEF Restart, PostSound, TypeOK, Entries, Known
<1>5. WatchSound'
  BY DEF Restart, WatchSound, TypeOK, Live, Known, Entries
<1>6. CloserSound'
  BY DEF Restart, CloserSound, TypeOK, Live, Known, Entries
<1>7. DisabledIsQuiet'
  BY DEF Restart, DisabledIsQuiet, Entries, TypeOK, PostSound
<1>8. Caused
  <2> Died
    BY DEF Restart, Died
  <2> QED  BY DEF Caused
<1> QED  BY <1>1, <1>2, <1>3, <1>4, <1>5, <1>6, <1>7, <1>8

\* A token that is refused stays refused.
LEMMA RevokeKeeps ==
  ASSUME IInv, NEW t \in Tokens, Revoke(t)
  PROVE  IInv' /\ Caused
<1> USE DEF IInv
<1>1. TypeOK'
  BY DEF Revoke, TypeOK, Entries
<1>2. OwnersSound'
  BY DEF Revoke, OwnersSound, TypeOK
<1>3. WithinLimit'
  <2> Entries' \subseteq Entries
    BY DEF Revoke, Entries, TypeOK
  <2> QED  BY Shrinks
<1>4. PostSound'
  BY DEF Revoke, PostSound, TypeOK, Entries, Known
<1>5. WatchSound'
  BY DEF Revoke, WatchSound, TypeOK, Live, Known, Entries
<1>6. CloserSound'
  BY DEF Revoke, CloserSound, TypeOK, Live, Known, Entries
<1>7. DisabledIsQuiet'
  BY DEF Revoke, DisabledIsQuiet, Entries, TypeOK, PostSound
<1>8. Caused
  BY DEF Revoke, Caused, OwnersSound, TypeOK, Live
<1> QED  BY <1>1, <1>2, <1>3, <1>4, <1>5, <1>6, <1>7, <1>8

\* Sessions of the token are overdue; what was found of others stays true.
LEMMA ExpireKeeps ==
  ASSUME IInv, NEW t \in Tokens, Expire(t)
  PROVE  IInv' /\ Caused
<1> USE DEF IInv
<1>1. TypeOK'
  BY DEF Expire, TypeOK, Entries
<1>2. OwnersSound'
  BY DEF Expire, OwnersSound, TypeOK
<1>3. WithinLimit'
  <2> Entries' \subseteq Entries
    BY DEF Expire, Entries, TypeOK
  <2> QED  BY Shrinks
<1>4. PostSound'
  BY DEF Expire, PostSound, TypeOK, Entries, Known
<1>5. WatchSound'
  BY DEF Expire, WatchSound, TypeOK, Live, Known, Entries
<1>6. CloserSound'
  BY DEF Expire, CloserSound, TypeOK, Live, Known, Entries
<1>7. DisabledIsQuiet'
  BY DEF Expire, DisabledIsQuiet, Entries, TypeOK, PostSound
<1>8. Caused
  BY DEF Expire, Caused, OwnersSound, TypeOK, Live
<1> QED  BY <1>1, <1>2, <1>3, <1>4, <1>5, <1>6, <1>7, <1>8

\* An entry becomes overdue, which can only be another reason.
LEMMA DeadlinePassesKeeps ==
  ASSUME IInv, NEW c \in Conns, DeadlinePasses(c)
  PROVE  IInv' /\ Caused
<1> USE DEF IInv
<1>1. TypeOK'
  BY DEF DeadlinePasses, TypeOK, Entries
<1>2. OwnersSound'
  BY DEF DeadlinePasses, OwnersSound, TypeOK
<1>3. WithinLimit'
  <2> Entries' \subseteq Entries
    BY DEF DeadlinePasses, Entries, TypeOK
  <2> QED  BY Shrinks
<1>4. PostSound'
  BY DEF DeadlinePasses, PostSound, TypeOK, Entries, Known
<1>5. WatchSound'
  BY DEF DeadlinePasses, WatchSound, TypeOK, Live, Known, Entries
<1>6. CloserSound'
  BY DEF DeadlinePasses, CloserSound, TypeOK, Live, Known, Entries
<1>7. DisabledIsQuiet'
  BY DEF DeadlinePasses, DisabledIsQuiet, Entries, TypeOK, PostSound
<1>8. Caused
  BY DEF DeadlinePasses, Caused, OwnersSound, TypeOK, Live
<1> QED  BY <1>1, <1>2, <1>3, <1>4, <1>5, <1>6, <1>7, <1>8

\* No slot yet.
LEMMA GetArrivesKeeps ==
  ASSUME IInv, NEW c \in Conns, GetArrives(c)
  PROVE  IInv' /\ Caused
<1> USE DEF IInv
<1>1. TypeOK'
  BY DEF GetArrives, TypeOK, Entries
<1>2. OwnersSound'
  BY DEF GetArrives, OwnersSound, TypeOK
<1>3. WithinLimit'
  <2> Entries' \subseteq Entries
    BY DEF GetArrives, Entries, TypeOK
  <2> QED  BY Shrinks
<1>4. PostSound'
  BY DEF GetArrives, PostSound, TypeOK, Entries, Known
<1>5. WatchSound'
  BY DEF GetArrives, WatchSound, TypeOK, Live, Known, Entries
<1>6. CloserSound'
  BY DEF GetArrives, CloserSound, TypeOK, Live, Known, Entries
<1>7. DisabledIsQuiet'
  BY DEF GetArrives, DisabledIsQuiet, Entries, TypeOK, PostSound
<1>8. Caused
  BY DEF GetArrives, Caused, OwnersSound, TypeOK, Live
<1> QED  BY <1>1, <1>2, <1>3, <1>4, <1>5, <1>6, <1>7, <1>8

\* What was swept was overdue, and the new slot was free after the sweep.
LEMMA AdmitKeeps ==
  ASSUME IInv, NEW c \in Conns, Admit(c)
  PROVE  IInv' /\ Caused
<1> USE DEF IInv
<1>1. TypeOK'
  BY DEF Admit, Sweeps, Room, Closing, Unwatched, LockFree, TypeOK, Entries
<1>2. OwnersSound'
  BY DEF Admit, Sweeps, Room, Closing, Unwatched, LockFree, OwnersSound, TypeOK
<1>3. WithinLimit'
  <2>1. PICK S \in Sweeps : /\ reservations' = (reservations \ S) \cup (IF Room(S) THEN {c} ELSE {})
                            /\ bindings' = bindings \ S
    BY DEF Admit
  <2>2. CASE Room(S)
    <3>1. IsFiniteSet(Entries \ S) /\ Cardinality(Entries \ S) \in Nat
      BY FS_Subset, FS_CardinalityType DEF TypeOK, Entries
    <3>2. Entries' = (Entries \ S) \cup {c}
      BY <2>1, <2>2 DEF Entries
    <3>3. \/ Cardinality((Entries \ S) \cup {c}) = Cardinality(Entries \ S)
          \/ Cardinality((Entries \ S) \cup {c}) = Cardinality(Entries \ S) + 1
      BY <3>1, FS_AddElement, Zenon
    <3>4. Cardinality(Entries \ S) < MAX_MCP_CONNECTIONS
      BY <2>2 DEF Room
    <3>5. Cardinality(Entries') <= MAX_MCP_CONNECTIONS
      BY <3>1, <3>2, <3>3, <3>4
    <3> QED  BY <3>5 DEF WithinLimit
  <2>3. CASE ~Room(S)
    <3> Entries' \subseteq Entries
      BY <2>1, <2>3 DEF Entries
    <3> QED  BY Shrinks
  <2> QED  BY <2>2, <2>3
<1>4. PostSound'
  BY DEF Admit, Sweeps, Room, Closing, Unwatched, LockFree, PostSound, TypeOK,
     Entries, Known
<1>5. WatchSound'
  BY DEF Admit, Sweeps, Room, Closing, Unwatched, LockFree, WatchSound, TypeOK, Live,
     Known, Entries
<1>6. CloserSound'
  BY DEF Admit, Sweeps, Room, Closing, Unwatched, LockFree, CloserSound, TypeOK, Live,
     Known, Entries
<1>7. DisabledIsQuiet'
  BY DEF Admit, Sweeps, Room, Closing, Unwatched, LockFree, DisabledIsQuiet, Entries,
     TypeOK, PostSound
<1>8. Caused
  BY DEF Admit, Sweeps, Room, Closing, Unwatched, LockFree, Caused, OwnersSound,
     TypeOK, Live
<1> QED  BY <1>1, <1>2, <1>3, <1>4, <1>5, <1>6, <1>7, <1>8

\* The reservation stays.
LEMMA FirstFrameKeeps ==
  ASSUME IInv, NEW c \in Conns, FirstFrame(c)
  PROVE  IInv' /\ Caused
<1> USE DEF IInv
<1>1. TypeOK'
  BY DEF FirstFrame, TypeOK, Entries
<1>2. OwnersSound'
  BY DEF FirstFrame, OwnersSound, TypeOK
<1>3. WithinLimit'
  <2> Entries' \subseteq Entries
    BY DEF FirstFrame, Entries, TypeOK
  <2> QED  BY Shrinks
<1>4. PostSound'
  BY DEF FirstFrame, PostSound, TypeOK, Entries, Known
<1>5. WatchSound'
  BY DEF FirstFrame, WatchSound, TypeOK, Live, Known, Entries
<1>6. CloserSound'
  BY DEF FirstFrame, CloserSound, TypeOK, Live, Known, Entries
<1>7. DisabledIsQuiet'
  BY DEF FirstFrame, DisabledIsQuiet, Entries, TypeOK, PostSound
<1>8. Caused
  BY DEF FirstFrame, Caused, OwnersSound, TypeOK, Live
<1> QED  BY <1>1, <1>2, <1>3, <1>4, <1>5, <1>6, <1>7, <1>8

\* The slot changes from reservation to session; connectivity is on.
LEMMA PromoteKeeps ==
  ASSUME IInv, NEW c \in Conns, Promote(c)
  PROVE  IInv' /\ Caused
<1> USE DEF IInv
<1>1. TypeOK'
  BY DEF Promote, LockFree, TypeOK, Entries
<1>2. OwnersSound'
  BY DEF Promote, LockFree, OwnersSound, TypeOK
<1>3. WithinLimit'
  <2> Entries' \subseteq Entries
    BY DEF Promote, LockFree, Entries, TypeOK
  <2> QED  BY Shrinks
<1>4. PostSound'
  BY DEF Promote, LockFree, PostSound, TypeOK, Entries, Known
<1>5. WatchSound'
  BY DEF Promote, LockFree, WatchSound, TypeOK, Live, Known, Entries
<1>6. CloserSound'
  BY DEF Promote, LockFree, CloserSound, TypeOK, Live, Known, Entries
<1>7. DisabledIsQuiet'
  BY DEF Promote, LockFree, DisabledIsQuiet, Entries, TypeOK, PostSound
<1>8. Caused
  BY DEF Promote, LockFree, Caused, OwnersSound, TypeOK, Live
<1> QED  BY <1>1, <1>2, <1>3, <1>4, <1>5, <1>6, <1>7, <1>8

\* The request goes to its finally clause and keeps its slot until then.
LEMMA RejectKeeps ==
  ASSUME IInv, NEW c \in Conns, Reject(c)
  PROVE  IInv' /\ Caused
<1> USE DEF IInv
<1>1. TypeOK'
  BY DEF Reject, Ends, Cancel, Closing, Unwatched, TypeOK, Entries
<1>2. OwnersSound'
  BY DEF Reject, Ends, Cancel, Closing, Unwatched, OwnersSound, TypeOK
<1>3. WithinLimit'
  <2> Entries' \subseteq Entries
    BY DEF Reject, Ends, Cancel, Closing, Unwatched, Entries, TypeOK
  <2> QED  BY Shrinks
<1>4. PostSound'
  BY DEF Reject, Ends, Cancel, Closing, Unwatched, PostSound, TypeOK, Entries, Known
<1>5. WatchSound'
  BY DEF Reject, Ends, Cancel, Closing, Unwatched, WatchSound, TypeOK, Live, Known,
     Entries
<1>6. CloserSound'
  BY DEF Reject, Ends, Cancel, Closing, Unwatched, CloserSound, TypeOK, Live, Known,
     Entries
<1>7. DisabledIsQuiet'
  BY DEF Reject, Ends, Cancel, Closing, Unwatched, DisabledIsQuiet, Entries, TypeOK,
     PostSound
<1>8. Caused
  BY DEF Reject, Ends, Cancel, Closing, Unwatched, Caused, OwnersSound, TypeOK, Live
<1> QED  BY <1>1, <1>2, <1>3, <1>4, <1>5, <1>6, <1>7, <1>8

\* So does one whose client leaves.
LEMMA LeaveKeeps ==
  ASSUME IInv, NEW c \in Conns, Leave(c)
  PROVE  IInv' /\ Caused
<1> USE DEF IInv
<1>1. TypeOK'
  BY DEF Leave, Ends, Cancel, Closing, Unwatched, TypeOK, Entries
<1>2. OwnersSound'
  BY DEF Leave, Ends, Cancel, Closing, Unwatched, OwnersSound, TypeOK
<1>3. WithinLimit'
  <2> Entries' \subseteq Entries
    BY DEF Leave, Ends, Cancel, Closing, Unwatched, Entries, TypeOK
  <2> QED  BY Shrinks
<1>4. PostSound'
  BY DEF Leave, Ends, Cancel, Closing, Unwatched, PostSound, TypeOK, Entries, Known
<1>5. WatchSound'
  BY DEF Leave, Ends, Cancel, Closing, Unwatched, WatchSound, TypeOK, Live, Known,
     Entries
<1>6. CloserSound'
  BY DEF Leave, Ends, Cancel, Closing, Unwatched, CloserSound, TypeOK, Live, Known,
     Entries
<1>7. DisabledIsQuiet'
  BY DEF Leave, Ends, Cancel, Closing, Unwatched, DisabledIsQuiet, Entries, TypeOK,
     PostSound
<1>8. Caused
  BY DEF Leave, Ends, Cancel, Closing, Unwatched, Caused, OwnersSound, TypeOK, Live
<1> QED  BY <1>1, <1>2, <1>3, <1>4, <1>5, <1>6, <1>7, <1>8

\* The finally clause gives the slot back.
LEMMA CloseKeeps ==
  ASSUME IInv, NEW c \in Conns, Close(c)
  PROVE  IInv' /\ Caused
<1> USE DEF IInv
<1>1. TypeOK'
  BY DEF Close, Remove, LockFree, TypeOK, Entries
<1>2. OwnersSound'
  BY DEF Close, Remove, LockFree, OwnersSound, TypeOK
<1>3. WithinLimit'
  <2> Entries' \subseteq Entries
    BY DEF Close, Remove, LockFree, Entries, TypeOK
  <2> QED  BY Shrinks
<1>4. PostSound'
  BY DEF Close, Remove, LockFree, PostSound, TypeOK, Entries, Known
<1>5. WatchSound'
  BY DEF Close, Remove, LockFree, WatchSound, TypeOK, Live, Known, Entries
<1>6. CloserSound'
  BY DEF Close, Remove, LockFree, CloserSound, TypeOK, Live, Known, Entries
<1>7. DisabledIsQuiet'
  BY DEF Close, Remove, LockFree, DisabledIsQuiet, Entries, TypeOK, PostSound
<1>8. Caused
  BY DEF Close, Remove, LockFree, Caused, OwnersSound, TypeOK, Live
<1> QED  BY <1>1, <1>2, <1>3, <1>4, <1>5, <1>6, <1>7, <1>8

\* The watchdog gives up on the first frame.
LEMMA WatchTimeoutKeeps ==
  ASSUME IInv, NEW c \in Conns, WatchTimeout(c)
  PROVE  IInv' /\ Caused
<1> USE DEF IInv
<1>1. TypeOK'
  BY DEF WatchTimeout, SetWatch, TypeOK, Entries
<1>2. OwnersSound'
  BY DEF WatchTimeout, SetWatch, OwnersSound, TypeOK
<1>3. WithinLimit'
  <2> Entries' \subseteq Entries
    BY DEF WatchTimeout, SetWatch, Entries, TypeOK
  <2> QED  BY Shrinks
<1>4. PostSound'
  BY DEF WatchTimeout, SetWatch, PostSound, TypeOK, Entries, Known
<1>5. WatchSound'
  BY DEF WatchTimeout, SetWatch, WatchSound, TypeOK, Live, Known, Entries
<1>6. CloserSound'
  BY DEF WatchTimeout, SetWatch, CloserSound, TypeOK, Live, Known, Entries
<1>7. DisabledIsQuiet'
  BY DEF WatchTimeout, SetWatch, DisabledIsQuiet, Entries, TypeOK, PostSound
<1>8. Caused
  BY DEF WatchTimeout, SetWatch, Caused, OwnersSound, TypeOK, Live
<1> QED  BY <1>1, <1>2, <1>3, <1>4, <1>5, <1>6, <1>7, <1>8

\* A reservation goes, which is no session.
LEMMA WatchReleaseKeeps ==
  ASSUME IInv, NEW c \in Conns, WatchRelease(c)
  PROVE  IInv' /\ Caused
<1> USE DEF IInv
<1>1. TypeOK'
  BY DEF WatchRelease, DetachOne, Detach, Remove, Cancel, Closing, Unwatched,
     LockFree, TypeOK, Entries
<1>2. OwnersSound'
  BY DEF WatchRelease, DetachOne, Detach, Remove, Cancel, Closing, Unwatched,
     LockFree, OwnersSound, TypeOK
<1>3. WithinLimit'
  <2> Entries' \subseteq Entries
    BY DEF WatchRelease, DetachOne, Detach, Remove, Cancel, Closing, Unwatched,
       LockFree, Entries, TypeOK
  <2> QED  BY Shrinks
<1>4. PostSound'
  BY DEF WatchRelease, DetachOne, Detach, Remove, Cancel, Closing, Unwatched,
     LockFree, PostSound, TypeOK, Entries, Known
<1>5. WatchSound'
  BY DEF WatchRelease, DetachOne, Detach, Remove, Cancel, Closing, Unwatched,
     LockFree, WatchSound, TypeOK, Live, Known, Entries
<1>6. CloserSound'
  BY DEF WatchRelease, DetachOne, Detach, Remove, Cancel, Closing, Unwatched,
     LockFree, CloserSound, TypeOK, Live, Known, Entries
<1>7. DisabledIsQuiet'
  BY DEF WatchRelease, DetachOne, Detach, Remove, Cancel, Closing, Unwatched,
     LockFree, DisabledIsQuiet, Entries, TypeOK, PostSound
<1>8. Caused
  BY DEF WatchRelease, DetachOne, Detach, Remove, Cancel, Closing, Unwatched,
     LockFree, Caused, OwnersSound, TypeOK, Live
<1> QED  BY <1>1, <1>2, <1>3, <1>4, <1>5, <1>6, <1>7, <1>8

\* The watchdog finds its reason.
LEMMA WatchCheckKeeps ==
  ASSUME IInv, NEW c \in Conns, WatchCheck(c)
  PROVE  IInv' /\ Caused
<1> USE DEF IInv
<1>1. TypeOK'
  BY DEF WatchCheck, SetWatch, LockFree, TypeOK, Entries
<1>2. OwnersSound'
  BY DEF WatchCheck, SetWatch, LockFree, OwnersSound, TypeOK
<1>3. WithinLimit'
  <2> Entries' \subseteq Entries
    BY DEF WatchCheck, SetWatch, LockFree, Entries, TypeOK
  <2> QED  BY Shrinks
<1>4. PostSound'
  BY DEF WatchCheck, SetWatch, LockFree, PostSound, TypeOK, Entries, Known
<1>5. WatchSound'
  <2> SUFFICES ASSUME NEW x \in Conns, watch'[x] = "detaching"
               PROVE  Known(x) /\ (x \in bindings => ~Live(x) \/ x \in overdue \/ x \in doubted)
    BY DEF WatchSound, WatchCheck, SetWatch, Known, Live
  <2>1. CASE x = c
    BY <2>1 DEF WatchCheck, SetWatch, OwnersSound, TypeOK, Known
  <2>2. CASE x # c
    BY <2>2 DEF WatchCheck, SetWatch, WatchSound, TypeOK
  <2> QED  BY <2>1, <2>2
<1>6. CloserSound'
  BY DEF WatchCheck, SetWatch, LockFree, CloserSound, TypeOK, Live, Known, Entries
<1>7. DisabledIsQuiet'
  BY DEF WatchCheck, SetWatch, LockFree, DisabledIsQuiet, Entries, TypeOK, PostSound
<1>8. Caused
  BY DEF WatchCheck, SetWatch, LockFree, Caused, OwnersSound, TypeOK, Live
<1> QED  BY <1>1, <1>2, <1>3, <1>4, <1>5, <1>6, <1>7, <1>8

\* A token that cannot be checked is a reason too.
LEMMA WatchDoubtsKeeps ==
  ASSUME IInv, NEW c \in Conns, WatchDoubts(c)
  PROVE  IInv' /\ Caused
<1> USE DEF IInv
<1>1. TypeOK'
  BY DEF WatchDoubts, SetWatch, LockFree, TypeOK, Entries
<1>2. OwnersSound'
  BY DEF WatchDoubts, SetWatch, LockFree, OwnersSound, TypeOK
<1>3. WithinLimit'
  <2> Entries' \subseteq Entries
    BY DEF WatchDoubts, SetWatch, LockFree, Entries, TypeOK
  <2> QED  BY Shrinks
<1>4. PostSound'
  BY DEF WatchDoubts, SetWatch, LockFree, PostSound, TypeOK, Entries, Known
<1>5. WatchSound'
  <2> SUFFICES ASSUME NEW x \in Conns, watch'[x] = "detaching"
               PROVE  Known(x) /\ (x \in bindings => ~Live(x) \/ x \in overdue \/ x \in doubted')
    BY DEF WatchSound, WatchDoubts, SetWatch, Known, Live
  <2>1. CASE x = c
    BY <2>1 DEF WatchDoubts, SetWatch, OwnersSound, TypeOK, Known
  <2>2. CASE x # c
    BY <2>2 DEF WatchDoubts, SetWatch, WatchSound, TypeOK
  <2> QED  BY <2>1, <2>2
<1>6. CloserSound'
  BY DEF WatchDoubts, SetWatch, LockFree, CloserSound, TypeOK, Live, Known, Entries
<1>7. DisabledIsQuiet'
  BY DEF WatchDoubts, SetWatch, LockFree, DisabledIsQuiet, Entries, TypeOK, PostSound
<1>8. Caused
  BY DEF WatchDoubts, SetWatch, LockFree, Caused, OwnersSound, TypeOK, Live
<1> QED  BY <1>1, <1>2, <1>3, <1>4, <1>5, <1>6, <1>7, <1>8

\* The reason found before the wait for the lock still holds.
LEMMA WatchDetachKeeps ==
  ASSUME IInv, NEW c \in Conns, WatchDetach(c)
  PROVE  IInv' /\ Caused
<1> USE DEF IInv
<1>1. TypeOK'
  BY DEF WatchDetach, DetachOne, Detach, Remove, Cancel, Closing, Unwatched, LockFree,
     TypeOK, Entries
<1>2. OwnersSound'
  BY DEF WatchDetach, DetachOne, Detach, Remove, Cancel, Closing, Unwatched, LockFree,
     OwnersSound, TypeOK
<1>3. WithinLimit'
  <2> Entries' \subseteq Entries
    BY DEF WatchDetach, DetachOne, Detach, Remove, Cancel, Closing, Unwatched,
       LockFree, Entries, TypeOK
  <2> QED  BY Shrinks
<1>4. PostSound'
  BY DEF WatchDetach, DetachOne, Detach, Remove, Cancel, Closing, Unwatched, LockFree,
     PostSound, TypeOK, Entries, Known
<1>5. WatchSound'
  BY DEF WatchDetach, DetachOne, Detach, Remove, Cancel, Closing, Unwatched, LockFree,
     WatchSound, TypeOK, Live, Known, Entries
<1>6. CloserSound'
  BY DEF WatchDetach, DetachOne, Detach, Remove, Cancel, Closing, Unwatched, LockFree,
     CloserSound, TypeOK, Live, Known, Entries
<1>7. DisabledIsQuiet'
  BY DEF WatchDetach, DetachOne, Detach, Remove, Cancel, Closing, Unwatched, LockFree,
     DisabledIsQuiet, Entries, TypeOK, PostSound
<1>8. Caused
  <2> SUFFICES ASSUME NEW x \in bindings, x \notin bindings'
               PROVE  ~Live(x) \/ x \in overdue \/ x \in doubted
    BY DEF Caused
  <2> x = c
    BY DEF WatchDetach, DetachOne, Detach, Remove
  <2> QED  BY DEF WatchDetach, WatchSound
<1> QED  BY <1>1, <1>2, <1>3, <1>4, <1>5, <1>6, <1>7, <1>8

\* So does that of a failed check of a tool.
LEMMA CloserRunsKeeps ==
  ASSUME IInv, NEW c \in Conns, CloserRuns(c)
  PROVE  IInv' /\ Caused
<1> USE DEF IInv
<1>1. TypeOK'
  BY DEF CloserRuns, Detach, Remove, Cancel, Closing, Unwatched, LockFree, TypeOK,
     Entries
<1>2. OwnersSound'
  BY DEF CloserRuns, Detach, Remove, Cancel, Closing, Unwatched, LockFree,
     OwnersSound, TypeOK
<1>3. WithinLimit'
  <2> Entries' \subseteq Entries
    BY DEF CloserRuns, Detach, Remove, Cancel, Closing, Unwatched, LockFree,
       Entries, TypeOK
  <2> QED  BY Shrinks
<1>4. PostSound'
  BY DEF CloserRuns, Detach, Remove, Cancel, Closing, Unwatched, LockFree, PostSound,
     TypeOK, Entries, Known
<1>5. WatchSound'
  BY DEF CloserRuns, Detach, Remove, Cancel, Closing, Unwatched, LockFree, WatchSound,
     TypeOK, Live, Known, Entries
<1>6. CloserSound'
  BY DEF CloserRuns, Detach, Remove, Cancel, Closing, Unwatched, LockFree,
     CloserSound, TypeOK, Live, Known, Entries
<1>7. DisabledIsQuiet'
  BY DEF CloserRuns, Detach, Remove, Cancel, Closing, Unwatched, LockFree,
     DisabledIsQuiet, Entries, TypeOK, PostSound
<1>8. Caused
  <2> SUFFICES ASSUME NEW x \in bindings, x \notin bindings'
               PROVE  ~Live(x) \/ x \in doubted
    BY DEF Caused
  <2> x = c
    BY DEF CloserRuns, Detach, Remove
  <2> QED  BY DEF CloserRuns, CloserSound
<1> QED  BY <1>1, <1>2, <1>3, <1>4, <1>5, <1>6, <1>7, <1>8

\* With the gate the POST knows that connectivity is on and what its token is.
LEMMA PostArrivesKeeps ==
  ASSUME IInv, NEW p \in Posts, NEW c \in Conns, NEW t \in Tokens, PostArrives(p, c, t)
  PROVE  IInv' /\ Caused
<1> USE DEF IInv
<1>1. TypeOK'
  BY DEF PostArrives, GateFree, TypeOK, Entries
<1>2. OwnersSound'
  BY DEF PostArrives, GateFree, OwnersSound, TypeOK
<1>3. WithinLimit'
  <2> Entries' \subseteq Entries
    BY DEF PostArrives, GateFree, Entries, TypeOK
  <2> QED  BY Shrinks
<1>4. PostSound'
  BY DEF PostArrives, GateFree, PostSound, TypeOK, Entries, Known
<1>5. WatchSound'
  BY DEF PostArrives, GateFree, WatchSound, TypeOK, Live, Known, Entries
<1>6. CloserSound'
  BY DEF PostArrives, GateFree, CloserSound, TypeOK, Live, Known, Entries
<1>7. DisabledIsQuiet'
  BY DEF PostArrives, GateFree, DisabledIsQuiet, Entries, TypeOK, PostSound
<1>8. Caused
  BY DEF PostArrives, GateFree, Caused, OwnersSound, TypeOK, Live
<1> QED  BY <1>1, <1>2, <1>3, <1>4, <1>5, <1>6, <1>7, <1>8

\* A refused token closes a session of its own, a doubtful one the session in doubt.
LEMMA PostDetachesKeeps ==
  ASSUME IInv, NEW p \in Posts, PostDetaches(p)
  PROVE  IInv' /\ Caused
<1> USE DEF IInv
<1>1. TypeOK'
  BY DEF PostDetaches, OwnSession, Answered, Detach, Remove, Cancel, Closing,
     Unwatched, LockFree, TypeOK, Entries
<1>2. OwnersSound'
  BY DEF PostDetaches, OwnSession, Answered, Detach, Remove, Cancel, Closing,
     Unwatched, LockFree, OwnersSound, TypeOK
<1>3. WithinLimit'
  <2> Entries' \subseteq Entries
    BY DEF PostDetaches, OwnSession, Answered, Detach, Remove, Cancel, Closing,
       Unwatched, LockFree, Entries, TypeOK
  <2> QED  BY Shrinks
<1>4. PostSound'
  BY DEF PostDetaches, OwnSession, Answered, Detach, Remove, Cancel, Closing,
     Unwatched, LockFree, PostSound, TypeOK, Entries, Known
<1>5. WatchSound'
  BY DEF PostDetaches, OwnSession, Answered, Detach, Remove, Cancel, Closing,
     Unwatched, LockFree, WatchSound, TypeOK, Live, Known, Entries
<1>6. CloserSound'
  BY DEF PostDetaches, OwnSession, Answered, Detach, Remove, Cancel, Closing,
     Unwatched, LockFree, CloserSound, TypeOK, Live, Known, Entries
<1>7. DisabledIsQuiet'
  BY DEF PostDetaches, OwnSession, Answered, Detach, Remove, Cancel, Closing,
     Unwatched, LockFree, DisabledIsQuiet, Entries, TypeOK, PostSound
<1>8. Caused
  <2> SUFFICES ASSUME NEW x \in bindings, x \notin bindings'
               PROVE  ~Live(x) \/ x \in doubted
    BY DEF Caused
  <2>1. x = target[p] /\ ppc[p] \in {"refused", "doubting"}
    BY DEF PostDetaches, OwnSession, Detach, Remove
  <2>2. CASE ppc[p] = "refused"
    BY <2>1, <2>2 DEF PostDetaches, OwnSession, Detach, Remove, PostSound, Live
  <2>3. CASE ppc[p] = "doubting"
    BY <2>1, <2>3 DEF PostSound
  <2> QED  BY <2>1, <2>2, <2>3
<1> QED  BY <1>1, <1>2, <1>3, <1>4, <1>5, <1>6, <1>7, <1>8

\* What was swept was overdue; the lock keeps it out until the POST ends.
LEMMA PostBindsKeeps ==
  ASSUME IInv, NEW p \in Posts, PostBinds(p)
  PROVE  IInv' /\ Caused
<1> USE DEF IInv
<1>1. TypeOK'
  BY DEF PostBinds, Sweeps, Answered, Detach, Remove, Cancel, Closing, Unwatched,
     LockFree, TypeOK, Entries
<1>2. OwnersSound'
  BY DEF PostBinds, Sweeps, Answered, Detach, Remove, Cancel, Closing, Unwatched,
     LockFree, OwnersSound, TypeOK
<1>3. WithinLimit'
  <2> Entries' \subseteq Entries
    BY DEF PostBinds, Sweeps, Answered, Detach, Remove, Cancel, Closing, Unwatched,
       LockFree, Entries, TypeOK
  <2> QED  BY Shrinks
<1>4. PostSound'
  BY DEF PostBinds, Sweeps, Answered, Detach, Remove, Cancel, Closing, Unwatched,
     LockFree, PostSound, TypeOK, Entries, Known
<1>5. WatchSound'
  BY DEF PostBinds, Sweeps, Answered, Detach, Remove, Cancel, Closing, Unwatched,
     LockFree, WatchSound, TypeOK, Live, Known, Entries
<1>6. CloserSound'
  BY DEF PostBinds, Sweeps, Answered, Detach, Remove, Cancel, Closing, Unwatched,
     LockFree, CloserSound, TypeOK, Live, Known, Entries
<1>7. DisabledIsQuiet'
  BY DEF PostBinds, Sweeps, Answered, Detach, Remove, Cancel, Closing, Unwatched,
     LockFree, DisabledIsQuiet, Entries, TypeOK, PostSound
<1>8. Caused
  BY DEF PostBinds, Sweeps, Answered, Detach, Remove, Cancel, Closing, Unwatched,
     LockFree, Caused, OwnersSound, TypeOK, Live
<1> QED  BY <1>1, <1>2, <1>3, <1>4, <1>5, <1>6, <1>7, <1>8

\* Owners of what was swept have no slot any more when they are cancelled.
LEMMA PostEndsKeeps ==
  ASSUME IInv, NEW p \in Posts, PostEnds(p)
  PROVE  IInv' /\ Caused
<1> USE DEF IInv
<1>1. TypeOK'
  <2>1. target[p] \in Conns /\ swept[p] \subseteq Conns
    BY DEF PostEnds, PostSound, TypeOK
  <2>2. /\ closers' \subseteq closers \cup {target[p]}
        /\ doubted' \subseteq doubted \cup {target[p]}
    BY DEF PostEnds
  <2>3. /\ step' \in [Conns -> {"idle", "admitting", "reserved", "promoting", "bound", "closing", "ended"}]
        /\ watch' \in [Conns -> {"off", "waiting", "timedout", "checking", "detaching"}]
    BY DEF PostEnds, Cancel, Closing, Unwatched, TypeOK
  <2>4. /\ ppc' \in [Posts -> {"idle", "queued", "refused", "doubting", "sending"}]
        /\ target' \in [Posts -> Conns \cup {Nobody}]
        /\ bearer' \in [Posts -> Tokens \cup {Nobody}]
        /\ swept' \in [Posts -> SUBSET Conns]
    BY DEF PostEnds, Answered, TypeOK
  <2>5. UNCHANGED <<enabled, available, disk, detaching, token, reservations, bindings, overdue>>
    BY DEF PostEnds
  <2> QED  BY <2>1, <2>2, <2>3, <2>4, <2>5 DEF TypeOK, Entries
<1>2. OwnersSound'
  <2>1. swept[p] \cap Entries = {}
    BY DEF PostEnds, PostSound
  <2>2. \A c \in Entries : step'[c] = step[c]
    BY <2>1 DEF PostEnds, Cancel, Closing, TypeOK, Entries
  <2>3. UNCHANGED <<reservations, bindings>>
    BY DEF PostEnds
  <2> QED  BY <2>2, <2>3 DEF OwnersSound, Entries
<1>3. WithinLimit'
  <2> Entries' \subseteq Entries
    BY DEF PostEnds, Answered, Cancel, Closing, Unwatched, Entries, TypeOK
  <2> QED  BY Shrinks
<1>4. PostSound'
  BY DEF PostEnds, Answered, Cancel, Closing, Unwatched, PostSound, TypeOK, Entries,
     Known
<1>5. WatchSound'
  BY DEF PostEnds, Answered, Cancel, Closing, Unwatched, WatchSound, TypeOK, Live,
     Known, Entries
<1>6. CloserSound'
  <2>1. PICK failed \in SUBSET {c \in {target[p]} : step[c] = "bound"} :
          /\ closers' = closers \cup failed
          /\ doubted' = doubted \cup {c \in failed : Live(c)}
    BY DEF PostEnds
  <2>2. target[p] \in Conns
    BY DEF PostEnds, PostSound
  <2>3. \A c \in Conns : Known(c) => Known(c)'
    BY DEF PostEnds, Cancel, Closing, Known, TypeOK
  <2>4. UNCHANGED <<bindings, token>>
    BY DEF PostEnds
  <2>5. \A c \in failed : c \in Conns /\ Known(c)
    BY <2>1, <2>2 DEF Known
  <2> SUFFICES ASSUME NEW c \in closers'
               PROVE  Known(c)' /\ (c \in bindings => ~Live(c) \/ c \in doubted')
    BY <2>4 DEF CloserSound, Live
  <2>6. CASE c \in closers
    BY <2>1, <2>3, <2>6 DEF CloserSound, TypeOK
  <2>7. CASE c \in failed
    BY <2>1, <2>3, <2>5, <2>7
  <2> QED  BY <2>1, <2>6, <2>7
<1>7. DisabledIsQuiet'
  BY DEF PostEnds, Answered, Cancel, Closing, Unwatched, DisabledIsQuiet, Entries,
     TypeOK, PostSound
<1>8. Caused
  BY DEF PostEnds, Answered, Cancel, Closing, Unwatched, Caused, OwnersSound, TypeOK,
     Live
<1> QED  BY <1>1, <1>2, <1>3, <1>4, <1>5, <1>6, <1>7, <1>8

\* Every step keeps the invariant and ends no session without a cause.
LEMMA NextHolds == IInv /\ Next => IInv' /\ Caused
<1> SUFFICES ASSUME IInv, Next PROVE IInv' /\ Caused
  OBVIOUS
<1>1. CASE Enable \/ Disable \/ Shutdown \/ DetachAll \/ Restart
  BY <1>1, EnableKeeps, DisableKeeps, ShutdownKeeps, DetachAllKeeps, RestartKeeps
<1>2. CASE \E t \in Tokens : Revoke(t) \/ Expire(t)
  BY <1>2, RevokeKeeps, ExpireKeeps
<1>3. ASSUME NEW c \in Conns,
             \/ DeadlinePasses(c) \/ GetArrives(c) \/ Admit(c) \/ FirstFrame(c) \/ Promote(c)
             \/ Reject(c) \/ Leave(c) \/ Close(c)
      PROVE  IInv' /\ Caused
  BY <1>3, DeadlinePassesKeeps, GetArrivesKeeps, AdmitKeeps, FirstFrameKeeps,
     PromoteKeeps, RejectKeeps, LeaveKeeps, CloseKeeps
<1>4. ASSUME NEW c \in Conns, WatchStep(c) \/ WatchDoubts(c) \/ CloserRuns(c)
      PROVE  IInv' /\ Caused
  BY <1>4, WatchTimeoutKeeps, WatchReleaseKeeps, WatchCheckKeeps, WatchDetachKeeps,
     WatchDoubtsKeeps, CloserRunsKeeps DEF WatchStep
<1>5. ASSUME NEW p \in Posts, PostStep(p) \/ \E c \in Conns, t \in Tokens : PostArrives(p, c, t)
      PROVE  IInv' /\ Caused
  BY <1>5, PostDetachesKeeps, PostBindsKeeps, PostEndsKeeps, PostArrivesKeeps DEF
     PostStep
<1> QED  BY <1>1, <1>2, <1>3, <1>4, <1>5 DEF Next

\* So does a step that changes nothing.
LEMMA StutterHolds == IInv /\ UNCHANGED vars => IInv'
  BY DEF IInv, vars, TypeOK, OwnersSound, WithinLimit, PostSound, WatchSound,
     CloserSound,
     DisabledIsQuiet, Entries, Live, Known

-----------------------------------------------------------------------------
\* The invariant holds in every behaviour.
THEOREM Inductive == Spec => []IInv
  BY InitHolds, NextHolds, StutterHolds, PTL DEF Spec

\* Every variable keeps its type.
THEOREM TypeCorrect == Spec => []TypeOK
<1>1. IInv => TypeOK
  BY DEF IInv
<1> QED  BY <1>1, Inductive, PTL

\* With connectivity off no session, reservation or message passes, whatever was
\* waiting for a lock when it was closed.
THEOREM ClosedGateIsQuiet == Spec => []DisabledIsQuiet
<1>1. IInv => DisabledIsQuiet
  BY DEF IInv
<1> QED  BY <1>1, Inductive, PTL

\* However requests end, every slot has a running owner and there are never more
\* than MAX_MCP_CONNECTIONS of them.
THEOREM SlotsStayOwned == Spec => []SlotsAreOwned
<1>1. IInv => SlotsAreOwned
  BY DEF IInv, SlotsAreOwned, OwnersSound, WithinLimit, Entries
<1> QED  BY <1>1, Inductive, PTL

\* A session ends only for a reason of its own, or with all others.
THEOREM EveryCloseHasACause == Spec => ClosedForCause
<1>1. IInv /\ [Next]_vars => [Caused]_vars
  BY NextHolds
<1> QED  BY <1>1, Inductive, PTL DEF Spec, ClosedForCause

-----------------------------------------------------------------------------
(* The registry of SessionRegistry *)

\* Requests past their admission.
Admitted == {c \in Conns : step[c] \notin {"idle", "admitting"}}

Fitting == {S \in SUBSET Conns : Cardinality(S) <= MAX_MCP_CONNECTIONS}

\* Who has an entry is past admission.
LEMMA EntriesAdmitted == IInv => Entries \subseteq Admitted
  BY DEF IInv, TypeOK, OwnersSound, Entries, Admitted

\* Without a new entry, whoever lost one was let go.
LEMMA Dismisses ==
  ASSUME IInv, enabled' = enabled, Entries' \subseteq Entries, Admitted \subseteq Admitted'
  PROVE  Registry!RegistryNext
<1>1. PICK out \in SUBSET Conns : out = Admitted' \ Entries'
  BY DEF Admitted
<1>2. Entries' = Entries \ out
  BY <1>1, EntriesAdmitted
<1>3. Admitted' \ Entries' = (Admitted \ Entries) \cup out
  BY <1>1
<1>4. Registry!Dismissal(out)
  BY <1>2, <1>3 DEF Registry!Dismissal, Admitted
<1> QED  BY <1>4 DEF Registry!RegistryNext

\* A slot goes to a session that never had one, with room for it and the gate open;
\* a request that is turned away counts as gone, and what was swept is.
LEMMA AdmitRefines ==
  ASSUME IInv, IInv', NEW c \in Conns, Admit(c)
  PROVE  Registry!RegistryNext
<1>1. PICK S \in Sweeps :
      /\ step[c] = "admitting"
      /\ reservations' = (reservations \ S) \cup (IF Room(S) THEN {c} ELSE {})
      /\ bindings' = bindings \ S
      /\ step' = [Closing(S) EXCEPT ![c] = IF Room(S) THEN "reserved" ELSE "ended"]
      /\ enabled' = enabled
  BY DEF Admit
<1>2. S \subseteq Entries /\ c \notin Admitted /\ c \notin Entries
  BY <1>1, EntriesAdmitted DEF Sweeps, Admitted
<1>3. Admitted' = Admitted \cup {c}
  <2>1. \A d \in Conns : Closing(S)[d] \notin {"idle", "admitting"} <=> d \in Admitted
    BY <1>2, EntriesAdmitted DEF Closing, Admitted
  <2>2. \A d \in Conns : step'[d] = IF d = c THEN IF Room(S) THEN "reserved" ELSE "ended"
                                    ELSE Closing(S)[d]
    BY <1>1 DEF Closing
  <2> QED  BY <2>1, <2>2 DEF Admitted
<1>4. CASE Room(S)
  <2>1. Entries' = (Entries \ S) \cup {c}
    BY <1>1, <1>4 DEF Entries
  <2>2. Entries' \in Fitting
    BY DEF Fitting, IInv, TypeOK, WithinLimit, Entries
  <2>3. Admitted' \ Entries' = (Admitted \ Entries) \cup S
    BY <1>2, <1>3, <2>1, EntriesAdmitted
  <2>4. Registry!Admission(c, S)
    BY <1>1, <1>2, <1>4, <2>1, <2>2, <2>3 DEF Registry!Admission, Room, Admitted, Fitting
  <2>5. S \in SUBSET Conns
    BY <1>2 DEF IInv, TypeOK, Entries
  <2> QED  BY <2>4, <2>5 DEF Registry!RegistryNext
<1>5. CASE ~Room(S)
  <2>1. Entries' \subseteq Entries
    BY <1>1, <1>5 DEF Entries
  <2> QED  BY <1>1, <1>3, <2>1, Dismisses
<1> QED  BY <1>4, <1>5

\* Cancelled owners stay past their admission.
LEMMA CancelAdmits ==
  ASSUME NEW S \in SUBSET Conns, Cancel(S)
  PROVE  Admitted \subseteq Admitted'
  BY DEF Cancel, Closing, Admitted

LEMMA OperatorRefines ==
  ASSUME IInv, Enable \/ Disable \/ Shutdown \/ DetachAll \/ Restart
  PROVE  [Registry!RegistryNext]_(Registry!registryVars)
<1>1. CASE Enable \/ Disable
  <2>1. UNCHANGED <<step, Entries>> /\ enabled' \in BOOLEAN
    BY <1>1 DEF Enable, Disable, Entries, IInv, TypeOK
  <2>2. UNCHANGED Admitted
    BY <2>1 DEF Admitted
  <2>3. CASE enabled' = enabled
    BY <2>1, <2>2, <2>3, Dismisses
  <2>4. CASE enabled' # enabled
    <3>1. enabled' = ~enabled
      BY <2>1, <2>4 DEF IInv, TypeOK
    <3>2. Registry!Switch
      BY <2>1, <2>2, <3>1 DEF Registry!Switch, Admitted
    <3> QED  BY <3>2 DEF Registry!RegistryNext
  <2> QED  BY <2>3, <2>4
<1>2. CASE Shutdown
  <2>1. UNCHANGED <<step, Entries, enabled>>
    BY <1>2 DEF Shutdown, Entries
  <2> QED  BY <2>1, Dismisses DEF Admitted
<1>3. CASE DetachAll
  <2>1. Entries \in SUBSET Conns /\ enabled' = enabled /\ Entries' \subseteq Entries /\ Cancel(Entries)
    BY <1>3 DEF DetachAll, Detach, Remove, Entries, IInv, TypeOK
  <2> QED  BY <2>1, CancelAdmits, Dismisses
<1>4. CASE Restart
  <2>1. Entries' = {} /\ enabled' \in BOOLEAN
    BY <1>4 DEF Restart, Entries, IInv, TypeOK
  <2>2. Admitted \subseteq Admitted'
    BY <1>4 DEF Restart, Admitted
  <2>3. PICK out \in SUBSET Conns : out = Admitted'
    BY DEF Admitted
  <2>4. Admitted' \ Entries' = ((Admitted \ Entries) \cup Entries) \cup out
    BY <2>1, <2>2, <2>3, EntriesAdmitted
  <2>5. Registry!Reset(out)
    BY <2>1, <2>4 DEF Registry!Reset, Admitted
  <2> QED  BY <2>5 DEF Registry!RegistryNext
<1> QED  BY <1>1, <1>2, <1>3, <1>4

LEMMA RequestRefines ==
  ASSUME IInv, NEW c \in Conns,
         \/ DeadlinePasses(c) \/ GetArrives(c) \/ FirstFrame(c) \/ Promote(c)
         \/ Reject(c) \/ Leave(c) \/ Close(c)
  PROVE  Registry!RegistryNext
<1>1. CASE DeadlinePasses(c)
  <2>1. UNCHANGED <<step, Entries, enabled>>
    BY <1>1 DEF DeadlinePasses, Entries
  <2> QED  BY <2>1, Dismisses DEF Admitted
<1>2. CASE GetArrives(c) \/ FirstFrame(c)
  <2>1. UNCHANGED <<Entries, enabled>>
    BY <1>2 DEF GetArrives, FirstFrame, Entries
  <2>2. Admitted \subseteq Admitted'
    BY <1>2 DEF GetArrives, FirstFrame, Admitted, IInv, TypeOK
  <2> QED  BY <2>1, <2>2, Dismisses
<1>3. CASE Promote(c)
  <2>1. UNCHANGED <<Entries, enabled>>
    BY <1>3 DEF Promote, Entries
  <2>2. Admitted \subseteq Admitted'
    BY <1>3 DEF Promote, Admitted, IInv, TypeOK
  <2> QED  BY <2>1, <2>2, Dismisses
<1>4. CASE Reject(c) \/ Leave(c)
  <2>1. UNCHANGED <<Entries, enabled>> /\ Cancel({c})
    BY <1>4 DEF Reject, Leave, Ends, Entries
  <2> QED  BY <2>1, CancelAdmits, Dismisses
<1>5. CASE Close(c)
  <2>1. Entries' \subseteq Entries /\ enabled' = enabled
    BY <1>5 DEF Close, Remove, Entries
  <2>2. Admitted \subseteq Admitted'
    BY <1>5 DEF Close, Admitted, IInv, TypeOK
  <2> QED  BY <2>1, <2>2, Dismisses
<1> QED  BY <1>1, <1>2, <1>3, <1>4, <1>5

\* Whoever takes an entry cancels its owner.
LEMMA DetachRefines ==
  ASSUME IInv, NEW S \in SUBSET Conns, Detach(S), enabled' = enabled
  PROVE  Registry!RegistryNext
<1>1. Entries' \subseteq Entries /\ Cancel(S)
  BY DEF Detach, Remove, Entries
<1> QED  BY <1>1, CancelAdmits, Dismisses

LEMMA WatchRefines ==
  ASSUME IInv, NEW c \in Conns, WatchStep(c) \/ WatchDoubts(c) \/ CloserRuns(c)
  PROVE  Registry!RegistryNext
<1>1. CASE Detach({c}) /\ enabled' = enabled
  BY <1>1, DetachRefines
<1>2. CASE UNCHANGED <<step, reservations, bindings, enabled>>
  BY <1>2, Dismisses DEF Entries, Admitted
<1> QED  BY <1>1, <1>2 DEF WatchStep, WatchTimeout, WatchRelease, WatchCheck, WatchDetach, WatchDoubts,
            CloserRuns, SetWatch, DetachOne

LEMMA PostRefines ==
  ASSUME IInv, NEW p \in Posts,
         PostStep(p) \/ \E c \in Conns, t \in Tokens : PostArrives(p, c, t)
  PROVE  Registry!RegistryNext
<1>1. CASE PostDetaches(p)
  <2>1. \E S \in SUBSET Conns : Detach(S)
    <3>1. \A S : S \cap bindings \in SUBSET Conns
      BY DEF IInv, TypeOK
    <3> QED  BY <1>1, <3>1 DEF PostDetaches
  <2> QED  BY <1>1, <2>1, DetachRefines DEF PostDetaches
<1>2. CASE PostBinds(p)
  <2>1. PICK S \in Sweeps : Remove(S) /\ (UNCHANGED step \/ Cancel(S)) /\ enabled' = enabled
    BY <1>2 DEF PostBinds
  <2>2. S \in SUBSET Conns /\ Entries' \subseteq Entries
    BY <2>1 DEF Sweeps, Remove, Entries, IInv, TypeOK
  <2>3. Admitted \subseteq Admitted'
    BY <2>1, <2>2, CancelAdmits DEF Admitted
  <2> QED  BY <2>1, <2>2, <2>3, Dismisses
<1>3. CASE PostEnds(p)
  <2>1. swept[p] \in SUBSET Conns /\ Cancel(swept[p]) /\ UNCHANGED <<Entries, enabled>>
    BY <1>3 DEF PostEnds, Entries, IInv, TypeOK
  <2> QED  BY <2>1, CancelAdmits, Dismisses
<1>4. CASE \E c \in Conns, t \in Tokens : PostArrives(p, c, t)
  <2>1. UNCHANGED <<step, Entries, enabled>>
    BY <1>4 DEF PostArrives, Entries
  <2> QED  BY <2>1, Dismisses DEF Admitted
<1> QED  BY <1>1, <1>2, <1>3, <1>4 DEF PostStep

LEMMA StepRefines ==
  ASSUME IInv, IInv', [Next]_vars
  PROVE  [Registry!RegistryNext]_(Registry!registryVars)
<1>1. CASE Next
  <2>1. CASE \E t \in Tokens : Revoke(t) \/ Expire(t)
    <3>1. UNCHANGED <<step, Entries, enabled>>
      BY <2>1 DEF Revoke, Expire, Entries
    <3> QED  BY <3>1, Dismisses DEF Admitted
  <2> QED  BY <1>1, <2>1, OperatorRefines, RequestRefines, AdmitRefines, WatchRefines, PostRefines
           DEF Next
<1>2. CASE UNCHANGED vars
  BY <1>2, Dismisses DEF vars, Entries, Admitted
<1> QED  BY <1>1, <1>2

LEMMA InitRefines == Init => Registry!RegistryInit
  BY DEF Init, Registry!RegistryInit, Entries

\* A slot is given only with connectivity on, once to a session, and within any limit,
\* whatever requests, watchdogs, POSTs and the operator decided before they waited.
THEOREM GuardRefinesRegistry == Spec => RefinesRegistry
<1>1. IInv /\ IInv' /\ [Next]_vars => [Registry!RegistryNext]_(Registry!registryVars)
  BY StepRefines
<1> QED  BY <1>1, InitRefines, Inductive, PTL DEF Spec, RefinesRegistry, Registry!RegistrySpec

=============================================================================
