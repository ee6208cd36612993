-------------------------- MODULE SessionRegistry --------------------------
(***************************************************************************)
(* What a registry of sessions promises, however its clients overlap and   *)
(* whatever waits for its lock.  A session is registered once and never    *)
(* again, only while the registry is open, and together with others only   *)
(* if all of them fit: so many at most, or one of each user.  McpGuard and *)
(* CopilotSessions both refine this specification.                         *)
(***************************************************************************)
CONSTANTS Sessions, Admissible   \* sets of sessions that may be registered at once

VARIABLES
  registered,
  past,        \* sessions that were let go or turned away
  open

registryVars == <<registered, past, open>>

RegistryInit == registered = {} /\ past = {} /\ open \in BOOLEAN

\* A new session may take the place of others.
Admission(s, out) ==
  /\ open /\ s \notin registered \cup past
  /\ registered' = (registered \ out) \cup {s}
  /\ registered' \in Admissible
  /\ past' = past \cup out
  /\ UNCHANGED open

Dismissal(out) ==
  /\ registered' = registered \ out
  /\ past' = past \cup out
  /\ UNCHANGED open

Switch == open' = ~open /\ UNCHANGED <<registered, past>>

\* The process ends and starts again, and nothing is registered.
Reset(out) ==
  /\ registered' = {}
  /\ past' = past \cup registered \cup out
  /\ open' \in BOOLEAN

RegistryNext ==
  \/ Switch
  \/ \E out \in SUBSET Sessions :
       Dismissal(out) \/ Reset(out) \/ \E s \in Sessions : Admission(s, out)

RegistrySpec == RegistryInit /\ [][RegistryNext]_registryVars
=============================================================================
