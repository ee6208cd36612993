----------------------- MODULE SerialLifecycleProofs -----------------------
(***************************************************************************)
(* Proofs about SerialLifecycle for any number of calls, any threshold and *)
(* any number of restarts and failed saves.                                *)
(***************************************************************************)
EXTENDS SerialLifecycle, TLAPS

USE ConstantsAssumption DEF ConstantsAssumption, NoToken, Tokens, Bootstrap

\* An answer that brings a token brings a real one.
AnswerSound == ans = "ok" /\ req \in {"activate", "refresh"} => fresh # NoToken

\* Both copies of the state are sound: a restart goes on from the one on disk.
DiskSound ==
  /\ disk.state = "active" => disk.failures < FAILURE_THRESHOLD
  /\ disk.state = "degraded" => disk.failures >= FAILURE_THRESHOLD

\* Every data call let through offline has been counted as a failure, in
\* memory and on disk, since the server last answered.
GraceIsCounted ==
  /\ grace < FAILURE_THRESHOLD
  /\ grace <= failures
  /\ grace <= disk.failures

\* The inductive invariant.
IInv ==
  /\ TypeOK
  /\ AnswerSound
  /\ CredentialsSound
  /\ BreakerSound /\ DiskSound
  /\ GraceIsCounted

USE DEF memory, manager, calls, server, others

\* A container starts with nothing but, perhaps, a bootstrap token.
LEMMA InitHolds == Init => IInv
<1> SUFFICES ASSUME Init PROVE IInv
  OBVIOUS
<1>1. /\ bootstrap \in Bootstrap /\ state \in States /\ install \in Tokens
      /\ failures \in 0 .. FAILURE_THRESHOLD
  BY DEF Init, States
<1>2. disk \in [state : States, install : Tokens, bootstrap : Bootstrap,
                failures : 0 .. FAILURE_THRESHOLD]
  BY <1>1 DEF Init, OnDisk
<1>3. oldVersion \in BOOLEAN /\ consumed \in BOOLEAN
  BY DEF Init
<1>4. /\ faults \in 0 .. MaxFaults /\ issued \in Tokens /\ valid \subseteq 1 .. MaxToken
      /\ queued \in 0 .. QueueCap /\ grace \in Nat /\ stray \subseteq Tokens /\ heard \in Tokens
  BY DEF Init
<1>5. StoreTypeOK /\ ServerTypeOK
  BY <1>1, <1>2, <1>3, <1>4 DEF StoreTypeOK, ServerTypeOK
<1>6. ManagerTypeOK /\ CallsTypeOK
  BY DEF Init, ManagerTypeOK, CallsTypeOK, ManagerAnswers, MeterAnswers
<1> QED
  BY <1>5, <1>6 DEF Init, IInv, TypeOK, AnswerSound, CredentialsSound, BreakerSound, DiskSound,
     GraceIsCounted, OnDisk

\* What a handler leaves on disk is typed when what it leaves in memory is.
LEMMA DiskTyped ==
  ASSUME StoreTypeOK, Saved \/ SaveRaises \/ LaterSaveRaises,
         state' \in States, install' \in Tokens, bootstrap' \in Bootstrap,
         failures' \in 0 .. FAILURE_THRESHOLD
  PROVE  /\ disk' \in [state : States, install : Tokens, bootstrap : Bootstrap,
                       failures : 0 .. FAILURE_THRESHOLD]
         /\ faults' \in 0 .. MaxFaults
BY DEF StoreTypeOK, Saved, SaveRaises, LaterSaveRaises, Fault, OnDisk

\* The manager's own steps, in the order of its program: startup and the loop.
LEMMA BootFindsTokensKeeps ==
  ASSUME IInv, BootFindsTokens
  PROVE  IInv'
<1>1. StoreTypeOK'
  <2>1. /\ state' \in States /\ install' \in Tokens /\ bootstrap' \in Bootstrap
        /\ failures' \in 0 .. FAILURE_THRESHOLD
    BY DEF IInv, TypeOK, StoreTypeOK, ManagerTypeOK, States, BootFindsTokens
  <2>2. (Saved \/ SaveRaises \/ LaterSaveRaises) /\ oldVersion' \in BOOLEAN
    BY DEF IInv, TypeOK, StoreTypeOK, BootFindsTokens, SaveAndGo, SaveTwiceAndGo
  <2> QED  BY <2>1, <2>2, DiskTyped DEF IInv, TypeOK, StoreTypeOK
<1>2. ManagerTypeOK' /\ CallsTypeOK' /\ ServerTypeOK'
  BY DEF IInv, TypeOK, StoreTypeOK, ManagerTypeOK, CallsTypeOK, ServerTypeOK,
  MeterAnswers, ManagerAnswers, BootFindsTokens, SaveAndGo, SaveTwiceAndGo,
  Saved, SaveRaises, LaterSaveRaises, Fault, OnDisk, Raise, Go
<1>3. AnswerSound' /\ CredentialsSound'
  BY DEF IInv, TypeOK, StoreTypeOK, AnswerSound, CredentialsSound,
  BootFindsTokens, SaveAndGo, SaveTwiceAndGo, Saved, SaveRaises,
  LaterSaveRaises, Fault, OnDisk, Raise, Go
<1>4. BreakerSound' /\ DiskSound' /\ GraceIsCounted'
  BY DEF IInv, TypeOK, StoreTypeOK, ServerTypeOK, BreakerSound, DiskSound,
  GraceIsCounted, BootFindsTokens, SaveAndGo, SaveTwiceAndGo, Saved, SaveRaises,
  LaterSaveRaises, Fault, OnDisk, Raise, Go
<1> QED  BY <1>1, <1>2, <1>3, <1>4 DEF IInv, TypeOK

LEMMA BootKeeps ==
  ASSUME IInv, Boot
  PROVE  IInv'
<1>1. StoreTypeOK'
  BY DEF IInv, TypeOK, StoreTypeOK, ManagerTypeOK, States, ManagerAnswers, Boot,
  Send, Go
<1>2. ManagerTypeOK' /\ CallsTypeOK' /\ ServerTypeOK'
  BY DEF IInv, TypeOK, StoreTypeOK, ManagerTypeOK, CallsTypeOK, ServerTypeOK,
  MeterAnswers, ManagerAnswers, Boot, Send, Go
<1>3. AnswerSound' /\ CredentialsSound'
  BY DEF IInv, TypeOK, StoreTypeOK, AnswerSound, CredentialsSound, Boot, Send,
  Go
<1>4. BreakerSound' /\ DiskSound' /\ GraceIsCounted'
  BY DEF IInv, TypeOK, StoreTypeOK, ServerTypeOK, BreakerSound, DiskSound,
  GraceIsCounted, Boot, Send, Go
<1> QED  BY <1>1, <1>2, <1>3, <1>4 DEF IInv, TypeOK

LEMMA CheckKeeps ==
  ASSUME IInv, Check
  PROVE  IInv'
<1>1. StoreTypeOK'
  BY DEF IInv, TypeOK, StoreTypeOK, ManagerTypeOK, States, ManagerAnswers,
  Check, Send, Go
<1>2. ManagerTypeOK' /\ CallsTypeOK' /\ ServerTypeOK'
  BY DEF IInv, TypeOK, StoreTypeOK, ManagerTypeOK, CallsTypeOK, ServerTypeOK,
  MeterAnswers, ManagerAnswers, Check, Send, Go
<1>3. AnswerSound' /\ CredentialsSound'
  BY DEF IInv, TypeOK, StoreTypeOK, AnswerSound, CredentialsSound, Check, Send,
  Go
<1>4. BreakerSound' /\ DiskSound' /\ GraceIsCounted'
  BY DEF IInv, TypeOK, StoreTypeOK, ServerTypeOK, BreakerSound, DiskSound,
  GraceIsCounted, Check, Send, Go
<1> QED  BY <1>1, <1>2, <1>3, <1>4 DEF IInv, TypeOK

LEMMA VersionKeeps ==
  ASSUME IInv, Version
  PROVE  IInv'
<1>1. StoreTypeOK'
  BY DEF IInv, TypeOK, StoreTypeOK, ManagerTypeOK, States, ManagerAnswers,
  Version, Send, Go
<1>2. ManagerTypeOK' /\ CallsTypeOK' /\ ServerTypeOK'
  BY DEF IInv, TypeOK, StoreTypeOK, ManagerTypeOK, CallsTypeOK, ServerTypeOK,
  MeterAnswers, ManagerAnswers, Version, Send, Go
<1>3. AnswerSound' /\ CredentialsSound'
  BY DEF IInv, TypeOK, StoreTypeOK, AnswerSound, CredentialsSound, Version,
  Send, Go
<1>4. BreakerSound' /\ DiskSound' /\ GraceIsCounted'
  BY DEF IInv, TypeOK, StoreTypeOK, ServerTypeOK, BreakerSound, DiskSound,
  GraceIsCounted, Version, Send, Go
<1> QED  BY <1>1, <1>2, <1>3, <1>4 DEF IInv, TypeOK

LEMMA EnterKeeps ==
  ASSUME IInv, Enter
  PROVE  IInv'
<1>1. StoreTypeOK'
  <2>1. /\ state' \in States /\ install' \in Tokens /\ bootstrap' \in Bootstrap
        /\ failures' \in 0 .. FAILURE_THRESHOLD
    BY DEF IInv, TypeOK, StoreTypeOK, ManagerTypeOK, States, Enter
  <2>2. (Saved \/ SaveRaises \/ LaterSaveRaises) /\ oldVersion' \in BOOLEAN
    BY DEF IInv, TypeOK, StoreTypeOK, Enter, SaveAndGo, SaveTwiceAndGo
  <2> QED  BY <2>1, <2>2, DiskTyped DEF IInv, TypeOK, StoreTypeOK
<1>2. ManagerTypeOK' /\ CallsTypeOK' /\ ServerTypeOK'
  BY DEF IInv, TypeOK, StoreTypeOK, ManagerTypeOK, CallsTypeOK, ServerTypeOK,
  MeterAnswers, ManagerAnswers, Enter, SaveAndGo, SaveTwiceAndGo, Saved,
  SaveRaises, LaterSaveRaises, Fault, OnDisk, Raise, Go
<1>3. AnswerSound' /\ CredentialsSound'
  BY DEF IInv, TypeOK, StoreTypeOK, AnswerSound, CredentialsSound, Enter,
  SaveAndGo, SaveTwiceAndGo, Saved, SaveRaises, LaterSaveRaises, Fault, OnDisk,
  Raise, Go
<1>4. BreakerSound' /\ DiskSound' /\ GraceIsCounted'
  BY DEF IInv, TypeOK, StoreTypeOK, ServerTypeOK, BreakerSound, DiskSound,
  GraceIsCounted, Enter, SaveAndGo, SaveTwiceAndGo, Saved, SaveRaises,
  LaterSaveRaises, Fault, OnDisk, Raise, Go
<1> QED  BY <1>1, <1>2, <1>3, <1>4 DEF IInv, TypeOK

LEMMA WakeKeeps ==
  ASSUME IInv, Wake
  PROVE  IInv'
<1>1. StoreTypeOK'
  BY DEF IInv, TypeOK, StoreTypeOK, ManagerTypeOK, States, ManagerAnswers, Wake,
  Send
<1>2. ManagerTypeOK' /\ CallsTypeOK' /\ ServerTypeOK'
  BY DEF IInv, TypeOK, StoreTypeOK, ManagerTypeOK, CallsTypeOK, ServerTypeOK,
  MeterAnswers, ManagerAnswers, Wake, Send
<1>3. AnswerSound' /\ CredentialsSound'
  BY DEF IInv, TypeOK, StoreTypeOK, AnswerSound, CredentialsSound, Wake, Send
<1>4. BreakerSound' /\ DiskSound' /\ GraceIsCounted'
  BY DEF IInv, TypeOK, StoreTypeOK, ServerTypeOK, BreakerSound, DiskSound,
  GraceIsCounted, Wake, Send
<1> QED  BY <1>1, <1>2, <1>3, <1>4 DEF IInv, TypeOK

\* The answers to the manager.
LEMMA ApplyProvisionKeeps ==
  ASSUME IInv, ApplyProvision
  PROVE  IInv'
<1>1. StoreTypeOK'
  <2>1. /\ state' \in States /\ install' \in Tokens /\ bootstrap' \in Bootstrap
        /\ failures' \in 0 .. FAILURE_THRESHOLD
    BY DEF IInv, TypeOK, StoreTypeOK, ManagerTypeOK, States, ApplyProvision
  <2>2. (Saved \/ SaveRaises \/ LaterSaveRaises) /\ oldVersion' \in BOOLEAN
    BY DEF IInv, TypeOK, StoreTypeOK, ApplyProvision, SaveAndGo, SaveTwiceAndGo
  <2> QED  BY <2>1, <2>2, DiskTyped DEF IInv, TypeOK, StoreTypeOK
<1>2. ManagerTypeOK' /\ CallsTypeOK' /\ ServerTypeOK'
  BY DEF IInv, TypeOK, StoreTypeOK, ManagerTypeOK, CallsTypeOK, ServerTypeOK,
  MeterAnswers, ManagerAnswers, ApplyProvision, SaveAndGo, SaveTwiceAndGo,
  Saved, SaveRaises, LaterSaveRaises, Fault, OnDisk, Raise, Go, Send, Contact
<1>3. AnswerSound' /\ CredentialsSound'
  BY DEF IInv, TypeOK, StoreTypeOK, AnswerSound, CredentialsSound,
  ApplyProvision, SaveAndGo, SaveTwiceAndGo, Saved, SaveRaises, LaterSaveRaises,
  Fault, OnDisk, Raise, Go, Send, Contact
<1>4. BreakerSound' /\ DiskSound' /\ GraceIsCounted'
  BY DEF IInv, TypeOK, StoreTypeOK, ServerTypeOK, BreakerSound, DiskSound,
  GraceIsCounted, ApplyProvision, SaveAndGo, SaveTwiceAndGo, Saved, SaveRaises,
  LaterSaveRaises, Fault, OnDisk, Raise, Go, Send, Contact
<1> QED  BY <1>1, <1>2, <1>3, <1>4 DEF IInv, TypeOK

LEMMA ApplyActivationKeeps ==
  ASSUME IInv, ApplyActivation
  PROVE  IInv'
<1>1. StoreTypeOK'
  <2>1. /\ state' \in States /\ install' \in Tokens /\ bootstrap' \in Bootstrap
        /\ failures' \in 0 .. FAILURE_THRESHOLD
    BY DEF IInv, TypeOK, StoreTypeOK, ManagerTypeOK, States, ApplyActivation,
    TransitionToActive, TransitionToUnprovisioned
  <2>2. (Saved \/ SaveRaises \/ LaterSaveRaises) /\ oldVersion' \in BOOLEAN
    BY DEF IInv, TypeOK, StoreTypeOK, ApplyActivation, SaveAndGo, SaveTwiceAndGo
  <2> QED  BY <2>1, <2>2, DiskTyped DEF IInv, TypeOK, StoreTypeOK
<1>2. ManagerTypeOK' /\ CallsTypeOK' /\ ServerTypeOK'
  BY DEF IInv, TypeOK, StoreTypeOK, ManagerTypeOK, CallsTypeOK, ServerTypeOK,
  MeterAnswers, ManagerAnswers, ApplyActivation, SaveAndGo, SaveTwiceAndGo,
  Saved, SaveRaises, LaterSaveRaises, Fault, OnDisk, Raise, Go, Contact,
  TransitionToActive, TransitionToUnprovisioned
<1>3. AnswerSound' /\ CredentialsSound'
  BY DEF IInv, TypeOK, StoreTypeOK, AnswerSound, CredentialsSound,
  ApplyActivation, SaveAndGo, SaveTwiceAndGo, Saved, SaveRaises,
  LaterSaveRaises, Fault, OnDisk, Raise, Go, Contact, TransitionToActive,
  TransitionToUnprovisioned
<1>4. BreakerSound' /\ DiskSound' /\ GraceIsCounted'
  BY DEF IInv, TypeOK, StoreTypeOK, ServerTypeOK, BreakerSound, DiskSound,
  GraceIsCounted, ApplyActivation, SaveAndGo, SaveTwiceAndGo, Saved, SaveRaises,
  LaterSaveRaises, Fault, OnDisk, Raise, Go, Contact, TransitionToActive,
  TransitionToUnprovisioned
<1> QED  BY <1>1, <1>2, <1>3, <1>4 DEF IInv, TypeOK

LEMMA ApplyRefreshKeeps ==
  ASSUME IInv, ApplyRefresh
  PROVE  IInv'
<1>1. StoreTypeOK'
  <2>1. /\ state' \in States /\ install' \in Tokens /\ bootstrap' \in Bootstrap
        /\ failures' \in 0 .. FAILURE_THRESHOLD
    BY DEF IInv, TypeOK, StoreTypeOK, ManagerTypeOK, States, ApplyRefresh
  <2>2. (Saved \/ SaveRaises \/ LaterSaveRaises) /\ oldVersion' \in BOOLEAN
    BY DEF IInv, TypeOK, StoreTypeOK, ApplyRefresh, SaveAndGo, SaveTwiceAndGo
  <2> QED  BY <2>1, <2>2, DiskTyped DEF IInv, TypeOK, StoreTypeOK
<1>2. ManagerTypeOK' /\ CallsTypeOK' /\ ServerTypeOK'
  BY DEF IInv, TypeOK, StoreTypeOK, ManagerTypeOK, CallsTypeOK, ServerTypeOK,
  MeterAnswers, ManagerAnswers, ApplyRefresh, SaveAndGo, SaveTwiceAndGo, Saved,
  SaveRaises, LaterSaveRaises, Fault, OnDisk, Raise, Go, Contact
<1>3. AnswerSound' /\ CredentialsSound'
  BY DEF IInv, TypeOK, StoreTypeOK, AnswerSound, CredentialsSound, ApplyRefresh,
  SaveAndGo, SaveTwiceAndGo, Saved, SaveRaises, LaterSaveRaises, Fault, OnDisk,
  Raise, Go, Contact
<1>4. BreakerSound' /\ DiskSound' /\ GraceIsCounted'
  BY DEF IInv, TypeOK, StoreTypeOK, ServerTypeOK, BreakerSound, DiskSound,
  GraceIsCounted, ApplyRefresh, SaveAndGo, SaveTwiceAndGo, Saved, SaveRaises,
  LaterSaveRaises, Fault, OnDisk, Raise, Go, Contact
<1> QED  BY <1>1, <1>2, <1>3, <1>4 DEF IInv, TypeOK

LEMMA ApplyStatusKeeps ==
  ASSUME IInv, ApplyStatus
  PROVE  IInv'
<1>1. StoreTypeOK'
  <2>1. /\ state' \in States /\ install' \in Tokens /\ bootstrap' \in Bootstrap
        /\ failures' \in 0 .. FAILURE_THRESHOLD
    BY DEF IInv, TypeOK, StoreTypeOK, ManagerTypeOK, States, ApplyStatus,
    RecordSuccess, ActiveAgain
  <2>2. (Saved \/ SaveRaises \/ LaterSaveRaises) /\ oldVersion' \in BOOLEAN
    BY DEF IInv, TypeOK, StoreTypeOK, ApplyStatus, SaveAndGo, SaveTwiceAndGo
  <2> QED  BY <2>1, <2>2, DiskTyped DEF IInv, TypeOK, StoreTypeOK
<1>2. ManagerTypeOK' /\ CallsTypeOK' /\ ServerTypeOK'
  BY DEF IInv, TypeOK, StoreTypeOK, ManagerTypeOK, CallsTypeOK, ServerTypeOK,
  MeterAnswers, ManagerAnswers, ApplyStatus, SaveAndGo, SaveTwiceAndGo, Saved,
  SaveRaises, LaterSaveRaises, Fault, OnDisk, Raise, Go, Contact, RecordSuccess,
  ActiveAgain
<1>3. AnswerSound' /\ CredentialsSound'
  BY DEF IInv, TypeOK, StoreTypeOK, AnswerSound, CredentialsSound, ApplyStatus,
  SaveAndGo, SaveTwiceAndGo, Saved, SaveRaises, LaterSaveRaises, Fault, OnDisk,
  Raise, Go, Contact, RecordSuccess, ActiveAgain
<1>4. BreakerSound' /\ DiskSound' /\ GraceIsCounted'
  BY DEF IInv, TypeOK, StoreTypeOK, ServerTypeOK, BreakerSound, DiskSound,
  GraceIsCounted, ApplyStatus, SaveAndGo, SaveTwiceAndGo, Saved, SaveRaises,
  LaterSaveRaises, Fault, OnDisk, Raise, Go, Contact, RecordSuccess, ActiveAgain
<1> QED  BY <1>1, <1>2, <1>3, <1>4 DEF IInv, TypeOK

LEMMA ApplyMigratedStatusKeeps ==
  ASSUME IInv, ApplyMigratedStatus
  PROVE  IInv'
<1>1. StoreTypeOK'
  <2>1. /\ state' \in States /\ install' \in Tokens /\ bootstrap' \in Bootstrap
        /\ failures' \in 0 .. FAILURE_THRESHOLD
    BY DEF IInv, TypeOK, StoreTypeOK, States, ApplyMigratedStatus
  <2>2. ActiveAgain \in States
    BY DEF IInv, TypeOK, StoreTypeOK, States, ActiveAgain
  <2>3. disk' \in [state : States, install : Tokens, bootstrap : Bootstrap,
                  failures : 0 .. FAILURE_THRESHOLD]
    BY <2>1, <2>2 DEF IInv, TypeOK, StoreTypeOK, ApplyMigratedStatus, Saved, OnDisk
  <2>4. faults' \in 0 .. MaxFaults /\ oldVersion' \in BOOLEAN
    BY DEF IInv, TypeOK, StoreTypeOK, ApplyMigratedStatus, Saved, Fault
  <2> QED  BY <2>1, <2>3, <2>4 DEF StoreTypeOK
<1>2. ManagerTypeOK' /\ CallsTypeOK' /\ ServerTypeOK'
  BY DEF IInv, TypeOK, StoreTypeOK, ManagerTypeOK, CallsTypeOK, ServerTypeOK,
  MeterAnswers, ManagerAnswers, ApplyMigratedStatus, SaveAndGo, SaveTwiceAndGo,
  Saved, SaveRaises, LaterSaveRaises, Fault, OnDisk, Raise, Go, Contact,
  ActiveAgain
<1>3. AnswerSound' /\ CredentialsSound'
  BY DEF IInv, TypeOK, StoreTypeOK, AnswerSound, CredentialsSound,
  ApplyMigratedStatus, SaveAndGo, SaveTwiceAndGo, Saved, SaveRaises,
  LaterSaveRaises, Fault, OnDisk, Raise, Go, Contact, ActiveAgain
<1>4. BreakerSound' /\ DiskSound' /\ GraceIsCounted'
  BY DEF IInv, TypeOK, StoreTypeOK, ServerTypeOK, BreakerSound, DiskSound,
  GraceIsCounted, ApplyMigratedStatus, SaveAndGo, SaveTwiceAndGo, Saved,
  SaveRaises, LaterSaveRaises, Fault, OnDisk, Raise, Go, Contact, ActiveAgain
<1> QED  BY <1>1, <1>2, <1>3, <1>4 DEF IInv, TypeOK

LEMMA EndRegisterKeeps ==
  ASSUME IInv, EndRegister
  PROVE  IInv'
<1>1. StoreTypeOK'
  BY DEF IInv, TypeOK, StoreTypeOK, ManagerTypeOK, States, ManagerAnswers,
  EndRegister, Go
<1>2. ManagerTypeOK' /\ CallsTypeOK' /\ ServerTypeOK'
  BY DEF IInv, TypeOK, StoreTypeOK, ManagerTypeOK, CallsTypeOK, ServerTypeOK,
  MeterAnswers, ManagerAnswers, EndRegister, Go
<1>3. AnswerSound' /\ CredentialsSound'
  BY DEF IInv, TypeOK, StoreTypeOK, AnswerSound, CredentialsSound, EndRegister,
  Go
<1>4. BreakerSound' /\ DiskSound' /\ GraceIsCounted'
  BY DEF IInv, TypeOK, StoreTypeOK, ServerTypeOK, BreakerSound, DiskSound,
  GraceIsCounted, EndRegister, Go
<1> QED  BY <1>1, <1>2, <1>3, <1>4 DEF IInv, TypeOK

LEMMA ApplyStatusRevokedKeeps ==
  ASSUME IInv, ApplyStatusRevoked
  PROVE  IInv'
<1>1. StoreTypeOK'
  <2>1. /\ state' \in States /\ install' \in Tokens /\ bootstrap' \in Bootstrap
        /\ failures' \in 0 .. FAILURE_THRESHOLD
    BY DEF IInv, TypeOK, StoreTypeOK, ManagerTypeOK, States, ApplyStatusRevoked,
    TransitionToUnprovisioned
  <2>2. (Saved \/ SaveRaises \/ LaterSaveRaises) /\ oldVersion' \in BOOLEAN
    BY DEF IInv, TypeOK, StoreTypeOK, ApplyStatusRevoked, SaveAndGo,
    SaveTwiceAndGo
  <2> QED  BY <2>1, <2>2, DiskTyped DEF IInv, TypeOK, StoreTypeOK
<1>2. ManagerTypeOK' /\ CallsTypeOK' /\ ServerTypeOK'
  BY DEF IInv, TypeOK, StoreTypeOK, ManagerTypeOK, CallsTypeOK, ServerTypeOK,
  MeterAnswers, ManagerAnswers, ApplyStatusRevoked, SaveAndGo, SaveTwiceAndGo,
  Saved, SaveRaises, LaterSaveRaises, Fault, OnDisk, Raise, Go, Contact,
  TransitionToUnprovisioned
<1>3. AnswerSound' /\ CredentialsSound'
  BY DEF IInv, TypeOK, StoreTypeOK, AnswerSound, CredentialsSound,
  ApplyStatusRevoked, SaveAndGo, SaveTwiceAndGo, Saved, SaveRaises,
  LaterSaveRaises, Fault, OnDisk, Raise, Go, Contact, TransitionToUnprovisioned
<1>4. BreakerSound' /\ DiskSound' /\ GraceIsCounted'
  BY DEF IInv, TypeOK, StoreTypeOK, ServerTypeOK, BreakerSound, DiskSound,
  GraceIsCounted, ApplyStatusRevoked, SaveAndGo, SaveTwiceAndGo, Saved,
  SaveRaises, LaterSaveRaises, Fault, OnDisk, Raise, Go, Contact,
  TransitionToUnprovisioned
<1> QED  BY <1>1, <1>2, <1>3, <1>4 DEF IInv, TypeOK

LEMMA ApplyStatusFailureKeeps ==
  ASSUME IInv, ApplyStatusFailure
  PROVE  IInv'
<1>1. StoreTypeOK'
  <2>1. /\ state' \in States /\ install' \in Tokens /\ bootstrap' \in Bootstrap
        /\ failures' \in 0 .. FAILURE_THRESHOLD
    BY DEF IInv, TypeOK, StoreTypeOK, ManagerTypeOK, States, ApplyStatusFailure,
    RecordFailure, CountFailure
  <2>2. (Saved \/ SaveRaises \/ LaterSaveRaises) /\ oldVersion' \in BOOLEAN
    BY DEF IInv, TypeOK, StoreTypeOK, ApplyStatusFailure, SaveAndGo,
    SaveTwiceAndGo
  <2> QED  BY <2>1, <2>2, DiskTyped DEF IInv, TypeOK, StoreTypeOK
<1>2. ManagerTypeOK' /\ CallsTypeOK' /\ ServerTypeOK'
  BY DEF IInv, TypeOK, StoreTypeOK, ManagerTypeOK, CallsTypeOK, ServerTypeOK,
  MeterAnswers, ManagerAnswers, ApplyStatusFailure, SaveAndGo, SaveTwiceAndGo,
  Saved, SaveRaises, LaterSaveRaises, Fault, OnDisk, Raise, Go, RecordFailure,
  CountFailure
<1>3. AnswerSound' /\ CredentialsSound'
  BY DEF IInv, TypeOK, StoreTypeOK, AnswerSound, CredentialsSound,
  ApplyStatusFailure, SaveAndGo, SaveTwiceAndGo, Saved, SaveRaises,
  LaterSaveRaises, Fault, OnDisk, Raise, Go, RecordFailure, CountFailure
<1>4. BreakerSound' /\ DiskSound' /\ GraceIsCounted'
  BY DEF IInv, TypeOK, StoreTypeOK, ServerTypeOK, BreakerSound, DiskSound,
  GraceIsCounted, ApplyStatusFailure, SaveAndGo, SaveTwiceAndGo, Saved,
  SaveRaises, LaterSaveRaises, Fault, OnDisk, Raise, Go, RecordFailure,
  CountFailure
<1> QED  BY <1>1, <1>2, <1>3, <1>4 DEF IInv, TypeOK

LEMMA GiveUpKeeps ==
  ASSUME IInv, GiveUp
  PROVE  IInv'
<1>1. StoreTypeOK'
  BY DEF IInv, TypeOK, StoreTypeOK, ManagerTypeOK, States, ManagerAnswers,
  GiveUp, Go
<1>2. ManagerTypeOK' /\ CallsTypeOK' /\ ServerTypeOK'
  BY DEF IInv, TypeOK, StoreTypeOK, ManagerTypeOK, CallsTypeOK, ServerTypeOK,
  MeterAnswers, ManagerAnswers, GiveUp, Go
<1>3. AnswerSound' /\ CredentialsSound'
  BY DEF IInv, TypeOK, StoreTypeOK, AnswerSound, CredentialsSound, GiveUp, Go
<1>4. BreakerSound' /\ DiskSound' /\ GraceIsCounted'
  BY DEF IInv, TypeOK, StoreTypeOK, ServerTypeOK, BreakerSound, DiskSound,
  GraceIsCounted, GiveUp, Go
<1> QED  BY <1>1, <1>2, <1>3, <1>4 DEF IInv, TypeOK

\* The metered calls.
LEMMA DecideLocallyKeeps ==
  ASSUME IInv, NEW c \in Calls, NEW k \in {"setup", "data"}, DecideLocally(c, k)
  PROVE  IInv'
<1>1. StoreTypeOK'
  BY DEF IInv, TypeOK, StoreTypeOK, ManagerTypeOK, States, ManagerAnswers,
  DecideLocally, QueueSetup
<1>2. ManagerTypeOK' /\ CallsTypeOK' /\ ServerTypeOK'
  <2>1. ManagerTypeOK' /\ CallsTypeOK'
    BY DEF IInv, TypeOK, DecideLocally, ManagerTypeOK, CallsTypeOK
  <2>2. QueueSetup \/ UNCHANGED queued
    BY DEF DecideLocally
  <2>3. queued' \in 0 .. QueueCap
    BY <2>2 DEF IInv, TypeOK, ServerTypeOK, QueueSetup
  <2>4. ServerTypeOK'
    BY <2>3 DEF IInv, TypeOK, ServerTypeOK, DecideLocally
  <2> QED  BY <2>1, <2>4
<1>3. AnswerSound' /\ CredentialsSound'
  BY DEF IInv, TypeOK, StoreTypeOK, AnswerSound, CredentialsSound,
  DecideLocally, QueueSetup
<1>4. BreakerSound' /\ DiskSound' /\ GraceIsCounted'
  BY DEF IInv, TypeOK, StoreTypeOK, ServerTypeOK, BreakerSound, DiskSound,
  GraceIsCounted, DecideLocally, QueueSetup
<1> QED  BY <1>1, <1>2, <1>3, <1>4 DEF IInv, TypeOK

LEMMA SendMeterKeeps ==
  ASSUME IInv, NEW c \in Calls, NEW k \in {"setup", "data"}, SendMeter(c, k)
  PROVE  IInv'
<1>1. StoreTypeOK'
  BY DEF IInv, TypeOK, StoreTypeOK, ManagerTypeOK, States, ManagerAnswers,
  SendMeter
<1>2. ManagerTypeOK' /\ CallsTypeOK' /\ ServerTypeOK'
  BY DEF IInv, TypeOK, StoreTypeOK, ManagerTypeOK, CallsTypeOK, ServerTypeOK,
  MeterAnswers, ManagerAnswers, SendMeter
<1>3. AnswerSound' /\ CredentialsSound'
  BY DEF IInv, TypeOK, StoreTypeOK, AnswerSound, CredentialsSound, SendMeter
<1>4. BreakerSound' /\ DiskSound' /\ GraceIsCounted'
  BY DEF IInv, TypeOK, StoreTypeOK, ServerTypeOK, BreakerSound, DiskSound,
  GraceIsCounted, SendMeter
<1> QED  BY <1>1, <1>2, <1>3, <1>4 DEF IInv, TypeOK

LEMMA ApplyMeterKeeps ==
  ASSUME IInv, NEW c \in Calls, ApplyMeter(c)
  PROVE  IInv'
<1>1. StoreTypeOK'
  <2>1. /\ state' \in States /\ install' \in Tokens /\ bootstrap' \in Bootstrap
        /\ failures' \in 0 .. FAILURE_THRESHOLD
    BY DEF IInv, TypeOK, StoreTypeOK, ManagerTypeOK, States, ApplyMeter,
    RecordSuccess, ActiveAgain, TransitionToMigrated, TransitionToUnprovisioned
  <2>2. (Saved \/ SaveRaises \/ LaterSaveRaises) /\ oldVersion' \in BOOLEAN
    BY DEF IInv, TypeOK, StoreTypeOK, ApplyMeter, SaveAndGo, SaveTwiceAndGo
  <2> QED  BY <2>1, <2>2, DiskTyped DEF IInv, TypeOK, StoreTypeOK
<1>2. ManagerTypeOK' /\ CallsTypeOK' /\ ServerTypeOK'
  BY DEF IInv, TypeOK, StoreTypeOK, ManagerTypeOK, CallsTypeOK, ServerTypeOK,
  MeterAnswers, ManagerAnswers, ApplyMeter, Saved, SaveRaises, Fault, OnDisk,
  EndCall, RecordSuccess, ActiveAgain, TransitionToMigrated,
  TransitionToUnprovisioned
<1>3. AnswerSound' /\ CredentialsSound'
  BY DEF IInv, TypeOK, StoreTypeOK, AnswerSound, CredentialsSound, ApplyMeter,
  Saved, SaveRaises, Fault, OnDisk, EndCall, RecordSuccess, ActiveAgain,
  TransitionToMigrated, TransitionToUnprovisioned
<1>4. BreakerSound' /\ DiskSound' /\ GraceIsCounted'
  BY DEF IInv, TypeOK, StoreTypeOK, ServerTypeOK, BreakerSound, DiskSound,
  GraceIsCounted, ApplyMeter, Saved, SaveRaises, Fault, OnDisk, EndCall,
  RecordSuccess, ActiveAgain, TransitionToMigrated, TransitionToUnprovisioned
<1> QED  BY <1>1, <1>2, <1>3, <1>4 DEF IInv, TypeOK

LEMMA ApplyMeterFailureKeeps ==
  ASSUME IInv, NEW c \in Calls, ApplyMeterFailure(c)
  PROVE  IInv'
<1>1. StoreTypeOK'
  <2>1. /\ state' \in States /\ install' \in Tokens /\ bootstrap' \in Bootstrap
        /\ failures' \in 0 .. FAILURE_THRESHOLD
    BY DEF IInv, TypeOK, StoreTypeOK, ManagerTypeOK, States, ApplyMeterFailure,
    RecordFailure, CountFailure
  <2>2. (Saved \/ SaveRaises \/ LaterSaveRaises) /\ oldVersion' \in BOOLEAN
    BY DEF IInv, TypeOK, StoreTypeOK, ApplyMeterFailure, SaveAndGo,
    SaveTwiceAndGo
  <2> QED  BY <2>1, <2>2, DiskTyped DEF IInv, TypeOK, StoreTypeOK
<1>2. ManagerTypeOK' /\ CallsTypeOK' /\ ServerTypeOK'
  <2>1. ManagerTypeOK'
    BY DEF IInv, TypeOK, ApplyMeterFailure, ManagerTypeOK
  <2>2. CallsTypeOK'
    BY DEF IInv, TypeOK, ApplyMeterFailure, CallsTypeOK, EndCall, MeterAnswers
  <2>3. QueueSetup \/ UNCHANGED queued
    BY DEF ApplyMeterFailure
  <2>4. queued' \in 0 .. QueueCap
    BY <2>3 DEF IInv, TypeOK, ServerTypeOK, QueueSetup
  <2>5. grace' \in Nat
    BY DEF IInv, TypeOK, ServerTypeOK, ApplyMeterFailure
  <2>6. ServerTypeOK'
    BY <2>4, <2>5 DEF IInv, TypeOK, ServerTypeOK, ApplyMeterFailure
  <2> QED  BY <2>1, <2>2, <2>6
<1>3. AnswerSound' /\ CredentialsSound'
  BY DEF IInv, TypeOK, StoreTypeOK, AnswerSound, CredentialsSound,
  ApplyMeterFailure, Saved, SaveRaises, Fault, OnDisk, EndCall, RecordFailure,
  CountFailure, QueueSetup
<1>4. BreakerSound' /\ DiskSound' /\ GraceIsCounted'
  BY DEF IInv, TypeOK, StoreTypeOK, ServerTypeOK, BreakerSound, DiskSound,
  GraceIsCounted, ApplyMeterFailure, Saved, SaveRaises, Fault, OnDisk, EndCall,
  RecordFailure, CountFailure, QueueSetup
<1> QED  BY <1>1, <1>2, <1>3, <1>4 DEF IInv, TypeOK

\* The server.
LEMMA AnswerManagerKeeps ==
  ASSUME IInv, AnswerManager
  PROVE  IInv'
<1>1. StoreTypeOK'
  BY DEF IInv, TypeOK, StoreTypeOK, ManagerTypeOK, States, ManagerAnswers,
  AnswerManager, Issue
<1>2. ManagerTypeOK' /\ CallsTypeOK' /\ ServerTypeOK'
  <2>1. ans' \in ManagerAnswers
    BY DEF AnswerManager, ManagerAnswers
  <2>2. Issue \/ UNCHANGED <<issued, valid, fresh, heard>>
    BY DEF AnswerManager
  <2>3. issued' \in Tokens /\ fresh' \in Tokens /\ heard' \in Tokens
    BY <2>2 DEF IInv, TypeOK, ManagerTypeOK, ServerTypeOK, Issue, NewToken
  <2>4. valid' \subseteq 1 .. MaxToken
    <3>1. Issue => issued' \in 1 .. MaxToken /\ valid' \subseteq valid \cup {issued'}
      BY DEF IInv, TypeOK, ServerTypeOK, Issue, NewToken
    <3> QED  BY <2>2, <3>1 DEF IInv, TypeOK, ServerTypeOK
  <2>5. UNCHANGED <<at, req, tok, calls, queued, consumed, grace>>
    BY DEF AnswerManager
  <2>6. ManagerTypeOK'
    BY <2>1, <2>3, <2>5 DEF IInv, TypeOK, ManagerTypeOK
  <2>7. CallsTypeOK'
    BY <2>5 DEF IInv, TypeOK, CallsTypeOK
  <2>8. stray' \subseteq Tokens
    BY DEF IInv, TypeOK, ManagerTypeOK, ServerTypeOK, AnswerManager, Unanswered
  <2> QED  BY <2>3, <2>4, <2>5, <2>6, <2>7, <2>8 DEF IInv, TypeOK, ServerTypeOK
<1>3. AnswerSound' /\ CredentialsSound'
  <2>1. CredentialsSound'
    BY DEF IInv, CredentialsSound, AnswerManager
  <2>2. req' \in {"activate", "refresh"} /\ ans' = "ok" => Issue
    BY DEF AnswerManager
  <2>3. Issue => fresh' # NoToken
    BY DEF IInv, TypeOK, ServerTypeOK, Issue, NewToken
  <2> QED  BY <2>1, <2>2, <2>3 DEF AnswerSound
<1>4. BreakerSound' /\ DiskSound' /\ GraceIsCounted'
  BY DEF IInv, TypeOK, StoreTypeOK, ServerTypeOK, BreakerSound, DiskSound,
  GraceIsCounted, AnswerManager, Issue
<1> QED  BY <1>1, <1>2, <1>3, <1>4 DEF IInv, TypeOK

LEMMA ServeUnheardKeeps ==
  ASSUME IInv, NEW t \in Tokens, ServeUnheard(t)
  PROVE  IInv'
<1>1. issued' \in Tokens /\ valid' \subseteq 1 .. MaxToken
  <2>1. issued' \in 1 .. MaxToken /\ valid' \subseteq valid \cup {issued'}
    BY DEF IInv, TypeOK, ServerTypeOK, ServeUnheard, NewToken
  <2> QED  BY <2>1 DEF IInv, TypeOK, ServerTypeOK
<1>2. StoreTypeOK' /\ ManagerTypeOK' /\ CallsTypeOK' /\ ServerTypeOK'
  BY <1>1 DEF IInv, TypeOK, StoreTypeOK, ManagerTypeOK, CallsTypeOK, ServerTypeOK, ServeUnheard
<1>3. AnswerSound' /\ CredentialsSound' /\ BreakerSound' /\ DiskSound' /\ GraceIsCounted'
  BY DEF IInv, AnswerSound, CredentialsSound, BreakerSound, DiskSound, GraceIsCounted, ServeUnheard
<1> QED  BY <1>2, <1>3 DEF IInv, TypeOK

LEMMA AnswerMeterKeeps ==
  ASSUME IInv, NEW c \in Calls, AnswerMeter(c)
  PROVE  IInv'
<1>1. StoreTypeOK'
  BY DEF IInv, TypeOK, StoreTypeOK, ManagerTypeOK, States, ManagerAnswers,
  AnswerMeter
<1>2. ManagerTypeOK' /\ CallsTypeOK' /\ ServerTypeOK'
  BY DEF IInv, TypeOK, StoreTypeOK, ManagerTypeOK, CallsTypeOK, ServerTypeOK,
  MeterAnswers, ManagerAnswers, AnswerMeter
<1>3. AnswerSound' /\ CredentialsSound'
  BY DEF IInv, TypeOK, StoreTypeOK, AnswerSound, CredentialsSound, AnswerMeter
<1>4. BreakerSound' /\ DiskSound' /\ GraceIsCounted'
  BY DEF IInv, TypeOK, StoreTypeOK, ServerTypeOK, BreakerSound, DiskSound,
  GraceIsCounted, AnswerMeter
<1> QED  BY <1>1, <1>2, <1>3, <1>4 DEF IInv, TypeOK

LEMMA ConsumeKeeps ==
  ASSUME IInv, Consume
  PROVE  IInv'
<1>1. StoreTypeOK'
  BY DEF IInv, TypeOK, StoreTypeOK, ManagerTypeOK, States, ManagerAnswers,
  Consume
<1>2. ManagerTypeOK' /\ CallsTypeOK' /\ ServerTypeOK'
  BY DEF IInv, TypeOK, StoreTypeOK, ManagerTypeOK, CallsTypeOK, ServerTypeOK,
  MeterAnswers, ManagerAnswers, Consume
<1>3. AnswerSound' /\ CredentialsSound'
  BY DEF IInv, TypeOK, StoreTypeOK, AnswerSound, CredentialsSound, Consume
<1>4. BreakerSound' /\ DiskSound' /\ GraceIsCounted'
  BY DEF IInv, TypeOK, StoreTypeOK, ServerTypeOK, BreakerSound, DiskSound,
  GraceIsCounted, Consume
<1> QED  BY <1>1, <1>2, <1>3, <1>4 DEF IInv, TypeOK

LEMMA RevokeKeeps ==
  ASSUME IInv, Revoke
  PROVE  IInv'
<1>1. StoreTypeOK'
  BY DEF IInv, TypeOK, StoreTypeOK, ManagerTypeOK, States, ManagerAnswers,
  Revoke
<1>2. ManagerTypeOK' /\ CallsTypeOK' /\ ServerTypeOK'
  BY DEF IInv, TypeOK, StoreTypeOK, ManagerTypeOK, CallsTypeOK, ServerTypeOK,
  MeterAnswers, ManagerAnswers, Revoke
<1>3. AnswerSound' /\ CredentialsSound'
  BY DEF IInv, TypeOK, StoreTypeOK, AnswerSound, CredentialsSound, Revoke
<1>4. BreakerSound' /\ DiskSound' /\ GraceIsCounted'
  BY DEF IInv, TypeOK, StoreTypeOK, ServerTypeOK, BreakerSound, DiskSound,
  GraceIsCounted, Revoke
<1> QED  BY <1>1, <1>2, <1>3, <1>4 DEF IInv, TypeOK

\* A restart goes on from what is on disk.
LEMMA RestartKeeps ==
  ASSUME IInv, Restart
  PROVE  IInv'
<1>1. StoreTypeOK'
  <2>1. /\ disk.state \in States /\ disk.install \in Tokens
        /\ disk.bootstrap \in Bootstrap /\ disk.failures \in 0 .. FAILURE_THRESHOLD
    BY DEF IInv, TypeOK, StoreTypeOK
  <2>2. oldVersion' \in BOOLEAN
    BY DEF IInv, TypeOK, StoreTypeOK, Restart
  <2>3. faults' \in 0 .. MaxFaults /\ UNCHANGED disk
    BY DEF IInv, TypeOK, StoreTypeOK, Restart
  <2>4. /\ state' = disk.state /\ install' = disk.install
        /\ bootstrap' = disk.bootstrap /\ failures' = disk.failures
    BY DEF Restart
  <2> QED  BY <2>1, <2>2, <2>3, <2>4 DEF IInv, TypeOK, StoreTypeOK
<1>2. ManagerTypeOK' /\ CallsTypeOK' /\ ServerTypeOK'
  BY DEF IInv, TypeOK, StoreTypeOK, ManagerTypeOK, CallsTypeOK, ServerTypeOK,
  MeterAnswers, ManagerAnswers, Restart, Go, Unanswered
<1>3. AnswerSound' /\ CredentialsSound'
  BY DEF IInv, TypeOK, StoreTypeOK, AnswerSound, CredentialsSound, Restart, Go
<1>4. BreakerSound' /\ DiskSound' /\ GraceIsCounted'
  BY DEF IInv, TypeOK, StoreTypeOK, ServerTypeOK, BreakerSound, DiskSound,
  GraceIsCounted, Restart, Go
<1> QED  BY <1>1, <1>2, <1>3, <1>4 DEF IInv, TypeOK

\* Every step keeps the invariant.
LEMMA NextHolds ==
  ASSUME IInv, [Next]_vars
  PROVE  IInv'
<1>1. CASE UNCHANGED vars
  BY <1>1 DEF vars, IInv, TypeOK, StoreTypeOK, ManagerTypeOK, CallsTypeOK, ServerTypeOK, AnswerSound, CredentialsSound, BreakerSound, DiskSound,
     GraceIsCounted
<1>2. CASE ManagerStep
  BY <1>2, BootFindsTokensKeeps, BootKeeps, CheckKeeps, VersionKeeps, EnterKeeps, WakeKeeps,
     ApplyProvisionKeeps, ApplyActivationKeeps, ApplyRefreshKeeps, ApplyStatusKeeps,
     ApplyMigratedStatusKeeps, EndRegisterKeeps, ApplyStatusRevokedKeeps,
     ApplyStatusFailureKeeps, GiveUpKeeps DEF ManagerStep
<1>3. CASE MeterStep
  BY <1>3, DecideLocallyKeeps, SendMeterKeeps, ApplyMeterKeeps, ApplyMeterFailureKeeps
     DEF MeterStep
<1> QED
  BY <1>1, <1>2, <1>3, AnswerManagerKeeps, ServeUnheardKeeps, AnswerMeterKeeps, ConsumeKeeps, RevokeKeeps,
     RestartKeeps DEF Next

\* The inductive invariant holds in every reachable state.
THEOREM Inductive == Spec => []IInv
BY InitHolds, NextHolds, PTL DEF Spec

\* Every variable keeps its type; the offline queue keeps its cap.
THEOREM TypeCorrect == Spec => []TypeOK
<1>1. IInv => TypeOK
  BY DEF IInv
<1> QED  BY <1>1, Inductive, PTL

\* An active serial has an install token and no bootstrap token, in memory and
\* on disk.
THEOREM CredentialsStaySound == Spec => []CredentialsSound
<1>1. IInv => CredentialsSound
  BY DEF IInv
<1> QED  BY <1>1, Inductive, PTL

\* The circuit breaker and its count agree.
THEOREM BreakerStaysSound == Spec => []BreakerSound
<1>1. IInv => BreakerSound
  BY DEF IInv
<1> QED  BY <1>1, Inductive, PTL

\* Fewer data calls than the threshold pass since the server last answered.
THEOREM OfflineDataStaysBounded == Spec => []OfflineDataBounded
<1>1. IInv => OfflineDataBounded
  BY DEF IInv, GraceIsCounted, OfflineDataBounded
<1> QED  BY <1>1, Inductive, PTL
-----------------------------------------------------------------------------
(* The file, the tokens and the server *)

\* A token the device learns of is the last it heard of, and on its way in an answer.
FreshSound ==
  /\ fresh # NoToken => req \in {"activate", "refresh"} /\ ans = "ok" /\ fresh = heard
  /\ at = "boot" => req = "none"

\* As long as nothing fails, the store has the last token heard of, or none, or that one
\* is on its way; and the file follows the memory.
Newest == faults = 0 =>
  /\ disk = OnDisk
  /\ install \in {NoToken, heard} \/ fresh # NoToken

\* An answer that says migrated stays right.
MigratedSound ==
  /\ ans = "migrated" => consumed
  /\ \A c \in Calls : cans[c] = "migrated" => consumed

CurrentInv == FreshSound /\ Newest /\ MigratedSound /\ MigratedIsConsumed

LEMMA ManagerCurrent ==
  ASSUME IInv, CurrentInv, ManagerStep
  PROVE  CurrentInv'
<1>1. CASE BootFindsTokens
  BY <1>1 DEF IInv, TypeOK, StoreTypeOK, ManagerTypeOK, ServerTypeOK, AnswerSound, CurrentInv,
  FreshSound, Newest, MigratedSound, MigratedIsConsumed, OnDisk, BootFindsTokens, SaveAndGo,
  Saved, SaveRaises, LaterSaveRaises, Fault, Raise, Go
<1>2. CASE Boot
  BY <1>2 DEF IInv, TypeOK, StoreTypeOK, ManagerTypeOK, ServerTypeOK, AnswerSound, CurrentInv,
  FreshSound, Newest, MigratedSound, MigratedIsConsumed, OnDisk, Boot, Send, Go
<1>3. CASE Check
  BY <1>3 DEF IInv, TypeOK, StoreTypeOK, ManagerTypeOK, ServerTypeOK, AnswerSound, CurrentInv,
  FreshSound, Newest, MigratedSound, MigratedIsConsumed, OnDisk, Check, Send, Go
<1>4. CASE Version
  BY <1>4 DEF IInv, TypeOK, StoreTypeOK, ManagerTypeOK, ServerTypeOK, AnswerSound, CurrentInv,
  FreshSound, Newest, MigratedSound, MigratedIsConsumed, OnDisk, Version, Send, Go
<1>5. CASE Enter
  BY <1>5 DEF IInv, TypeOK, StoreTypeOK, ManagerTypeOK, ServerTypeOK, AnswerSound, CurrentInv,
  FreshSound, Newest, MigratedSound, MigratedIsConsumed, OnDisk, Enter, SaveAndGo, Saved,
  SaveRaises, LaterSaveRaises, Fault, Raise, Go
<1>6. CASE Wake
  BY <1>6 DEF IInv, TypeOK, StoreTypeOK, ManagerTypeOK, ServerTypeOK, AnswerSound, CurrentInv,
  FreshSound, Newest, MigratedSound, MigratedIsConsumed, OnDisk, Wake, Send
<1>7. CASE ApplyProvision
  BY <1>7 DEF IInv, TypeOK, StoreTypeOK, ManagerTypeOK, ServerTypeOK, AnswerSound, CurrentInv,
  FreshSound, Newest, MigratedSound, MigratedIsConsumed, OnDisk, ApplyProvision, Send, Contact,
  Saved, SaveRaises, LaterSaveRaises, Fault, Raise, Go
<1>8. CASE ApplyActivation
  BY <1>8 DEF IInv, TypeOK, StoreTypeOK, ManagerTypeOK, ServerTypeOK, AnswerSound, CurrentInv,
  FreshSound, Newest, MigratedSound, MigratedIsConsumed, OnDisk, ApplyActivation,
  TransitionToActive, TransitionToUnprovisioned, SaveAndGo, SaveTwiceAndGo, Contact, Saved,
  SaveRaises, LaterSaveRaises, Fault, Raise, Go
<1>9. CASE ApplyRefresh
  BY <1>9 DEF IInv, TypeOK, StoreTypeOK, ManagerTypeOK, ServerTypeOK, AnswerSound, CurrentInv,
  FreshSound, Newest, MigratedSound, MigratedIsConsumed, OnDisk, ApplyRefresh, SaveAndGo,
  Contact, Saved, SaveRaises, LaterSaveRaises, Fault, Raise, Go
<1>10. CASE ApplyStatus
  BY <1>10 DEF IInv, TypeOK, StoreTypeOK, ManagerTypeOK, ServerTypeOK, AnswerSound, CurrentInv,
  FreshSound, Newest, MigratedSound, MigratedIsConsumed, OnDisk, ApplyStatus, RecordSuccess,
  ActiveAgain, SaveAndGo, SaveTwiceAndGo, Contact, Saved, SaveRaises, LaterSaveRaises, Fault,
  Raise, Go
<1>11. CASE ApplyMigratedStatus
  BY <1>11 DEF IInv, TypeOK, StoreTypeOK, ManagerTypeOK, ServerTypeOK, AnswerSound, CurrentInv,
  FreshSound, Newest, MigratedSound, MigratedIsConsumed, OnDisk, ApplyMigratedStatus,
  ActiveAgain, Contact, Saved, SaveRaises, LaterSaveRaises, Fault, Raise, Go
<1>12. CASE EndRegister
  BY <1>12 DEF IInv, TypeOK, StoreTypeOK, ManagerTypeOK, ServerTypeOK, AnswerSound, CurrentInv,
  FreshSound, Newest, MigratedSound, MigratedIsConsumed, OnDisk, EndRegister, Go
<1>13. CASE ApplyStatusRevoked
  BY <1>13 DEF IInv, TypeOK, StoreTypeOK, ManagerTypeOK, ServerTypeOK, AnswerSound, CurrentInv,
  FreshSound, Newest, MigratedSound, MigratedIsConsumed, OnDisk, ApplyStatusRevoked,
  TransitionToUnprovisioned, SaveAndGo, Contact, Saved, SaveRaises, LaterSaveRaises, Fault,
  Raise, Go
<1>14. CASE ApplyStatusFailure
  BY <1>14 DEF IInv, TypeOK, StoreTypeOK, ManagerTypeOK, ServerTypeOK, AnswerSound, CurrentInv,
  FreshSound, Newest, MigratedSound, MigratedIsConsumed, OnDisk, ApplyStatusFailure,
  RecordFailure, SaveAndGo, Saved, SaveRaises, LaterSaveRaises, Fault, Raise, Go
<1>15. CASE GiveUp
  BY <1>15 DEF IInv, TypeOK, StoreTypeOK, ManagerTypeOK, ServerTypeOK, AnswerSound, CurrentInv,
  FreshSound, Newest, MigratedSound, MigratedIsConsumed, OnDisk, GiveUp, Go
<1> QED  BY <1>1, <1>2, <1>3, <1>4, <1>5, <1>6, <1>7, <1>8, <1>9, <1>10, <1>11, <1>12, <1>13, <1>14, <1>15
         DEF ManagerStep

LEMMA MeterCurrent ==
  ASSUME IInv, CurrentInv, MeterStep
  PROVE  CurrentInv'
<1>1. ASSUME NEW c \in Calls, NEW k \in {"setup", "data"}, DecideLocally(c, k) \/ SendMeter(c, k)
      PROVE  CurrentInv'
  BY <1>1 DEF IInv, TypeOK, StoreTypeOK, ManagerTypeOK, ServerTypeOK, AnswerSound, CurrentInv,
  FreshSound, Newest, MigratedSound, MigratedIsConsumed, OnDisk, DecideLocally, SendMeter
<1>2. ASSUME NEW c \in Calls, ApplyMeter(c)
      PROVE  CurrentInv'
  BY <1>2 DEF IInv, TypeOK, StoreTypeOK, ManagerTypeOK, ServerTypeOK, AnswerSound, CurrentInv,
  FreshSound, Newest, MigratedSound, MigratedIsConsumed, OnDisk, CallsTypeOK, ApplyMeter,
  RecordSuccess, ActiveAgain, TransitionToMigrated, TransitionToUnprovisioned, EndCall, Saved,
  SaveRaises, Fault
<1>3. ASSUME NEW c \in Calls, ApplyMeterFailure(c)
      PROVE  CurrentInv'
  BY <1>3 DEF IInv, TypeOK, StoreTypeOK, ManagerTypeOK, ServerTypeOK, AnswerSound, CurrentInv,
  FreshSound, Newest, MigratedSound, MigratedIsConsumed, OnDisk, CallsTypeOK,
  ApplyMeterFailure, RecordFailure, EndCall, Saved, SaveRaises, Fault
<1> QED  BY <1>1, <1>2, <1>3 DEF MeterStep

LEMMA NextCurrent ==
  ASSUME IInv, CurrentInv, [Next]_vars
  PROVE  CurrentInv'
<1>1. CASE AnswerManager
  BY <1>1 DEF IInv, TypeOK, StoreTypeOK, ManagerTypeOK, ServerTypeOK, AnswerSound, CurrentInv,
  FreshSound, Newest, MigratedSound, MigratedIsConsumed, OnDisk, AnswerManager, Issue, NewToken
<1>2. ASSUME NEW c \in Calls, AnswerMeter(c)
      PROVE  CurrentInv'
  BY <1>2 DEF IInv, TypeOK, StoreTypeOK, ManagerTypeOK, ServerTypeOK, AnswerSound, CurrentInv,
  FreshSound, Newest, MigratedSound, MigratedIsConsumed, OnDisk, CallsTypeOK, AnswerMeter
<1>3. CASE Consume \/ Revoke \/ UNCHANGED vars
  BY <1>3 DEF IInv, TypeOK, StoreTypeOK, ManagerTypeOK, ServerTypeOK, AnswerSound, CurrentInv,
  FreshSound, Newest, MigratedSound, MigratedIsConsumed, OnDisk, Consume, Revoke, vars
<1>4. CASE Restart
  BY <1>4 DEF IInv, TypeOK, StoreTypeOK, ManagerTypeOK, ServerTypeOK, AnswerSound, CurrentInv,
  FreshSound, Newest, MigratedSound, MigratedIsConsumed, OnDisk, Restart, Go
<1>5. ASSUME NEW t \in Tokens, ServeUnheard(t)
      PROVE  CurrentInv'
  BY <1>5 DEF CurrentInv, FreshSound, Newest, MigratedSound, MigratedIsConsumed, OnDisk,
  ServeUnheard
<1> QED  BY <1>1, <1>2, <1>3, <1>4, <1>5, ManagerCurrent, MeterCurrent DEF Next

LEMMA InitCurrent == Init => CurrentInv
  BY DEF Init, CurrentInv, FreshSound, Newest, MigratedSound, MigratedIsConsumed, OnDisk

LEMMA CurrentHolds == Spec => [](IInv /\ CurrentInv)
  BY InitHolds, NextHolds, InitCurrent, NextCurrent, PTL DEF Spec

\* Without a failed save or a restart the file is what the memory is, and the install
\* token the last one an answer brought, though the server may have issued others in
\* answers that were lost: every handler saves, and no late answer restores an old one.
THEOREM StoreStaysCurrent == Spec => []StoreIsCurrent
<1>1. IInv /\ CurrentInv => StoreIsCurrent
  BY DEF CurrentInv, FreshSound, Newest, StoreIsCurrent
<1> QED  BY <1>1, CurrentHolds, PTL

\* Memory and file say migrated only of a serial the server has consumed.
THEOREM MigratedWasConsumed == Spec => []MigratedIsConsumed
<1>1. CurrentInv => MigratedIsConsumed
  BY DEF CurrentInv
<1> QED  BY <1>1, CurrentHolds, PTL
=============================================================================
