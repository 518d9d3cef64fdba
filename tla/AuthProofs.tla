------------------------------ MODULE AuthProofs ------------------------------
(* Proofs about Auth, for any passwords, handlers and number of boots. *)
EXTENDS Auth, TLAPS

\* A step that only moves the request of one handler.
LEMMA ReqMoves ==
    ASSUME TypeOK, NEW h \in Handler, NEW r \in Request, req' = [req EXCEPT ![h] = r],
           UNCHANGED <<main, opened, store, cli, boots>>,
           err' \in BOOLEAN, spoiled' \in BOOLEAN,
           tokens' \subseteq 0 .. MaxBoot, UNCHANGED lost
    PROVE  TypeOK'
BY DEF TypeOK, store

LEMMA IdleIsRequest == Idle \in Request
BY DEF Idle, Request

\* A request that only goes on.
LEMMA GotoMoves ==
    ASSUME TypeOK, NEW h \in Handler, NEW pc \in {"open", "spoiled", "failed"}, Goto(h, pc)
    PROVE  \E r \in Request :
              /\ req' = [req EXCEPT ![h] = r]
              /\ r.pc = pc /\ r.pass = req[h].pass /\ r.got = req[h].got
              /\ r.knew = req[h].knew /\ r.right = req[h].right /\ r.failed = req[h].failed
<1>1. req[h] \in Request
    BY DEF TypeOK
<1>. DEFINE r == [req[h] EXCEPT !.pc = pc]
<1>2. /\ r \in Request
      /\ r.pc = pc /\ r.pass = req[h].pass /\ r.got = req[h].got
      /\ r.knew = req[h].knew /\ r.right = req[h].right /\ r.failed = req[h].failed
    BY <1>1 DEF Request
<1>3. req' = [req EXCEPT ![h] = r]
    BY DEF Goto, TypeOK
<1>. QED
    BY <1>2, <1>3

LEMMA NotingIsRequest ==
    ASSUME NEW r \in Request, NEW pass PROVE Noting(r, pass) \in Request
BY DEF Noting, Request

LEMMA TypeInit == Init => TypeOK
<1>. SUFFICES ASSUME Init PROVE TypeOK
    OBVIOUS
<1>1. req \in [Handler -> Request]
    BY IdleIsRequest DEF Init
<1>2. main \in [pc : {"down", "openGet", "get", "openPut", "put", "up"},
                key : 0 .. MaxBoot, failed : BOOLEAN]
    BY MaxBootIsNat DEF Init, Down, NoKey
<1>3. cli \in [pc : {"away", "open", "use"}, pass : Pass \cup {Missing}]
    BY DEF Init, Away
<1>4. secretKey \in 0 .. MaxBoot /\ boots \in 0 .. MaxBoot
    BY MaxBootIsNat DEF Init, NoKey
<1>5. /\ opened \in Handler \cup {Main, Cli, Nobody}
      /\ adminPass \in Pass \cup {Empty, Missing}
      /\ err \in BOOLEAN /\ spoiled \in BOOLEAN
      /\ tokens \subseteq 0 .. MaxBoot /\ lost \subseteq 0 .. MaxBoot
    BY DEF Init
<1>. QED
    BY <1>1, <1>2, <1>3, <1>4, <1>5 DEF TypeOK

\* The boot, whose steps leave the requests and the command line alone.
LEMMA TypeBoot ==
    ASSUME TypeOK, Boot \/ BootOpenGet \/ BootGet \/ BootOpenPut \/ BootPut
    PROVE  TypeOK'
<1>. DEFINE MainType == [pc : {"down", "openGet", "get", "openPut", "put", "up"},
                         key : 0 .. MaxBoot, failed : BOOLEAN]
<1>. USE DEF TypeOK, store, aux
<1>1. CASE Boot
  <2>1. boots' \in 0 .. MaxBoot
      BY <1>1, MaxBootIsNat DEF Boot
  <2>2. main' \in MainType
      BY <1>1 DEF Boot
  <2>. QED
      BY <1>1, <2>1, <2>2 DEF Boot
<1>2. CASE BootOpenGet
  <2>1. main' \in MainType
    <3>1. CASE main' = [main EXCEPT !.pc = "get"]
        BY <3>1
    <3>2. CASE main' = [pc |-> "openPut", key |-> boots, failed |-> TRUE]
        BY <3>2
    <3>. QED
        BY <1>2, <3>1, <3>2 DEF BootOpenGet
  <2>2. opened' \in Handler \cup {Main, Cli, Nobody}
      BY <1>2 DEF BootOpenGet, Opens, Busy
  <2>. QED
      BY <1>2, <2>1, <2>2 DEF BootOpenGet
<1>3. CASE BootGet
  <2>1. main' \in MainType
      BY <1>3 DEF BootGet
  <2>. QED
      BY <1>3, <2>1 DEF BootGet, Closes
<1>4. CASE BootOpenPut
  <2>1. main' \in MainType
      BY <1>4 DEF BootOpenPut
  <2>2. opened' \in Handler \cup {Main, Cli, Nobody} /\ lost' \subseteq 0 .. MaxBoot
      BY <1>4 DEF BootOpenPut, Opens, Busy
  <2>. QED
      BY <1>4, <2>1, <2>2 DEF BootOpenPut
<1>5. CASE BootPut
  <2>1. main' \in MainType
      BY <1>5 DEF BootPut
  <2>2. secretKey' \in 0 .. MaxBoot /\ lost' \subseteq 0 .. MaxBoot
      BY <1>5 DEF BootPut
  <2>. QED
      BY <1>5, <2>1, <2>2 DEF BootPut, Closes
<1>. QED
    BY <1>1, <1>2, <1>3, <1>4, <1>5

LEMMA TypeExit == ASSUME TypeOK, Exit PROVE TypeOK'
<1>1. req' \in [Handler -> Request]
    BY IdleIsRequest DEF Exit
<1>2. main' \in [pc : {"down", "openGet", "get", "openPut", "put", "up"},
                 key : 0 .. MaxBoot, failed : BOOLEAN]
    BY MaxBootIsNat DEF Exit, Down, NoKey
<1>. QED
    BY <1>1, <1>2 DEF Exit, TypeOK, store

LEMMA TypeBegin ==
    ASSUME TypeOK, NEW h \in Handler, NEW pc \in {"test", "testUser", "openCheck", "openSet"},
           NEW pass \in Pass \cup {Empty}, Begin(h, pc, pass)
    PROVE  TypeOK'
<1>1. [pc |-> pc, pass |-> pass, got |-> Empty, failed |-> FALSE,
       knew |-> pass = adminPass, right |-> pass = adminPass] \in Request
    BY DEF Request
<1>. QED
    BY <1>1, ReqMoves DEF Begin, aux, TypeOK

LEMMA TypeLogin == ASSUME TypeOK, NEW h \in Handler, LoginStep(h) PROVE TypeOK'
<1>0. req[h] \in Request
    BY DEF TypeOK
<1>1. CASE Login(h)
    BY <1>1, TypeBegin DEF Login
<1>2. CASE LoginRefused(h)
    BY <1>2, ReqMoves, IdleIsRequest DEF LoginRefused, Answer, aux, TypeOK
<1>3. CASE LoginSpoiled(h) \/ LoginGoesOn(h) \/ LoginFailed(h)
  <2>1. PICK r \in Request : req' = [req EXCEPT ![h] = r]
      BY <1>3, GotoMoves DEF LoginSpoiled, LoginGoesOn, LoginFailed
  <2>. QED
      BY <1>3, <2>1, ReqMoves DEF LoginSpoiled, LoginGoesOn, LoginFailed, aux, TypeOK
<1>4. CASE LoginOpen(h)
  <2>1. req' \in [Handler -> Request]
    <3>1. CASE Goto(h, "read")
        BY <3>1 DEF Goto, TypeOK, Request
    <3>2. CASE req' = [req EXCEPT ![h] = [@ EXCEPT !.pc = "compare", !.failed = TRUE]]
        BY <1>0, <3>2 DEF TypeOK, Request
    <3>. QED
        BY <1>4, <3>1, <3>2 DEF LoginOpen
  <2>2. opened' \in Handler \cup {Main, Cli, Nobody} /\ err' \in BOOLEAN /\ spoiled' \in BOOLEAN
      BY <1>4 DEF LoginOpen, Opens, Busy, TypeOK
  <2>. QED
      BY <1>4, <2>1, <2>2 DEF LoginOpen, TypeOK, store
<1>5. CASE LoginRead(h)
  <2>1. (IF adminPass = Missing THEN Empty ELSE adminPass) \in Pass \cup {Empty}
      BY DEF TypeOK
  <2>2. req' \in [Handler -> Request]
    <3>. DEFINE value == IF adminPass = Missing THEN Empty ELSE adminPass
    <3>1. [req[h] EXCEPT !.pc = "compare", !.got = value,
                         !.failed = (adminPass = Missing)] \in Request
        BY <1>0, <2>1 DEF Request
    <3>2. req' = [req EXCEPT ![h] = [req[h] EXCEPT !.pc = "compare", !.got = value,
                                                   !.failed = (adminPass = Missing)]]
        BY <1>5 DEF LoginRead, TypeOK
    <3>. QED
        BY <3>1, <3>2 DEF TypeOK
  <2>3. err' \in BOOLEAN /\ spoiled' \in BOOLEAN
      BY <1>5 DEF LoginRead, TypeOK
  <2>. QED
      BY <1>5, <2>2, <2>3 DEF LoginRead, Closes, TypeOK, store
<1>6. CASE LoginBlank(h)
  <2>1. tokens' \subseteq 0 .. MaxBoot
      BY <1>6 DEF LoginBlank, TypeOK
  <2>. QED
      BY <1>6, <2>1, ReqMoves, IdleIsRequest DEF LoginBlank, Answer, TypeOK
<1>7. CASE LoginWrong(h)
    BY <1>7, ReqMoves, IdleIsRequest DEF LoginWrong, Answer, aux, TypeOK
<1>8. CASE LoginGranted(h)
  <2>1. tokens' \subseteq 0 .. MaxBoot
      BY <1>8 DEF LoginGranted, TypeOK
  <2>. QED
      BY <1>8, <2>1, ReqMoves, IdleIsRequest DEF LoginGranted, Answer, TypeOK
<1>. QED
    BY <1>1, <1>2, <1>3, <1>4, <1>5, <1>6, <1>7, <1>8 DEF LoginStep

LEMMA TypeOther ==
    ASSUME TypeOK, NEW h \in Handler,
           \/ UserLogin(h) \/ UserSpoiled(h) \/ UserAnswered(h)
           \/ Check(h) \/ CheckOpen(h) \/ CheckGet(h)
           \/ Update(h) \/ UpdateOpen(h) \/ UpdatePut(h)
    PROVE  TypeOK'
<1>1. CASE Check(h)
    BY <1>1, TypeBegin DEF Check
<1>2. CASE Update(h)
    BY <1>2, TypeBegin DEF Update
<1>3. CASE CheckOpen(h) \/ UpdateOpen(h)
  <2>1. req' \in [Handler -> Request]
      BY <1>3, IdleIsRequest DEF CheckOpen, UpdateOpen, Goto, Answer, TypeOK, Request
  <2>2. opened' \in Handler \cup {Main, Cli, Nobody}
      BY <1>3 DEF CheckOpen, UpdateOpen, Opens, Busy, TypeOK
  <2>. QED
      BY <1>3, <2>1, <2>2 DEF CheckOpen, UpdateOpen, TypeOK, store, aux
<1>4. CASE CheckGet(h)
    BY <1>4, IdleIsRequest DEF CheckGet, Answer, Closes, TypeOK, store, aux
<1>5. CASE UpdatePut(h)
  <2>1. req' \in [Handler -> Request]
      BY <1>5, IdleIsRequest, NotingIsRequest DEF UpdatePut, TypeOK
  <2>2. adminPass' \in Pass \cup {Empty, Missing}
      BY <1>5 DEF UpdatePut, StorePass, TypeOK, Request
  <2>. QED
      BY <1>5, <2>1, <2>2 DEF UpdatePut, StorePass, Closes, TypeOK, aux
<1>6. CASE UserLogin(h)
    BY <1>6, TypeBegin DEF UserLogin
<1>7. CASE UserSpoiled(h)
  <2>1. PICK r \in Request : req' = [req EXCEPT ![h] = r]
      BY <1>7, GotoMoves DEF UserSpoiled
  <2>. QED
      BY <1>7, <2>1, ReqMoves DEF UserSpoiled, aux, TypeOK
<1>8. CASE UserAnswered(h)
  <2>1. tokens' \subseteq 0 .. MaxBoot
      BY <1>8 DEF UserAnswered, TypeOK
  <2>. QED
      BY <1>8, <2>1, ReqMoves, IdleIsRequest DEF UserAnswered, Answer, TypeOK
<1>. QED
    BY <1>1, <1>2, <1>3, <1>4, <1>5, <1>6, <1>7, <1>8

LEMMA TypeCli == ASSUME TypeOK, CliStart \/ CliOpen \/ CliUse PROVE TypeOK'
<1>. USE DEF TypeOK, store, aux
<1>1. CASE CliStart
    BY <1>1 DEF CliStart
<1>2. CASE CliOpen
    BY <1>2 DEF CliOpen, Opens, Busy, Away
<1>3. CASE CliUse
  <2>1. req' \in [Handler -> Request]
      BY <1>3, NotingIsRequest DEF CliUse
  <2>2. adminPass' \in Pass \cup {Empty, Missing}
      BY <1>3 DEF CliUse, StorePass
  <2>. QED
      BY <1>3, <2>1, <2>2 DEF CliUse, StorePass, Closes, Away
<1>. QED
    BY <1>1, <1>2, <1>3

LEMMA TypeStep == ASSUME TypeOK, [Next]_vars PROVE TypeOK'
<1>1. CASE UNCHANGED vars
    BY <1>1 DEF TypeOK, vars
<1>. QED
    BY <1>1, TypeBoot, TypeExit, TypeLogin, TypeOther, TypeCli DEF Next

\* The variables keep their types.
THEOREM TypeCorrect == Spec => []TypeOK
BY TypeInit, TypeStep, PTL DEF Spec

-----------------------------------------------------------------------------
(* The logins.                                                             *)

\* What is true of every request: it runs while the server is up; its notes on
\* the stored password are right; what a login read, if it is the password,
\* was stored; if it is not, though the password is right, the lookup failed;
\* and a failed lookup is on record, as it is when err is to be returned.
Sound(r) ==
    r.pc # "idle" =>
        /\ main.pc = "up"
        /\ r.pass = adminPass => r.knew
        /\ r.right => r.pass = adminPass
        /\ r.pc \in {"test", "open", "read", "compare"} => r.pass \in Pass
        /\ r.pc \in {"test", "open", "read"} => r.got = Empty
        /\ r.pc = "compare" /\ r.got = r.pass => r.knew
        /\ r.pc = "compare" /\ r.right /\ r.got # r.pass => spoiled
        /\ r.failed => spoiled
        /\ r.pc \in {"spoiled", "failed"} => spoiled

LoginInv ==
    /\ err => spoiled
    /\ \A h \in Handler : Sound(req[h])

\* A step of one handler that changes nothing but its request leaves the others
\* sound, and so it is enough to look at this request.
LEMMA SoundMove ==
    ASSUME TypeOK, LoginInv, NEW h \in Handler, NEW r \in Request,
           req' = [req EXCEPT ![h] = r], UNCHANGED <<main, adminPass>>,
           spoiled => spoiled', err' => spoiled',
           r.pc # "idle" =>
               /\ main.pc = "up"
               /\ r.pass = adminPass => r.knew
               /\ r.right => r.pass = adminPass
               /\ r.pc \in {"test", "open", "read", "compare"} => r.pass \in Pass
               /\ r.pc \in {"test", "open", "read"} => r.got = Empty
               /\ r.pc = "compare" /\ r.got = r.pass => r.knew
               /\ r.pc = "compare" /\ r.right /\ r.got # r.pass => spoiled'
               /\ r.failed => spoiled'
               /\ r.pc \in {"spoiled", "failed"} => spoiled'
    PROVE  LoginInv'
<1>1. ASSUME NEW g \in Handler PROVE Sound(req[g])'
  <2>1. CASE g = h
    <3>1. req'[g] = r
        BY <2>1 DEF TypeOK
    <3>. QED
        BY <3>1 DEF Sound
  <2>2. CASE g # h
    <3>1. req'[g] = req[g] /\ Sound(req[g])
        BY <2>2 DEF TypeOK, LoginInv
    <3>. QED
        BY <3>1 DEF Sound
  <2>. QED
      BY <2>1, <2>2
<1>. QED
    BY <1>1 DEF LoginInv

LEMMA SoundIdle ==
    ASSUME TypeOK, LoginInv, NEW h \in Handler, Answer(h),
           UNCHANGED <<main, adminPass, err, spoiled>>
    PROVE  LoginInv'
BY SoundMove, IdleIsRequest DEF Answer, Idle, LoginInv

LEMMA SoundFrame ==
    ASSUME LoginInv, UNCHANGED <<main, adminPass, req, err, spoiled>>
    PROVE  LoginInv'
BY DEF LoginInv, Sound

\* Storing a password, with the notes every request takes of it.
LEMMA SoundStore ==
    ASSUME TypeOK, LoginInv, NEW pass, adminPass' = pass,
           UNCHANGED <<main, err, spoiled>>,
           \A g \in Handler : req'[g] = Idle \/ req'[g] = Noting(req[g], pass)
    PROVE  LoginInv'
<1>1. ASSUME NEW g \in Handler PROVE Sound(req[g])'
  <2>1. CASE req'[g] = Idle
      BY <2>1 DEF Sound, Idle
  <2>2. CASE req'[g] = Noting(req[g], pass)
    <3>1. req[g] \in Request /\ Sound(req[g])
        BY DEF TypeOK, LoginInv
    <3>2. /\ req'[g].pc = req[g].pc /\ req'[g].pass = req[g].pass
          /\ req'[g].got = req[g].got /\ req'[g].failed = req[g].failed
          /\ req'[g].knew = (req[g].knew \/ req[g].pass = pass)
          /\ req'[g].right = (req[g].right /\ req[g].pass = pass)
        BY <2>2, <3>1 DEF Noting, Request
    <3>. QED
        BY <3>1, <3>2 DEF Sound
  <2>. QED
      BY <2>1, <2>2
<1>. QED
    BY <1>1 DEF LoginInv

LEMMA SoundBegin ==
    ASSUME TypeOK, LoginInv, NEW h \in Handler, NEW pc, NEW pass \in Pass \cup {Empty},
           pc \in {"test", "testUser", "openCheck", "openSet"}, pc = "test" => pass \in Pass,
           Begin(h, pc, pass)
    PROVE  LoginInv'
<1>. DEFINE r == [pc |-> pc, pass |-> pass, got |-> Empty, failed |-> FALSE,
                  knew |-> pass = adminPass, right |-> pass = adminPass]
<1>1. r \in Request
    BY DEF Request
<1>2. req' = [req EXCEPT ![h] = r] /\ main.pc = "up"
    BY DEF Begin
<1>3. UNCHANGED <<main, adminPass, err, spoiled>>
    BY DEF Begin, store, aux
<1>. HIDE DEF r
<1>4. /\ r.pc = pc /\ r.pass = pass /\ r.got = Empty /\ r.failed = FALSE
      /\ r.knew = (pass = adminPass) /\ r.right = (pass = adminPass)
    BY DEF r
<1>. QED
    BY <1>1, <1>2, <1>3, <1>4, SoundMove DEF LoginInv

\* err is found to be an error, or this login's lookup failed: one did.
LEMMA SoundReturn ==
    ASSUME TypeOK, LoginInv, NEW h \in Handler,
           Goto(h, "spoiled") \/ Goto(h, "failed"),
           err \/ req[h].failed, req[h].pc # "idle",
           UNCHANGED <<main, adminPass, err, spoiled>>
    PROVE  LoginInv'
<1>1. Sound(req[h]) /\ (err => spoiled)
    BY DEF LoginInv
<1>2. spoiled
    BY <1>1 DEF Sound
<1>3. PICK pc \in {"spoiled", "failed"} : Goto(h, pc)
    OBVIOUS
<1>4. PICK r \in Request :
          /\ req' = [req EXCEPT ![h] = r]
          /\ r.pc = pc /\ r.pass = req[h].pass /\ r.got = req[h].got
          /\ r.knew = req[h].knew /\ r.right = req[h].right /\ r.failed = req[h].failed
    BY <1>3, GotoMoves
<1>. QED
    BY <1>1, <1>2, <1>4, SoundMove DEF Sound

LEMMA SoundLogin == ASSUME TypeOK, LoginInv, NEW h \in Handler, LoginStep(h) PROVE LoginInv'
<1>0. req[h] \in Request /\ Sound(req[h]) /\ (err => spoiled)
    BY DEF TypeOK, LoginInv
<1>1. CASE Login(h)
    BY <1>1, SoundBegin DEF Login
<1>2. CASE LoginRefused(h) \/ LoginBlank(h) \/ LoginWrong(h) \/ LoginGranted(h)
    BY <1>2, SoundIdle DEF LoginRefused, LoginBlank, LoginWrong, LoginGranted, store, aux
<1>3. CASE LoginGoesOn(h)
  <2>1. PICK r \in Request :
            /\ req' = [req EXCEPT ![h] = r]
            /\ r.pc = "open" /\ r.pass = req[h].pass /\ r.got = req[h].got
            /\ r.knew = req[h].knew /\ r.right = req[h].right /\ r.failed = req[h].failed
      BY <1>3, GotoMoves DEF LoginGoesOn
  <2>2. UNCHANGED <<main, adminPass, err, spoiled>> /\ req[h].pc = "test"
      BY <1>3 DEF LoginGoesOn, At, store, aux
  <2>. QED
      BY <1>0, <2>1, <2>2, SoundMove DEF Sound
<1>6. CASE LoginSpoiled(h) \/ LoginFailed(h)
    BY <1>6, SoundReturn DEF LoginSpoiled, LoginFailed, At, store, aux
<1>4. CASE LoginOpen(h)
  <2>0. req[h].pc = "open" /\ UNCHANGED <<main, adminPass>>
      BY <1>4 DEF LoginOpen, At, store
  <2>1. CASE Goto(h, "read") /\ UNCHANGED <<err, spoiled>>
    <3>. DEFINE r == [req[h] EXCEPT !.pc = "read"]
    <3>1. /\ r \in Request /\ r.pc = "read" /\ r.pass = req[h].pass /\ r.got = req[h].got
          /\ r.knew = req[h].knew /\ r.right = req[h].right /\ r.failed = req[h].failed
        BY <1>0 DEF Request
    <3>2. req' = [req EXCEPT ![h] = r]
        BY <2>1 DEF Goto, TypeOK
    <3>. HIDE DEF r
    <3>. QED
        BY <1>0, <2>0, <2>1, <3>1, <3>2, SoundMove DEF Sound
  <2>2. CASE /\ req' = [req EXCEPT ![h] = [@ EXCEPT !.pc = "compare", !.failed = TRUE]]
             /\ err' = TRUE /\ spoiled' = TRUE
    <3>. DEFINE r == [req[h] EXCEPT !.pc = "compare", !.failed = TRUE]
    <3>1. /\ r \in Request /\ r.pc = "compare" /\ r.pass = req[h].pass /\ r.got = req[h].got
          /\ r.knew = req[h].knew /\ r.right = req[h].right
        BY <1>0 DEF Request
    <3>2. req' = [req EXCEPT ![h] = r]
        BY <2>2 DEF TypeOK
    <3>3. r.got # r.pass
        BY <1>0, <2>0, <3>1, EmptyIsNoPass DEF Sound
    <3>. HIDE DEF r
    <3>4. /\ main.pc = "up" /\ r.pass \in Pass
          /\ r.pass = adminPass => r.knew
          /\ r.right => r.pass = adminPass
        BY <1>0, <2>0, <3>1 DEF Sound
    <3>. QED
        BY <2>0, <2>2, <3>1, <3>2, <3>3, <3>4, SoundMove
  <2>. QED
      BY <1>4, <2>1, <2>2 DEF LoginOpen
<1>5. CASE LoginRead(h)
  <2>. DEFINE value == IF adminPass = Missing THEN Empty ELSE adminPass
              r == [req[h] EXCEPT !.pc = "compare", !.got = value,
                                  !.failed = (adminPass = Missing)]
  <2>0. req[h].pc = "read" /\ UNCHANGED <<main, adminPass>>
      BY <1>5 DEF LoginRead, At, store
  <2>1. value \in Pass \cup {Empty}
      BY DEF TypeOK
  <2>2. req' = [req EXCEPT ![h] = r]
      BY <1>5 DEF LoginRead, TypeOK
  <2>3. /\ err' = (adminPass = Missing)
        /\ spoiled' = (spoiled \/ adminPass = Missing)
      BY <1>5 DEF LoginRead
  <2>4. req[h].pass \in Pass
      BY <1>0, <2>0 DEF Sound
  <2>5. value = req[h].pass => adminPass = req[h].pass
      BY <2>4, EmptyIsNoPass
  <2>6. adminPass = req[h].pass => value = req[h].pass
      BY <2>4, EmptyIsNoPass
  <2>. HIDE DEF value
  <2>7. /\ r \in Request /\ r.pc = "compare" /\ r.pass = req[h].pass /\ r.got = value
        /\ r.knew = req[h].knew /\ r.right = req[h].right /\ r.failed = (adminPass = Missing)
      BY <1>0, <2>1 DEF Request
  <2>. HIDE DEF r
  <2>8. /\ main.pc = "up" /\ r.pass \in Pass
        /\ r.pass = adminPass => r.knew
        /\ r.right => r.pass = adminPass
      BY <1>0, <2>0, <2>7 DEF Sound
  <2>. QED
      BY <2>0, <2>2, <2>3, <2>5, <2>6, <2>7, <2>8, SoundMove
<1>. QED
    BY <1>1, <1>2, <1>3, <1>4, <1>5, <1>6 DEF LoginStep

LEMMA SoundOther ==
    ASSUME TypeOK, LoginInv, NEW h \in Handler,
           \/ UserLogin(h) \/ UserSpoiled(h) \/ UserAnswered(h)
           \/ Check(h) \/ CheckOpen(h) \/ CheckGet(h)
           \/ Update(h) \/ UpdateOpen(h) \/ UpdatePut(h)
    PROVE  LoginInv'
<1>0. req[h] \in Request /\ Sound(req[h]) /\ (err => spoiled)
    BY DEF TypeOK, LoginInv
<1>1. CASE Check(h)
    BY <1>1, SoundBegin DEF Check
<1>2. CASE Update(h)
    BY <1>2, SoundBegin DEF Update
<1>3. CASE CheckOpen(h) \/ UpdateOpen(h)
  <2>0. /\ UNCHANGED <<main, adminPass, err, spoiled>>
        /\ req[h].pc \in {"openCheck", "openSet"}
      BY <1>3 DEF CheckOpen, UpdateOpen, At, store, aux
  <2>1. CASE Answer(h)
      BY <2>0, <2>1, SoundIdle
  <2>2. ASSUME NEW pc \in {"get", "put"}, Goto(h, pc) PROVE LoginInv'
    <3>. DEFINE r == [req[h] EXCEPT !.pc = pc]
    <3>1. /\ r \in Request /\ r.pc = pc /\ r.pass = req[h].pass
          /\ r.knew = req[h].knew /\ r.right = req[h].right /\ r.failed = req[h].failed
        BY <1>0 DEF Request
    <3>2. req' = [req EXCEPT ![h] = r]
        BY <2>2 DEF Goto, TypeOK
    <3>. HIDE DEF r
    <3>. QED
        BY <1>0, <2>0, <3>1, <3>2, SoundMove DEF Sound
  <2>. QED
      BY <1>3, <2>1, <2>2 DEF CheckOpen, UpdateOpen
<1>4. CASE CheckGet(h)
    BY <1>4, SoundIdle DEF CheckGet, store, aux
<1>5. CASE UpdatePut(h)
  <2>1. adminPass' = req[h].pass /\ UNCHANGED <<main, err, spoiled>>
      BY <1>5 DEF UpdatePut, StorePass, aux
  <2>2. \A g \in Handler : req'[g] = Idle \/ req'[g] = Noting(req[g], req[h].pass)
      BY <1>5 DEF UpdatePut
  <2>. QED
      BY <2>1, <2>2, SoundStore
<1>6. CASE UserLogin(h)
    BY <1>6, SoundBegin DEF UserLogin
<1>7. CASE UserSpoiled(h)
    BY <1>7, SoundReturn DEF UserSpoiled, At, store, aux
<1>8. CASE UserAnswered(h)
    BY <1>8, SoundIdle DEF UserAnswered, store, aux
<1>. QED
    BY <1>1, <1>2, <1>3, <1>4, <1>5, <1>6, <1>7, <1>8

LEMMA SoundStep == ASSUME TypeOK, LoginInv, [Next]_vars PROVE LoginInv'
<1>1. CASE Boot \/ BootOpenGet \/ BootGet \/ BootOpenPut \/ BootPut
  <2>1. main.pc # "up" /\ UNCHANGED <<req, err, spoiled>>
      BY <1>1 DEF Boot, BootOpenGet, BootGet, BootOpenPut, BootPut, aux
  <2>. QED
      BY <2>1 DEF LoginInv, Sound
<1>2. CASE Exit
    BY <1>2 DEF Exit, LoginInv, Sound, Idle
<1>3. CASE CliStart \/ CliOpen
    BY <1>3, SoundFrame DEF CliStart, CliOpen, store, aux
<1>4. CASE CliUse
  <2>1. CASE cli.pass = Missing
      BY <1>4, <2>1, SoundFrame DEF CliUse, store, aux
  <2>2. CASE cli.pass # Missing
    <3>1. adminPass' = cli.pass /\ UNCHANGED <<main, err, spoiled>>
        BY <1>4, <2>2 DEF CliUse, StorePass, aux
    <3>2. \A g \in Handler : req'[g] = Noting(req[g], cli.pass)
        BY <1>4, <2>2 DEF CliUse
    <3>. QED
        BY <3>1, <3>2, SoundStore
  <2>. QED
      BY <2>1, <2>2
<1>5. CASE UNCHANGED vars
    BY <1>5, SoundFrame DEF vars
<1>. QED
    BY <1>1, <1>2, <1>3, <1>4, <1>5, SoundLogin, SoundOther DEF Next

-----------------------------------------------------------------------------
(* The keys.                                                               *)

\* Tokens are signed with the stored key or a lost one; a boot makes a key
\* only where it found none, unless it could not look.
KeyInv ==
    /\ NoKey \notin tokens
    /\ tokens \subseteq {secretKey} \cup lost
    /\ main.pc \in {"down", "openGet", "get"} => ~main.failed
    /\ main.pc \in {"openGet", "get"} => boots # 0
    /\ main.pc \in {"openPut", "put", "up"} => main.key # NoKey
    /\ main.pc \in {"openPut", "put"} /\ ~main.failed => secretKey = NoKey
    /\ main.pc = "up" => main.key \in {secretKey} \cup lost
    /\ main.pc = "up" /\ ~main.failed => main.key = secretKey

LEMMA KeyFrame ==
    ASSUME KeyInv, UNCHANGED <<main, secretKey, boots, tokens, lost>>
    PROVE  KeyInv'
BY DEF KeyInv

LEMMA KeyBoot ==
    ASSUME TypeOK, KeyInv, Boot \/ BootOpenGet \/ BootGet \/ BootOpenPut \/ BootPut
    PROVE  KeyInv'
<1>. USE DEF KeyInv, TypeOK, store, aux, NoKey
<1>1. CASE Boot
  <2>1. boots' # 0
      BY <1>1, MaxBootIsNat DEF Boot
  <2>2. main' = [main EXCEPT !.pc = "openGet"]
      BY <1>1 DEF Boot
  <2>. QED
      BY <1>1, <2>1, <2>2 DEF Boot
<1>2. CASE BootOpenGet
  <2>1. CASE main' = [main EXCEPT !.pc = "get"]
      BY <1>2, <2>1 DEF BootOpenGet
  <2>2. CASE main' = [pc |-> "openPut", key |-> boots, failed |-> TRUE]
      BY <1>2, <2>2 DEF BootOpenGet
  <2>. QED
      BY <1>2, <2>1, <2>2 DEF BootOpenGet
<1>3. CASE BootGet
  <2>1. CASE secretKey = NoKey
      BY <1>3, <2>1 DEF BootGet
  <2>2. CASE secretKey # NoKey
      BY <1>3, <2>2 DEF BootGet
  <2>. QED
      BY <2>1, <2>2
<1>4. CASE BootOpenPut
  <2>1. CASE main' = [main EXCEPT !.pc = "put"] /\ UNCHANGED lost
      BY <1>4, <2>1 DEF BootOpenPut
  <2>2. CASE main' = [main EXCEPT !.pc = "up", !.failed = TRUE] /\ lost' = lost \cup {main.key}
      BY <1>4, <2>2 DEF BootOpenPut
  <2>. QED
      BY <1>4, <2>1, <2>2 DEF BootOpenPut
<1>5. CASE BootPut
  <2>1. CASE main.failed
      BY <1>5, <2>1 DEF BootPut
  <2>2. CASE ~main.failed
      BY <1>5, <2>2 DEF BootPut
  <2>. QED
      BY <2>1, <2>2
<1>. QED
    BY <1>1, <1>2, <1>3, <1>4, <1>5

LEMMA KeyStep == ASSUME TypeOK, KeyInv, LoginInv, [Next]_vars PROVE KeyInv'
<1>1. CASE Boot \/ BootOpenGet \/ BootGet \/ BootOpenPut \/ BootPut
    BY <1>1, KeyBoot
<1>2. CASE Exit
    BY <1>2 DEF Exit, Down, KeyInv, store
<1>3. ASSUME NEW h \in Handler, LoginStep(h) PROVE KeyInv'
  <2>1. CASE LoginGranted(h) \/ LoginBlank(h)
    <3>1. main.pc = "up"
        BY <2>1 DEF LoginGranted, LoginBlank, Returning, At, LoginInv, Sound
    <3>. QED
        BY <2>1, <3>1 DEF LoginGranted, LoginBlank, KeyInv, store
  <2>2. CASE ~(LoginGranted(h) \/ LoginBlank(h))
      BY <1>3, <2>2, KeyFrame
      DEF LoginStep, Login, Begin, LoginSpoiled, LoginGoesOn, LoginOpen, LoginRead,
          LoginFailed, LoginRefused, LoginWrong, store, aux
  <2>. QED
      BY <2>1, <2>2
<1>7. ASSUME NEW h \in Handler, UserAnswered(h) PROVE KeyInv'
  <2>1. main.pc = "up"
      BY <1>7 DEF UserAnswered, At, LoginInv, Sound
  <2>. QED
      BY <1>7, <2>1 DEF UserAnswered, KeyInv, store
<1>4. ASSUME NEW h \in Handler,
             \/ UserLogin(h) \/ UserSpoiled(h)
             \/ Check(h) \/ CheckOpen(h) \/ CheckGet(h)
             \/ Update(h) \/ UpdateOpen(h) \/ UpdatePut(h)
      PROVE  KeyInv'
    BY <1>4, KeyFrame
    DEF UserLogin, UserSpoiled, Check, Update, Begin, CheckOpen, CheckGet, UpdateOpen, UpdatePut, StorePass, store, aux
<1>5. CASE CliStart \/ CliOpen \/ CliUse
    BY <1>5, KeyFrame DEF CliStart, CliOpen, CliUse, StorePass, store, aux
<1>6. CASE UNCHANGED vars
    BY <1>6, KeyFrame DEF vars
<1>. QED
    BY <1>1, <1>2, <1>3, <1>4, <1>5, <1>6, <1>7 DEF Next

-----------------------------------------------------------------------------
(* The theorems.                                                           *)

\* The inductive invariant.
IInv == TypeOK /\ LoginInv /\ KeyInv

THEOREM Invariant == Spec => []IInv
<1>1. Init => LoginInv /\ KeyInv
    BY DEF Init, LoginInv, Sound, KeyInv, Idle, Down
<1>2. Init => IInv
    BY <1>1, TypeInit DEF IInv
<1>3. IInv /\ [Next]_vars => IInv'
    BY TypeStep, SoundStep, KeyStep DEF IInv
<1>. QED
    BY <1>2, <1>3, PTL DEF Spec

\* Sessions survive a restart whose calls of LevelDB succeed.
THEOREM SessionsSurvive == Spec => []TokensOutliveRestart
<1>1. IInv => TokensOutliveRestart
    BY DEF IInv, KeyInv, TokensOutliveRestart
<1>. QED
    BY <1>1, Invariant, PTL

\* No token that names the admin is signed on a password that was not the stored
\* one while the login ran.
THEOREM GrantsAreRight == Spec => GrantedKnewPass
<1>1. IInv => (\A h \in Handler : LoginGranted(h) => req[h].knew)
    BY DEF IInv, LoginInv, Sound, LoginGranted, At
<1>2. IInv /\ [Next]_vars => [\A h \in Handler : LoginGranted(h) => req[h].knew]_vars
    BY <1>1
<1>. QED
    BY <1>2, Invariant, PTL DEF Spec, GrantedKnewPass

\* A login gets an error, or a token that names nobody, and a right password is
\* refused, only in a process where a lookup failed.
THEOREM RefusalsHaveCause == Spec => RefusedForCause
<1>. DEFINE Caused == \A h \in Handler :
                          LoginRefused(h) \/ LoginBlank(h) \/ (LoginWrong(h) /\ req[h].right)
                             => spoiled
<1>1. ASSUME IInv, NEW h \in Handler, LoginWrong(h), req[h].right PROVE spoiled
    BY <1>1 DEF IInv, LoginInv, Sound, LoginWrong, At
<1>2. ASSUME IInv, NEW h \in Handler, LoginRefused(h) \/ LoginBlank(h) PROVE spoiled
    BY <1>2 DEF IInv, LoginInv, Sound, LoginRefused, LoginBlank, Returning, At
<1>3. IInv /\ [Next]_vars => [Caused]_vars
    BY <1>1, <1>2
<1>. QED
    BY <1>3, Invariant, PTL DEF Spec, RefusedForCause

=============================================================================
