--------------------------------- MODULE Auth ---------------------------------
(***************************************************************************)
(* Authentication: the secret key made or read when the web process boots, *)
(* the admin password, and the logins (web/auth.go), over the key-value    *)
(* store (core/leveldb.go), which the command line opens too.              *)
(*                                                                         *)
(* Every GetValue and SetValue opens LevelDB, does its work and closes it. *)
(* Only one opener is admitted: another call fails meanwhile.  A call is   *)
(* an action that opens it and one that does the work and closes.          *)
(*                                                                         *)
(* The logins share the package-level variable err, which is written       *)
(* without a lock.  Only whether it is nil matters, which is one machine   *)
(* word.  A login that tests err just after it wrote it may find its own   *)
(* result, kept in a register, or what another login wrote since.  A login *)
(* that returns err after the test reads it again, or returns what it      *)
(* tested, as the compiler likes.                                          *)
(***************************************************************************)
EXTENDS Naturals

CONSTANTS
    Pass,       \* passwords (their hashes) other than the empty one
    Handler,    \* HTTP handlers that may run at the same time
    Empty,      \* the empty string
    Missing,    \* there is no value
    MaxBoot     \* bound on boots

Main == "main"
Cli == "cli"
Nobody == "nobody"

ASSUME EmptyIsNoPass == Empty \notin Pass /\ Missing \notin Pass /\ Empty # Missing
ASSUME HandlersAreOthers == {Main, Cli, Nobody} \cap Handler = {}
ASSUME MaxBootIsNat == MaxBoot \in Nat

\* A key is named by the boot that made it; RandString does not repeat.
NoKey == 0

VARIABLES
    main,       \* the web process; [pc, key, failed]
    err,        \* the package-level err is not nil
    opened,     \* who has LevelDB open
    secretKey,  \* value of "secretKey"
    adminPass,  \* value of "admin_pass"
    req,        \* the request of each handler
    cli,        \* the command line; [pc, pass]
    boots,
    tokens,     \* auxiliary: keys that signed a token
    lost,       \* auxiliary: keys replaced by a boot that could not read them, or never stored
    spoiled     \* auxiliary: the lookup of a login failed since the boot

vars == <<main, err, opened, secretKey, adminPass, req, cli, boots, tokens, lost, spoiled>>
store == <<secretKey, adminPass>>
aux == <<tokens, lost, spoiled>>

\* got and failed: what the lookup of a login returned; knew and right:
\* auxiliary, its password was stored at some time, and at all times, since it
\* began.
Request == [pc : {"idle", "test", "open", "read", "compare", "testUser",
                  "spoiled", "failed", "openCheck", "get", "openSet", "put"},
            pass : Pass \cup {Empty}, got : Pass \cup {Empty}, failed : BOOLEAN,
            knew : BOOLEAN, right : BOOLEAN]

Idle == [pc |-> "idle", pass |-> Empty, got |-> Empty, failed |-> FALSE, knew |-> FALSE, right |-> FALSE]
Down == [pc |-> "down", key |-> NoKey, failed |-> FALSE]
Away == [pc |-> "away", pass |-> Missing]

TypeOK ==
    /\ main \in [pc : {"down", "openGet", "get", "openPut", "put", "up"},
                 key : 0 .. MaxBoot, failed : BOOLEAN]
    /\ err \in BOOLEAN
    /\ opened \in Handler \cup {Main, Cli, Nobody}
    /\ secretKey \in 0 .. MaxBoot
    /\ adminPass \in Pass \cup {Empty, Missing}
    /\ req \in [Handler -> Request]
    /\ cli \in [pc : {"away", "open", "use"}, pass : Pass \cup {Missing}]
    /\ boots \in 0 .. MaxBoot
    /\ tokens \subseteq 0 .. MaxBoot /\ lost \subseteq 0 .. MaxBoot
    /\ spoiled \in BOOLEAN

Init ==
    /\ main = Down
    /\ err = FALSE
    /\ opened = Nobody
    /\ secretKey = NoKey /\ adminPass = Missing
    /\ req = [h \in Handler |-> Idle]
    /\ cli = Away
    /\ boots = 0
    /\ tokens = {} /\ lost = {} /\ spoiled = FALSE

-----------------------------------------------------------------------------
(* LevelDB                                                                 *)

Opens(p)  == opened = Nobody /\ opened' = p
Busy      == opened # Nobody /\ UNCHANGED opened
Closes(p) == opened = p /\ opened' = Nobody

\* The value of "admin_pass" becomes pass; the running logins take note.
StorePass(pass) ==
    /\ adminPass' = pass
    /\ UNCHANGED secretKey

Noting(r, pass) == [r EXCEPT !.knew = @ \/ r.pass = pass,
                             !.right = @ /\ r.pass = pass]

-----------------------------------------------------------------------------
(* getSecretKey and jwtInit, before the server listens                     *)

Boot ==
    /\ main.pc = "down"
    /\ boots < MaxBoot
    /\ boots' = boots + 1
    /\ main' = [main EXCEPT !.pc = "openGet"]
    /\ UNCHANGED <<err, opened, store, req, cli, aux>>

BootOpenGet ==
    /\ main.pc = "openGet"
    /\ \/ Opens(Main) /\ main' = [main EXCEPT !.pc = "get"]
       \/ Busy /\ main' = [pc |-> "openPut", key |-> boots, failed |-> TRUE]
    /\ UNCHANGED <<err, store, req, cli, boots, aux>>

\* No value, and so no key: one is made.
BootGet ==
    /\ main.pc = "get"
    /\ Closes(Main)
    /\ main' = IF secretKey = NoKey
                 THEN [main EXCEPT !.pc = "openPut", !.key = boots]
                 ELSE [main EXCEPT !.pc = "up", !.key = secretKey]
    /\ UNCHANGED <<err, store, req, cli, boots, aux>>

\* A key that cannot be stored is used all the same.
BootOpenPut ==
    /\ main.pc = "openPut"
    /\ \/ Opens(Main) /\ main' = [main EXCEPT !.pc = "put"] /\ UNCHANGED lost
       \/ /\ Busy
          /\ main' = [main EXCEPT !.pc = "up", !.failed = TRUE]
          /\ lost' = lost \cup {main.key}
    /\ UNCHANGED <<err, store, req, cli, boots, tokens, spoiled>>

\* Mutant of BootPut: the key is kept in memory only.
BootPutDropped ==
    /\ main.pc = "put"
    /\ Closes(Main)
    /\ main' = [main EXCEPT !.pc = "up"]
    /\ UNCHANGED <<err, store, req, cli, boots, aux>>

BootPut ==
    /\ main.pc = "put"
    /\ Closes(Main)
    /\ secretKey' = main.key
    /\ main' = [main EXCEPT !.pc = "up"]
    /\ lost' = IF main.failed THEN lost \cup {secretKey} ELSE lost
    /\ UNCHANGED <<err, adminPass, req, cli, boots, tokens, spoiled>>

\* The process ends, wherever anything stands; the lock of LevelDB ends with it.
Exit ==
    /\ main.pc # "down"
    /\ main' = Down
    /\ err' = FALSE /\ spoiled' = FALSE
    /\ opened' = IF opened = Cli THEN Cli ELSE Nobody
    /\ req' = [h \in Handler |-> Idle]
    /\ UNCHANGED <<store, cli, boots, tokens, lost>>

-----------------------------------------------------------------------------
(* Requests                                                                *)

At(h, pc) == req[h].pc = pc
Goto(h, pc) == req' = [req EXCEPT ![h].pc = pc]
Answer(h) == req' = [req EXCEPT ![h] = Idle]

Begin(h, pc, pass) ==
    /\ main.pc = "up"
    /\ At(h, "idle")
    /\ req' = [req EXCEPT ![h] = [pc |-> pc, pass |-> pass, got |-> Empty, failed |-> FALSE,
                                  knew |-> pass = adminPass, right |-> pass = adminPass]]
    /\ UNCHANGED <<main, err, opened, store, cli, boots, aux>>

\* Mutant of Login: the binding does not require a password.
LoginUnbound(h) == \E pass \in Pass \cup {Empty} : Begin(h, "test", pass)

\* POST /auth/login of admin: the binding refuses an empty password.
Login(h) == \E pass \in Pass : Begin(h, "test", pass)

\* err != nil before anything is looked up: err is to be returned.
LoginSpoiled(h) ==
    /\ At(h, "test") /\ err
    /\ Goto(h, "spoiled")
    /\ UNCHANGED <<main, err, opened, store, cli, boots, aux>>

LoginGoesOn(h) ==
    /\ At(h, "test") /\ ~err
    /\ Goto(h, "open")
    /\ UNCHANGED <<main, err, opened, store, cli, boots, aux>>

\* GetValue("admin_pass"), whose error goes to err.
LoginOpen(h) ==
    /\ At(h, "open")
    /\ \/ Opens(h) /\ Goto(h, "read") /\ UNCHANGED <<err, spoiled>>
       \/ /\ Busy
          /\ req' = [req EXCEPT ![h] = [@ EXCEPT !.pc = "compare", !.failed = TRUE]]
          /\ err' = TRUE /\ spoiled' = TRUE
    /\ UNCHANGED <<main, store, cli, boots, tokens, lost>>

\* A missing value is an error, too.
LoginRead(h) ==
    /\ At(h, "read")
    /\ Closes(h)
    /\ LET value == IF adminPass = Missing THEN Empty ELSE adminPass
       IN  req' = [req EXCEPT ![h] = [@ EXCEPT !.pc = "compare", !.got = value,
                                               !.failed = (adminPass = Missing)]]
    /\ err' = (adminPass = Missing)
    /\ spoiled' = (spoiled \/ adminPass = Missing)
    /\ UNCHANGED <<main, store, cli, boots, tokens, lost>>

\* err != nil after the lookup, this login's or another's.
LoginFailed(h) ==
    /\ At(h, "compare") /\ (err \/ req[h].failed)
    /\ Goto(h, "failed")
    /\ UNCHANGED <<main, err, opened, store, cli, boots, aux>>

Returning(h) == At(h, "spoiled") \/ At(h, "failed")

\* return nil, err: it is the error that was tested, or there is still one.
LoginRefused(h) ==
    /\ Returning(h)
    /\ Answer(h)
    /\ UNCHANGED <<main, err, opened, store, cli, boots, aux>>

\* Another login's success has taken the error away between the test and the
\* return.  (nil, nil) counts as a login: the answer is 200 and a token that
\* names nobody, on which every protected route fails.
LoginBlank(h) ==
    /\ Returning(h) /\ ~err
    /\ tokens' = tokens \cup {main.key}
    /\ Answer(h)
    /\ UNCHANGED <<main, err, opened, store, cli, boots, lost, spoiled>>

LoginWrong(h) ==
    /\ At(h, "compare") /\ ~(err /\ req[h].failed)
    /\ req[h].got # req[h].pass
    /\ Answer(h)
    /\ UNCHANGED <<main, err, opened, store, cli, boots, aux>>

\* Mutant of LoginGranted: signed with the key of the next boot.
LoginGrantedNextKey(h) ==
    /\ At(h, "compare") /\ ~(err /\ req[h].failed)
    /\ req[h].got = req[h].pass
    /\ tokens' = tokens \cup {main.key + 1}
    /\ Answer(h)
    /\ UNCHANGED <<main, err, opened, store, cli, boots, lost, spoiled>>

LoginGranted(h) ==
    /\ At(h, "compare") /\ ~(err /\ req[h].failed)
    /\ req[h].got = req[h].pass
    /\ tokens' = tokens \cup {main.key}
    /\ Answer(h)
    /\ UNCHANGED <<main, err, opened, store, cli, boots, lost, spoiled>>

\* A login of anybody else: err is tested, too, and then MySQL decides.
UserLogin(h) == Begin(h, "testUser", Empty)

UserSpoiled(h) ==
    /\ At(h, "testUser") /\ err
    /\ Goto(h, "spoiled")
    /\ UNCHANGED <<main, err, opened, store, cli, boots, aux>>

UserAnswered(h) ==
    /\ At(h, "testUser") /\ ~err
    /\ tokens' \in {tokens, tokens \cup {main.key}}
    /\ Answer(h)
    /\ UNCHANGED <<main, err, opened, store, cli, boots, lost, spoiled>>

\* GET /auth/check and /auth/loginUser; the title is another read like it.
Check(h) == Begin(h, "openCheck", Empty)

\* The answer is "no administrator account" also when LevelDB was open.
CheckOpen(h) ==
    /\ At(h, "openCheck")
    /\ \/ Opens(h) /\ Goto(h, "get")
       \/ Busy /\ Answer(h)
    /\ UNCHANGED <<main, err, store, cli, boots, aux>>

CheckGet(h) ==
    /\ At(h, "get")
    /\ Closes(h)
    /\ Answer(h)
    /\ UNCHANGED <<main, err, store, cli, boots, aux>>

\* POST /auth/register and /auth/reset_pass are the same updateUser, which
\* takes an empty password; for the admin, the only user who has one here.
Update(h) == \E pass \in Pass \cup {Empty} : Begin(h, "openSet", pass)

\* Mutant of UpdateOpen: "err =" for "err :=", the error goes to the package.
UpdateOpenErr(h) ==
    /\ At(h, "openSet")
    /\ \/ Opens(h) /\ Goto(h, "put") /\ UNCHANGED err
       \/ Busy /\ Answer(h) /\ err' = TRUE
    /\ UNCHANGED <<main, store, cli, boots, aux>>

UpdateOpen(h) ==
    /\ At(h, "openSet")
    /\ \/ Opens(h) /\ Goto(h, "put")
       \/ Busy /\ Answer(h)
    /\ UNCHANGED <<main, err, store, cli, boots, aux>>

UpdatePut(h) ==
    /\ At(h, "put")
    /\ Closes(h)
    /\ StorePass(req[h].pass)
    /\ req' = [g \in Handler |-> IF g = h THEN Idle ELSE Noting(req[g], req[h].pass)]
    /\ UNCHANGED <<main, err, cli, boots, aux>>

-----------------------------------------------------------------------------
(* The command line: ResetAdminPass, or (Missing) any other use of LevelDB *)

CliStart ==
    /\ cli = Away
    /\ \E pass \in Pass \cup {Missing} : cli' = [pc |-> "open", pass |-> pass]
    /\ UNCHANGED <<main, err, opened, store, req, boots, aux>>

CliOpen ==
    /\ cli.pc = "open"
    /\ \/ Opens(Cli) /\ cli' = [cli EXCEPT !.pc = "use"]
       \/ Busy /\ cli' = Away
    /\ UNCHANGED <<main, err, store, req, boots, aux>>

CliUse ==
    /\ cli.pc = "use"
    /\ Closes(Cli)
    /\ cli' = Away
    /\ IF cli.pass = Missing
       THEN UNCHANGED <<store, req>>
       ELSE StorePass(cli.pass) /\ req' = [h \in Handler |-> Noting(req[h], cli.pass)]
    /\ UNCHANGED <<main, err, boots, aux>>

-----------------------------------------------------------------------------

LoginStep(h) ==
    \/ Login(h) \/ LoginSpoiled(h) \/ LoginGoesOn(h) \/ LoginOpen(h) \/ LoginRead(h)
    \/ LoginFailed(h) \/ LoginRefused(h) \/ LoginBlank(h)
    \/ LoginWrong(h) \/ LoginGranted(h)

Next ==
    \/ Boot \/ BootOpenGet \/ BootGet \/ BootOpenPut \/ BootPut \/ Exit
    \/ \E h \in Handler :
          \/ LoginStep(h)
          \/ UserLogin(h) \/ UserSpoiled(h) \/ UserAnswered(h)
          \/ Check(h) \/ CheckOpen(h) \/ CheckGet(h)
          \/ Update(h) \/ UpdateOpen(h) \/ UpdatePut(h)
    \/ CliStart \/ CliOpen \/ CliUse

Spec == Init /\ [][Next]_vars

-----------------------------------------------------------------------------
(* Properties.                                                             *)

\* A token that names the admin is signed only if the password was the stored
\* one at some time while the login ran: also when its lookup failed and another
\* login took the error out of the shared err before it was tested.  Taken out
\* after the test, the login gets a token too, which names nobody (LoginBlank);
\* such tokens are not what is ruled out here.
GrantedKnewPass ==
    [][\A h \in Handler : LoginGranted(h) => req[h].knew]_vars

\* A login gets an error, or the token that names nobody, before passwords are
\* compared, and an admin whose password was the stored one while the login ran
\* is told it is wrong, only if the lookup of some admin login of this process
\* failed; nothing else gets into err.
RefusedForCause ==
    [][\A h \in Handler :
          LoginRefused(h) \/ LoginBlank(h) \/ (LoginWrong(h) /\ req[h].right)
             => spoiled]_vars

\* A token outlives restarts of the web process: a boot whose calls succeed
\* uses the key that signed it, unless an earlier boot failed to read or to
\* store that key.
TokensOutliveRestart ==
    main.pc = "up" /\ ~main.failed => tokens \subseteq {main.key} \cup lost

\* docs/fixes/PASSWORD_PERSISTENCE_SUMMARY.md has "change the password -> log
\* in at once: succeeds".  So no login with the stored password is turned away
\* before its password was looked at.
RightPassLogsIn ==
    [][\A h \in Handler : LoginSpoiled(h) => ~req[h].right]_vars

=============================================================================
