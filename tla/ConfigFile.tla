------------------------------ MODULE ConfigFile ------------------------------
(***************************************************************************)
(* config.json, the configuration of the trojan server (core/server.go),   *)
(* and the operations that change it and then restart the server: handlers *)
(* of the web process and command lines (trojan/web.go, trojan/trojan.go,  *)
(* trojan/install.go, web/controller).                                     *)
(*                                                                         *)
(* Every Write... of core/server.go loads the whole file, sets its fields  *)
(* in memory and writes the whole file again, in place: os.WriteFile cuts  *)
(* it to nothing before it writes.  No lock holds these steps together.    *)
(*                                                                         *)
(* The settings in LevelDB are ResetDay's and Auth's; the names here leave *)
(* room for a module that extends this one and another.                    *)
(***************************************************************************)
EXTENDS Naturals

CONSTANTS
    Client,     \* HTTP handlers and command lines that may run at the same time
    Web,        \* those of the web process, which die together
    Value,      \* values that operations give the fields
    Default,    \* the value a field has in the template of trojan-install.sh
    Missing,    \* the field is not in the file
    MaxCall,    \* bound on operations begun
    MaxFault    \* bound on file operations that fail

ASSUME WebClients == Web \subseteq Client
ASSUME BoundsAreNatural == MaxCall \in Nat /\ MaxFault \in Nat

Field == {"port", "sni", "cert", "level", "mysql", "password"}
Setting == Value \cup {Default, Missing}
Document == [Field -> Setting]

Bare == [f \in Field |-> Missing]
\* trojan-install.sh writes no ssl.sni.
Template == [f \in Field |-> IF f = "sni" THEN Missing ELSE Default]

VARIABLES
    file,       \* what kind of file config.json is
    doc,        \* what it says, if it is whole
    client,     \* what each client works on
    script,     \* where trojan-install.sh is
    unit,       \* the systemd unit of trojan exists
    service,    \* the trojan server, and how it stands to config.json
    opened,     \* ports the firewall lets through
    calls,      \* operations begun
    faults,     \* file operations that failed
    wanted,     \* auxiliary: what the Saves that were not stale add up to
    damaged,    \* auxiliary: a fault, a death or an overlap spoilt the file
    orphaned    \* auxiliary: a Save is not followed by a restart of its own

configVars == <<file, doc, client, script, unit, service, opened, calls, faults,
                wanted, damaged, orphaned>>

auxiliary == <<wanted, damaged, orphaned>>
onDisk == <<file, doc>>
system == <<unit, service, opened>>
bounds == <<calls, faults>>

-----------------------------------------------------------------------------
(* Clients                                                                 *)

\* What an operation writes; the others write nothing.
Saves == [domain |-> {"sni"}, level |-> {"level"}, port |-> {"port"},
          tls |-> {"cert", "sni"}, mysql |-> {"mysql"}, password |-> {"password"}]

OpName == DOMAIN Saves \cup {"install", "restart", "start"}

\* The operations the web process offers; a command line has them all.
WebOp == {"domain", "level", "install", "restart", "start"}

PC == {"idle", "look", "connect", "script", "start", "load", "open", "fill",
       "openPort", "addUser", "restart", "systemctl"}

\* first: the call is one of the first run's.  is, buf: the bytes to be written.
\* stale: auxiliary; this client has not got what the file says, because it
\* could not read it or another has written it since.
Work == [op : OpName, pc : PC, first : BOOLEAN, value : Value \cup {Missing},
         is : {"empty", "torn", "whole"}, buf : Document, stale : BOOLEAN]

IdleClient == [op |-> "restart", pc |-> "idle", first |-> FALSE, value |-> Missing,
               is |-> "empty", buf |-> Bare, stale |-> FALSE]

ConfigTypeOK ==
    /\ file \in {"absent", "empty", "torn", "whole"}
    /\ doc \in Document /\ (file # "whole" => doc = Bare)
    /\ client \in [Client -> Work]
    /\ script \in {"off", "test", "create", "fill", "unit"}
    /\ unit \in BOOLEAN
    /\ service \in {"stopped", "failed", "current", "outdated"}
    /\ service # "stopped" => unit
    /\ opened \subseteq Setting
    /\ calls \in 0 .. MaxCall /\ faults \in 0 .. MaxFault
    /\ wanted \in Document
    /\ damaged \in BOOLEAN /\ orphaned \in BOOLEAN

\* A machine without trojan, or one with an installation that runs.
ConfigInit ==
    /\ \/ /\ file = "absent" /\ doc = Bare /\ wanted = Bare
          /\ unit = FALSE /\ service = "stopped" /\ opened = {}
       \/ /\ file = "whole" /\ doc = Template /\ wanted = Template
          /\ unit = TRUE /\ service = "current" /\ opened = {Default}
    /\ client = [c \in Client |-> IdleClient]
    /\ script = "off"
    /\ calls = 0 /\ faults = 0
    /\ damaged = FALSE /\ orphaned = FALSE

-----------------------------------------------------------------------------
(* Control                                                                 *)

At(c, pc) == client[c].pc = pc
Goto(c, pc) == client' = [client EXCEPT ![c].pc = pc]

Entry(op) ==
    CASE op = "port" -> "look"
      [] op = "mysql" -> "connect"
      [] op = "install" -> "script"
      [] op \in {"restart", "start"} -> "restart"
      [] OTHER -> "load"

Call(op, first, value) ==
    [op |-> op, pc |-> Entry(op), first |-> first, value |-> value,
     is |-> "empty", buf |-> Bare, stale |-> FALSE]

\* check() calls InstallTrojan, WritePassword, InstallTls and InstallMysql; any
\* other call is on its own.
AfterCall(work) ==
    IF work.first /\ work.op # "mysql"
    THEN Call(CASE work.op = "install" -> "password"
                [] work.op = "password" -> "tls"
                [] OTHER -> "mysql",
              TRUE, work.value)
    ELSE IdleClient

Return(c) == client' = [client EXCEPT ![c] = AfterCall(client[c])]

\* The panic ends a command line, and the request of a handler, which gin
\* recovers.
Panic(c) == client' = [client EXCEPT ![c] = IdleClient]

Fault == faults < MaxFault /\ faults' = faults + 1

\* The restart of c's own Save is still to come.
Pending(c) ==
    /\ client[c].op \notin {"restart", "start"}
    /\ client[c].pc \in {"script", "start", "openPort", "addUser", "restart", "systemctl"}

\* GetConfig finds no document, or cannot read the one there is.  It returns
\* nil, and its caller panics.  The restart owed for a Save is lost with it; a
\* file that is not whole has a writer yet to come, who owes one himself.
GetsNoConfig(c) ==
    /\ IF file = "whole" THEN Fault /\ orphaned' = (orphaned \/ Pending(c))
                         ELSE UNCHANGED <<faults, orphaned>>
    /\ Panic(c)

\* Mutant of SaveReturns: SetDomain and SetLogLevel leave the restart to others.
SaveReturnsNoRestart(work, ok) ==
    CASE work.op = "password" -> AfterCall(work)
      [] work.op = "port" -> IF ok THEN [work EXCEPT !.pc = "openPort"] ELSE AfterCall(work)
      [] work.op = "mysql" -> [work EXCEPT !.pc = "addUser"]
      [] work.op \in {"domain", "level"} -> AfterCall(work)
      [] OTHER -> [work EXCEPT !.pc = "restart"]

\* The client goes on where the result of Save leads; only ChangePort looks at it.
SaveReturns(work, ok) ==
    CASE work.op = "password" -> AfterCall(work)
      [] work.op = "port" -> IF ok THEN [work EXCEPT !.pc = "openPort"] ELSE AfterCall(work)
      [] work.op = "mysql" -> [work EXCEPT !.pc = "addUser"]
      [] OTHER -> [work EXCEPT !.pc = "restart"]

Begin(c, op, value) ==
    /\ At(c, "idle")
    /\ calls < MaxCall /\ calls' = calls + 1
    /\ op # "password"
    /\ c \in Web => op \in WebOp
    /\ client' = [client EXCEPT ![c] = Call(op, FALSE, value)]
    /\ IF op = "install" THEN script = "off" /\ script' = "test" ELSE UNCHANGED script
    /\ UNCHANGED <<onDisk, system, faults, auxiliary>>

\* check() of the main menu: trojan is installed if its configuration exists.
BeginFirst(c, value) ==
    /\ At(c, "idle")
    /\ calls < MaxCall /\ calls' = calls + 1
    /\ c \notin Web
    /\ file = "absent"
    /\ script = "off" /\ script' = "test"
    /\ client' = [client EXCEPT ![c] = Call("install", TRUE, value)]
    /\ UNCHANGED <<onDisk, system, faults, auxiliary>>

\* The user leaves the menu, or what is entered is refused.  InstallTls goes on
\* to the restart when the files of the certificate do not exist.
Decline(c) ==
    /\ \/ client[c].op \in {"port", "tls"} /\ At(c, "load")
       \/ At(c, "connect")
    /\ \/ Return(c)
       \/ client[c].op = "tls" /\ Goto(c, "restart")
    /\ UNCHANGED <<onDisk, script, system, bounds, auxiliary>>

\* ChangePort shows the old port, which GetConfig has to find.
Look(c) ==
    /\ At(c, "look")
    /\ \/ file = "whole" /\ Goto(c, "load") /\ UNCHANGED <<faults, orphaned>>
       \/ GetsNoConfig(c)
    /\ UNCHANGED <<onDisk, script, system, calls, wanted, damaged>>

\* InstallMysql reaches the database and creates its table, or GetDB returns nil
\* and Ping, or Exec in CreateTable, panics on it.
Connect(c) ==
    /\ At(c, "connect")
    /\ Goto(c, "load") \/ Panic(c)
    /\ UNCHANGED <<onDisk, script, system, bounds, auxiliary>>

-----------------------------------------------------------------------------
(* Write...: Load, sjson.SetBytes, Save                                    *)

Set(d, op, value) == [f \in Field |-> IF f \in Saves[op] THEN value ELSE d[f]]

\* The fields are set in a new document.
Alone(work) == [work EXCEPT !.is = "whole", !.buf = Set(Bare, work.op, work.value)]

\* Mutant of Edited: what was loaded is not used.
EditedAlone(work) == {Alone(work)}

\* sjson makes a document of nothing; of bytes that are no document it makes
\* others that are none, or an error and no bytes, and then WriteTls, which
\* sets one field after the other, has the last of them.
Edited(work) ==
    IF file = "torn"
    THEN {[work EXCEPT !.is = "torn"]} \cup
         {IF work.op = "tls"
          THEN [work EXCEPT !.is = "whole", !.buf = [Bare EXCEPT !["sni"] = work.value]]
          ELSE [work EXCEPT !.is = "empty"]}
    ELSE {[work EXCEPT !.is = "whole", !.buf = Set(doc, work.op, work.value)]}

Load(c) ==
    /\ At(c, "load")
    /\ \E work \in Edited(client[c]) :
          client' = [client EXCEPT ![c] =
                       [work EXCEPT !.pc = "open", !.stale = file \in {"empty", "torn"}]]
    /\ UNCHANGED <<onDisk, script, system, bounds, auxiliary>>

\* Load prints the error and returns nil, of which sjson makes a new document;
\* the Write goes on with that.
LoadFails(c) ==
    /\ At(c, "load")
    /\ file # "absent"
    /\ Fault
    /\ client' = [client EXCEPT ![c] = [Alone(client[c]) EXCEPT !.pc = "open", !.stale = TRUE]]
    /\ UNCHANGED <<onDisk, script, system, calls, auxiliary>>

\* Those who have loaded the file and not yet written it no longer have its content.
Overtaken(set) ==
    [d \in Client |-> IF d \in set /\ client[d].pc \in {"open", "fill"}
                      THEN [client[d] EXCEPT !.stale = TRUE] ELSE client[d]]

\* The server read the file before it was changed.
Behind == IF service = "current" THEN "outdated" ELSE service

\* os.WriteFile opens the file with O_TRUNC.
Open(c) ==
    /\ At(c, "open")
    /\ file' = "empty" /\ doc' = Bare
    /\ service' = Behind
    /\ client' = [Overtaken(Client \ {c}) EXCEPT ![c].pc = "fill"]
    /\ UNCHANGED <<script, unit, opened, bounds, auxiliary>>

OpenFails(c) ==
    /\ At(c, "open")
    /\ Fault
    /\ client' = [client EXCEPT ![c] = SaveReturns(client[c], FALSE)]
    /\ UNCHANGED <<onDisk, script, system, calls, auxiliary>>

\* Bytes written to the start of the file.  If another has written it since it
\* was cut, the longer of the two texts shows behind the shorter one.
Fills(is, d) ==
    \/ file' = is /\ doc' = (IF is = "whole" THEN d ELSE Bare)
    \/ file # "empty" /\ file' = "torn" /\ doc' = Bare

Fill(c) ==
    /\ At(c, "fill")
    /\ LET work == client[c]
       IN  /\ Fills(work.is, work.buf)
           /\ wanted' = IF work.stale THEN doc' ELSE Set(wanted, work.op, work.value)
           /\ orphaned' = (orphaned \/ work.op = "password")
           /\ client' = [Overtaken(Client \ {c}) EXCEPT ![c] = SaveReturns(work, TRUE)]
    /\ service' = Behind
    /\ damaged' = (file' # "whole")
    /\ UNCHANGED <<script, unit, opened, bounds>>

\* The disk is full: nothing is written, or a part.
FillFails(c) ==
    /\ At(c, "fill")
    /\ Fault
    /\ \/ UNCHANGED <<onDisk, service>>
       \/ file' = "torn" /\ doc' = Bare /\ service' = Behind
    /\ damaged' = (file' # "whole")
    /\ client' = [client EXCEPT ![c] = SaveReturns(client[c], FALSE)]
    /\ UNCHANGED <<script, unit, opened, calls, wanted, orphaned>>

-----------------------------------------------------------------------------
(* Restart                                                                 *)

OpenPort(port) == opened' = opened \cup {port}

\* ChangePort opens the new port before it restarts.
OpenNewPort(c) ==
    /\ At(c, "openPort")
    /\ OpenPort(client[c].value)
    /\ Goto(c, "restart")
    /\ UNCHANGED <<onDisk, script, unit, service, bounds, auxiliary>>

\* InstallMysql asks for a first user if it finds none; AddUser calls GetMysql.
AddFirstUser(c) ==
    /\ At(c, "addUser")
    /\ \/ Goto(c, "restart") /\ UNCHANGED <<faults, orphaned>>
       \/ GetsNoConfig(c)
    /\ UNCHANGED <<onDisk, script, system, calls, wanted, damaged>>

\* util.OpenPort(core.GetConfig().LocalPort), of Restart and of Start
Restart(c) ==
    /\ At(c, "restart")
    /\ \/ /\ file = "whole"
          /\ OpenPort(doc["port"])
          /\ Goto(c, "systemctl") /\ UNCHANGED <<faults, orphaned>>
       \/ GetsNoConfig(c) /\ UNCHANGED opened
    /\ UNCHANGED <<onDisk, script, unit, service, calls, wanted, damaged>>

Started == IF file = "whole" THEN "current" ELSE "failed"

\* Mutant of Systemctl: it is not looked at whether trojan is installed.
SystemctlNoUnit(c) ==
    /\ At(c, "systemctl")
    /\ service' = Started
    /\ Return(c)
    /\ UNCHANGED <<onDisk, script, unit, opened, bounds, auxiliary>>

\* The service is restarted, or started if it does not run; without a unit
\* systemctl only complains.
Systemctl(c) ==
    /\ At(c, "systemctl")
    /\ IF unit /\ (client[c].op = "start" => service \in {"stopped", "failed"})
       THEN /\ service' = Started
            /\ orphaned' = (orphaned /\ (file # "whole" \/ doc["port"] \notin opened))
       ELSE UNCHANGED <<service, orphaned>>
    /\ Return(c)
    /\ UNCHANGED <<onDisk, script, unit, opened, bounds, wanted, damaged>>

\* controller.Stop, and Stop of the menu
StopService ==
    /\ service # "stopped"
    /\ service' = "stopped"
    /\ UNCHANGED <<onDisk, client, script, unit, opened, bounds, auxiliary>>

\* Restart=on-failure in the unit
RetryService ==
    /\ service = "failed"
    /\ file = "whole"
    /\ service' = Started
    /\ UNCHANGED <<onDisk, client, script, unit, opened, bounds, auxiliary>>

-----------------------------------------------------------------------------
(* InstallTrojan: trojan-install.sh in a shell of its own, then the port of *)
(* the template and the restart, without a look at the configuration.      *)

ScriptTest ==
    /\ script = "test"
    /\ script' = IF file = "absent" THEN "create" ELSE "unit"
    /\ UNCHANGED <<onDisk, client, system, bounds, auxiliary>>

\* cat > config.json
ScriptCreate ==
    /\ script = "create"
    /\ script' = "fill"
    /\ file' = "empty" /\ doc' = Bare
    /\ client' = Overtaken(Client)
    /\ service' = Behind
    /\ UNCHANGED <<unit, opened, bounds, auxiliary>>

\* The script may have outlived the process that started it.
ScriptFill ==
    /\ script = "fill"
    /\ script' = "unit"
    /\ Fills("whole", Template)
    /\ wanted' = Template
    /\ damaged' = (file' # "whole")
    /\ orphaned' = (orphaned \/ ~ \E c \in Client : At(c, "script"))
    /\ client' = Overtaken(Client)
    /\ service' = Behind
    /\ UNCHANGED <<unit, opened, bounds>>

ScriptUnit ==
    /\ script = "unit"
    /\ script' = "off"
    /\ unit' = TRUE
    /\ UNCHANGED <<onDisk, client, service, opened, bounds, auxiliary>>

\* set -e: a download fails, or a write.
ScriptFails ==
    /\ script # "off"
    /\ script' = "off"
    /\ damaged' = (damaged \/ (script = "fill" /\ file # "whole"))
    /\ UNCHANGED <<onDisk, client, system, bounds, wanted, orphaned>>

\* The result of ExecCommand is not looked at.
ScriptReturns(c) ==
    /\ At(c, "script")
    /\ script = "off"
    /\ Goto(c, "start")
    /\ UNCHANGED <<onDisk, script, system, bounds, auxiliary>>

StartInstalled(c) ==
    /\ At(c, "start")
    /\ OpenPort(Default)
    /\ Goto(c, "systemctl")
    /\ UNCHANGED <<onDisk, script, unit, service, bounds, auxiliary>>

-----------------------------------------------------------------------------
(* Processes die.                                                          *)

Die(set) ==
    /\ client' = [c \in Client |-> IF c \in set THEN IdleClient ELSE client[c]]
    /\ damaged' = (damaged \/ (file # "whole" /\ \E c \in set : At(c, "fill")))
    /\ orphaned' = (orphaned \/ \E c \in set : Pending(c))
    /\ UNCHANGED <<onDisk, script, system, bounds, wanted>>

\* A command line is interrupted; the web process crashes or is restarted.
Crash ==
    \/ \E c \in Client \ Web : client[c].pc # "idle" /\ Die({c})
    \/ (\E c \in Web : client[c].pc # "idle") /\ Die(Web)

-----------------------------------------------------------------------------

Write(c) == Load(c) \/ LoadFails(c) \/ Open(c) \/ OpenFails(c) \/ Fill(c) \/ FillFails(c)

ClientStep(c) ==
    \/ Decline(c) \/ Look(c) \/ Connect(c)
    \/ Write(c)
    \/ OpenNewPort(c) \/ AddFirstUser(c) \/ Restart(c) \/ Systemctl(c)
    \/ StartInstalled(c)

ScriptStep == ScriptTest \/ ScriptCreate \/ ScriptFill \/ ScriptUnit \/ ScriptFails

ConfigNext ==
    \/ \E c \in Client :
          \/ \E op \in OpName, value \in Value : Begin(c, op, value)
          \/ \E value \in Value : BeginFirst(c, value)
          \/ ClientStep(c)
          \/ ScriptReturns(c)
    \/ StopService \/ RetryService
    \/ ScriptStep
    \/ Crash

ConfigSpec == ConfigInit /\ [][ConfigNext]_configVars

-----------------------------------------------------------------------------
(* Properties.                                                             *)

\* Some Save, or the script, has cut the file and is about to write it.
Writing == script = "fill" \/ \E c \in Client : At(c, "fill")

\* The file says of every field what the last Save of that field said, unless a
\* Save overlapped it, or could not read the file and so wrote a new one: no
\* other Write loses what is not its own, and the file is no document only while
\* it is written or after a fault, a death or an overlap.
SettingsKept ==
    \/ file = "absent" \/ Writing \/ damaged
    \/ file = "whole" /\ doc = wanted

\* The trojan server runs with what the file says and is reachable at its port,
\* or the restart of a Save is under way, or whoever owed it died or could not
\* read the file: when operations overlap, even when one of them panics on half
\* a file, the last of them leaves the server with the configuration on disk.
ServiceRunsFile ==
    file = "whole" /\ service # "stopped" =>
        \/ service = "current" /\ doc["port"] \in opened
        \/ \E c \in Client : Pending(c)
        \/ orphaned

=============================================================================
