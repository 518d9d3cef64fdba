---------------------------- MODULE SettingsProofs ----------------------------
(* Proofs about the two stores of settings: ResetDay, for any requests, any  *)
(* number of handlers, boots and failing calls, and whatever specs cron's    *)
(* parser takes; and ConfigFile, for any handlers, command lines and values  *)
(* and any number of operations and faults.                                  *)
EXTENDS ResetDay, ConfigFile, TLAPS

-----------------------------------------------------------------------------
(* ResetDay                                                                *)


Booting == {"get", "put", "add"}

\* While ScheduleTask runs no request does, so that a missing value it has read
\* is still missing.
BootAlone ==
    /\ main.pc \in Booting \cup {"down"} => \A h \in Handler : req[h].pc = "idle"
    /\ main.pc = "put" /\ ~main.failed => stored = NoDay

LEMMA Types == ASSUME TypeOK, [Next]_vars PROVE TypeOK'
<1>0. DefaultDay \in Day /\ 0 \in Day
    BY DEF Day, DefaultDay
<1>1. ASSUME NEW day \in Day, AddTask(day) PROVE task' \in Day \cup {NoDay}
    BY <1>1 DEF AddTask, TypeOK
<1>2. ASSUME Busy PROVE busy' \in 0 .. MaxBusy
    BY <1>2, NumbersAreNatural DEF Busy, TypeOK
<1>3. CASE Boot
  <2>1. boots' \in 0 .. MaxBoot
      BY <1>3, NumbersAreNatural DEF Boot, TypeOK
  <2>. QED
      BY <1>3, <2>1 DEF Boot, TypeOK
<1>4. CASE BootGet
  <2>1. main' \in [pc : {"put", "add"}, day : Day, failed : BOOLEAN]
    <3>1. \/ main' = [pc |-> "put", day |-> DefaultDay, failed |-> FALSE]
          \/ main' = [pc |-> "put", day |-> DefaultDay, failed |-> TRUE]
          \/ stored \in Day /\ main' = [pc |-> "add", day |-> stored, failed |-> FALSE]
        BY <1>4 DEF BootGet, TypeOK
    <3>2. CASE stored \in Day /\ main' = [pc |-> "add", day |-> stored, failed |-> FALSE]
        BY <3>2
    <3>3. ASSUME NEW f \in BOOLEAN, main' = [pc |-> "put", day |-> DefaultDay, failed |-> f]
          PROVE  main' \in [pc : {"put", "add"}, day : Day, failed : BOOLEAN]
        BY <1>0, <3>3
    <3>. QED
        BY <3>1, <3>2, <3>3
  <2>2. busy' \in 0 .. MaxBusy
      BY <1>2, <1>4 DEF BootGet, TypeOK
  <2>. QED
      BY <1>4, <2>1, <2>2 DEF BootGet, TypeOK
<1>5. CASE BootPut
    BY <1>2, <1>5 DEF BootPut, TypeOK
<1>6. CASE BootAdd
    BY <1>1, <1>6 DEF BootAdd, TypeOK
<1>7. CASE StopScheduler
    BY <1>7 DEF StopScheduler, TypeOK
<1>8. CASE Exit
    BY <1>0, <1>8 DEF Exit, TypeOK, Down, Idle
<1>9. ASSUME NEW h \in Handler, NEW day \in Asked, Start(h, day) PROVE TypeOK'
    BY <1>9 DEF Start, TypeOK
<1>10. ASSUME NEW h \in Handler, Get(h) PROVE TypeOK'
    BY <1>0, <1>2, <1>10 DEF Get, TypeOK, Idle
<1>11. ASSUME NEW h \in Handler, Remove(h) PROVE TypeOK'
    BY <1>11 DEF Remove, TypeOK
<1>12. ASSUME NEW h \in Handler, Add(h) PROVE TypeOK'
    BY <1>1, <1>12 DEF Add, TypeOK
<1>13. ASSUME NEW h \in Handler, Put(h) PROVE TypeOK'
    BY <1>0, <1>2, <1>13 DEF Put, TypeOK, Idle
<1>14. CASE UNCHANGED vars
    BY <1>14 DEF vars, TypeOK
<1>. QED
    BY <1>3, <1>4, <1>5, <1>6, <1>7, <1>8, <1>9, <1>10, <1>11, <1>12, <1>13, <1>14 DEF Next

\* The variables keep their types: what is stored is always a day.
THEOREM TypeCorrect == Spec => []TypeOK
<1>1. Init => TypeOK
    BY NumbersAreNatural DEF Init, TypeOK, Down, Idle, Day
<1>2. TypeOK /\ [Next]_vars => TypeOK'
    BY Types
<1>. QED
    BY <1>1, <1>2, PTL DEF Spec

LEMMA BootStep == ASSUME TypeOK, BootAlone, [Next]_vars PROVE BootAlone'
<1>. USE DEF Booting
<1>1. CASE Boot \/ BootGet \/ BootPut \/ BootAdd \/ StopScheduler
    BY <1>1 DEF Boot, BootGet, BootPut, BootAdd, StopScheduler, BootAlone, TypeOK
<1>2. CASE Exit
    BY <1>2 DEF Exit, BootAlone, Down, Idle
<1>3. ASSUME NEW h \in Handler,
             Get(h) \/ Remove(h) \/ Add(h) \/ Put(h) \/ \E day \in Asked : Start(h, day)
      PROVE  BootAlone'
  <2>1. main' = main /\ main.pc \notin Booting \cup {"down"}
      BY <1>3 DEF Get, Remove, Add, Put, Start, BootAlone
  <2>. QED
      BY <2>1 DEF BootAlone
<1>4. CASE UNCHANGED vars
    BY <1>4 DEF vars, BootAlone
<1>. QED
    BY <1>1, <1>2, <1>3, <1>4 DEF Next

\* A boot that could read the value never replaces a stored day by the default,
\* whatever crashes, restarts and requests came before.
THEOREM BootIsSafe == Spec => BootKeepsDay
<1>1. Init => BootAlone
    BY DEF Init, BootAlone, Down, Idle
<1>2. TypeOK /\ BootAlone /\ [Next]_vars => BootAlone'
    BY BootStep
<1>3. BootAlone => [BootPut /\ stored # NoDay => main.failed \/ stored' = stored]_vars
    BY DEF BootAlone, BootPut
<1>. QED
    BY <1>1, <1>2, <1>3, TypeCorrect, PTL DEF Spec, BootKeepsDay

-----------------------------------------------------------------------------
(* ConfigFile                                                              *)


\* What a client works on fits where it is.
Fits(work) ==
    /\ work.pc \in {"script", "start"} => work.op = "install"
    /\ work.pc \in {"look", "connect", "load", "open", "fill"} => work.op \in DOMAIN Saves

\* Where a client is between two operations.
Between == {"idle", "look", "connect", "script", "restart", "load"}

-----------------------------------------------------------------------------
(* What the operators on clients return                                      *)

LEMMA Constants ==
    /\ Bare \in Document /\ Template \in Document
    /\ Default \in Setting /\ Missing \in Setting /\ Value \subseteq Setting
    /\ Template["port"] = Default
BY DEF Bare, Template, Document, Setting, Field

LEMMA SetTyped ==
    ASSUME NEW d \in Document, NEW op, NEW value \in Setting
    PROVE  Set(d, op, value) \in Document
BY DEF Set, Document

LEMMA OpNames == DOMAIN Saves = {"domain", "level", "port", "tls", "mysql", "password"}
BY DEF Saves

LEMMA CallTyped ==
    ASSUME NEW op \in OpName, NEW first \in BOOLEAN, NEW value \in Value \cup {Missing}
    PROVE  /\ Call(op, first, value) \in Work
           /\ Call(op, first, value).op = op
           /\ Call(op, first, value).pc \in Between \ {"idle"}
           /\ Fits(Call(op, first, value))
<1>1. /\ Entry(op) \in Between \ {"idle"}
      /\ Entry(op) = "script" => op = "install"
      /\ Entry(op) \in {"look", "connect", "load"} => op \in DOMAIN Saves
    BY OpNames DEF Entry, OpName, Between
<1>. QED
    BY <1>1, Constants DEF Call, Work, PC, Between, Fits

LEMMA IdleTyped == IdleClient \in Work /\ IdleClient.pc = "idle" /\ Fits(IdleClient)
BY Constants DEF IdleClient, Work, OpName, PC, Fits

LEMMA AfterCallTyped ==
    ASSUME NEW work \in Work
    PROVE  /\ AfterCall(work) \in Work
           /\ AfterCall(work).pc \in Between
           /\ Fits(AfterCall(work))
<1>1. CASE AfterCall(work) = IdleClient
    BY <1>1, IdleTyped DEF Between
<1>2. CASE \E op \in {"password", "tls", "mysql"} : AfterCall(work) = Call(op, TRUE, work.value)
  <2>1. PICK op \in {"password", "tls", "mysql"} : AfterCall(work) = Call(op, TRUE, work.value)
      BY <1>2
  <2>2. op \in OpName /\ work.value \in Value \cup {Missing}
      BY <2>1, OpNames DEF OpName, Work
  <2>3. /\ Call(op, TRUE, work.value) \in Work
        /\ Call(op, TRUE, work.value).pc \in Between
        /\ Fits(Call(op, TRUE, work.value))
      BY <2>2, CallTyped
  <2>. QED
      BY <2>1, <2>3
<1>. QED
    BY <1>1, <1>2 DEF AfterCall

LEMMA SaveReturnsTyped ==
    ASSUME NEW work \in Work, NEW ok \in BOOLEAN
    PROVE  /\ SaveReturns(work, ok) \in Work
           /\ SaveReturns(work, ok).pc \in Between \cup {"openPort", "addUser"}
           /\ Fits(SaveReturns(work, ok))
           /\ ok /\ work.op \in DOMAIN Saves =>
                 \/ work.op = "password"
                 \/ /\ SaveReturns(work, ok).pc \in {"openPort", "addUser", "restart"}
                    /\ SaveReturns(work, ok).op = work.op
<1>1. ASSUME NEW pc \in {"openPort", "addUser", "restart"}
      PROVE  [work EXCEPT !.pc = pc] \in Work /\ Fits([work EXCEPT !.pc = pc])
    BY DEF Work, PC, Fits
<1>2. \/ SaveReturns(work, ok) = AfterCall(work) /\ (work.op = "password" \/ ~ok)
      \/ \E pc \in {"openPort", "addUser", "restart"} : SaveReturns(work, ok) = [work EXCEPT !.pc = pc]
    BY DEF SaveReturns
<1>3. CASE SaveReturns(work, ok) = AfterCall(work) /\ (work.op = "password" \/ ~ok)
    BY <1>3, AfterCallTyped
<1>4. CASE \E pc \in {"openPort", "addUser", "restart"} : SaveReturns(work, ok) = [work EXCEPT !.pc = pc]
  <2>1. PICK pc \in {"openPort", "addUser", "restart"} : SaveReturns(work, ok) = [work EXCEPT !.pc = pc]
      BY <1>4
  <2>2. SaveReturns(work, ok).pc = pc /\ SaveReturns(work, ok).op = work.op
      BY <2>1 DEF Work
  <2>. QED
      BY <1>1, <2>1, <2>2 DEF Between
<1>. QED
    BY <1>2, <1>3, <1>4

LEMMA EditedTyped ==
    ASSUME NEW work \in Work, doc \in Document, NEW edited \in Edited(work)
    PROVE  /\ edited \in Work
           /\ edited.op = work.op /\ edited.value = work.value
           /\ file # "torn" => edited.is = "whole" /\ edited.buf = Set(doc, work.op, work.value)
<1>1. work.value \in Setting
    BY DEF Work, Setting
<1>2. Set(doc, work.op, work.value) \in Document
    BY <1>1, SetTyped
<1>3. [Bare EXCEPT !["sni"] = work.value] \in Document
    BY <1>1, Constants DEF Document
<1>4. CASE file # "torn"
    BY <1>2, <1>4 DEF Edited, Work
<1>5. CASE file = "torn"
    BY <1>3, <1>5 DEF Edited, Work
<1>. QED
    BY <1>4, <1>5

\* What a client goes on with that could not read the file.
LoadedNothing(work) == [Alone(work) EXCEPT !.pc = "open", !.stale = TRUE]

LEMMA LoadedNothingTyped ==
    ASSUME NEW work \in Work
    PROVE  /\ LoadedNothing(work) \in Work
           /\ LoadedNothing(work).pc = "open" /\ LoadedNothing(work).stale
           /\ LoadedNothing(work).op = work.op
<1>1. work.value \in Setting
    BY DEF Work, Setting
<1>2. Set(Bare, work.op, work.value) \in Document
    BY <1>1, Constants, SetTyped
<1>3. Alone(work) \in Work /\ Alone(work).op = work.op
    BY <1>2 DEF Alone, Work
<1>. QED
    BY <1>3 DEF LoadedNothing, Work, PC

-----------------------------------------------------------------------------
(* Types                                                                     *)

Clients == client \in [Client -> Work] /\ \A c \in Client : Fits(client[c])

LEMMA OneClient ==
    ASSUME Clients, NEW c \in Client, NEW work \in Work, Fits(work),
           client' = [client EXCEPT ![c] = work]
    PROVE  Clients'
BY DEF Clients

LEMMA GotoClients ==
    ASSUME Clients, NEW c \in Client, NEW pc \in PC, Goto(c, pc),
           pc \in {"script", "start"} => client[c].op = "install",
           pc \in {"look", "connect", "load", "open", "fill"} => client[c].op \in DOMAIN Saves
    PROVE  Clients'
<1>. DEFINE work == [client[c] EXCEPT !.pc = pc]
<1>1. work \in Work /\ work.pc = pc /\ work.op = client[c].op
    BY DEF Clients, Work
<1>2. client' = [client EXCEPT ![c] = work]
    BY DEF Goto, Clients
<1>3. Fits(work)
    BY <1>1 DEF Fits
<1>. QED
    BY <1>1, <1>2, <1>3, OneClient

LEMMA PanicClients == ASSUME Clients, NEW c \in Client, Panic(c) PROVE Clients'
BY IdleTyped, OneClient DEF Panic

LEMMA ReturnClients == ASSUME Clients, NEW c \in Client, Return(c) PROVE Clients'
<1>1. client[c] \in Work
    BY DEF Clients
<1>. QED
    BY <1>1, AfterCallTyped, OneClient DEF Return

\* Only the mark of those that are overtaken changes.
LEMMA StaleTyped ==
    ASSUME NEW work \in Work, Fits(work)
    PROVE  [work EXCEPT !.stale = TRUE] \in Work /\ Fits([work EXCEPT !.stale = TRUE])
BY DEF Work, Fits

LEMMA OvertakenTyped ==
    ASSUME Clients, NEW set
    PROVE  /\ Overtaken(set) \in [Client -> Work]
           /\ \A d \in Client : /\ Fits(Overtaken(set)[d])
                              /\ Overtaken(set)[d].pc = client[d].pc
                              /\ Overtaken(set)[d].op = client[d].op
<1>1. ASSUME NEW d \in Client
      PROVE  /\ Overtaken(set)[d] \in Work
             /\ Fits(Overtaken(set)[d])
             /\ Overtaken(set)[d].pc = client[d].pc
             /\ Overtaken(set)[d].op = client[d].op
  <2>1. client[d] \in Work /\ Fits(client[d])
      BY DEF Clients
  <2>2. CASE Overtaken(set)[d] = client[d]
      BY <2>1, <2>2
  <2>3. CASE Overtaken(set)[d] = [client[d] EXCEPT !.stale = TRUE]
      BY <2>1, <2>3, StaleTyped DEF Work
  <2>. QED
      BY <2>2, <2>3 DEF Overtaken
<1>. QED
    BY <1>1 DEF Overtaken

LEMMA OvertakenClients ==
    ASSUME Clients, NEW set, NEW c \in Client, NEW work \in Work, Fits(work),
           client' = [Overtaken(set) EXCEPT ![c] = work]
    PROVE  Clients'
BY OvertakenTyped DEF Clients

LEMMA ClientsStep ==
    ASSUME ConfigTypeOK, Clients, [ConfigNext]_configVars
    PROVE  Clients'
<1>0. ASSUME NEW c \in Client PROVE client[c] \in Work /\ Fits(client[c])
    BY DEF Clients
<1>1. ASSUME NEW c \in Client, NEW op \in OpName, NEW value \in Value, Begin(c, op, value)
      PROVE  Clients'
    BY <1>1, CallTyped, OneClient DEF Begin
<1>2. ASSUME NEW c \in Client, NEW value \in Value, BeginFirst(c, value)
      PROVE  Clients'
  <2>1. "install" \in OpName
      BY DEF OpName
  <2>. QED
      BY <1>2, <2>1, CallTyped, OneClient DEF BeginFirst
<1>3. ASSUME NEW c \in Client, Decline(c) PROVE Clients'
  <2>1. CASE Return(c)
      BY <2>1, ReturnClients
  <2>2. CASE Goto(c, "restart")
      BY <2>2, GotoClients DEF PC
  <2>. QED
      BY <1>3, <2>1, <2>2 DEF Decline
<1>4. ASSUME NEW c \in Client, Look(c) \/ Connect(c) PROVE Clients'
  <2>1. CASE Panic(c)
      BY <2>1, PanicClients
  <2>2. CASE Goto(c, "load")
    <3>1. client[c].op \in DOMAIN Saves
        BY <1>0, <1>4 DEF Look, Connect, At, Fits
    <3>. QED
        BY <2>2, <3>1, GotoClients DEF PC
  <2>. QED
      BY <1>4, <2>1, <2>2 DEF Look, Connect, GetsNoConfig
<1>5. ASSUME NEW c \in Client, Load(c) PROVE Clients'
  <2>1. client[c] \in Work /\ client[c].op \in DOMAIN Saves /\ doc \in Document
      BY <1>0, <1>5 DEF Load, At, Fits, ConfigTypeOK
  <2>2. PICK edited \in Edited(client[c]), stale \in BOOLEAN :
          client' = [client EXCEPT ![c] = [edited EXCEPT !.pc = "open", !.stale = stale]]
    <3>1. (file \in {"empty", "torn"}) \in BOOLEAN
        OBVIOUS
    <3>. QED
        BY <1>5, <3>1, Zenon DEF Load
  <2>3. edited \in Work /\ edited.op = client[c].op
      BY <2>1, <2>2, EditedTyped
  <2>. DEFINE work == [edited EXCEPT !.pc = "open", !.stale = stale]
  <2>4. work \in Work /\ work.pc = "open" /\ work.op = client[c].op
      BY <2>3 DEF Work, PC
  <2>5. Fits(work)
      BY <2>1, <2>4 DEF Fits
  <2>. QED
      BY <2>2, <2>4, <2>5, OneClient
<1>6. ASSUME NEW c \in Client, Open(c) PROVE Clients'
  <2>. DEFINE set == Client \ {c}
              work == [client[c] EXCEPT !.pc = "fill"]
  <2>1. client[c] \in Work /\ client[c].op \in DOMAIN Saves
      BY <1>0, <1>6 DEF Open, At, Fits
  <2>2. work \in Work /\ work.pc = "fill" /\ work.op = client[c].op
      BY <2>1 DEF Work, PC
  <2>3. Fits(work)
      BY <2>1, <2>2 DEF Fits
  <2>4. Overtaken(set)[c] = client[c]
      BY DEF Overtaken
  <2>5. client' = [Overtaken(set) EXCEPT ![c] = work]
      BY <1>6, <2>4 DEF Open, Overtaken
  <2>. QED
      BY <2>2, <2>3, <2>5, OvertakenClients
<1>7. ASSUME NEW c \in Client, OpenFails(c) \/ FillFails(c) PROVE Clients'
    BY <1>0, <1>7, SaveReturnsTyped, OneClient DEF OpenFails, FillFails
<1>8. ASSUME NEW c \in Client, Fill(c) PROVE Clients'
  <2>. DEFINE work == SaveReturns(client[c], TRUE)
  <2>1. work \in Work /\ Fits(work)
      BY <1>0, SaveReturnsTyped
  <2>2. client' = [Overtaken(Client \ {c}) EXCEPT ![c] = work]
      BY <1>8 DEF Fill
  <2>. QED
      BY <2>1, <2>2, OvertakenClients
<1>9. ASSUME NEW c \in Client, OpenNewPort(c) \/ AddFirstUser(c) \/ Restart(c) \/ StartInstalled(c)
      PROVE  Clients'
  <2>1. CASE Goto(c, "restart")
      BY <2>1, GotoClients DEF PC
  <2>2. CASE Goto(c, "systemctl")
      BY <2>2, GotoClients DEF PC
  <2>3. CASE Panic(c)
      BY <2>3, PanicClients
  <2>. QED
      BY <1>9, <2>1, <2>2, <2>3
         DEF OpenNewPort, AddFirstUser, Restart, StartInstalled, OpenPort, GetsNoConfig
<1>10. ASSUME NEW c \in Client, Systemctl(c) PROVE Clients'
    BY <1>10, ReturnClients DEF Systemctl
<1>11. ASSUME NEW c \in Client, ScriptReturns(c) PROVE Clients'
  <2>1. client[c].op = "install"
      BY <1>0, <1>11 DEF ScriptReturns, At, Fits
  <2>. QED
      BY <1>11, <2>1, GotoClients DEF ScriptReturns, PC
<1>12. CASE UNCHANGED client
    BY <1>12 DEF Clients
<1>13. CASE ScriptStep
  <2>1. CASE client' = Overtaken(Client)
      BY <2>1, OvertakenTyped DEF Clients
  <2>. QED
      BY <1>12, <1>13, <2>1
         DEF ScriptStep, ScriptTest, ScriptCreate, ScriptFill, ScriptUnit, ScriptFails
<1>14. CASE Crash
  <2>1. ASSUME NEW set, Die(set)
        PROVE  client' = [c \in Client |-> IF c \in set THEN IdleClient ELSE client[c]]
      BY <2>1 DEF Die
  <2>2. PICK set : Die(set)
      BY <1>14 DEF Crash
  <2>. QED
      BY <1>0, <2>1, <2>2, IdleTyped DEF Clients
<1>15. CASE StopService \/ RetryService \/ UNCHANGED configVars
    BY <1>12, <1>15 DEF StopService, RetryService, configVars
<1>16. ASSUME NEW c \in Client, LoadFails(c) PROVE Clients'
  <2>. DEFINE work == LoadedNothing(client[c])
  <2>1. client[c] \in Work /\ client[c].op \in DOMAIN Saves
      BY <1>0, <1>16 DEF LoadFails, At, Fits
  <2>2. work \in Work /\ work.pc = "open" /\ work.op = client[c].op
      BY <2>1, LoadedNothingTyped
  <2>3. client' = [client EXCEPT ![c] = work]
      BY <1>16 DEF LoadFails, LoadedNothing
  <2>. HIDE DEF work
  <2>4. Fits(work)
      BY <2>1, <2>2 DEF Fits
  <2>. QED
      BY <2>2, <2>3, <2>4, OneClient
<1>. QED
    BY <1>1, <1>2, <1>3, <1>4, <1>5, <1>6, <1>7, <1>8, <1>9, <1>10, <1>11, <1>13, <1>14,
       <1>15, <1>16
       DEF ConfigNext, ClientStep, Write

\* The parts of ConfigTypeOK.
DiskOK ==
    /\ file \in {"absent", "empty", "torn", "whole"}
    /\ doc \in Document /\ (file # "whole" => doc = Bare)
    /\ wanted \in Document

LEMMA DiskStep == ASSUME ConfigTypeOK, Clients, [ConfigNext]_configVars PROVE DiskOK'
<1>1. ASSUME NEW is \in {"empty", "torn", "whole"}, NEW d \in Document, Fills(is, d)
      PROVE  /\ file' \in {"absent", "empty", "torn", "whole"}
             /\ doc' \in Document /\ (file' # "whole" => doc' = Bare)
    BY <1>1, Constants DEF Fills
<1>2. CASE UNCHANGED onDisk /\ UNCHANGED wanted
    BY <1>2 DEF onDisk, ConfigTypeOK, DiskOK
<1>3. ASSUME NEW c \in Client, Open(c) \/ FillFails(c) PROVE DiskOK'
    BY <1>3, Constants DEF Open, FillFails, auxiliary, onDisk, ConfigTypeOK, DiskOK
<1>4. CASE ScriptCreate
    BY <1>4, Constants DEF ScriptCreate, auxiliary, ConfigTypeOK, DiskOK
<1>5. ASSUME NEW c \in Client, Fill(c) PROVE DiskOK'
  <2>1. client[c] \in Work
      BY DEF Clients
  <2>2. client[c].is \in {"empty", "torn", "whole"} /\ client[c].buf \in Document
      BY <2>1 DEF Work
  <2>3. client[c].value \in Setting
      BY <2>1 DEF Work, Setting
  <2>4. Set(wanted, client[c].op, client[c].value) \in Document
      BY <2>3, SetTyped DEF ConfigTypeOK
  <2>5. Fills(client[c].is, client[c].buf)
      BY <1>5 DEF Fill
  <2>6. wanted' = doc' \/ wanted' = Set(wanted, client[c].op, client[c].value)
      BY <1>5 DEF Fill
  <2>. QED
      BY <1>1, <2>2, <2>4, <2>5, <2>6 DEF DiskOK
<1>6. CASE ScriptFill
    BY <1>1, <1>6, Constants DEF ScriptFill, DiskOK
<1>7. ASSUME NEW c \in Client, Write(c) PROVE DiskOK'
    BY <1>2, <1>3, <1>5, <1>7 DEF Write, Load, LoadFails, OpenFails, auxiliary
<1>8. ASSUME NEW c \in Client, ClientStep(c) PROVE DiskOK'
    BY <1>2, <1>7, <1>8
       DEF ClientStep, Decline, Look, Connect, OpenNewPort, AddFirstUser, Restart, Systemctl,
           StartInstalled, auxiliary, OpenPort
<1>9. CASE ScriptStep
    BY <1>2, <1>4, <1>6, <1>9 DEF ScriptStep, ScriptTest, ScriptUnit, ScriptFails, auxiliary
<1>10. CASE Crash \/ UNCHANGED configVars
    BY <1>2, <1>10 DEF Crash, Die, configVars, onDisk
<1>. QED
    BY <1>2, <1>8, <1>9, <1>10
       DEF ConfigNext, Begin, BeginFirst, ScriptReturns, StopService, RetryService, auxiliary

SystemOK ==
    /\ script \in {"off", "test", "create", "fill", "unit"}
    /\ unit \in BOOLEAN
    /\ service \in {"stopped", "failed", "current", "outdated"}
    /\ service # "stopped" => unit
    /\ opened \subseteq Setting

LEMMA SystemStep == ASSUME ConfigTypeOK, Clients, [ConfigNext]_configVars PROVE SystemOK'
<1>1. CASE UNCHANGED system /\ UNCHANGED script
    BY <1>1 DEF system, SystemOK, ConfigTypeOK
<1>2. CASE service' = Behind /\ UNCHANGED <<script, unit, opened>>
    BY <1>2 DEF Behind, SystemOK, ConfigTypeOK
<1>3. ASSUME NEW c \in Client, OpenNewPort(c) \/ Restart(c) \/ StartInstalled(c) PROVE SystemOK'
  <2>1. client[c].value \in Setting
    <3>1. client[c] \in Work
        BY DEF Clients
    <3>. QED
        BY <3>1 DEF Work, Setting
  <2>2. doc["port"] \in Setting
      BY DEF ConfigTypeOK, Document, Field
  <2>3. opened' \subseteq Setting
      BY <1>3, <2>1, <2>2, Constants DEF OpenNewPort, Restart, StartInstalled, ConfigTypeOK, OpenPort
  <2>. QED
      BY <1>3, <2>3 DEF OpenNewPort, Restart, StartInstalled, SystemOK, ConfigTypeOK, OpenPort
<1>4. ASSUME NEW c \in Client, Systemctl(c) PROVE SystemOK'
    BY <1>4 DEF Systemctl, Started, SystemOK, ConfigTypeOK
<1>5. ASSUME NEW c \in Client, Write(c) PROVE SystemOK'
    BY <1>1, <1>2, <1>5 DEF Write, Load, LoadFails, Open, OpenFails, Fill, FillFails, system
<1>6. ASSUME NEW c \in Client, Decline(c) \/ Look(c) \/ Connect(c) \/ AddFirstUser(c) \/ ScriptReturns(c)
      PROVE  SystemOK'
    BY <1>1, <1>6 DEF Decline, Look, Connect, AddFirstUser, ScriptReturns
<1>7. CASE ScriptStep
    BY <1>7 DEF ScriptStep, ScriptTest, ScriptCreate, ScriptFill, ScriptUnit, ScriptFails, Behind,
                system, SystemOK, ConfigTypeOK
<1>8. CASE StopService \/ RetryService
    BY <1>8 DEF StopService, RetryService, Started, SystemOK, ConfigTypeOK
<1>9. CASE Crash \/ UNCHANGED configVars
    BY <1>1, <1>9 DEF Crash, Die, configVars, system
<1>10. ASSUME NEW c \in Client, NEW op \in OpName, NEW value \in Value, Begin(c, op, value)
      PROVE  SystemOK'
    BY <1>10 DEF Begin, system, SystemOK, ConfigTypeOK
<1>11. ASSUME NEW c \in Client, NEW value \in Value, BeginFirst(c, value) PROVE SystemOK'
    BY <1>11 DEF BeginFirst, system, SystemOK, ConfigTypeOK
<1>. QED
    BY <1>3, <1>4, <1>5, <1>6, <1>7, <1>8, <1>9, <1>10, <1>11 DEF ConfigNext, ClientStep

CountsOK ==
    /\ calls \in 0 .. MaxCall /\ faults \in 0 .. MaxFault
    /\ damaged \in BOOLEAN /\ orphaned \in BOOLEAN

LEMMA CountsStep == ASSUME ConfigTypeOK, [ConfigNext]_configVars PROVE CountsOK'
<1>0. ASSUME NEW c \in Client, GetsNoConfig(c)
      PROVE  /\ faults' = faults \/ (faults < MaxFault /\ faults' = faults + 1)
             /\ orphaned' \in BOOLEAN
  <2>1. CASE file = "whole"
      BY <1>0, <2>1, Zenon DEF GetsNoConfig, Fault
  <2>2. CASE file # "whole"
      BY <1>0, <2>2 DEF GetsNoConfig, ConfigTypeOK
  <2>. QED
      BY <2>1, <2>2
<1>1. calls' \in 0 .. MaxCall /\ faults' \in 0 .. MaxFault
  <2>1. /\ calls' = calls \/ (calls < MaxCall /\ calls' = calls + 1)
        /\ faults' = faults \/ (faults < MaxFault /\ faults' = faults + 1)
      BY <1>0
         DEF ConfigNext, ClientStep, Write, ScriptStep, configVars, bounds, Fault,
             Begin, BeginFirst, Decline, Look, Connect, Load, LoadFails, Open, OpenFails, Fill, FillFails,
             OpenNewPort, AddFirstUser, Restart, Systemctl, StartInstalled, ScriptReturns,
             StopService, RetryService, ScriptTest, ScriptCreate, ScriptFill, ScriptUnit,
             ScriptFails, Crash, Die, OpenPort
  <2>. QED
      BY <2>1, BoundsAreNatural DEF ConfigTypeOK
<1>2. damaged' \in BOOLEAN
    BY Zenon
       DEF ConfigNext, ClientStep, Write, ScriptStep, ConfigTypeOK, configVars, auxiliary,
           Begin, BeginFirst, Decline, Look, Connect, Load, LoadFails, Open, OpenFails, Fill, FillFails,
           OpenNewPort, AddFirstUser, Restart, Systemctl, StartInstalled, ScriptReturns,
           StopService, RetryService, ScriptTest, ScriptCreate, ScriptFill, ScriptUnit,
           ScriptFails, Crash, Die, OpenPort
<1>3. orphaned' \in BOOLEAN
    BY <1>0, Zenon
       DEF ConfigNext, ClientStep, Write, ScriptStep, ConfigTypeOK, configVars, auxiliary,
           Begin, BeginFirst, Decline, Look, Connect, Load, LoadFails, Open, OpenFails, Fill, FillFails,
           OpenNewPort, AddFirstUser, Restart, Systemctl, StartInstalled, ScriptReturns,
           StopService, RetryService, ScriptTest, ScriptCreate, ScriptFill, ScriptUnit,
           ScriptFails, Crash, Die, OpenPort
<1>. QED
    BY <1>1, <1>2, <1>3 DEF CountsOK

Typed == ConfigTypeOK /\ Clients

LEMMA TypedStep == ASSUME Typed, [ConfigNext]_configVars PROVE Typed'
BY ClientsStep, DiskStep, SystemStep, CountsStep
   DEF Typed, Clients, DiskOK, SystemOK, CountsOK, ConfigTypeOK

LEMMA TypedAlways == ConfigSpec => []Typed
<1>1. ConfigInit => Typed
  <2>1. ASSUME ConfigInit PROVE Clients
      BY <2>1, IdleTyped DEF ConfigInit, Clients
  <2>2. ASSUME ConfigInit PROVE ConfigTypeOK
    <3>1. client \in [Client -> Work]
        BY <2>1, <2>2 DEF Clients
    <3>2. doc \in Document /\ wanted \in Document /\ (file # "whole" => doc = Bare)
        BY <2>2, Constants DEF ConfigInit
    <3>3. opened \subseteq Setting
        BY <2>2, Constants DEF ConfigInit
    <3>4. calls \in 0 .. MaxCall /\ faults \in 0 .. MaxFault
        BY <2>2, BoundsAreNatural DEF ConfigInit
    <3>. QED
        BY <2>2, <3>1, <3>2, <3>3, <3>4 DEF ConfigInit, ConfigTypeOK
  <2>. QED
      BY <2>1, <2>2 DEF Typed
<1>2. Typed /\ [ConfigNext]_configVars => Typed'
    BY TypedStep
<1>. QED
    BY <1>1, <1>2, PTL DEF ConfigSpec

\* The variables keep their types, and a service that is not stopped has a unit.
THEOREM ConfigTypeCorrect == ConfigSpec => []ConfigTypeOK
<1>1. Typed => ConfigTypeOK
    BY DEF Typed
<1>. QED
    BY <1>1, TypedAlways, PTL

-----------------------------------------------------------------------------
(* SettingsKept                                                              *)

\* What a client is about to write, if nobody has written since it loaded the
\* file, is the wanted document with its own fields changed.
FreshEdits ==
    \A d \in Client : client[d].pc \in {"open", "fill"} /\ ~client[d].stale =>
        /\ client[d].is = "whole"
        /\ client[d].buf = Set(wanted, client[d].op, client[d].value)

FileInv ==
    /\ file = "whole" => doc = wanted
    /\ file = "absent" => wanted = Bare
    /\ file \in {"empty", "torn"} => Writing \/ damaged
    /\ FreshEdits

\* A step of a client away from the file.
LEMMA AsideKeepsFile ==
    ASSUME Typed, FileInv, NEW c \in Client, NEW work \in Work,
           client' = [client EXCEPT ![c] = work],
           client[c].pc # "fill", work.pc \notin {"open", "fill"},
           UNCHANGED <<file, doc, wanted, damaged>>, script = "fill" => script' = "fill"
    PROVE  FileInv'
<1>1. ASSUME NEW d \in Client, d # c PROVE client'[d] = client[d]
    BY <1>1 DEF Typed, Clients
<1>2. client'[c] = work
    BY DEF Typed, Clients
<1>3. FreshEdits'
    BY <1>1, <1>2 DEF FileInv, FreshEdits
<1>4. Writing => Writing'
    BY <1>1 DEF Writing, At
<1>. QED
    BY <1>3, <1>4 DEF FileInv

LEMMA OvertakenFresh ==
    ASSUME Typed, NEW set, NEW d \in set \cap Client, client[d].pc \in {"open", "fill"}
    PROVE  Overtaken(set)[d].stale
BY DEF Overtaken, Typed, Clients, Work

LEMMA LoadKeepsFile == ASSUME Typed, FileInv, NEW c \in Client, Load(c) PROVE FileInv'
<1>1. client[c] \in Work /\ doc \in Document
    BY DEF Typed, Clients, ConfigTypeOK
<1>2. PICK edited \in Edited(client[c]) :
        client' = [client EXCEPT ![c] =
                     [edited EXCEPT !.pc = "open", !.stale = file \in {"empty", "torn"}]]
    BY DEF Load
<1>3. /\ edited \in Work /\ edited.op = client[c].op /\ edited.value = client[c].value
      /\ file # "torn" => edited.is = "whole" /\ edited.buf = Set(doc, client[c].op, client[c].value)
    BY <1>1, <1>2, EditedTyped
<1>4. /\ client'[c].op = client[c].op /\ client'[c].value = client[c].value
      /\ client'[c].is = edited.is /\ client'[c].buf = edited.buf
      /\ ~client'[c].stale => file \notin {"empty", "torn"}
    BY <1>2, <1>3 DEF Work, Typed, Clients
<1>5. ASSUME NEW d \in Client, d # c PROVE client'[d] = client[d]
    BY <1>2, <1>5 DEF Typed, Clients
<1>6. UNCHANGED <<file, doc, script, wanted, damaged>>
    BY DEF Load, onDisk, auxiliary
<1>7. ~client'[c].stale => doc = wanted
    BY <1>4 DEF FileInv, Typed, ConfigTypeOK
<1>8. FreshEdits'
  <2>. SUFFICES ASSUME NEW d \in Client, client'[d].pc \in {"open", "fill"}, ~client'[d].stale
                PROVE  /\ client'[d].is = "whole"
                       /\ client'[d].buf = Set(wanted', client'[d].op, client'[d].value)
      BY DEF FreshEdits
  <2>. QED
      BY <1>3, <1>4, <1>5, <1>6, <1>7 DEF FileInv, FreshEdits
<1>9. Writing => Writing'
    BY <1>5, <1>6 DEF Writing, At, Load
<1>. QED
    BY <1>6, <1>8, <1>9 DEF FileInv

LEMMA LoadFailsKeepsFile == ASSUME Typed, FileInv, NEW c \in Client, LoadFails(c) PROVE FileInv'
<1>. DEFINE work == LoadedNothing(client[c])
<1>1. client[c] \in Work /\ client[c].pc = "load"
    BY DEF LoadFails, At, Typed, Clients
<1>2. work.stale
    BY <1>1, LoadedNothingTyped
<1>3. client' = [client EXCEPT ![c] = work]
    BY DEF LoadFails, LoadedNothing
<1>. HIDE DEF work
<1>4. client'[c] = work /\ \A d \in Client : d # c => client'[d] = client[d]
    BY <1>3 DEF Typed, Clients
<1>5. UNCHANGED <<file, doc, script, wanted, damaged>>
    BY DEF LoadFails, onDisk, auxiliary
<1>6. FreshEdits'
    BY <1>2, <1>4, <1>5 DEF FreshEdits, FileInv
<1>7. Writing => Writing'
    BY <1>1, <1>4, <1>5 DEF Writing, At
<1>. QED
    BY <1>5, <1>6, <1>7 DEF FileInv

LEMMA OpenKeepsFile == ASSUME Typed, FileInv, NEW c \in Client, Open(c) PROVE FileInv'
<1>. DEFINE others == Client \ {c}
<1>1. Overtaken(others) \in [Client -> Work]
    BY OvertakenTyped DEF Typed
<1>2. client' = [Overtaken(others) EXCEPT ![c].pc = "fill"]
    BY DEF Open
<1>3. Overtaken(others)[c] = client[c]
    BY DEF Overtaken
<1>. HIDE DEF others
<1>4. client'[c] = [client[c] EXCEPT !.pc = "fill"]
    BY <1>1, <1>2, <1>3
<1>5. client[c].pc = "open" /\ client[c] \in Work
    BY DEF Open, At, Typed, Clients
<1>6. ASSUME NEW d \in Client, d # c PROVE client'[d] = Overtaken(others)[d]
    BY <1>1, <1>2, <1>6
<1>7. FreshEdits'
  <2>. SUFFICES ASSUME NEW d \in Client, client'[d].pc \in {"open", "fill"}, ~client'[d].stale
                PROVE  /\ client'[d].is = "whole"
                       /\ client'[d].buf = Set(wanted', client'[d].op, client'[d].value)
      BY DEF FreshEdits
  <2>1. wanted' = wanted
      BY DEF Open, auxiliary
  <2>2. CASE d = c
    <3>1. /\ ~client[c].stale
          /\ client'[c].is = client[c].is /\ client'[c].buf = client[c].buf
          /\ client'[c].op = client[c].op /\ client'[c].value = client[c].value
        BY <1>4, <1>5, <2>2 DEF Work
    <3>. QED
        BY <1>5, <2>1, <2>2, <3>1 DEF FileInv, FreshEdits
  <2>3. CASE d # c
    <3>1. client[d].pc \in {"open", "fill"} /\ d \in others \cap Client
        BY <1>6, <2>3, OvertakenTyped DEF Typed, others
    <3>2. Overtaken(others)[d].stale
        BY <3>1, OvertakenFresh
    <3>. QED
        BY <1>6, <2>3, <3>2
  <2>. QED
      BY <2>2, <2>3
<1>8. file' = "empty" /\ Writing'
    BY <1>4, <1>5 DEF Open, Writing, At, Work
<1>. QED
    BY <1>7, <1>8 DEF FileInv

LEMMA FillKeepsFile == ASSUME Typed, FileInv, NEW c \in Client, Fill(c) PROVE FileInv'
<1>. DEFINE others == Client \ {c}
            work == SaveReturns(client[c], TRUE)
<1>1. Overtaken(others) \in [Client -> Work]
    BY OvertakenTyped DEF Typed
<1>2. client[c] \in Work /\ client[c].pc = "fill"
    BY DEF Fill, At, Typed, Clients
<1>3. work.pc \notin {"open", "fill"}
    BY <1>2, SaveReturnsTyped DEF Between
<1>4. client' = [Overtaken(others) EXCEPT ![c] = work]
    BY DEF Fill
<1>. HIDE DEF others, work
<1>5. client'[c] = work
    BY <1>1, <1>4
<1>6. ASSUME NEW d \in Client, d # c PROVE client'[d] = Overtaken(others)[d]
    BY <1>1, <1>4, <1>6
<1>7. FreshEdits'
  <2>. SUFFICES ASSUME NEW d \in Client, client'[d].pc \in {"open", "fill"}, ~client'[d].stale
                PROVE  FALSE
      BY DEF FreshEdits
  <2>1. d # c
      BY <1>3, <1>5
  <2>2. client[d].pc \in {"open", "fill"} /\ d \in others \cap Client
      BY <1>6, <2>1, OvertakenTyped DEF Typed, others
  <2>3. Overtaken(others)[d].stale
      BY <2>2, OvertakenFresh
  <2>. QED
      BY <1>6, <2>1, <2>3
<1>8. file' = "whole" => doc' = wanted'
  <2>. HAVE file' = "whole"
  <2>1. client[c].is = "whole" /\ doc' = client[c].buf
      BY DEF Fill, Fills
  <2>2. CASE client[c].stale
      BY <2>2 DEF Fill
  <2>3. CASE ~client[c].stale
      BY <1>2, <2>1, <2>3 DEF Fill, FileInv, FreshEdits
  <2>. QED
      BY <2>2, <2>3
<1>9. file' # "absent" /\ (file' # "whole" => damaged')
    BY <1>2 DEF Fill, Fills, Work
<1>. QED
    BY <1>7, <1>8, <1>9 DEF FileInv

LEMMA ScriptKeepsFile == ASSUME Typed, FileInv, ScriptStep PROVE FileInv'
<1>1. ASSUME client' = Overtaken(Client) PROVE FreshEdits'
  <2>. SUFFICES ASSUME NEW d \in Client, client'[d].pc \in {"open", "fill"}, ~client'[d].stale
                PROVE  FALSE
      BY DEF FreshEdits
  <2>1. client[d].pc \in {"open", "fill"}
      BY <1>1, OvertakenTyped DEF Typed
  <2>. QED
      BY <1>1, <2>1, OvertakenFresh
<1>2. CASE ScriptTest \/ ScriptUnit
    BY <1>2 DEF ScriptTest, ScriptUnit, onDisk, auxiliary, FileInv, FreshEdits, Writing, At
<1>3. CASE ScriptCreate
  <2>1. file' = "empty" /\ Writing'
      BY <1>3 DEF ScriptCreate, Writing
  <2>. QED
      BY <1>1, <1>3, <2>1 DEF ScriptCreate, FileInv
<1>4. CASE ScriptFill
    BY <1>1, <1>4 DEF ScriptFill, Fills, FileInv
<1>5. CASE ScriptFails
    BY <1>5 DEF ScriptFails, onDisk, FileInv, FreshEdits, Writing, At, Typed, ConfigTypeOK
<1>. QED
    BY <1>2, <1>3, <1>4, <1>5 DEF ScriptStep

LEMMA FaultKeepsFile ==
    ASSUME Typed, FileInv, NEW c \in Client, OpenFails(c) \/ FillFails(c) PROVE FileInv'
<1>. DEFINE work == SaveReturns(client[c], FALSE)
<1>1. work \in Work /\ work.pc \notin {"open", "fill"}
    BY SaveReturnsTyped DEF Between, Typed, Clients
<1>2. client' = [client EXCEPT ![c] = work]
    BY DEF OpenFails, FillFails
<1>. HIDE DEF work
<1>3. CASE OpenFails(c)
    BY <1>1, <1>2, <1>3, AsideKeepsFile DEF OpenFails, At, onDisk, auxiliary
<1>4. CASE FillFails(c)
  <2>1. wanted' = wanted /\ (file' # "whole" => damaged')
      BY <1>4 DEF FillFails
  <2>2. FreshEdits'
      BY <1>1, <1>2, <2>1 DEF FreshEdits, FileInv, Typed, Clients
  <2>3. file' \in {"whole", "absent"} => doc' = doc /\ file' = file
      BY <1>4 DEF FillFails, onDisk
  <2>. QED
      BY <2>1, <2>2, <2>3 DEF FileInv
<1>. QED
    BY <1>3, <1>4

LEMMA CrashKeepsFile == ASSUME Typed, FileInv, NEW set, Die(set) PROVE FileInv'
<1>1. FreshEdits'
    BY IdleTyped DEF Die, FreshEdits, FileInv, auxiliary
<1>2. Writing /\ file # "whole" => Writing' \/ damaged'
    BY DEF Die, Writing, At
<1>. QED
    BY <1>1, <1>2 DEF Die, FileInv, onDisk

LEMMA FileStep == ASSUME Typed, FileInv, [ConfigNext]_configVars PROVE FileInv'
<1>0. ASSUME NEW c \in Client PROVE client[c] \in Work
    BY DEF Typed, Clients
<1>. DEFINE Same == UNCHANGED <<file, doc, wanted, damaged>> /\ (script = "fill" => script' = "fill")
<1>1. ASSUME NEW c \in Client, NEW op \in OpName, NEW value \in Value, Begin(c, op, value)
      PROVE  FileInv'
  <2>. DEFINE work == Call(op, FALSE, value)
  <2>1. work \in Work /\ work.pc \notin {"open", "fill"}
      BY CallTyped DEF Between
  <2>2. client' = [client EXCEPT ![c] = work] /\ client[c].pc # "fill" /\ Same
      BY <1>1 DEF Begin, At, onDisk, auxiliary
  <2>. HIDE DEF work
  <2>. QED
      BY <2>1, <2>2, AsideKeepsFile
<1>2. ASSUME NEW c \in Client, NEW value \in Value, BeginFirst(c, value) PROVE FileInv'
  <2>. DEFINE work == Call("install", TRUE, value)
  <2>1. work \in Work /\ work.pc \notin {"open", "fill"}
      BY CallTyped DEF Between, OpName
  <2>2. client' = [client EXCEPT ![c] = work] /\ client[c].pc # "fill" /\ Same
      BY <1>2 DEF BeginFirst, At, onDisk, auxiliary
  <2>. HIDE DEF work
  <2>. QED
      BY <2>1, <2>2, AsideKeepsFile
<1>3. ASSUME NEW c \in Client, Return(c) \/ Panic(c), client[c].pc # "fill", Same PROVE FileInv'
  <2>1. CASE Panic(c)
      BY <1>3, <2>1, IdleTyped, AsideKeepsFile DEF Panic
  <2>2. CASE Return(c)
    <3>. DEFINE work == AfterCall(client[c])
    <3>1. work \in Work /\ work.pc \notin {"open", "fill"}
        BY <1>0, AfterCallTyped DEF Between
    <3>2. client' = [client EXCEPT ![c] = work]
        BY <2>2 DEF Return
    <3>. HIDE DEF work
    <3>. QED
        BY <1>3, <3>1, <3>2, AsideKeepsFile
  <2>. QED
      BY <1>3, <2>1, <2>2
<1>4. ASSUME NEW c \in Client, NEW pc \in PC \ {"open", "fill"}, Goto(c, pc),
             client[c].pc # "fill", Same
      PROVE  FileInv'
  <2>. DEFINE work == [client[c] EXCEPT !.pc = pc]
  <2>1. work \in Work /\ work.pc \notin {"open", "fill"}
      BY <1>0 DEF Work
  <2>2. client' = [client EXCEPT ![c] = work]
      BY <1>4 DEF Goto, Typed, Clients
  <2>. HIDE DEF work
  <2>. QED
      BY <1>4, <2>1, <2>2, AsideKeepsFile
<1>5. ASSUME NEW c \in Client,
             \/ Decline(c) \/ Look(c) \/ Connect(c) \/ OpenNewPort(c) \/ AddFirstUser(c)
             \/ Restart(c) \/ Systemctl(c) \/ StartInstalled(c) \/ ScriptReturns(c)
      PROVE  FileInv'
  <2>1. client[c].pc # "fill" /\ Same
      BY <1>5 DEF Decline, Look, Connect, OpenNewPort, AddFirstUser, Restart, Systemctl,
                  StartInstalled, ScriptReturns, At, onDisk, auxiliary, OpenPort
  <2>2. \/ Return(c) \/ Panic(c)
        \/ \E pc \in {"load", "restart", "systemctl", "start"} : Goto(c, pc)
      BY <1>5 DEF Decline, Look, Connect, OpenNewPort, AddFirstUser, Restart, Systemctl,
                  StartInstalled, ScriptReturns, OpenPort, GetsNoConfig
  <2>. HIDE DEF Same
  <2>3. {"load", "restart", "systemctl", "start"} \subseteq PC \ {"open", "fill"}
      BY DEF PC
  <2>. QED
      BY <1>3, <1>4, <2>1, <2>2, <2>3
<1>6. ASSUME NEW c \in Client, Write(c) PROVE FileInv'
    BY <1>6, LoadKeepsFile, LoadFailsKeepsFile, OpenKeepsFile, FillKeepsFile, FaultKeepsFile DEF Write
<1>7. CASE Crash
    BY <1>7, CrashKeepsFile DEF Crash
<1>8. CASE StopService \/ RetryService \/ UNCHANGED configVars
    BY <1>8 DEF StopService, RetryService, configVars, onDisk, auxiliary, FileInv, FreshEdits,
                Writing, At
<1>. QED
    BY <1>1, <1>2, <1>5, <1>6, <1>7, <1>8, ScriptKeepsFile DEF ConfigNext, ClientStep

\* Whatever operations, faults and deaths there are, the file holds what the
\* Saves add up to that were not overlapped and could read it, unless it is being
\* written or was spoilt.
THEOREM FileKeepsSettings == ConfigSpec => []SettingsKept
<1>1. ConfigInit => FileInv
    BY DEF ConfigInit, FileInv, FreshEdits, IdleClient
<1>2. Typed /\ FileInv /\ [ConfigNext]_configVars => FileInv'
    BY FileStep
<1>3. Typed /\ FileInv => SettingsKept
    BY DEF FileInv, SettingsKept, Typed, ConfigTypeOK
<1>. QED
    BY <1>1, <1>2, <1>3, TypedAlways, PTL DEF ConfigSpec

-----------------------------------------------------------------------------
(* ServiceRunsFile                                                           *)

\* Before the port of the file is open, somebody is on his way to open it.
Opening(d) == Pending(d) /\ client[d].pc \in {"openPort", "addUser", "restart"}
Installing(d) == Pending(d) /\ client[d].pc \in {"script", "start"}

ServiceInv ==
    file = "whole" =>
        \/ orphaned
        \/ /\ \/ doc["port"] \in opened
              \/ \E d \in Client : Opening(d)
              \/ doc["port"] = Default /\ \E d \in Client : Installing(d)
           /\ \/ service \in {"stopped", "current"}
              \/ \E d \in Client : Pending(d)

\* A step of a client that owes no restart.
LEMMA AsideKeepsService ==
    ASSUME Typed, ServiceInv, NEW c \in Client, NEW work \in Work,
           client' = [client EXCEPT ![c] = work],
           ~Pending(c), UNCHANGED <<file, doc>>, opened \subseteq opened',
           orphaned => orphaned', service' \in {service, "current"}
    PROVE  ServiceInv'
<1>1. ASSUME NEW d \in Client, d # c PROVE client'[d] = client[d]
    BY <1>1 DEF Typed, Clients
<1>2. ASSUME NEW d \in Client, Pending(d)
      PROVE  Pending(d)' /\ (Opening(d) => Opening(d)') /\ (Installing(d) => Installing(d)')
    BY <1>1, <1>2 DEF Pending, Opening, Installing
<1>3. ASSUME NEW d \in Client PROVE Opening(d) \/ Installing(d) => Pending(d)
    BY DEF Opening, Installing
<1>. QED
    BY <1>2, <1>3 DEF ServiceInv

\* A step of a client that owes a restart and still does.
LEMMA OnTheWay ==
    ASSUME Typed, ServiceInv, NEW c \in Client, NEW pc, Goto(c, pc), Pending(c),
           UNCHANGED <<file, doc, orphaned, service>>, opened \subseteq opened',
           \/ client[c].pc \in {"openPort", "addUser"} /\ pc = "restart"
           \/ client[c].pc = "script" /\ pc = "start"
           \/ client[c].pc = "start" /\ pc = "systemctl" /\ Default \in opened'
           \/ client[c].pc = "restart" /\ pc = "systemctl" /\ doc["port"] \in opened'
    PROVE  ServiceInv'
<1>1. ASSUME NEW d \in Client, d # c PROVE client'[d] = client[d]
    BY <1>1 DEF Goto, Typed, Clients
<1>2. client'[c].pc = pc /\ client'[c].op = client[c].op
    BY DEF Goto, Typed, Clients, Work
<1>3. Pending(c)'
    BY <1>2 DEF Pending
<1>4. ASSUME NEW d \in Client, d # c
      PROVE  (Opening(d) => Opening(d)') /\ (Installing(d) => Installing(d)')
    BY <1>1, <1>4 DEF Pending, Opening, Installing
<1>5. Opening(c) => Opening(c)' \/ doc'["port"] \in opened'
    BY <1>2, <1>3 DEF Opening
<1>6. Installing(c) => Installing(c)' \/ Default \in opened'
    BY <1>2, <1>3 DEF Installing
<1>7. file = "whole" /\ ~orphaned =>
        \/ doc'["port"] \in opened'
        \/ \E d \in Client : Opening(d)'
        \/ doc'["port"] = Default /\ \E d \in Client : Installing(d)'
    BY <1>4, <1>5, <1>6 DEF ServiceInv
<1>. QED
    BY <1>3, <1>7 DEF ServiceInv

LEMMA FillKeepsService == ASSUME Typed, NEW c \in Client, Fill(c) PROVE ServiceInv'
<1>. DEFINE work == SaveReturns(client[c], TRUE)
<1>1. client[c] \in Work /\ client[c].op \in DOMAIN Saves
    BY DEF Fill, At, Typed, Clients, Fits
<1>2. \/ client[c].op = "password"
      \/ work.pc \in {"openPort", "addUser", "restart"} /\ work.op = client[c].op
    BY <1>1, SaveReturnsTyped
<1>3. client'[c] = work
  <2>1. Overtaken(Client \ {c}) \in [Client -> Work]
      BY OvertakenTyped DEF Typed
  <2>2. client' = [Overtaken(Client \ {c}) EXCEPT ![c] = work]
      BY DEF Fill
  <2>. HIDE DEF work
  <2>. QED
      BY <2>1, <2>2
<1>. HIDE DEF work
<1>4. CASE client[c].op = "password"
    BY <1>4 DEF Fill, ServiceInv
<1>5. CASE work.pc \in {"openPort", "addUser", "restart"} /\ work.op = client[c].op
  <2>1. work.op \notin {"restart", "start"}
      BY <1>1, <1>5, OpNames
  <2>2. Pending(c)' /\ Opening(c)'
      BY <1>3, <1>5, <2>1 DEF Pending, Opening
  <2>. QED
      BY <2>2 DEF ServiceInv
<1>. QED
    BY <1>2, <1>4, <1>5

LEMMA ScriptKeepsService == ASSUME Typed, ServiceInv, ScriptStep PROVE ServiceInv'
<1>1. CASE ScriptTest \/ ScriptUnit \/ ScriptFails
    BY <1>1 DEF ScriptTest, ScriptUnit, ScriptFails, onDisk, system, auxiliary, ServiceInv,
                Pending, Opening, Installing
<1>2. CASE ScriptCreate
    BY <1>2 DEF ScriptCreate, ServiceInv
<1>3. CASE ScriptFill
  <2>1. CASE orphaned'
      BY <2>1 DEF ServiceInv
  <2>2. CASE \E c \in Client : At(c, "script")
    <3>1. PICK c \in Client : At(c, "script")
        BY <2>2
    <3>2. client[c].pc = "script" /\ client[c].op = "install"
        BY <3>1 DEF At, Typed, Clients, Fits
    <3>3. client'[c].pc = "script" /\ client'[c].op = "install"
        BY <1>3, <3>2, OvertakenTyped DEF ScriptFill, Typed
    <3>4. Pending(c)' /\ Installing(c)'
        BY <3>3 DEF Pending, Installing
    <3>5. file' = "whole" => doc'["port"] = Default
        BY <1>3, Constants DEF ScriptFill, Fills
    <3>. QED
        BY <3>4, <3>5 DEF ServiceInv
  <2>. QED
      BY <1>3, <2>1, <2>2 DEF ScriptFill
<1>. QED
    BY <1>1, <1>2, <1>3 DEF ScriptStep

\* The restart itself, whoever wanted it.
LEMMA SystemctlKeepsService ==
    ASSUME Typed, ServiceInv, NEW c \in Client, Systemctl(c) PROVE ServiceInv'
<1>. DEFINE work == AfterCall(client[c])
<1>1. work \in Work /\ client' = [client EXCEPT ![c] = work]
    BY AfterCallTyped DEF Systemctl, Return, Typed, Clients
<1>. HIDE DEF work
<1>2. UNCHANGED <<file, doc, unit, opened>> /\ client[c].pc = "systemctl"
    BY DEF Systemctl, onDisk, At
<1>3. ASSUME NEW d \in Client, d # c PROVE client'[d] = client[d]
    BY <1>1, <1>3 DEF Typed, Clients
<1>4. ASSUME NEW d \in Client
      PROVE  (Opening(d) => Opening(d)') /\ (Installing(d) => Installing(d)')
    BY <1>2, <1>3 DEF Opening, Installing, Pending
<1>5. CASE unit /\ (client[c].op = "start" => service \in {"stopped", "failed"})
  <2>1. file = "whole" => service' = "current"
      BY <1>5 DEF Systemctl, Started
  <2>2. file = "whole" => orphaned' = (orphaned /\ doc["port"] \notin opened)
      BY <1>5 DEF Systemctl
  <2>. QED
      BY <1>2, <1>4, <2>1, <2>2 DEF ServiceInv
<1>6. CASE ~unit
  <2>1. service = "stopped" /\ UNCHANGED <<service, orphaned>>
      BY <1>6 DEF Systemctl, Typed, ConfigTypeOK
  <2>. QED
      BY <1>2, <1>4, <2>1 DEF ServiceInv
<1>7. CASE unit /\ client[c].op = "start" /\ service \notin {"stopped", "failed"}
  <2>1. UNCHANGED <<service, orphaned>> /\ ~Pending(c)
      BY <1>7 DEF Systemctl, Pending
  <2>. QED
      BY <1>1, <1>2, <2>1, AsideKeepsService
<1>. QED
    BY <1>5, <1>6, <1>7 DEF Typed, ConfigTypeOK

LEMMA CrashKeepsService == ASSUME Typed, ServiceInv, NEW set, Die(set) PROVE ServiceInv'
<1>1. CASE orphaned'
    BY <1>1 DEF ServiceInv
<1>2. CASE ~orphaned'
  <2>1. ~orphaned /\ \A d \in set : ~Pending(d)
      BY <1>2 DEF Die
  <2>2. ASSUME NEW d \in Client, Pending(d)
        PROVE  Pending(d)' /\ (Opening(d) => Opening(d)') /\ (Installing(d) => Installing(d)')
      BY <2>1, <2>2 DEF Die, Pending, Opening, Installing
  <2>. QED
      BY <2>1, <2>2 DEF Die, onDisk, system, ServiceInv, Opening, Installing
<1>. QED
    BY <1>1, <1>2

LEMMA ServiceStep == ASSUME Typed, ServiceInv, [ConfigNext]_configVars PROVE ServiceInv'
<1>0. ASSUME NEW c \in Client PROVE client[c] \in Work /\ Fits(client[c])
    BY DEF Typed, Clients
<1>. DEFINE Same == /\ UNCHANGED <<file, doc, orphaned>>
                    /\ opened \subseteq opened' /\ service' \in {service, "current"}
<1>1. ASSUME NEW c \in Client, NEW work \in Work, client' = [client EXCEPT ![c] = work],
             ~Pending(c), Same
      PROVE  ServiceInv'
    BY <1>1, AsideKeepsService
<1>2. ASSUME NEW c \in Client, NEW value \in Value,
             (\E op \in OpName : Begin(c, op, value)) \/ BeginFirst(c, value)
      PROVE  ServiceInv'
  <2>1. "install" \in OpName
      BY DEF OpName
  <2>2. \E work \in Work : client' = [client EXCEPT ![c] = work]
      BY <1>2, <2>1, CallTyped DEF Begin, BeginFirst
  <2>3. ~Pending(c) /\ Same
      BY <1>2 DEF Begin, BeginFirst, At, Pending, onDisk, system, auxiliary
  <2>. HIDE DEF Same
  <2>. QED
      BY <1>1, <2>2, <2>3
<1>3. ASSUME NEW c \in Client, NEW pc \in PC, Return(c) \/ Panic(c) \/ Goto(c, pc), ~Pending(c), Same
      PROVE  ServiceInv'
  <2>1. [client[c] EXCEPT !.pc = pc] \in Work
      BY <1>0 DEF Work
  <2>2. client' = [client EXCEPT ![c] = [client[c] EXCEPT !.pc = pc]]
        \/ client' = [client EXCEPT ![c] = IdleClient]
        \/ client' = [client EXCEPT ![c] = AfterCall(client[c])]
      BY <1>3 DEF Goto, Panic, Return, Typed, Clients
  <2>3. \E work \in Work : client' = [client EXCEPT ![c] = work]
      BY <1>0, <2>1, <2>2, IdleTyped, AfterCallTyped
  <2>. HIDE DEF Same
  <2>. QED
      BY <1>1, <1>3, <2>3
<1>14. ASSUME NEW c \in Client, GetsNoConfig(c), UNCHANGED <<file, doc, service, opened>>
       PROVE  ServiceInv'
  <2>1. CASE file # "whole"
      BY <1>14, <2>1 DEF ServiceInv
  <2>2. CASE file = "whole" /\ Pending(c)
    <3>1. orphaned'
        BY <1>14, <2>2, Zenon DEF GetsNoConfig
    <3>. QED
        BY <3>1 DEF ServiceInv
  <2>3. CASE file = "whole" /\ ~Pending(c)
    <3>1. orphaned => orphaned'
        BY <1>14, <2>3, Zenon DEF GetsNoConfig
    <3>2. client' = [client EXCEPT ![c] = IdleClient]
        BY <1>14 DEF GetsNoConfig, Panic
    <3>. QED
        BY <1>14, <2>3, <3>1, <3>2, IdleTyped, AsideKeepsService
  <2>. QED
      BY <2>1, <2>2, <2>3
<1>4. ASSUME NEW c \in Client, Decline(c) \/ Look(c) \/ Connect(c) PROVE ServiceInv'
  <2>1. CASE GetsNoConfig(c) /\ UNCHANGED <<file, doc, service, opened>>
      BY <1>14, <2>1
  <2>2. CASE Same /\ \E pc \in PC : Return(c) \/ Panic(c) \/ Goto(c, pc)
    <3>1. ~Pending(c)
        BY <1>4 DEF Decline, Look, Connect, At, Pending
    <3>. HIDE DEF Same
    <3>. QED
        BY <1>3, <2>2, <3>1
  <2>. QED
      BY <1>4, <2>1, <2>2 DEF Decline, Look, Connect, PC, onDisk, system, auxiliary
<1>5. ASSUME NEW c \in Client, Load(c) PROVE ServiceInv'
  <2>1. PICK edited \in Edited(client[c]), stale \in BOOLEAN :
          client' = [client EXCEPT ![c] = [edited EXCEPT !.pc = "open", !.stale = stale]]
    <3>1. (file \in {"empty", "torn"}) \in BOOLEAN
        OBVIOUS
    <3>. QED
        BY <1>5, <3>1, Zenon DEF Load
  <2>2. edited \in Work
      BY <1>0, <2>1, EditedTyped DEF Typed, ConfigTypeOK
  <2>. DEFINE work == [edited EXCEPT !.pc = "open", !.stale = stale]
  <2>3. work \in Work
      BY <2>2 DEF Work, PC
  <2>4. ~Pending(c) /\ Same
      BY <1>5 DEF Load, At, Pending, onDisk, system, auxiliary
  <2>. HIDE DEF work, Same
  <2>5. client' = [client EXCEPT ![c] = work]
      BY <2>1 DEF work
  <2>. QED
      BY <1>1, <2>3, <2>4, <2>5
<1>15. ASSUME NEW c \in Client, LoadFails(c) PROVE ServiceInv'
  <2>1. LoadedNothing(client[c]) \in Work
      BY <1>0, LoadedNothingTyped
  <2>2. client' = [client EXCEPT ![c] = LoadedNothing(client[c])]
      BY <1>15 DEF LoadFails, LoadedNothing
  <2>3. ~Pending(c) /\ Same
      BY <1>15 DEF LoadFails, At, Pending, onDisk, system, auxiliary
  <2>. HIDE DEF Same
  <2>. QED
      BY <1>1, <2>1, <2>2, <2>3
<1>6. ASSUME NEW c \in Client, Open(c) PROVE ServiceInv'
    BY <1>6 DEF Open, ServiceInv
<1>7. ASSUME NEW c \in Client, OpenFails(c) \/ FillFails(c) PROVE ServiceInv'
  <2>1. CASE file' = "torn"
      BY <2>1 DEF ServiceInv
  <2>2. CASE file' # "torn"
    <3>1. ~Pending(c) /\ Same
        BY <1>7, <2>2 DEF OpenFails, FillFails, At, Pending, onDisk, system, auxiliary
    <3>2. \E work \in Work : client' = [client EXCEPT ![c] = work]
        BY <1>0, <1>7, SaveReturnsTyped DEF OpenFails, FillFails
    <3>. HIDE DEF Same
    <3>. QED
        BY <1>1, <3>1, <3>2
  <2>. QED
      BY <2>1, <2>2
<1>8. ASSUME NEW c \in Client, OpenNewPort(c) PROVE ServiceInv'
  <2>1. /\ UNCHANGED <<file, doc, orphaned, service>> /\ opened \subseteq opened'
        /\ client[c].pc = "openPort" /\ Goto(c, "restart")
      BY <1>8 DEF OpenNewPort, At, onDisk, auxiliary, OpenPort
  <2>2. CASE Pending(c)
      BY <2>1, <2>2, OnTheWay
  <2>3. CASE ~Pending(c)
      BY <1>3, <2>1, <2>3 DEF PC
  <2>. QED
      BY <2>2, <2>3
<1>9. ASSUME NEW c \in Client, AddFirstUser(c) PROVE ServiceInv'
  <2>1. /\ UNCHANGED <<file, doc, service, opened>>
        /\ client[c].pc = "addUser"
        /\ (orphaned' = orphaned /\ Goto(c, "restart")) \/ GetsNoConfig(c)
      BY <1>9 DEF AddFirstUser, At, onDisk, system
  <2>2. CASE GetsNoConfig(c)
      BY <1>14, <2>1, <2>2
  <2>3. CASE orphaned' = orphaned /\ Goto(c, "restart") /\ Pending(c)
      BY <2>1, <2>3, OnTheWay
  <2>4. CASE orphaned' = orphaned /\ Goto(c, "restart") /\ ~Pending(c)
      BY <1>3, <2>1, <2>4 DEF PC
  <2>. QED
      BY <2>1, <2>2, <2>3, <2>4
<1>10. ASSUME NEW c \in Client, Restart(c) PROVE ServiceInv'
  <2>1. UNCHANGED <<file, doc, service>> /\ client[c].pc = "restart"
      BY <1>10 DEF Restart, At, onDisk
  <2>2. CASE GetsNoConfig(c) /\ opened' = opened
      BY <1>14, <2>1, <2>2
  <2>3. CASE opened' = opened \cup {doc["port"]} /\ Goto(c, "systemctl") /\ orphaned' = orphaned
    <3>1. opened \subseteq opened' /\ doc["port"] \in opened'
        BY <2>3
    <3>2. CASE Pending(c)
        BY <2>1, <2>3, <3>1, <3>2, OnTheWay
    <3>3. CASE ~Pending(c)
        BY <1>3, <2>1, <2>3, <3>1, <3>3 DEF PC
    <3>. QED
        BY <3>2, <3>3
  <2>. QED
      BY <1>10, <2>2, <2>3 DEF Restart, OpenPort
<1>11. ASSUME NEW c \in Client, StartInstalled(c) \/ ScriptReturns(c) PROVE ServiceInv'
  <2>1. client[c].pc \in {"script", "start"} /\ client[c].op = "install"
      BY <1>0, <1>11 DEF StartInstalled, ScriptReturns, At, Fits, OpenPort
  <2>2. Pending(c)
      BY <2>1 DEF Pending
  <2>3. CASE StartInstalled(c)
    <3>1. /\ UNCHANGED <<file, doc, orphaned, service>> /\ opened' = opened \cup {Default}
          /\ client[c].pc = "start" /\ Goto(c, "systemctl")
        BY <2>3 DEF StartInstalled, At, onDisk, auxiliary, OpenPort
    <3>. QED
        BY <2>2, <3>1, OnTheWay
  <2>4. CASE ScriptReturns(c)
    <3>1. /\ UNCHANGED <<file, doc, orphaned, service, opened>>
          /\ client[c].pc = "script" /\ Goto(c, "start")
        BY <2>4 DEF ScriptReturns, At, onDisk, system, auxiliary
    <3>. QED
        BY <2>2, <3>1, OnTheWay
  <2>. QED
      BY <1>11, <2>3, <2>4
<1>12. CASE StopService \/ RetryService \/ UNCHANGED configVars
    BY <1>12 DEF StopService, RetryService, Started, configVars, onDisk, auxiliary, ServiceInv,
                 Pending, Opening, Installing
<1>13. CASE Crash
    BY <1>13, CrashKeepsService DEF Crash
<1>. QED
    BY <1>2, <1>4, <1>5, <1>6, <1>7, <1>8, <1>9, <1>10, <1>11, <1>12, <1>13, <1>15,
       FillKeepsService, ScriptKeepsService, SystemctlKeepsService
       DEF ConfigNext, ClientStep, Write

\* However operations overlap, fail and die, a server that runs and a file that
\* can be read agree, with the port open, or a restart is owed by a live process,
\* or died with its process, or was lost with the configuration it could not read.
THEOREM ServerFollowsFile == ConfigSpec => []ServiceRunsFile
<1>1. ConfigInit => ServiceInv
    BY Constants DEF ConfigInit, ServiceInv
<1>2. Typed /\ ServiceInv /\ [ConfigNext]_configVars => ServiceInv'
    BY ServiceStep
<1>3. ServiceInv => ServiceRunsFile
    BY DEF ServiceInv, ServiceRunsFile, Opening, Installing
<1>. QED
    BY <1>1, <1>2, <1>3, TypedAlways, PTL DEF ConfigSpec

=============================================================================
