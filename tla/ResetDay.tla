------------------------------- MODULE ResetDay -------------------------------
(***************************************************************************)
(* The day of the monthly reset: the value "reset_day" in LevelDB and the  *)
(* scheduler task "monthly_reset" that ought to follow it.  ScheduleTask   *)
(* sets both up when the web server boots, the handler UpdateResetDay      *)
(* changes both, one call at a time and with the errors of every call      *)
(* ignored (web/controller/data.go).                                       *)
(*                                                                         *)
(* LevelDB admits one opener at a time: a GetValue or SetValue that finds  *)
(* it open, here or in a CLI process, fails.                               *)
(***************************************************************************)
EXTENDS Naturals

CONSTANTS
    Asked,          \* days clients ask for; 0 turns the reset off
    Handler,        \* HTTP handlers that may run at the same time
    SpecFields,     \* fields of the spec "0 0 %d * *": 5
    ParserFields,   \* fields cron's parser wants, WithSeconds: 6
    MaxBoot,        \* bound on boots
    MaxBusy,        \* bound on the calls that find LevelDB open
    NoDay           \* there is no value, or no task

Day == 0 .. 31
DefaultDay == 1

ASSUME AskedAreNumbers == Asked \subseteq Nat
ASSUME NoDayIsNoDay == NoDay \notin Day
ASSUME NumbersAreNatural ==
    SpecFields \in Nat /\ ParserFields \in Nat /\ MaxBoot \in Nat /\ MaxBusy \in Nat

VARIABLES
    main,       \* where the web process is; [pc, day, failed]
    req,        \* UpdateResetDay of each handler; [pc, day]
    stored,     \* the value of "reset_day"
    task,       \* the day of the registered task "monthly_reset"
    boots, busy

vars == <<main, req, stored, task, boots, busy>>

Idle == [pc |-> "idle", day |-> 0]

TypeOK ==
    /\ main \in [pc : {"down", "get", "put", "add", "up", "stopped"}, day : Day,
                 failed : BOOLEAN]
    /\ req \in [Handler -> [pc : {"idle", "get", "remove", "add", "put"}, day : Day]]
    /\ stored \in Day \cup {NoDay}
    /\ task \in Day \cup {NoDay}
    /\ boots \in 0 .. MaxBoot /\ busy \in 0 .. MaxBusy

Down == [pc |-> "down", day |-> 0, failed |-> FALSE]

Init ==
    /\ main = Down
    /\ req = [h \in Handler |-> Idle]
    /\ stored = NoDay
    /\ task = NoDay
    /\ boots = 0 /\ busy = 0

-----------------------------------------------------------------------------
(* Calls                                                                   *)

Busy == busy < MaxBusy /\ busy' = busy + 1

\* strconv.Atoi of the value, 0 if there is none.
Atoi(value) == IF value = NoDay THEN 0 ELSE value

\* Scheduler.AddTask: refuses a name it has, and a spec cron cannot parse.
AddTask(day) ==
    task' = IF task = NoDay /\ SpecFields = ParserFields THEN day ELSE task

-----------------------------------------------------------------------------
(* ScheduleTask, before the server listens                                 *)

Boot ==
    /\ main.pc = "down"
    /\ boots < MaxBoot
    /\ boots' = boots + 1
    /\ main' = [main EXCEPT !.pc = "get"]
    /\ UNCHANGED <<req, stored, task, busy>>

\* "" for an error and for a missing key: the default is taken and stored.
BootGet ==
    /\ main.pc = "get"
    /\ \/ /\ main' = IF stored = NoDay
                       THEN [pc |-> "put", day |-> DefaultDay, failed |-> FALSE]
                       ELSE [pc |-> "add", day |-> stored, failed |-> FALSE]
          /\ UNCHANGED busy
       \/ /\ Busy
          /\ main' = [pc |-> "put", day |-> DefaultDay, failed |-> TRUE]
    /\ UNCHANGED <<req, stored, task, boots>>

BootPut ==
    /\ main.pc = "put"
    /\ main' = [main EXCEPT !.pc = "add"]
    /\ \/ stored' = main.day /\ UNCHANGED busy
       \/ Busy /\ UNCHANGED stored
    /\ UNCHANGED <<req, task, boots>>

BootAdd ==
    /\ main.pc = "add"
    /\ main' = [main EXCEPT !.pc = "up"]
    /\ IF main.day # 0 THEN AddTask(main.day) ELSE UNCHANGED task
    /\ UNCHANGED <<req, stored, boots, busy>>

\* SIGTERM: the scheduler stops first; the server still serves.
StopScheduler ==
    /\ main.pc = "up"
    /\ main' = [main EXCEPT !.pc = "stopped"]
    /\ UNCHANGED <<req, stored, task, boots, busy>>

\* The process ends, by its own end or by a crash, wherever anything stands.
Exit ==
    /\ main.pc # "down"
    /\ main' = Down
    /\ req' = [h \in Handler |-> Idle]
    /\ task' = NoDay
    /\ UNCHANGED <<stored, boots, busy>>

-----------------------------------------------------------------------------
(* UpdateResetDay                                                          *)

\* Mutant of Start: the server listens before ScheduleTask is through.
StartDuringBoot(h, day) ==
    /\ main.pc # "down"
    /\ req[h].pc = "idle"
    /\ day \in Day
    /\ req' = [req EXCEPT ![h] = [pc |-> "get", day |-> day]]
    /\ UNCHANGED <<main, stored, task, boots, busy>>

\* Mutant of Start: any number is a day.
StartUnchecked(h, day) ==
    /\ main.pc \in {"up", "stopped"}
    /\ req[h].pc = "idle"
    /\ req' = [req EXCEPT ![h] = [pc |-> "get", day |-> day]]
    /\ UNCHANGED <<main, stored, task, boots, busy>>

\* Other numbers than days are refused.
Start(h, day) ==
    /\ main.pc \in {"up", "stopped"}
    /\ req[h].pc = "idle"
    /\ day \in Day
    /\ req' = [req EXCEPT ![h] = [pc |-> "get", day |-> day]]
    /\ UNCHANGED <<main, stored, task, boots, busy>>

\* The day it has already, or 0 when the value cannot be read, ends the request.
Get(h) ==
    /\ req[h].pc = "get"
    /\ LET Found(value) == req' = [req EXCEPT ![h] =
                                     IF @.day = Atoi(value) THEN Idle
                                     ELSE [@ EXCEPT !.pc = "remove"]]
       IN  \/ Found(stored) /\ UNCHANGED busy
           \/ Found(NoDay) /\ Busy
    /\ UNCHANGED <<main, stored, task, boots>>

Remove(h) ==
    /\ req[h].pc = "remove"
    /\ task' = NoDay
    /\ req' = [req EXCEPT ![h].pc = IF req[h].day = 0 THEN "put" ELSE "add"]
    /\ UNCHANGED <<main, stored, boots, busy>>

Add(h) ==
    /\ req[h].pc = "add"
    /\ AddTask(req[h].day)
    /\ req' = [req EXCEPT ![h].pc = "put"]
    /\ UNCHANGED <<main, stored, boots, busy>>

\* The reply is "success" whether or not the day could be stored.
Put(h) ==
    /\ req[h].pc = "put"
    /\ req' = [req EXCEPT ![h] = Idle]
    /\ \/ stored' = req[h].day /\ UNCHANGED busy
       \/ Busy /\ UNCHANGED stored
    /\ UNCHANGED <<main, task, boots>>

-----------------------------------------------------------------------------

Next ==
    \/ Boot \/ BootGet \/ BootPut \/ BootAdd
    \/ StopScheduler \/ Exit
    \/ \E h \in Handler :
          \/ \E day \in Asked : Start(h, day)
          \/ Get(h) \/ Remove(h) \/ Add(h) \/ Put(h)

Spec == Init /\ [][Next]_vars

-----------------------------------------------------------------------------
(* Properties.                                                             *)

\* A boot never overwrites a day that is stored, unless it could not read it:
\* what it read is still true when it stores the default.
BootKeepsDay ==
    [][BootPut /\ stored # NoDay => main.failed \/ stored' = stored]_vars

\* docs/refactor/CRON_SUMMARY.md expects "Task added: monthly_reset (spec:
\* 0 0 1 * *)" in the log of a start.  So a server that is up has the task.
MonthlyTaskRegistered == main.pc = "up" /\ main.day # 0 => task = main.day

=============================================================================
