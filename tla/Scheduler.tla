------------------------------ MODULE Scheduler ------------------------------
(***************************************************************************)
(* The task scheduler of core/scheduler.go: registration of tasks under    *)
(* the mutex, the cron run loop that starts one goroutine per due entry,   *)
(* the wrapper every job runs in (wait group, cancellation check, panic    *)
(* recovery, statistics), and the shutdown sequence of Stop.               *)
(*                                                                         *)
(* One action is one step between two points where another goroutine can   *)
(* be scheduled: a critical section of s.mu is one action, and the         *)
(* operations of Stop and of a job on the context, the wait group and the  *)
(* channels are one action each.                                           *)
(***************************************************************************)
EXTENDS Naturals, FiniteSets

CONSTANTS
    Task,       \* names given to AddTask
    Job,        \* goroutines the cron run loop may have started, reused
    MaxEntry,   \* bound on the entries ever added to cron
    MaxFire     \* bound on the jobs ever started

ASSUME JobIsFinite == IsFiniteSet(Job)
ASSUME BoundsAreNat == MaxEntry \in Nat /\ MaxFire \in Nat

Entry == 1 .. MaxEntry          \* cron.EntryID, handed out in order
NoEntry == 0

VARIABLES
    cronRunning,    \* cron.running: the run loop is alive
    entries,        \* ids of the entries cron holds
    nextID,         \* cron.nextID
    tasks,          \* s.tasks: the entry registered under a name, or NoEntry
    stats,          \* *TaskStats of each entry; jobs hold it by pointer
    cancelled,      \* s.ctx is done
    wg,             \* counter of s.wg
    job,            \* program counter of each job goroutine
    jobEntry,       \* the entry a job goroutine was started for
    stop,           \* program counter of Stop, "nil"/"timeout" once returned
    waiter,         \* the goroutine Stop spawns: wg.Wait(); close(done)
    fired,          \* jobs started so far (bounded by MaxFire)
    calls,          \* auxiliary: how often the task function of an entry was called
    crashed         \* the process died of an unrecovered panic

vars == <<cronRunning, entries, nextID, tasks, stats, cancelled, wg, job,
          jobEntry, stop, waiter, fired, calls, crashed>>

registry == <<entries, nextID, tasks>>
control  == <<cronRunning, cancelled, stop, waiter>>

-----------------------------------------------------------------------------

\* A job that called wg.Add and has not yet called wg.Done.
Counted == {"added", "admitted", "running", "ok", "failed", "leaving"}

\* A job past the cancellation check whose task function is about to run,
\* runs, or has returned without its result being recorded.
Active == {"admitted", "running", "ok", "failed"}

JobState == {"idle", "spawned", "ended"} \cup Counted

StopState == {"none", "cronStopped", "cancelled", "waitCron", "waitTasks",
              "nil", "timeout"}
WaiterState == {"none", "spawned", "blocked", "woken", "closed"}

Stopped == stop \in {"nil", "timeout"}

TypeOK ==
    /\ cronRunning \in BOOLEAN
    /\ entries \subseteq Entry
    /\ nextID \in 0 .. MaxEntry
    /\ tasks \in [Task -> Entry \cup {NoEntry}]
    /\ stats \in [Entry -> [execute : Nat, error : Nat]]
    /\ cancelled \in BOOLEAN
    /\ wg \in Nat
    /\ job \in [Job -> JobState]
    /\ jobEntry \in [Job -> Entry \cup {NoEntry}]
    /\ stop \in StopState
    /\ waiter \in WaiterState
    /\ fired \in 0 .. MaxFire
    /\ calls \in [Entry -> Nat]
    /\ crashed \in BOOLEAN

\* GetScheduler: the singleton before any task is added.
Init ==
    /\ cronRunning = FALSE
    /\ entries = {}
    /\ nextID = 0
    /\ tasks = [n \in Task |-> NoEntry]
    /\ stats = [e \in Entry |-> [execute |-> 0, error |-> 0]]
    /\ cancelled = FALSE
    /\ wg = 0
    /\ job = [j \in Job |-> "idle"]
    /\ jobEntry = [j \in Job |-> NoEntry]
    /\ stop = "none"
    /\ waiter = "none"
    /\ fired = 0
    /\ calls = [e \in Entry |-> 0]
    /\ crashed = FALSE

-----------------------------------------------------------------------------
(* The registry.  AddTask of a registered name, AddTask of a spec the      *)
(* parser rejects and RemoveTask of an unknown name return an error and    *)
(* change nothing: they are stuttering steps here.  ResetDay models them.  *)

\* cron.Start is a no-op when the loop runs already; Start itself is a no-op
\* when cron holds no entry.  web.Start calls it once, before Stop.
Start ==
    /\ stop = "none"
    /\ entries # {}
    /\ cronRunning' = TRUE
    /\ UNCHANGED <<registry, stats, cancelled, wg, job, jobEntry, stop, waiter,
                   fired, calls, crashed>>

AddTask(n) ==
    /\ tasks[n] = NoEntry
    /\ nextID < MaxEntry
    /\ nextID' = nextID + 1
    /\ entries' = entries \cup {nextID + 1}
    /\ tasks' = [tasks EXCEPT ![n] = nextID + 1]
    /\ UNCHANGED <<control, stats, wg, job, jobEntry, fired, calls, crashed>>

RemoveTask(n) ==
    /\ tasks[n] # NoEntry
    /\ entries' = entries \ {tasks[n]}
    /\ tasks' = [tasks EXCEPT ![n] = NoEntry]
    /\ UNCHANGED <<control, nextID, stats, wg, job, jobEntry, fired, calls,
                   crashed>>

-----------------------------------------------------------------------------
(* Jobs.  An entry may come due again while its previous job still runs,   *)
(* so several jobs of one entry may be alive at once.                      *)

\* The run loop starts a goroutine for a due entry (cron's jobWaiter counts it).
Fire(j, e) ==
    /\ cronRunning
    /\ e \in entries
    /\ job[j] = "idle"
    /\ fired < MaxFire
    /\ fired' = fired + 1
    /\ job' = [job EXCEPT ![j] = "spawned"]
    /\ jobEntry' = [jobEntry EXCEPT ![j] = e]
    /\ UNCHANGED <<registry, control, stats, wg, calls, crashed>>

\* Mutant of JobAdd: the wrapper forgets s.wg.Add(1).
JobAddUncounted(j) ==
    /\ job[j] = "spawned"
    /\ job' = [job EXCEPT ![j] = "added"]
    /\ UNCHANGED <<registry, control, stats, wg, jobEntry, fired, calls, crashed>>

\* s.wg.Add(1), before the context is looked at.
JobAdd(j) ==
    /\ job[j] = "spawned"
    /\ wg' = wg + 1
    /\ job' = [job EXCEPT ![j] = "added"]
    /\ UNCHANGED <<registry, control, stats, jobEntry, fired, calls, crashed>>

\* Mutant of JobCheck: the wrapper does not look at the context.
JobCheckDropped(j) ==
    /\ job[j] = "added"
    /\ job' = [job EXCEPT ![j] = "admitted"]
    /\ UNCHANGED <<registry, control, stats, wg, jobEntry, fired, calls, crashed>>

\* The select on s.ctx.Done() with a default branch.
JobCheck(j) ==
    /\ job[j] = "added"
    /\ job' = [job EXCEPT ![j] = IF cancelled THEN "leaving" ELSE "admitted"]
    /\ UNCHANGED <<registry, control, stats, wg, jobEntry, fired, calls, crashed>>

\* The task function is called; the context may have been cancelled meanwhile.
JobCall(j) ==
    /\ job[j] = "admitted"
    /\ job' = [job EXCEPT ![j] = "running"]
    /\ calls' = [calls EXCEPT ![jobEntry[j]] = @ + 1]
    /\ UNCHANGED <<registry, control, stats, wg, jobEntry, fired, crashed>>

\* It returns nil, or returns an error or panics: recover() treats the last
\* two alike.  Nothing makes it return: tasks do not watch the context.
JobReturn(j, result) ==
    /\ job[j] = "running"
    /\ job' = [job EXCEPT ![j] = result]
    /\ UNCHANGED <<registry, control, stats, wg, jobEntry, fired, calls, crashed>>

\* Mutant of JobRecord: a failed or panicked run is not counted as a run.
JobRecordFailureLost(j) ==
    /\ job[j] \in {"ok", "failed"}
    /\ stats' = IF job[j] = "failed" THEN stats
                ELSE [stats EXCEPT ![jobEntry[j]].execute = @ + 1]
    /\ job' = [job EXCEPT ![j] = "leaving"]
    /\ UNCHANGED <<registry, control, wg, jobEntry, fired, calls, crashed>>

\* recordSuccess or recordError, a critical section of s.mu.
JobRecord(j) ==
    /\ job[j] \in {"ok", "failed"}
    /\ stats' = [stats EXCEPT ![jobEntry[j]] =
                   [execute |-> @.execute + 1,
                    error   |-> @.error + (IF job[j] = "failed" THEN 1 ELSE 0)]]
    /\ job' = [job EXCEPT ![j] = "leaving"]
    /\ UNCHANGED <<registry, control, wg, jobEntry, fired, calls, crashed>>

\* The deferred s.wg.Done(): the last one wakes a blocked wg.Wait().
JobDone(j) ==
    /\ job[j] = "leaving"
    /\ wg' = wg - 1
    /\ job' = [job EXCEPT ![j] = "ended"]
    /\ waiter' = IF wg = 1 /\ waiter = "blocked" THEN "woken" ELSE waiter
    /\ UNCHANGED <<registry, cronRunning, cancelled, stop, stats,
                   jobEntry, fired, calls, crashed>>

\* cron's own deferred jobWaiter.Done(); the goroutine is gone.
JobExit(j) ==
    /\ job[j] = "ended"
    /\ job' = [job EXCEPT ![j] = "idle"]
    /\ jobEntry' = [jobEntry EXCEPT ![j] = NoEntry]
    /\ UNCHANGED <<registry, control, stats, wg, fired, calls, crashed>>

JobStep(j) ==
    \/ JobAdd(j)
    \/ JobCheck(j)
    \/ JobCall(j)
    \/ JobRecord(j)
    \/ JobDone(j)
    \/ JobExit(j)

-----------------------------------------------------------------------------
(* Stop, called once by web.Start when a signal arrives.  It does not take *)
(* s.mu.                                                                   *)

StopCron ==
    /\ stop = "none"
    /\ cronRunning' = FALSE
    /\ stop' = "cronStopped"
    /\ UNCHANGED <<registry, cancelled, waiter, stats, wg, job, jobEntry,
                   fired, calls, crashed>>

\* Mutant of StopCancel: the context is never cancelled.
StopCancelDropped ==
    /\ stop = "cronStopped"
    /\ stop' = "cancelled"
    /\ UNCHANGED <<registry, cronRunning, cancelled, waiter, stats, wg,
                   job, jobEntry, fired, calls, crashed>>

StopCancel ==
    /\ stop = "cronStopped"
    /\ cancelled' = TRUE
    /\ stop' = "cancelled"
    /\ UNCHANGED <<registry, cronRunning, waiter, stats, wg, job, jobEntry,
                   fired, calls, crashed>>

\* Mutant of StopSpawnWaiter: done is closed without waiting for the jobs.
StopSpawnWaiterAtOnce ==
    /\ stop = "cancelled"
    /\ waiter' = "closed"
    /\ stop' = "waitCron"
    /\ UNCHANGED <<registry, cronRunning, cancelled, stats, wg, job,
                   jobEntry, fired, calls, crashed>>

StopSpawnWaiter ==
    /\ stop = "cancelled"
    /\ waiter' = "spawned"
    /\ stop' = "waitCron"
    /\ UNCHANGED <<registry, cronRunning, cancelled, stats, wg, job,
                   jobEntry, fired, calls, crashed>>

\* First select, case <-stopCtx.Done(): cron's jobWaiter has reached zero.
StopCronDone ==
    /\ stop = "waitCron"
    /\ \A j \in Job : job[j] = "idle"
    /\ stop' = "waitTasks"
    /\ UNCHANGED <<registry, cronRunning, cancelled, waiter, stats, wg,
                   job, jobEntry, fired, calls, crashed>>

\* First select, case <-time.After(timeout): Stop carries on all the same.
StopCronTimeout ==
    /\ stop = "waitCron"
    /\ stop' = "waitTasks"
    /\ UNCHANGED <<registry, cronRunning, cancelled, waiter, stats, wg, job,
                   jobEntry, fired, calls, crashed>>

\* Second select, case <-done.
StopReturnNil ==
    /\ stop = "waitTasks"
    /\ waiter = "closed"
    /\ stop' = "nil"
    /\ UNCHANGED <<registry, cronRunning, cancelled, waiter, stats, wg,
                   job, jobEntry, fired, calls, crashed>>

\* Mutant of StopReturnTimeout: the second select has no timeout case.
StopReturnTimeoutDropped ==
    /\ stop = "waitTasks"
    /\ waiter = "closed"
    /\ stop' = "timeout"
    /\ UNCHANGED <<registry, cronRunning, cancelled, waiter, stats, wg,
                   job, jobEntry, fired, calls, crashed>>

\* Second select, case <-time.After(timeout), a fresh timer.
StopReturnTimeout ==
    /\ stop = "waitTasks"
    /\ stop' = "timeout"
    /\ UNCHANGED <<registry, cronRunning, cancelled, waiter, stats, wg, job,
                   jobEntry, fired, calls, crashed>>

\* wg.Wait(): returns at once when the counter is zero, and done is closed.
WaiterWait ==
    /\ waiter = "spawned"
    /\ waiter' = IF wg = 0 THEN "closed" ELSE "blocked"
    /\ UNCHANGED <<registry, cronRunning, cancelled, stop, stats, wg, job,
                   jobEntry, fired, calls, crashed>>

\* A woken Wait looks at the counter again.  A job that was spawned before
\* cron stopped and calls Add only now makes it panic ("WaitGroup is reused
\* before previous Wait has returned"), outside any recover.
WaiterResume ==
    /\ waiter = "woken"
    /\ IF wg = 0
         THEN waiter' = "closed" /\ UNCHANGED crashed
         ELSE crashed' = TRUE /\ UNCHANGED waiter
    /\ UNCHANGED <<registry, cronRunning, cancelled, stop, stats, wg, job,
                   jobEntry, fired, calls>>

StopStep ==
    \/ StopCancel
    \/ StopSpawnWaiter
    \/ StopCronDone
    \/ StopCronTimeout
    \/ StopReturnNil
    \/ StopReturnTimeout

WaiterStep == WaiterWait \/ WaiterResume

-----------------------------------------------------------------------------

Next ==
    /\ ~crashed
    /\ \/ Start
       \/ \E n \in Task : AddTask(n) \/ RemoveTask(n)
       \/ \E j \in Job : \/ \E e \in Entry : Fire(j, e)
                         \/ JobStep(j)
                         \/ \E r \in {"ok", "failed"} : JobReturn(j, r)
       \/ StopCron
       \/ StopStep
       \/ WaiterStep

Spec == Init /\ [][Next]_vars

\* Runnable goroutines get scheduled and timers fire; nothing promises that a
\* task function returns, that a signal arrives or that an entry comes due.
Fairness ==
    /\ \A j \in Job : WF_vars(~crashed /\ JobStep(j))
    /\ WF_vars(~crashed /\ StopStep)
    /\ WF_vars(~crashed /\ WaiterStep)

FairSpec == Spec /\ Fairness

-----------------------------------------------------------------------------
(* Properties.                                                             *)

Holding(e, states) == {j \in Job : job[j] \in states /\ jobEntry[j] = e}

\* When Stop has returned nil no task function is running and none will ever
\* run: not one whose job was spawned before cron stopped and scheduled late,
\* not one that passed the context check just before the cancellation, and
\* also when the first select of Stop timed out.
StopNilMeansQuiet ==
    stop = "nil" => \A j \in Job : job[j] \notin Active

\* Every call of a task function is counted exactly once in its TaskStats, as
\* an error if it failed or panicked; overlapping jobs of one entry, removal
\* of the task meanwhile and shutdown lose and invent no run.
RunsAreAccounted ==
    \A e \in Entry :
        /\ stats[e].error <= stats[e].execute
        /\ calls[e] = stats[e].execute
                        + Cardinality(Holding(e, {"running", "ok", "failed"}))

\* The argument behind StopNilMeansQuiet: the wait group counts the jobs
\* between Add and Done; the wait starts after the cancellation; and once the
\* wait has seen zero nobody is, or can get, past the context check.
ShutdownInv ==
    /\ wg = Cardinality({j \in Job : job[j] \in Counted})
    /\ stop \notin {"none", "cronStopped"} => cancelled
    /\ waiter # "none" => cancelled
    /\ waiter \in {"woken", "closed"} => \A j \in Job : job[j] \notin Active
    /\ stop = "nil" => waiter = "closed"

\* Stop implements the abstract gate: the cancellation closes it, the jobs
\* past the context check are inside, the result of Stop is the verdict.
Gate == INSTANCE DrainGate WITH
            open <- ~cancelled,
            inside <- {j \in Job : job[j] \in Active},
            verdict <- IF Stopped THEN stop ELSE "none"
GateSpec == Gate!Spec

\* Stop returns, even if a task function hangs for ever, unless the process
\* dies in wg.Wait.
StopReturns == (stop # "none") ~> (Stopped \/ crashed)

=============================================================================
