--------------------------- MODULE SchedulerProofs ---------------------------
(* Proofs about Scheduler, for any number of tasks, jobs, entries and runs. *)
EXTENDS Scheduler, FiniteSetTheorems, TLAPS

\* The jobs the wait group counts.
CountedJobs == {j \in Job : job[j] \in Counted}

\* The inductive invariant.  TypeOK is not inductive on its own: that wg stays
\* a natural number needs ShutdownInv, see JobDone.
IInv == TypeOK /\ ShutdownInv

-----------------------------------------------------------------------------
(* The wait group counts exactly the jobs between Add and Done.            *)

LEMMA CountedFinite == IsFiniteSet(CountedJobs) /\ Cardinality(CountedJobs) \in Nat
<1>1. CountedJobs \subseteq Job
    BY DEF CountedJobs
<1>. QED
    BY <1>1, JobIsFinite, FS_Subset, FS_CardinalityType

\* A step that moves a job neither into nor out of Counted keeps the count.
LEMMA CountKept ==
    ASSUME TypeOK, NEW j \in Job, NEW s,
           job' = [job EXCEPT ![j] = s], job[j] \in Counted <=> s \in Counted
    PROVE  CountedJobs' = CountedJobs
BY DEF TypeOK, CountedJobs

\* Entering Counted adds one to the count.
LEMMA CountUp ==
    ASSUME TypeOK, NEW j \in Job, NEW s,
           job' = [job EXCEPT ![j] = s], job[j] \notin Counted, s \in Counted
    PROVE  Cardinality(CountedJobs') = Cardinality(CountedJobs) + 1
<1>1. CountedJobs' = CountedJobs \cup {j} /\ j \notin CountedJobs
    BY DEF TypeOK, CountedJobs
<1>. QED
    BY <1>1, CountedFinite, FS_AddElement

\* Leaving Counted takes one from the count, which was positive.
LEMMA CountDown ==
    ASSUME TypeOK, NEW j \in Job, NEW s,
           job' = [job EXCEPT ![j] = s], job[j] \in Counted, s \notin Counted
    PROVE  /\ Cardinality(CountedJobs') = Cardinality(CountedJobs) - 1
           /\ Cardinality(CountedJobs') \in Nat
<1>1. CountedJobs' = CountedJobs \ {j} /\ j \in CountedJobs
    BY DEF TypeOK, CountedJobs
<1>2. Cardinality(CountedJobs') = Cardinality(CountedJobs) - 1
    BY <1>1, CountedFinite, FS_RemoveElement
<1>3. IsFiniteSet(CountedJobs')
    BY <1>1, CountedFinite, FS_RemoveElement
<1>. QED
    BY <1>2, <1>3, FS_CardinalityType

\* When the counter is zero nobody is past the context check.
LEMMA ZeroMeansNobody ==
    ASSUME IInv, wg = 0
    PROVE  \A j \in Job : job[j] \notin Counted
<1>1. Cardinality(CountedJobs) = 0
    BY DEF IInv, ShutdownInv, CountedJobs
<1>2. CountedJobs = {}
    BY <1>1, CountedFinite, FS_EmptySet
<1>. QED
    BY <1>2 DEF CountedJobs

-----------------------------------------------------------------------------
(* The inductive invariant holds.                                          *)

LEMMA InitIInv == Init => IInv
<1>1. SUFFICES ASSUME Init PROVE IInv
    OBVIOUS
<1>2. TypeOK
  <2>1. 0 \in 0 .. MaxEntry /\ 0 \in 0 .. MaxFire
      BY BoundsAreNat
  <2>2. stats \in [Entry -> [execute : Nat, error : Nat]] /\ calls \in [Entry -> Nat]
      BY <1>1 DEF Init
  <2>3. tasks \in [Task -> Entry \cup {NoEntry}] /\ jobEntry \in [Job -> Entry \cup {NoEntry}]
      BY <1>1 DEF Init
  <2>4. job \in [Job -> JobState] /\ stop \in StopState /\ waiter \in WaiterState
      BY <1>1 DEF Init, JobState, StopState, WaiterState
  <2>5. /\ nextID \in 0 .. MaxEntry /\ fired \in 0 .. MaxFire
        /\ wg \in Nat
      BY <1>1, <2>1 DEF Init
  <2>6. /\ entries \subseteq Entry /\ cronRunning \in BOOLEAN
        /\ cancelled \in BOOLEAN /\ crashed \in BOOLEAN
      BY <1>1 DEF Init
  <2>. QED
      BY <2>2, <2>3, <2>4, <2>5, <2>6 DEF TypeOK
<1>4. Cardinality(CountedJobs) = 0
    BY <1>1, FS_EmptySet DEF Init, CountedJobs, Counted
<1>5. ShutdownInv
    BY <1>1, <1>4 DEF Init, ShutdownInv, CountedJobs
<1>. QED
    BY <1>2, <1>5 DEF IInv

\* Every step of the scheduler preserves the types, given the whole invariant.
LEMMA TypeStep == ASSUME IInv, [Next]_vars PROVE TypeOK'
<1>. USE DEF IInv, TypeOK, JobState, Counted, StopState,
             WaiterState, registry, control
<1>1. CASE Start
    BY <1>1 DEF Start
<1>2. ASSUME NEW n \in Task, AddTask(n) PROVE TypeOK'
  <2>1. nextID' \in 0 .. MaxEntry /\ nextID + 1 \in Entry
      BY <1>2, BoundsAreNat DEF AddTask, Entry
  <2>. QED
      BY <1>2, <2>1 DEF AddTask
<1>3. ASSUME NEW n \in Task, RemoveTask(n) PROVE TypeOK'
    BY <1>3 DEF RemoveTask
<1>4. ASSUME NEW j \in Job, NEW e \in Entry, Fire(j, e) PROVE TypeOK'
    BY <1>4, BoundsAreNat DEF Fire
<1>5. ASSUME NEW j \in Job, JobAdd(j) PROVE TypeOK'
    BY <1>5 DEF JobAdd
<1>6. ASSUME NEW j \in Job, JobCheck(j) PROVE TypeOK'
    BY <1>6 DEF JobCheck
<1>7. ASSUME NEW j \in Job, JobCall(j) PROVE TypeOK'
  <2>1. \A e \in Entry : calls[e] + 1 \in Nat
      OBVIOUS
  <2>2. calls' \in [Entry -> Nat]
      BY <1>7, <2>1 DEF JobCall
  <2>. QED
      BY <1>7, <2>2 DEF JobCall
<1>8. ASSUME NEW j \in Job, NEW r \in {"ok", "failed"}, JobReturn(j, r) PROVE TypeOK'
    BY <1>8 DEF JobReturn
<1>9. ASSUME NEW j \in Job, JobRecord(j) PROVE TypeOK'
  <2>1. \A e \in Entry : stats[e].execute + 1 \in Nat /\ stats[e].error \in Nat
                         /\ stats[e].error + 1 \in Nat /\ stats[e].error + 0 \in Nat
      OBVIOUS
  <2>2. stats' \in [Entry -> [execute : Nat, error : Nat]]
      BY <1>9, <2>1 DEF JobRecord
  <2>. QED
      BY <1>9, <2>2 DEF JobRecord
<1>10. ASSUME NEW j \in Job, JobDone(j) PROVE TypeOK'
  <2>1. wg' \in Nat
      BY <1>10, CountDown, CountedFinite DEF JobDone, ShutdownInv, CountedJobs
  <2>. QED
      BY <1>10, <2>1 DEF JobDone
<1>11. ASSUME NEW j \in Job, JobExit(j) PROVE TypeOK'
    BY <1>11 DEF JobExit
<1>12. CASE StopCron
    BY <1>12 DEF StopCron
<1>13. CASE StopStep
    BY <1>13
    DEF StopStep, StopCancel, StopSpawnWaiter, StopCronDone,
        StopCronTimeout, StopReturnNil, StopReturnTimeout
<1>14. CASE WaiterStep
    BY <1>14 DEF WaiterStep, WaiterWait, WaiterResume
<1>15. CASE UNCHANGED vars
    BY <1>15 DEF vars
<1>. QED
    BY <1>1, <1>2, <1>3, <1>4, <1>5, <1>6, <1>7, <1>8, <1>9, <1>10, <1>11,
       <1>12, <1>13, <1>14, <1>15 DEF Next, JobStep

\* A step that neither moves a job nor touches the shutdown keeps ShutdownInv.
LEMMA ShutdownFrame ==
    ASSUME ShutdownInv, UNCHANGED <<cancelled, wg, job, stop, waiter>>
    PROVE  ShutdownInv'
BY DEF ShutdownInv

\* A step of a job that stays on its side of Add and Done, and enters Active
\* only before the cancellation, keeps ShutdownInv.
LEMMA ShutdownJobFrame ==
    ASSUME IInv, NEW j \in Job, NEW s,
           job' = [job EXCEPT ![j] = s], job[j] \in Counted <=> s \in Counted,
           s \in Active => job[j] \in Active \/ ~cancelled,
           UNCHANGED <<cancelled, wg, stop, waiter>>
    PROVE  ShutdownInv'
<1>1. CountedJobs' = CountedJobs
    BY CountKept DEF IInv
<1>2. waiter \in {"woken", "closed"} => \A k \in Job : job'[k] \notin Active
    BY DEF IInv, ShutdownInv, TypeOK
<1>. QED
    BY <1>1, <1>2 DEF IInv, ShutdownInv, CountedJobs

LEMMA ShutdownStep == ASSUME IInv, [Next]_vars PROVE ShutdownInv'
<1>. USE DEF registry, control
<1>1. CASE Start
    BY <1>1, ShutdownFrame DEF Start, IInv
<1>2. ASSUME NEW n \in Task, AddTask(n) PROVE ShutdownInv'
    BY <1>2, ShutdownFrame DEF AddTask, IInv
<1>3. ASSUME NEW n \in Task, RemoveTask(n) PROVE ShutdownInv'
    BY <1>3, ShutdownFrame DEF RemoveTask, IInv
<1>4. ASSUME NEW j \in Job, NEW e \in Entry, Fire(j, e) PROVE ShutdownInv'
    BY <1>4, ShutdownJobFrame DEF Fire, Counted, Active
<1>5. ASSUME NEW j \in Job, JobAdd(j) PROVE ShutdownInv'
  <2>1. Cardinality(CountedJobs') = Cardinality(CountedJobs) + 1
      BY <1>5, CountUp DEF IInv, JobAdd, Counted
  <2>2. \A k \in Job : job'[k] \in Active => job[k] \in Active
      BY <1>5 DEF JobAdd, IInv, TypeOK, Active
  <2>. QED
      BY <1>5, <2>1, <2>2 DEF JobAdd, IInv, ShutdownInv, CountedJobs
<1>6. ASSUME NEW j \in Job, JobCheck(j) PROVE ShutdownInv'
    BY <1>6, ShutdownJobFrame DEF JobCheck, Counted, Active
<1>7. ASSUME NEW j \in Job, JobCall(j) PROVE ShutdownInv'
    BY <1>7, ShutdownJobFrame DEF JobCall, Counted, Active
<1>8. ASSUME NEW j \in Job, NEW r \in {"ok", "failed"}, JobReturn(j, r)
      PROVE ShutdownInv'
    BY <1>8, ShutdownJobFrame DEF JobReturn, Counted, Active
<1>9. ASSUME NEW j \in Job, JobRecord(j) PROVE ShutdownInv'
    BY <1>9, ShutdownJobFrame DEF JobRecord, Counted, Active
<1>10. ASSUME NEW j \in Job, JobDone(j) PROVE ShutdownInv'
  <2>1. /\ Cardinality(CountedJobs') = Cardinality(CountedJobs) - 1
        /\ Cardinality(CountedJobs') \in Nat
      BY <1>10, CountDown DEF IInv, JobDone, Counted
  <2>2. \A k \in Job : job'[k] \in Active => job[k] \in Active
      BY <1>10 DEF JobDone, IInv, TypeOK, Active
  <2>3. wg' = Cardinality(CountedJobs')
      BY <1>10, <2>1, CountedFinite DEF JobDone, IInv, ShutdownInv, CountedJobs
  <2>4. waiter' = "woken" /\ waiter # "woken" => \A k \in Job : job'[k] \notin Active
    <3>1. ASSUME waiter' = "woken", waiter # "woken" PROVE Cardinality(CountedJobs') = 0
        BY <1>10, <2>3, <3>1 DEF JobDone
    <3>2. ASSUME Cardinality(CountedJobs') = 0 PROVE CountedJobs' = {}
      <4>1. IsFiniteSet(CountedJobs')
          BY JobIsFinite, FS_Subset DEF CountedJobs
      <4>. QED
          BY <3>2, <4>1, FS_EmptySet
    <3>. QED
        BY <3>1, <3>2 DEF CountedJobs, Counted, Active
  <2>. QED
      BY <1>10, <2>2, <2>3, <2>4 DEF JobDone, IInv, ShutdownInv, CountedJobs
<1>11. ASSUME NEW j \in Job, JobExit(j) PROVE ShutdownInv'
    BY <1>11, ShutdownJobFrame DEF JobExit, Counted, Active
<1>12. CASE StopCron
    BY <1>12 DEF StopCron, IInv, ShutdownInv
<1>13. CASE StopStep
    BY <1>13 DEF StopStep, StopCancel, StopSpawnWaiter, StopCronDone, IInv,
                 StopCronTimeout, StopReturnNil, StopReturnTimeout, ShutdownInv
<1>14. CASE WaiterWait
    BY <1>14, ZeroMeansNobody
    DEF WaiterWait, IInv, ShutdownInv, Counted, Active
<1>15. CASE WaiterResume
    BY <1>15 DEF WaiterResume, IInv, ShutdownInv
<1>16. CASE UNCHANGED vars
    BY <1>16, ShutdownFrame DEF vars, IInv
<1>. QED
    BY <1>1, <1>2, <1>3, <1>4, <1>5, <1>6, <1>7, <1>8, <1>9, <1>10, <1>11,
       <1>12, <1>13, <1>14, <1>15, <1>16 DEF Next, JobStep, WaiterStep

\* The inductive invariant holds in every reachable state.
THEOREM Invariant == Spec => []IInv
<1>1. Init => IInv
    BY InitIInv
<1>2. IInv /\ [Next]_vars => IInv'
    BY TypeStep, ShutdownStep DEF IInv
<1>. QED
    BY <1>1, <1>2, PTL DEF Spec

\* Types of every variable; the wait-group counter never goes below zero.
THEOREM TypeCorrect == Spec => []TypeOK
<1>1. IInv => TypeOK
    BY DEF IInv
<1>. QED
    BY <1>1, Invariant, PTL

\* The wait group, the context and the waiter of Stop fit together as
\* ShutdownInv says.
THEOREM ShutdownCorrect == Spec => []ShutdownInv
<1>1. IInv => ShutdownInv
    BY DEF IInv
<1>. QED
    BY <1>1, Invariant, PTL

\* After Stop has returned nil no task function runs, now or later.
THEOREM StopNilSafe == Spec => []StopNilMeansQuiet
<1>1. IInv => StopNilMeansQuiet
    BY DEF IInv, ShutdownInv, StopNilMeansQuiet
<1>. QED
    BY <1>1, Invariant, PTL

-----------------------------------------------------------------------------
(* Stop implements DrainGate.                                              *)

ActiveJobs == {j \in Job : job[j] \in Active}
Verdict == IF Stopped THEN stop ELSE "none"

\* A step that closes no gate, moves nobody through it and gives no verdict.
LEMMA GateStutter ==
    ASSUME cancelled' = cancelled, ActiveJobs' = ActiveJobs, Verdict' = Verdict
    PROVE  UNCHANGED Gate!vars
BY DEF Gate!vars, ActiveJobs, Verdict

LEMMA GateJobFrame ==
    ASSUME TypeOK, NEW j \in Job, NEW s,
           job' = [job EXCEPT ![j] = s], job[j] \in Active <=> s \in Active
    PROVE  ActiveJobs' = ActiveJobs
BY DEF TypeOK, ActiveJobs

\* Every step of a job is an admission, a departure or invisible.
LEMMA GateJobStep ==
    ASSUME IInv, NEW j \in Job, JobStep(j)
    PROVE  Gate!Next \/ UNCHANGED Gate!vars
<1>. USE DEF control, Verdict, Stopped
<1>1. CASE JobAdd(j)
    BY <1>1, GateJobFrame, GateStutter DEF JobAdd, Active, IInv
<1>2. CASE JobCheck(j) /\ cancelled
    BY <1>2, GateJobFrame, GateStutter DEF JobCheck, Active, IInv
<1>3. CASE JobCheck(j) /\ ~cancelled
  <2>1. j \notin ActiveJobs /\ ActiveJobs' = ActiveJobs \cup {j}
      BY <1>3 DEF JobCheck, ActiveJobs, Active, IInv, TypeOK
  <2>2. Gate!Admit(j)
      BY <1>3, <2>1 DEF JobCheck, Gate!Admit, ActiveJobs
  <2>. QED
      BY <2>2 DEF Gate!Next
<1>4. CASE JobCall(j)
    BY <1>4, GateJobFrame, GateStutter DEF JobCall, Active, IInv
<1>5. CASE JobRecord(j)
  <2>1. j \in ActiveJobs /\ ActiveJobs' = ActiveJobs \ {j}
      BY <1>5 DEF JobRecord, ActiveJobs, Active, IInv, TypeOK
  <2>2. Gate!Leave(j)
      BY <1>5, <2>1 DEF JobRecord, Gate!Leave, ActiveJobs
  <2>. QED
      BY <2>2 DEF Gate!Next
<1>6. CASE JobDone(j)
    BY <1>6, GateJobFrame, GateStutter DEF JobDone, Active, IInv
<1>7. CASE JobExit(j)
    BY <1>7, GateJobFrame, GateStutter DEF JobExit, Active, IInv
<1>. QED
    BY <1>1, <1>2, <1>3, <1>4, <1>5, <1>6, <1>7 DEF JobStep

\* Cancelling closes the gate and returning gives the verdict.
LEMMA GateStopStep ==
    ASSUME IInv, StopStep
    PROVE  Gate!Next \/ UNCHANGED Gate!vars
<1>. USE DEF Stopped, Verdict
<1>1. CASE StopCancel /\ ~cancelled
  <2>1. Gate!Close
      BY <1>1 DEF StopCancel, Gate!Close
  <2>. QED
      BY <2>1 DEF Gate!Next
<1>2. CASE StopCancel /\ cancelled
    BY <1>2, GateStutter DEF StopCancel, ActiveJobs, IInv, TypeOK
<1>3. CASE StopSpawnWaiter \/ StopCronDone \/ StopCronTimeout
    BY <1>3, GateStutter
    DEF StopSpawnWaiter, StopCronDone, StopCronTimeout, ActiveJobs
<1>4. CASE StopReturnNil
  <2>1. ActiveJobs = {} /\ cancelled
      BY <1>4 DEF StopReturnNil, ActiveJobs, IInv, ShutdownInv
  <2>2. Gate!Report("nil")
      BY <1>4, <2>1 DEF StopReturnNil, Gate!Report, ActiveJobs
  <2>. QED
      BY <2>2 DEF Gate!Next
<1>5. CASE StopReturnTimeout
  <2>1. Gate!Report("timeout")
      BY <1>5 DEF StopReturnTimeout, Gate!Report, IInv, ShutdownInv
  <2>. QED
      BY <2>1 DEF Gate!Next
<1>. QED
    BY <1>1, <1>2, <1>3, <1>4, <1>5 DEF StopStep

\* The scheduler's shutdown implements the abstract gate: jobs are admitted
\* only before the cancellation, and nil is answered only when nobody is inside.
THEOREM StopImplementsGate == Spec => GateSpec
<1>1. Init => Gate!Init
    BY DEF Init, Gate!Init, Active, Stopped
<1>2. IInv /\ [Next]_vars => [Gate!Next]_(Gate!vars)
  <2>. SUFFICES ASSUME IInv, [Next]_vars
                PROVE  Gate!Next \/ UNCHANGED Gate!vars
      OBVIOUS
  <2>. USE DEF control, Verdict, Stopped
  <2>1. CASE Start \/ (\E n \in Task : AddTask(n) \/ RemoveTask(n))
      BY <2>1, GateStutter DEF Start, AddTask, RemoveTask, ActiveJobs
  <2>2. ASSUME NEW j \in Job, NEW e \in Entry, Fire(j, e)
        PROVE  UNCHANGED Gate!vars
      BY <2>2, GateJobFrame, GateStutter DEF Fire, Active, IInv
  <2>3. ASSUME NEW j \in Job, NEW r \in {"ok", "failed"}, JobReturn(j, r)
        PROVE  UNCHANGED Gate!vars
      BY <2>3, GateJobFrame, GateStutter DEF JobReturn, Active, IInv
  <2>4. CASE StopCron
      BY <2>4, GateStutter DEF StopCron, ActiveJobs
  <2>5. CASE WaiterStep
      BY <2>5, GateStutter DEF WaiterStep, WaiterWait, WaiterResume, ActiveJobs
  <2>6. CASE UNCHANGED vars
      BY <2>6, GateStutter DEF vars, ActiveJobs
  <2>. QED
      BY <2>1, <2>2, <2>3, <2>4, <2>5, <2>6, GateJobStep, GateStopStep DEF Next
<1>. QED
    BY <1>1, <1>2, Invariant, PTL DEF Spec, GateSpec, Gate!Spec

-----------------------------------------------------------------------------
(* Every call of a task function is accounted for.                         *)

InFlight == {"running", "ok", "failed"}

\* The inductive strengthening: a live job knows the entry it was started for.
AccountInv ==
    /\ \A j \in Job : job[j] # "idle" => jobEntry[j] \in Entry
    /\ RunsAreAccounted

LEMMA HoldingFinite ==
    ASSUME NEW e
    PROVE  /\ IsFiniteSet(Holding(e, InFlight))
           /\ IsFiniteSet(Holding(e, InFlight)')
           /\ Cardinality(Holding(e, InFlight)) \in Nat
           /\ Cardinality(Holding(e, InFlight)') \in Nat
<1>1. Holding(e, InFlight) \subseteq Job /\ Holding(e, InFlight)' \subseteq Job
    BY DEF Holding
<1>. QED
    BY <1>1, JobIsFinite, FS_Subset, FS_CardinalityType

\* A step that neither calls a function, nor records a result, nor moves a job
\* into or out of InFlight keeps the accounts.
LEMMA AccountFrame ==
    ASSUME RunsAreAccounted, UNCHANGED <<calls, stats>>,
           \A e \in Entry : Holding(e, InFlight)' = Holding(e, InFlight)
    PROVE  RunsAreAccounted'
BY DEF RunsAreAccounted, InFlight

LEMMA AccountJobFrame ==
    ASSUME TypeOK, AccountInv, NEW j \in Job, NEW s,
           job' = [job EXCEPT ![j] = s], job[j] # "idle",
           UNCHANGED <<jobEntry, calls, stats>>,
           job[j] \in InFlight <=> s \in InFlight
    PROVE  AccountInv'
<1>1. \A e \in Entry : Holding(e, InFlight)' = Holding(e, InFlight)
    BY DEF TypeOK, Holding
<1>2. RunsAreAccounted'
    BY <1>1, AccountFrame DEF AccountInv
<1>. QED
    BY <1>2 DEF AccountInv, TypeOK

LEMMA AccountCall ==
    ASSUME TypeOK, AccountInv, NEW j \in Job, JobCall(j)
    PROVE  AccountInv'
<1>1. PICK f \in Entry : f = jobEntry[j]
    BY DEF AccountInv, JobCall
<1>2. /\ Holding(f, InFlight)' = Holding(f, InFlight) \cup {j}
      /\ j \notin Holding(f, InFlight)
    BY <1>1 DEF TypeOK, JobCall, Holding, InFlight
<1>3. Cardinality(Holding(f, InFlight)') = Cardinality(Holding(f, InFlight)) + 1
    BY <1>2, HoldingFinite, FS_AddElement
<1>4. \A e \in Entry : e # f => Holding(e, InFlight)' = Holding(e, InFlight)
    BY <1>1 DEF TypeOK, JobCall, Holding, InFlight
<1>5. /\ stats' = stats
      /\ calls'[f] = calls[f] + 1
      /\ \A e \in Entry : e # f => calls'[e] = calls[e]
    BY <1>1 DEF JobCall, TypeOK
<1>6. \A e \in Entry : /\ calls[e] \in Nat
                       /\ stats[e].execute \in Nat
                       /\ Cardinality(Holding(e, InFlight)) \in Nat
    BY HoldingFinite DEF TypeOK
<1>7. ASSUME NEW e \in Entry
      PROVE  calls'[e] = stats'[e].execute + Cardinality(Holding(e, InFlight)')
  <2>1. calls[e] = stats[e].execute + Cardinality(Holding(e, InFlight))
      BY DEF AccountInv, RunsAreAccounted, InFlight
  <2>2. CASE e = f
      BY <1>3, <1>5, <1>6, <2>1, <2>2
  <2>3. CASE e # f
      BY <1>4, <1>5, <2>1, <2>3
  <2>. QED
      BY <2>2, <2>3
<1>8. RunsAreAccounted'
    BY <1>5, <1>7 DEF AccountInv, RunsAreAccounted, InFlight
<1>. QED
    BY <1>8 DEF AccountInv, JobCall, TypeOK

LEMMA AccountRecord ==
    ASSUME TypeOK, AccountInv, NEW j \in Job, JobRecord(j)
    PROVE  AccountInv'
<1>1. PICK f \in Entry : f = jobEntry[j]
    BY DEF AccountInv, JobRecord
<1>2. /\ Holding(f, InFlight)' = Holding(f, InFlight) \ {j}
      /\ j \in Holding(f, InFlight)
    BY <1>1 DEF TypeOK, JobRecord, Holding, InFlight
<1>3. Cardinality(Holding(f, InFlight)') = Cardinality(Holding(f, InFlight)) - 1
    BY <1>2, HoldingFinite, FS_RemoveElement
<1>4. \A e \in Entry : e # f => Holding(e, InFlight)' = Holding(e, InFlight)
    BY <1>1 DEF TypeOK, JobRecord, Holding, InFlight
<1>5. /\ calls' = calls
      /\ stats'[f].execute = stats[f].execute + 1
      /\ stats'[f].error = stats[f].error + (IF job[j] = "failed" THEN 1 ELSE 0)
      /\ \A e \in Entry : e # f => stats'[e] = stats[e]
    BY <1>1 DEF JobRecord, TypeOK
<1>6. \A e \in Entry : /\ calls[e] \in Nat
                       /\ stats[e].execute \in Nat
                       /\ stats[e].error \in Nat
                       /\ Cardinality(Holding(e, InFlight)) \in Nat
    BY HoldingFinite DEF TypeOK
<1>7. ASSUME NEW e \in Entry
      PROVE  /\ stats'[e].error <= stats'[e].execute
             /\ calls'[e] = stats'[e].execute + Cardinality(Holding(e, InFlight)')
  <2>1. /\ stats[e].error <= stats[e].execute
        /\ calls[e] = stats[e].execute + Cardinality(Holding(e, InFlight))
      BY DEF AccountInv, RunsAreAccounted, InFlight
  <2>2. CASE e = f
      BY <1>3, <1>5, <1>6, <2>1, <2>2
  <2>3. CASE e # f
      BY <1>4, <1>5, <2>1, <2>3
  <2>. QED
      BY <2>2, <2>3
<1>8. RunsAreAccounted'
    BY <1>7 DEF RunsAreAccounted, InFlight
<1>. QED
    BY <1>8 DEF AccountInv, JobRecord, TypeOK

LEMMA AccountStep ==
    ASSUME TypeOK, AccountInv, [Next]_vars
    PROVE  AccountInv'
<1>. USE DEF registry, control
<1>1. CASE UNCHANGED <<job, jobEntry, calls, stats>>
  <2>1. \A e \in Entry : Holding(e, InFlight)' = Holding(e, InFlight)
      BY <1>1 DEF Holding
  <2>. QED
      BY <1>1, <2>1, AccountFrame DEF AccountInv
<1>2. ASSUME NEW j \in Job, NEW e \in Entry, Fire(j, e) PROVE AccountInv'
  <2>1. \A x \in Entry : Holding(x, InFlight)' = Holding(x, InFlight)
      BY <1>2 DEF Fire, Holding, InFlight, TypeOK
  <2>2. RunsAreAccounted'
      BY <1>2, <2>1, AccountFrame DEF Fire, AccountInv
  <2>. QED
      BY <1>2, <2>2 DEF Fire, AccountInv, TypeOK
<1>3. ASSUME NEW j \in Job, JobExit(j) PROVE AccountInv'
  <2>1. \A x \in Entry : Holding(x, InFlight)' = Holding(x, InFlight)
      BY <1>3 DEF JobExit, Holding, InFlight, TypeOK
  <2>2. RunsAreAccounted'
      BY <1>3, <2>1, AccountFrame DEF JobExit, AccountInv
  <2>. QED
      BY <1>3, <2>2 DEF JobExit, AccountInv, TypeOK
<1>4. ASSUME NEW j \in Job, JobStep(j) PROVE AccountInv'
    BY <1>3, <1>4, AccountJobFrame, AccountCall, AccountRecord
    DEF JobStep, JobAdd, JobCheck, JobDone, InFlight
<1>5. ASSUME NEW j \in Job, NEW r \in {"ok", "failed"}, JobReturn(j, r)
      PROVE  AccountInv'
    BY <1>5, AccountJobFrame DEF JobReturn, InFlight
<1>6. CASE Start \/ StopCron \/ (\E n \in Task : AddTask(n) \/ RemoveTask(n))
    BY <1>1, <1>6 DEF Start, StopCron, AddTask, RemoveTask
<1>7. CASE StopStep \/ WaiterStep
    BY <1>1, <1>7
    DEF StopStep, StopCancel, StopSpawnWaiter, StopCronDone, StopCronTimeout,
        StopReturnNil, StopReturnTimeout, WaiterStep, WaiterWait, WaiterResume
<1>. QED
    BY <1>1, <1>2, <1>4, <1>5, <1>6, <1>7 DEF Next, vars

\* The statistics count every run of a task function once, and each error once.
THEOREM AccountsCorrect == Spec => []RunsAreAccounted
<1>1. Init => AccountInv
  <2>. SUFFICES ASSUME Init PROVE AccountInv
      OBVIOUS
  <2>1. \A e \in Entry : Holding(e, InFlight) = {}
      BY DEF Init, Holding, InFlight
  <2>2. \A e \in Entry : Cardinality(Holding(e, InFlight)) = 0
      BY <2>1, FS_EmptySet
  <2>. QED
      BY <2>2 DEF Init, AccountInv, RunsAreAccounted, InFlight
<1>2. TypeOK /\ AccountInv /\ [Next]_vars => AccountInv'
    BY AccountStep
<1>3. AccountInv => RunsAreAccounted
    BY DEF AccountInv
<1>. QED
    BY <1>1, <1>2, <1>3, TypeCorrect, PTL DEF Spec

=============================================================================
