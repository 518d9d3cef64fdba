------------------------------- MODULE NetSpeed -------------------------------
(***************************************************************************)
(* The network speed on the dashboard: the task network_speed_collect of   *)
(* CollectTask (web/controller/common.go) sums the byte counters of the    *)
(* interfaces every two seconds and shows half the difference from the sum *)
(* before.  Sent and received bytes are treated alike; one of them is here.*)
(*                                                                         *)
(* Its sums are variables that all runs of the task share, and cron starts *)
(* a run whether or not the one before has ended.  The names leave room    *)
(* for a module that extends this one and another.                         *)
(***************************************************************************)
EXTENDS Naturals, FiniteSets

CONSTANTS
    Sampler,    \* runs of the task that may overlap
    Nic,        \* network interfaces
    Word,       \* 2^64: the sums are unsigned
    MaxByte,    \* bound on the counter of an interface
    MaxFall     \* bound on the counters that fall

ASSUME SumsFitWords ==
    /\ IsFiniteSet(Nic)
    /\ Word \in Nat /\ MaxByte \in Nat /\ MaxFall \in Nat
    /\ Cardinality(Nic) * MaxByte < Word

Byte == 0 .. MaxByte
Sum == 0 .. Word - 1

VARIABLES
    counter,    \* the kernel's counter of each interface
    falls,
    sum,        \* sentCount
    last,       \* lastSentCount
    speed,      \* si.Up
    sampler,    \* the runs
    calm,       \* auxiliary: samples shown since a disturbance, up to two
    newer, older \* auxiliary: the traffic at the last two of them

speedVars == <<counter, falls, sum, last, speed, sampler, calm, newer, older>>
kernel == <<counter, falls>>
judged == <<calm, newer, older>>

\* own: the sum as this run last had it.  disturbed: auxiliary; another run
\* was under way beside this one, or a counter fell.
Run == [pc : {"off", "read", "reset", "add", "show", "keep"}, result : [Nic -> Byte],
        left : SUBSET Nic, own : Sum, disturbed : BOOLEAN]

Off == [pc |-> "off", result |-> [n \in Nic |-> 0], left |-> {}, own |-> 0, disturbed |-> FALSE]

SpeedTypeOK ==
    /\ counter \in [Nic -> Byte]
    /\ falls \in 0 .. MaxFall
    /\ sum \in Sum /\ last \in Sum
    /\ speed \in 0 .. Word \div 2
    /\ sampler \in [Sampler -> Run]
    /\ calm \in 0 .. 2
    /\ newer \in Sum /\ older \in Sum

\* The sum of the bytes of some interfaces, as the number of these bytes: each
\* is told apart by its interface and its place there.
TotalOver(nics, bytes) == Cardinality({p \in nics \X (1 .. MaxByte) : p[2] <= bytes[p[1]]})

Total(bytes) == TotalOver(Nic, bytes)

\* CollectTask reads the counters once before it adds the task.
SpeedInit ==
    /\ counter \in [Nic -> Byte]
    /\ falls = 0
    /\ sum = 0
    /\ last = Total(counter)
    /\ speed = 0
    /\ sampler = [r \in Sampler |-> Off]
    /\ calm = 1
    /\ newer = Total(counter) /\ older = 0

-----------------------------------------------------------------------------
(* Interfaces                                                              *)

Traffic(n, bytes) ==
    /\ counter[n] + bytes <= MaxByte
    /\ counter' = [counter EXCEPT ![n] = @ + bytes]
    /\ UNCHANGED <<falls, sum, last, speed, sampler, judged>>

\* The interface is taken away, or its driver starts to count anew.
CounterFalls(n) ==
    /\ counter[n] > 0
    /\ falls < MaxFall /\ falls' = falls + 1
    /\ counter' = [counter EXCEPT ![n] = 0]
    /\ calm' = 0
    /\ sampler' = [r \in Sampler |-> IF sampler[r].pc = "off" THEN Off
                                     ELSE [sampler[r] EXCEPT !.disturbed = TRUE]]
    /\ UNCHANGED <<sum, last, speed, newer, older>>

-----------------------------------------------------------------------------
(* The task                                                                *)

In(r, pc) == sampler[r].pc = pc
Becomes(r, run) == sampler' = [sampler EXCEPT ![r] = run]

\* What run r finds in the shared sum.  Another may have written it, but the
\* build may keep what this run had: the accesses are not synchronized.
Seen(r) == {sum, sampler[r].own}

\* @every 2s
Tick2s(r) ==
    /\ In(r, "off")
    /\ LET busy == {s \in Sampler : ~In(s, "off")}
           late == busy # {}
       IN  /\ sampler' = [s \in Sampler |->
                            IF s = r THEN [Off EXCEPT !.pc = "read", !.disturbed = late]
                            ELSE IF s \in busy THEN [sampler[s] EXCEPT !.disturbed = TRUE]
                            ELSE sampler[s]]
           /\ calm' = IF late THEN 0 ELSE calm
    /\ UNCHANGED <<kernel, sum, last, speed, newer, older>>

\* net.IOCounters; its error ends the run and leaves everything as it was.
IOCounters(r) ==
    /\ In(r, "read")
    /\ \/ Becomes(r, [sampler[r] EXCEPT !.pc = "reset", !.result = counter])
       \/ Becomes(r, Off)
    /\ UNCHANGED <<kernel, sum, last, speed, judged>>

\* Mutant of ResetSum: the sum goes on from the last one.
ResetSumForgotten(r) ==
    /\ In(r, "reset")
    /\ Becomes(r, [sampler[r] EXCEPT !.pc = "add", !.left = Nic, !.own = sum])
    /\ UNCHANGED <<kernel, sum, last, speed, judged>>

ResetSum(r) ==
    /\ In(r, "reset")
    /\ sum' = 0
    /\ Becomes(r, [sampler[r] EXCEPT !.pc = "add", !.left = Nic, !.own = 0])
    /\ UNCHANGED <<kernel, last, speed, judged>>

\* In an overlap an interface may be counted twice.
AddNic(r, n) ==
    /\ In(r, "add") /\ n \in sampler[r].left
    /\ \E s \in Seen(r) :
          /\ sum' = (s + sampler[r].result[n]) % Word
          /\ Becomes(r, [sampler[r] EXCEPT !.own = sum', !.left = @ \ {n},
                            !.pc = IF sampler[r].left = {n} THEN "show" ELSE "add"])
    /\ UNCHANGED <<kernel, last, speed, judged>>

ShowSpeed(r) ==
    /\ In(r, "show")
    /\ \E s \in Seen(r) : speed' = ((Word + s - last) % Word) \div 2
    /\ IF sampler[r].disturbed THEN calm' = 0 /\ UNCHANGED <<newer, older>>
       ELSE /\ calm' = IF calm = 0 THEN 1 ELSE 2
            /\ newer' = Total(sampler[r].result)
            /\ older' = newer
    /\ Becomes(r, [sampler[r] EXCEPT !.pc = "keep"])
    /\ UNCHANGED <<kernel, sum, last>>

KeepSum(r) ==
    /\ In(r, "keep")
    /\ last' \in Seen(r)
    /\ Becomes(r, Off)
    /\ UNCHANGED <<kernel, sum, speed, judged>>

-----------------------------------------------------------------------------

SpeedNext ==
    \/ \E n \in Nic : CounterFalls(n) \/ \E bytes \in 1 .. 2 : Traffic(n, bytes)
    \/ \E r \in Sampler :
          \/ Tick2s(r) \/ IOCounters(r) \/ ResetSum(r)
          \/ \E n \in Nic : AddNic(r, n)
          \/ ShowSpeed(r) \/ KeepSum(r)

SpeedSpec == SpeedInit /\ [][SpeedNext]_speedVars

-----------------------------------------------------------------------------
(* Properties.                                                             *)

\* The speed shown is half the traffic between the last two samples.  Runs that
\* overlap, and counters that fall, may show anything, as the difference is
\* unsigned; but two samples later nothing is left of it.
SpeedRecovers == calm = 2 => older <= newer /\ speed = (newer - older) \div 2

=============================================================================
