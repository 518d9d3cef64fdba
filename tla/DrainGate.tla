------------------------------ MODULE DrainGate ------------------------------
(***************************************************************************)
(* What TaskScheduler.Stop promises, without goroutines, contexts or wait  *)
(* groups: a gate through which jobs are admitted.  The gate is closed     *)
(* once and for ever; only then may a verdict be given; the verdict "nil"  *)
(* is given only when nobody is inside, and "timeout" may be given at any  *)
(* time after closing.  Hence after "nil" nobody is inside, ever.          *)
(***************************************************************************)
CONSTANT Job            \* goroutines that may pass the gate

VARIABLES open,         \* is the gate open?
          inside,       \* jobs that were admitted and have not left
          verdict       \* "none", "nil" or "timeout": the answer of Stop

vars == <<open, inside, verdict>>

TypeOK ==
    /\ open \in BOOLEAN
    /\ inside \subseteq Job
    /\ verdict \in {"none", "nil", "timeout"}

Init ==
    /\ open = TRUE
    /\ inside = {}
    /\ verdict = "none"

Admit(j) ==
    /\ open
    /\ j \notin inside
    /\ inside' = inside \cup {j}
    /\ UNCHANGED <<open, verdict>>

Leave(j) ==
    /\ j \in inside
    /\ inside' = inside \ {j}
    /\ UNCHANGED <<open, verdict>>

Close ==
    /\ open
    /\ open' = FALSE
    /\ UNCHANGED <<inside, verdict>>

Report(v) ==
    /\ ~open
    /\ verdict = "none"
    /\ v = "nil" => inside = {}
    /\ verdict' = v
    /\ UNCHANGED <<open, inside>>

Next ==
    \/ \E j \in Job : Admit(j) \/ Leave(j)
    \/ Close
    \/ \E v \in {"nil", "timeout"} : Report(v)

Spec == Init /\ [][Next]_vars

=============================================================================
