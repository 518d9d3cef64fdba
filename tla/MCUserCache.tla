----------------------------- MODULE MCUserCache -----------------------------
(***************************************************************************)
(* Instances for TLC of UserCache and of NetSpeed, the two things the web  *)
(* process samples and keeps in memory.  The two share no variable, and a  *)
(* behaviour of either is one of this module.                              *)
(***************************************************************************)
EXTENDS UserCache, NetSpeed, TLC

CONSTANTS r1, r2, w1, w2    \* of UserCache
CONSTANTS s1, s2, n1, n2    \* of NetSpeed

VARIABLE sampled            \* what is looked at

\* Beside the users any one state of the counters will do.
SamplesInit ==
    /\ Init /\ SpeedInit
    /\ \/ sampled = "users" /\ counter = [n \in Nic |-> 0]
       \/ sampled = "traffic"

SamplesNext ==
    \/ sampled = "users" /\ Next /\ UNCHANGED <<sampled, speedVars>>
    \/ sampled = "traffic" /\ SpeedNext /\ UNCHANGED <<sampled, vars>>

SamplesSpec == SamplesInit /\ [][SamplesNext]_<<sampled, vars, speedVars>>

\* Readers, writers, runs and interfaces are interchangeable.
CacheSymmetry ==
    Permutations({r1, r2}) \cup Permutations({w1, w2})
        \cup Permutations({s1, s2}) \cup Permutations({n1, n2})

=============================================================================
