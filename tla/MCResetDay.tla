------------------------------ MODULE MCResetDay ------------------------------
(* Instances of ResetDay for TLC. *)
EXTENDS ResetDay, TLC

CONSTANTS h1, h2

\* Handlers are interchangeable: no action compares them.
Symmetry == Permutations({h1, h2})

=============================================================================
