-------------------------------- MODULE MCAuth --------------------------------
(* Instances of Auth for TLC. *)
EXTENDS Auth, TLC

CONSTANTS h1, h2, p, q

\* Handlers are interchangeable, and so are passwords: only equality counts.
Symmetry == Permutations({h1, h2}) \cup Permutations({p, q})

=============================================================================
