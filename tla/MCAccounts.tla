------------------------------ MODULE MCAccounts ------------------------------
(* Instances of Accounts for TLC. *)
EXTENDS Accounts, TLC

CONSTANTS a, b, p, q, h1, h2

\* Names, passwords and handlers are only compared with their like.
Symmetry == Permutations({a, b}) \cup Permutations({p, q}) \cup Permutations({h1, h2})

=============================================================================
