------------------------------- MODULE MCRebuild -------------------------------
(***************************************************************************)
(* Instances for TLC of Rebuild and of UserIds, two views of a table that  *)
(* is rebuilt: one has what becomes of its users, the other of their ids.  *)
(* The two share no variable, and a behaviour of either is one of this     *)
(* module.                                                                 *)
(***************************************************************************)
EXTENDS Rebuild, UserIds, TLC

CONSTANTS u1, u2            \* of Rebuild
CONSTANTS a, b, page, menu  \* of UserIds

VARIABLE view

\* Beside the view of the ids any one state of the other will do.
TableInit ==
    /\ Init /\ IdsInit
    /\ \/ view = "users"
       \/ view = "ids" /\ table.columns = NewColumns /\ table.utf8 /\ owned = {}

TableNext ==
    \/ view = "users" /\ Next /\ UNCHANGED <<view, idsVars>>
    \/ view = "ids" /\ IdsNext /\ UNCHANGED <<view, vars>>

TableSpec == TableInit /\ [][TableNext]_<<view, vars, idsVars>>

\* Users are interchangeable: no action compares one with another.
Symmetry == Permutations({u1, u2}) \cup Permutations({a, b})

=============================================================================
