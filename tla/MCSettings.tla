------------------------------ MODULE MCSettings ------------------------------
(***************************************************************************)
(* Instances of ConfigFile and of ResetDay for TLC, one store at a time.   *)
(* The two share no variable, and all the web process does to both is to   *)
(* die, which each of them admits at any time: a behaviour of both is a    *)
(* behaviour of each, and the states of one need not be multiplied by      *)
(* those of the other.                                                     *)
(***************************************************************************)
EXTENDS ConfigFile, ResetDay, TLC

CONSTANTS w, c, v     \* a handler, a command line, a value of config.json
CONSTANTS h1, h2      \* handlers of UpdateResetDay

VARIABLE store        \* the store that is worked on

SettingsInit == ConfigInit /\ Init /\ store \in {"config.json", "LevelDB"}

SettingsNext ==
    \/ store = "config.json" /\ ConfigNext /\ UNCHANGED <<store, vars>>
    \/ store = "LevelDB" /\ Next /\ UNCHANGED <<store, configVars>>

SettingsSpec == SettingsInit /\ [][SettingsNext]_<<store, configVars, vars>>

\* Handlers of UpdateResetDay are interchangeable: no action compares them.
Symmetry == Permutations({h1, h2})

=============================================================================
