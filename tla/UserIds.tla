------------------------------- MODULE UserIds -------------------------------
(***************************************************************************)
(* Whom an id means.  Administrators and tasks take ids of users from a    *)
(* list and send them back later: pages of the web interface, the menus of *)
(* the command line (trojan/user.go), DailyCheckExpire and                 *)
(* MonthlyResetData.  Users come and go meanwhile, and a rebuild of the    *)
(* table (ImportCsv, ExecSql) deals the ids anew.                          *)
(*                                                                         *)
(* A list may be as old as the page that shows it.  One from the cache,    *)
(* which UserCache has, is a list that was read earlier, and no more.      *)
(* Accounts has the lookups of a new user, Rebuild what a rebuild keeps.   *)
(* The names here leave room for a module that extends this one and        *)
(* another.                                                                *)
(***************************************************************************)
EXTENDS Naturals

CONSTANTS
    Owner,      \* users, each with one name
    Nobody,     \* there is no row with this id
    Page,       \* pages, handlers and tasks of the web process
    Menu,       \* menus of the command line
    LastId,     \* bound on the ids given out
    MaxEra      \* bound on the rebuilds

ASSUME NobodyIsNoOwner == Nobody \notin Owner
ASSUME PagesAreNoMenus == Page \cap Menu = {}
ASSUME IdsAreNatural == LastId \in Nat /\ MaxEra \in Nat

RowId == 1 .. LastId
Person == Page \cup Menu
Content == [RowId -> Owner \cup {Nobody}]
NoContent == [i \in RowId |-> Nobody]

VARIABLES
    userAt,     \* the table: who has an id
    there,      \* the table exists
    freshId,    \* AUTO_INCREMENT
    person,     \* where each person is, with the list read last
    rebuild,    \* the rebuild, and whom it has yet to insert
    era         \* auxiliary: how often the table was dropped

idsVars == <<userAt, there, freshId, person, rebuild, era>>
users == <<userAt, there, freshId>>

\* What is done by id: DeleteUser, UpdateUser, and statements that write other
\* columns (SetQuota, CleanData, SetExpire, CancelExpire, those of the tasks).
ById == {"delete", "update", "others"}

\* read: auxiliary; the era in which the list was read.
Place == [pc : {"away", "sees", "load", "acts"}, list : Content, read : Nat,
          op : ById, ids : SUBSET RowId]

Away == [pc |-> "away", list |-> NoContent, read |-> 0, op |-> "others", ids |-> {}]
NoRebuild == [pc |-> "idle", left |-> {}]

IdsTypeOK ==
    /\ userAt \in Content
    /\ there \in BOOLEAN
    /\ freshId \in 1 .. LastId + 1
    /\ person \in [Person -> Place]
    /\ rebuild \in [pc : {"idle", "drop", "create", "insert"}, left : SUBSET Owner]
    /\ era \in 0 .. MaxEra
    /\ rebuild.pc = "drop" => era < MaxEra

IdsInit ==
    /\ userAt = NoContent
    /\ there = TRUE
    /\ freshId = 1
    /\ person = [c \in Person |-> Away]
    /\ rebuild = NoRebuild
    /\ era = 0

-----------------------------------------------------------------------------

Is(c, pc) == person[c].pc = pc
Owners == {userAt[i] : i \in RowId} \ {Nobody}

\* c before the same list.
Same(c, pc, op, ids) ==
    [pc |-> pc, list |-> person[c].list, read |-> person[c].read, op |-> op, ids |-> ids]

\* The operation is over; the list is still on the screen.
Back(c) == person' = [person EXCEPT ![c] = Same(c, "sees", "others", {})]

-----------------------------------------------------------------------------
(* Lists                                                                   *)

\* GetData or PageList, for a page or the UserList of a menu.  Without a table
\* there is an error and nothing to see.
SeeList(c) ==
    /\ Is(c, "away") \/ Is(c, "sees")
    /\ person' = [person EXCEPT ![c] =
                    [pc |-> "sees", list |-> userAt, read |-> era, op |-> "others", ids |-> {}]]
    /\ UNCHANGED <<users, rebuild, era>>

Leave(c) ==
    /\ Is(c, "sees")
    /\ person' = [person EXCEPT ![c] = Away]
    /\ UNCHANGED <<users, rebuild, era>>

-----------------------------------------------------------------------------
(* Operations on ids of the list                                           *)

\* A handler gets the id from the page; a menu asks for a number of the list,
\* and has no operation that updates a user.
Choose(c, op, i) ==
    /\ Is(c, "sees")
    /\ person[c].list[i] # Nobody
    /\ op = "update" => c \in Page
    /\ person' = [person EXCEPT ![c] =
                    Same(c, IF op = "others" THEN "acts" ELSE "load", op, {i})]
    /\ UNCHANGED <<users, rebuild, era>>

\* The tasks select the ids of rows and write them with one statement.
TaskSelects(c, ids) ==
    /\ c \in Page
    /\ Is(c, "away")
    /\ there
    /\ ids # {} /\ \A i \in ids : userAt[i] # Nobody
    /\ person' = [person EXCEPT ![c] =
                    [pc |-> "acts", list |-> userAt, read |-> era, op |-> "others", ids |-> ids]]
    /\ UNCHANGED <<users, rebuild, era>>

\* GetData(id): DeleteUser goes on whether or not there is a row, UpdateUser
\* panics if there is none.
LoadById(c) ==
    /\ Is(c, "load")
    /\ there
    /\ person[c].op = "update" => \A i \in person[c].ids : userAt[i] # Nobody
    /\ person' = [person EXCEPT ![c] = Same(c, "acts", person[c].op, person[c].ids)]
    /\ UNCHANGED <<users, rebuild, era>>

\* DELETE or UPDATE ... WHERE id; only the former changes who has the id.
Act(c) ==
    /\ Is(c, "acts")
    /\ there
    /\ userAt' = [i \in RowId |-> IF person[c].op = "delete" /\ i \in person[c].ids
                                    THEN Nobody ELSE userAt[i]]
    /\ Back(c)
    /\ UNCHANGED <<there, freshId, rebuild, era>>

\* The load panics, a lookup of UpdateUser refuses, or the statement fails, as
\* it does without a table.
GiveUp(c) ==
    /\ Is(c, "load") \/ Is(c, "acts")
    /\ Back(c)
    /\ UNCHANGED <<users, rebuild, era>>

-----------------------------------------------------------------------------
(* Users who come                                                          *)

\* Mutant of Deal: a new row takes the lowest id that is free.
DealLowest(u) ==
    /\ freshId <= LastId
    /\ \E i \in 1 .. freshId :
          /\ userAt[i] = Nobody /\ \A k \in 1 .. i - 1 : userAt[k] # Nobody
          /\ userAt' = [userAt EXCEPT ![i] = u]
          /\ freshId' = IF i = freshId THEN freshId + 1 ELSE freshId

\* INSERT: AUTO_INCREMENT gives no id twice.
Deal(u) ==
    /\ freshId <= LastId
    /\ userAt' = [userAt EXCEPT ![freshId] = u]
    /\ freshId' = freshId + 1

\* CreateUser of the handlers and AddUser of the menu.
AddUser(u) ==
    /\ there
    /\ u \notin Owners
    /\ Deal(u)
    /\ UNCHANGED <<there, person, rebuild, era>>

\* ImportCsv or the command "import" with a file of users; UpgradeDB with its dump.
StartRebuild(us) ==
    /\ rebuild.pc = "idle"
    /\ era < MaxEra
    /\ rebuild' = [pc |-> "drop", left |-> us]
    /\ UNCHANGED <<users, person, era>>

\* DROP TABLE IF EXISTS users, and AUTO_INCREMENT with it
DropTable ==
    /\ rebuild.pc = "drop"
    /\ userAt' = NoContent
    /\ there' = FALSE
    /\ freshId' = 1
    /\ era' = era + 1
    /\ rebuild' = [pc |-> "create", left |-> rebuild.left]
    /\ UNCHANGED person

CreateTable ==
    /\ rebuild.pc = "create"
    /\ there' = TRUE
    /\ rebuild' = [pc |-> "insert", left |-> rebuild.left]
    /\ UNCHANGED <<userAt, freshId, person, era>>

\* An INSERT of the file, without a lookup.
InsertLine(u) ==
    /\ rebuild.pc = "insert"
    /\ u \in rebuild.left
    /\ Deal(u)
    /\ rebuild' = [pc |-> "insert", left |-> rebuild.left \ {u}]
    /\ UNCHANGED <<there, person, era>>

\* Nothing is left to insert, a statement fails, or the process dies.
EndRebuild ==
    /\ rebuild.pc # "idle"
    /\ rebuild' = NoRebuild
    /\ UNCHANGED <<users, person, era>>

-----------------------------------------------------------------------------

PersonStep(c) ==
    \/ SeeList(c) \/ Leave(c)
    \/ \E op \in ById, i \in RowId : Choose(c, op, i)
    \/ \E ids \in SUBSET RowId : TaskSelects(c, ids)
    \/ LoadById(c) \/ Act(c) \/ GiveUp(c)

RebuildStep ==
    \/ \E us \in SUBSET Owner : StartRebuild(us)
    \/ DropTable \/ CreateTable
    \/ \E u \in Owner : InsertLine(u)
    \/ EndRebuild

IdsNext ==
    \/ \E c \in Person : PersonStep(c)
    \/ \E u \in Owner : AddUser(u)
    \/ RebuildStep

IdsSpec == IdsInit /\ [][IdsNext]_idsVars

-----------------------------------------------------------------------------
(* Properties.                                                             *)

\* Whoever is about to write a row by its id means the user who has it, if
\* anyone still has it, however old the list is and whoever was deleted and
\* created since; only a rebuild of the table makes old ids mean others.
HitsWhoWasSeen ==
    \A c \in Person : Is(c, "load") \/ Is(c, "acts") =>
        \/ \A i \in person[c].ids : userAt[i] \in {Nobody, person[c].list[i]}
        \/ person[c].read # era

=============================================================================
