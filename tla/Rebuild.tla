------------------------------- MODULE Rebuild -------------------------------
(***************************************************************************)
(* The jobs that replace the users table, statement by statement and       *)
(* without a transaction: UpgradeDB, which adds columns, moves the shown   *)
(* passwords from LevelDB into the table and rebuilds a table of the wrong *)
(* character set through the file temp.sql (core/tools.go), the command    *)
(* "import" of such a file, and ImportCsv (web/controller/trojan.go).      *)
(* Beside them the web handlers create and delete users.                   *)
(*                                                                         *)
(* A row is reduced to its shown password.  The jobs take the rows in any  *)
(* order, the code in that of the list.  One job runs at a time.           *)
(***************************************************************************)
EXTENDS Naturals, FiniteSets

CONSTANTS
    User,       \* user names
    NoFile,     \* there is no temp.sql
    EmptyFile,  \* there is one with nothing in it
    MaxFault    \* bound on failed statements and file operations, and on crashes

ASSUME MaxFaultIsNat == MaxFault \in Nat

Absent == "absent"
Blank == "blank"    \* passwordShow is '', or there is no such column
Shown == "shown"
Rows == [User -> {Absent, Blank, Shown}]

ASSUME FilesAreNoTables == NoFile # EmptyFile /\ NoFile \notin Rows /\ EmptyFile \notin Rows

NoRows == [u \in User |-> Absent]
Present(rs) == {u \in User : rs[u] # Absent}
Only(rs, us) == [u \in User |-> IF u \in us THEN rs[u] ELSE Absent]

NewColumns == {"passwordShow", "useDays"}   \* the latter comes with expiryDate

VARIABLES
    table,      \* [there, columns (the new ones it has), utf8]
    rows,       \* its rows
    kept,       \* users with a value "<user>_pass" in LevelDB
    file,       \* temp.sql: the rows its INSERTs make
    job,        \* [pc, kind, list (rows still to handle), now (the one in hand)]
    faults, crashes,
    owned,      \* auxiliary: users created or imported, and not deleted
    disturbed   \* auxiliary: users a fault, a crash or another writer came across

vars == <<table, rows, kept, file, job, faults, crashes, owned, disturbed>>

Idle == [pc |-> "idle", kind |-> "none", list |-> NoRows, now |-> {}]

TypeOK ==
    /\ table \in [there : BOOLEAN, columns : SUBSET NewColumns, utf8 : BOOLEAN]
    /\ rows \in Rows
    /\ kept \subseteq User
    /\ file \in Rows \cup {NoFile, EmptyFile}
    /\ job \in [pc : {"idle", "showPass", "alterPass", "list", "migrate", "forget",
                      "showDays", "alterDays", "showUtf8", "dumpOpen", "dumpQuery",
                      "read", "drop", "create", "insert", "remove"},
                kind : {"none", "upgrade", "sql", "csv"}, list : Rows, now : SUBSET User]
    /\ faults \in 0 .. MaxFault /\ crashes \in 0 .. MaxFault
    /\ owned \subseteq User /\ disturbed \subseteq User

\* A table of this version, or one that another version or another program
\* left: without the column their passwords are in LevelDB.
Init ==
    /\ table \in [there : {TRUE}, columns : SUBSET NewColumns, utf8 : BOOLEAN]
    /\ \E us \in SUBSET User, shown \in {Blank, Shown} :
          /\ shown = Blank <=> "passwordShow" \notin table.columns
          /\ rows = [u \in User |-> IF u \in us THEN shown ELSE Absent]
          /\ kept = IF shown = Blank THEN us ELSE {}
          /\ owned = us
    /\ file = NoFile
    /\ job = Idle
    /\ faults = 0 /\ crashes = 0
    /\ disturbed = {}

-----------------------------------------------------------------------------

At(pc) == job.pc = pc
Goto(pc) == job' = [job EXCEPT !.pc = pc]
Ends == job' = Idle
Fault == faults < MaxFault /\ faults' = faults + 1

outside == <<kept, crashes, owned>>
counts == <<faults, crashes>>

Has(column) == column \in table.columns

\* queryUserList: nine columns are scanned of every row.
CanList == table.there /\ (Present(rows) = {} \/ table.columns = NewColumns)

\* The rows a query may have returned when nothing failed, or when the
\* connection broke: nobody looks at rows.Err(), the list just ends.
Listed(list) ==
    \/ list = rows /\ UNCHANGED faults
    \/ Fault /\ \E us \in SUBSET Present(rows) : list = Only(rows, us)

Lists == {Only(rows, us) : us \in SUBSET Present(rows)}

-----------------------------------------------------------------------------
(* UpgradeDB                                                               *)

UpgradeStart ==
    /\ At("idle")
    /\ job' = [pc |-> "showPass", kind |-> "upgrade", list |-> NoRows, now |-> {}]
    /\ UNCHANGED <<table, rows, kept, file, counts, owned, disturbed>>

\* SHOW COLUMNS: any error but "no rows" is taken for "it is there".
ShowPass ==
    /\ At("showPass")
    /\ \/ /\ Goto(IF table.there /\ ~Has("passwordShow") THEN "alterPass" ELSE "showDays")
          /\ UNCHANGED faults
       \/ Fault /\ Goto("showDays")
    /\ UNCHANGED <<table, rows, file, outside, disturbed>>

AlterPass ==
    /\ At("alterPass")
    /\ \/ /\ table' = [table EXCEPT !.columns = @ \cup {"passwordShow"}]
          /\ Goto("list") /\ UNCHANGED faults
       \/ Fault /\ Ends /\ UNCHANGED table
    /\ UNCHANGED <<rows, file, outside, disturbed>>

\* GetData: with rows, and without the columns that are added further down,
\* it fails, and UpgradeDB ends.
ListUsers ==
    /\ At("list")
    /\ \/ /\ CanList
          /\ \E list \in Lists : Listed(list) /\ job' = [job EXCEPT !.pc = "migrate", !.list = list]
       \/ ~CanList /\ Ends /\ UNCHANGED faults
       \/ Fault /\ Ends
    /\ UNCHANGED <<table, rows, file, outside, disturbed>>

\* A user without a value, or whose value cannot be read, is passed over.
MigrateSkip(u) ==
    /\ At("migrate") /\ u \in Present(job.list)
    /\ \/ u \notin kept /\ UNCHANGED faults
       \/ Fault
    /\ job' = [job EXCEPT !.list[u] = Absent]
    /\ UNCHANGED <<table, rows, file, outside, disturbed>>

\* Mutant of MigrateUpdate: the value is deleted before the row is written.
MigrateUpdateLast(u) ==
    /\ At("migrate") /\ u \in Present(job.list) /\ u \in kept
    /\ kept' = kept \ {u}
    /\ \/ /\ rows' = IF rows[u] = Absent THEN rows ELSE [rows EXCEPT ![u] = Shown]
          /\ job' = [job EXCEPT !.list[u] = Absent]
          /\ UNCHANGED faults
       \/ Fault /\ Ends /\ UNCHANGED rows
    /\ UNCHANGED <<table, file, crashes, owned, disturbed>>

\* UPDATE users SET passwordShow = ?; a row deleted meanwhile stays so.
MigrateUpdate(u) ==
    /\ At("migrate") /\ u \in Present(job.list) /\ u \in kept
    /\ \/ /\ rows' = IF rows[u] = Absent THEN rows ELSE [rows EXCEPT ![u] = Shown]
          /\ job' = [job EXCEPT !.pc = "forget", !.now = {u}]
          /\ UNCHANGED faults
       \/ Fault /\ Ends /\ UNCHANGED rows
    /\ UNCHANGED <<table, file, outside, disturbed>>

\* DelValue of the one just updated; its error is ignored.
MigrateForget(u) ==
    /\ At("forget") /\ u \in job.now
    /\ job' = [job EXCEPT !.pc = "migrate", !.list[u] = Absent, !.now = {}]
    /\ \/ kept' = kept \ {u} /\ UNCHANGED faults
       \/ Fault /\ UNCHANGED kept
    /\ UNCHANGED <<table, rows, file, crashes, owned, disturbed>>

MigrateDone ==
    /\ At("migrate") /\ Present(job.list) = {}
    /\ Goto("showDays")
    /\ UNCHANGED <<table, rows, file, counts, kept, owned, disturbed>>

ShowDays ==
    /\ At("showDays")
    /\ \/ /\ Goto(IF table.there /\ ~Has("useDays") THEN "alterDays" ELSE "showUtf8")
          /\ UNCHANGED faults
       \/ Fault /\ Goto("showUtf8")
    /\ UNCHANGED <<table, rows, file, outside, disturbed>>

\* Mutant of AlterDays: a column of another name is added.
AlterDaysMisspelt ==
    /\ At("alterDays")
    /\ \/ /\ table' = [table EXCEPT !.columns = @ \cup {"days"}]
          /\ Goto("showUtf8") /\ UNCHANGED faults
       \/ Fault /\ Ends /\ UNCHANGED table
    /\ UNCHANGED <<rows, file, outside, disturbed>>

AlterDays ==
    /\ At("alterDays")
    /\ \/ /\ table' = [table EXCEPT !.columns = @ \cup {"useDays"}]
          /\ Goto("showUtf8") /\ UNCHANGED faults
       \/ Fault /\ Ends /\ UNCHANGED table
    /\ UNCHANGED <<rows, file, outside, disturbed>>

\* No table of a utf8 collation, and so also no table at all: it is rebuilt.
ShowUtf8 ==
    /\ At("showUtf8")
    /\ \/ /\ IF table.there /\ table.utf8 THEN Ends ELSE Goto("dumpOpen")
          /\ UNCHANGED faults
       \/ Fault /\ Ends
    /\ UNCHANGED <<table, rows, file, outside, disturbed>>

-----------------------------------------------------------------------------
(* DumpSql and ExecSql                                                     *)

\* Who is in temp.sql and not in the table: left there by a crash.
OnlyInFile == IF file \in Rows THEN Present(file) \ Present(rows) ELSE {}

\* O_TRUNC: what an earlier run left in the file is gone.
DumpOpen ==
    /\ At("dumpOpen")
    /\ file' = EmptyFile
    /\ disturbed' = disturbed \cup OnlyInFile
    /\ Goto("dumpQuery")
    /\ UNCHANGED <<table, rows, counts, kept, owned>>

\* Those whom temp.sql does not have as the table has them.
OtherInFile == IF file \in Rows THEN {u \in User : file[u] # rows[u]} ELSE {}

\* Nothing is written.  UpgradeDB does not look at the error of DumpSql, and goes
\* on to run the temp.sql that an earlier run may have left.
DumpOpenFails ==
    /\ At("dumpOpen")
    /\ Fault
    /\ disturbed' = disturbed \cup OtherInFile
    /\ Goto("read")
    /\ UNCHANGED <<table, rows, file, outside>>

\* Mutant of DumpFails: what was written before the query is in the file.
DumpFailsUnbuffered ==
    /\ At("dumpQuery")
    /\ \/ ~CanList /\ UNCHANGED faults
       \/ Fault
    /\ file' = NoRows
    /\ Goto("read")
    /\ UNCHANGED <<table, rows, outside, disturbed>>

\* The query fails: DROP and CREATE are still in the writer's buffer, and the
\* file stays empty.  UpgradeDB goes on to run it.
DumpFails ==
    /\ At("dumpQuery")
    /\ \/ ~CanList /\ UNCHANGED faults
       \/ Fault
    /\ Goto("read")
    /\ UNCHANGED <<table, rows, file, outside, disturbed>>

Dump ==
    /\ At("dumpQuery") /\ CanList
    /\ \E list \in Lists :
          /\ Listed(list)
          /\ file' = list
          /\ disturbed' = disturbed \cup (Present(rows) \ Present(list))
    /\ Goto("read")
    /\ UNCHANGED <<table, rows, outside>>

ReadFile ==
    /\ At("read")
    /\ \/ /\ job' = IF file \in Rows THEN [job EXCEPT !.pc = "drop", !.list = file]
                    ELSE [job EXCEPT !.pc = "remove"]
          /\ UNCHANGED faults
       \/ Fault /\ Goto("remove")
    /\ UNCHANGED <<table, rows, file, outside, disturbed>>

\* An error ends the script; UpgradeDB ignores it and removes the file.
Breaks ==
    /\ At("drop") \/ At("create") \/ At("insert")
    /\ Fault
    /\ Goto("remove")
    /\ disturbed' = disturbed \cup IF At("drop") THEN {} ELSE Present(job.list)
    /\ UNCHANGED <<table, rows, file, outside>>

\* An import means the table to hold its users and no others.
Drop ==
    /\ At("drop")
    /\ table' = [table EXCEPT !.there = FALSE]
    /\ rows' = NoRows
    /\ owned' = IF job.kind = "upgrade" THEN owned ELSE Present(job.list)
    /\ disturbed' = disturbed \ IF job.kind = "upgrade" THEN {} ELSE User
    /\ Goto("create")
    /\ UNCHANGED <<kept, file, counts>>

Create ==
    /\ At("create")
    /\ table' = [there |-> TRUE, columns |-> NewColumns, utf8 |-> TRUE]
    /\ Goto("insert")
    /\ UNCHANGED <<rows, kept, file, counts, owned, disturbed>>

Insert(u) ==
    /\ At("insert") /\ u \in Present(job.list)
    /\ rows' = [rows EXCEPT ![u] = job.list[u]]
    /\ job' = [job EXCEPT !.list[u] = Absent]
    /\ UNCHANGED <<table, kept, file, counts, owned, disturbed>>

Inserted ==
    /\ At("insert") /\ Present(job.list) = {}
    /\ Goto("remove")
    /\ UNCHANGED <<table, rows, kept, file, counts, owned, disturbed>>

\* UpgradeDB removes temp.sql, or fails to; an import has nothing to remove.
Remove ==
    /\ At("remove")
    /\ \/ file' = (IF job.kind = "upgrade" THEN NoFile ELSE file) /\ UNCHANGED faults
       \/ job.kind = "upgrade" /\ Fault /\ UNCHANGED file
    /\ Ends
    /\ UNCHANGED <<table, rows, outside, disturbed>>

-----------------------------------------------------------------------------
(* The imports, the web handlers, crashes                                  *)

\* ImportCsv of a file that parses: its users, with the passwords shown.
ImportCsv ==
    /\ At("idle")
    /\ \E us \in SUBSET User :
          job' = [pc |-> "drop", kind |-> "csv", now |-> {},
                  list |-> [u \in User |-> IF u \in us THEN Shown ELSE Absent]]
    /\ UNCHANGED <<table, rows, kept, file, counts, owned, disturbed>>

\* The command "import" of the temp.sql that a crash left behind.
ImportSql ==
    /\ At("idle") /\ file \in Rows
    /\ job' = [pc |-> "drop", kind |-> "sql", list |-> file, now |-> {}]
    /\ UNCHANGED <<table, rows, kept, file, counts, owned, disturbed>>

\* Between its dump and its DROP a rebuild does not see what is written.
Overtaken == job.kind = "upgrade" /\ (At("read") \/ At("drop")) /\ file \in Rows

CreateUser(u) ==
    /\ table.there /\ Has("passwordShow")
    /\ rows[u] = Absent
    /\ rows' = [rows EXCEPT ![u] = Shown]
    /\ owned' = owned \cup {u}
    /\ disturbed' = IF Overtaken THEN disturbed \cup {u} ELSE disturbed
    /\ UNCHANGED <<table, kept, file, job, counts>>

\* DelUser looks the user up first, which takes all columns.  A list that has
\* the user still to insert brings him back.
DelUser(u) ==
    /\ CanList
    /\ rows[u] # Absent
    /\ rows' = [rows EXCEPT ![u] = Absent]
    /\ owned' = owned \ {u}
    /\ disturbed' = IF Overtaken \/ (At("insert") /\ u \in Present(job.list))
                      THEN disturbed \cup {u} ELSE disturbed
    /\ UNCHANGED <<table, kept, file, job, counts>>

\* The process of the job ends; only what is in temp.sql outlives it.
Crash ==
    /\ ~At("idle")
    /\ crashes < MaxFault
    /\ crashes' = crashes + 1
    /\ disturbed' = IF job.kind = "csv" /\ (At("create") \/ At("insert"))
                      THEN disturbed \cup Present(job.list) ELSE disturbed
    /\ Ends
    /\ UNCHANGED <<table, rows, kept, file, faults, owned>>

-----------------------------------------------------------------------------

Upgrade ==
    \/ UpgradeStart \/ ShowPass \/ AlterPass \/ ListUsers
    \/ \E u \in User : MigrateSkip(u) \/ MigrateUpdate(u) \/ MigrateForget(u)
    \/ MigrateDone \/ ShowDays \/ AlterDays \/ ShowUtf8
    \/ DumpOpen \/ DumpOpenFails \/ DumpFails \/ Dump \/ ReadFile

Script ==
    \/ Breaks \/ Drop \/ Create
    \/ \E u \in User : Insert(u)
    \/ Inserted \/ Remove

Next ==
    \/ Upgrade \/ Script
    \/ ImportCsv \/ ImportSql
    \/ \E u \in User : CreateUser(u) \/ DelUser(u)
    \/ Crash

Spec == Init /\ [][Next]_vars

-----------------------------------------------------------------------------
(* Properties.                                                             *)

\* The row a user has, or will have when temp.sql, or the list that is being
\* inserted, has been run.
Copy(u) ==
    IF rows[u] # Absent THEN rows[u]
    ELSE IF (At("create") \/ At("insert")) /\ job.list[u] # Absent THEN job.list[u]
    ELSE IF file \in Rows THEN file[u] ELSE Absent

\* The rebuilds neither lose a user nor bring one back.  The exceptions are the
\* users a failed statement, a broken connection, a temp.sql that cannot be
\* opened, a crash or a write between dump and DROP came across, each where the
\* code has no answer to it.
UsersKept ==
    \A u \in User \ disturbed :
        /\ u \in owned => Copy(u) # Absent
        /\ rows[u] # Absent => u \in owned

\* The shown password of a user is in LevelDB until it is in the table: no
\* fault and no crash between UPDATE and DelValue loses it.
PasswordsKept ==
    \A u \in owned \ disturbed : u \in kept \/ Copy(u) = Shown

\* core/tools.go: UpgradeDB "upgrades the structure of the table and migrates
\* the data".  So when a table has all columns, and nothing ever failed, no user
\* has an empty passwordShow while his password is still in LevelDB.
UpgradeMigrates ==
    table.columns = NewColumns /\ At("idle") /\ faults = 0 /\ crashes = 0
        => \A u \in kept : rows[u] # Blank

=============================================================================
